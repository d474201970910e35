CONSTANTS
  MAX_ARGS = 2
  MAX_WORD = 2
  Cols = 6
  Rows = 2
  a = a
  Glyphs = {a}
  Blank = Blank
  Nul = Nul
  LF = LF
  Prompt <- MCPrompt
  Answers <- MCAnswers
  MaxTyped = 6
SPECIFICATION TermSpec
INVARIANTS TermInv NothingBehindCursor EnterReadsTyped
PROPERTY PageSpec

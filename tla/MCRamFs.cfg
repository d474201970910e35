CONSTANTS
  Word = 2
  Unroll = 2
  Junk = Junk
  Zero = Zero
  Untouched = Untouched
  Bytes = {Zero, a}
  Children = {c1, c2}
  MaxOffset = 2
  MaxSize = 5
  MaxEntries = 3
SPECIFICATION Spec
INVARIANTS RamFsInv
PROPERTY RamFsSpec

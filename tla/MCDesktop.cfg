CONSTANTS
  w1 = w1
  w2 = w2
  w3 = w3
  Windows = {w1, w2, w3}
  Null = Null
  ScreenWidth = 3
  ScreenHeight = 2
  Width <- MCWidth
  Height <- MCHeight
  StartX <- MCStartX
  StartY <- MCStartY
  TitleHeight = 1
  Terminals = {w2}
  PointerShape <- MCPointerShape
  Modulus = 16
  Moves <- MCMoves
  EventCapacity = 1
  MaxY = 2
SPECIFICATION Spec
INVARIANTS DesktopInv
PROPERTIES ZOrderSpec PressActsOnWhatShows ReleaseEndsDrag ClosedGoes

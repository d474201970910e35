CONSTANTS
  Movements <- MCMovements
  NoEvent = NoEvent
SPECIFICATION Spec
INVARIANTS Ps2Inv EventIsMovement AnswersAccounted
PROPERTIES BytesAreRead FallsInStep

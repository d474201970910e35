CONSTANTS
  Names <- MCNames
  MaxTokens = 6
  MaxNodes = 6
  Null = Null
SPECIFICATION Spec
INVARIANTS VfsInv ParentLeadsBack ResolvesPlaces
PROPERTIES MountShows PathTreeSpec
\* With the root and the current directory both mounted over, no path leads on.
CHECK_DEADLOCK FALSE

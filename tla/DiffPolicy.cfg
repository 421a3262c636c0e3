CONSTANTS
  MaxFiles = 2
  MaxLines = 3
  Paths <- MCPaths
  Sizes = {1, 2}
  Renamed <- MCRenamed
  MaxLen = 3
  Bodies <- MCBodies
SPECIFICATION Spec
INVARIANTS PolicyIsEnforced EveryOffenderIsNamed

SPECIFICATION Spec
CONSTANTS
  Soft = Soft
  Loud = Loud
  Louder = Louder
  None = None
  Stale = Stale
  SongLanes = {1, 2}
  LiveLanes = {65}
  Notes <- MCPad
  Volumes <- MCLevel
  Looping <- MCPad
  Limit <- PadsLimit
  Pool = 6
  Prepared = TRUE
  Unique = TRUE
INVARIANTS
  OneDriver
  SomebodyEndsIt

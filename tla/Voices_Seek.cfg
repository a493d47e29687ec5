SPECIFICATION Spec
CONSTANTS
  Soft = Soft
  Loud = Loud
  Louder = Louder
  None = None
  Stale = Stale
  SongLanes = {1}
  LiveLanes = {}
  Notes <- MCPad
  Volumes <- MCLevel
  Looping <- MCPad
  Limit <- SeekLimit
  Pool = 3
  Prepared = FALSE
  Unique = FALSE
INVARIANTS
  SomebodyEndsIt

SPECIFICATION Spec
SYMMETRY Alike
CONSTANTS
  None = None
  Stale = Stale
  Soft = Soft
  Loud = Loud
  Louder = Louder
  SongLanes = {1, 2}
  LiveLanes = {}
  Notes <- MCHit
  Volumes <- MCLevels
  Looping = {}
  Limit <- LanesLimit
  Pool = 4
  Prepared = TRUE
  Unique = TRUE
INVARIANTS
  NoNoteRingsTwice
PROPERTIES
  StruckNoteEndsTails

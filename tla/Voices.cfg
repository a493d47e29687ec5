SPECIFICATION Spec
SYMMETRY AlikeTwo
CONSTANTS
  None = None
  Stale = Stale
  Soft = Soft
  Loud = Loud
  Louder = Louder
  SongLanes = {1}
  LiveLanes = {65}
  Notes <- MCHit
  Volumes <- MCTwoLevels
  Looping = {}
  Limit <- MixedLimit
  Pool = 7
  Prepared = TRUE
  Unique = TRUE
INVARIANTS
  WithinBudget
  EveryNotePlays
  OneDriver
  SomebodyEndsIt
PROPERTIES
  SongAndLiveApart

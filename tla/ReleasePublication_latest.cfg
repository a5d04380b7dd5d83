SPECIFICATION Spec
CONSTANTS
  Lines <- TwoLines
  Versions <- PatchAndFinal
  OldTags <- OldAndNew
  None = None
  MaxCommits = 1
  MaxMoves = 0
  MaxPreps = 2
  MaxManual = 0
  MaxFailures = 0
  MaxTouches = 0
  MaxCloses = 0
INVARIANTS LatestIsHighest
CHECK_DEADLOCK FALSE

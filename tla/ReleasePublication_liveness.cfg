SPECIFICATION FairSpec
CONSTANTS
  Lines <- OneLine
  Versions <- LineVersions
  OldTags <- AfterRC1
  None = None
  MaxCommits = 1
  MaxMoves = 2
  MaxPreps = 1
  MaxManual = 0
  MaxFailures = 1
  MaxTouches = 0
  MaxCloses = 1
INVARIANTS OneLivePrompt
PROPERTIES CandidateShips
CHECK_DEADLOCK FALSE

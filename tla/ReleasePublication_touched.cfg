SPECIFICATION FairSpec
CONSTANTS
  Lines <- OneLine
  Versions <- LineVersions
  OldTags <- AfterRC1
  None = None
  MaxCommits = 0
  MaxMoves = 0
  MaxPreps = 2
  MaxManual = 0
  MaxFailures = 0
  MaxTouches = 1
  MaxCloses = 0
PROPERTIES MergedHeadIsPublished
CHECK_DEADLOCK FALSE

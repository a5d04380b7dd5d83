SPECIFICATION ReleaseSpec
CONSTANTS
  Changes = {1, 2}
  KindsOf <- MCKindsOf
  MaxStage = 2
  RecordsStage = FALSE
  MaxCommits = 3
  MaxCuts = 2
  MaxClicks = 1
  Threads = {1, 2}
  MaxComments = 2
  MaxHeads = 3
  MaxStatus = 3
  MaxDisturbances = 2
INVARIANTS
  ReleaseInductive
  HeldUntilLooked
  Accounted
  NotedOnce
  EditedOnce
  ResolvedWasAnswered
PROPERTIES
  CommentsAnswered
CHECK_DEADLOCK FALSE

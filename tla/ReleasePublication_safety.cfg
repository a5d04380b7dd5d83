SPECIFICATION Spec
CONSTANTS
  Lines <- TwoLines
  Versions <- PatchAndFinal
  OldTags <- OldAndNew
  None = None
  MaxCommits = 1
  MaxMoves = 0
  MaxPreps = 2
  MaxManual = 1
  MaxFailures = 0
  MaxTouches = 1
  MaxCloses = 0
INVARIANTS Inductive PublishedAsApproved
PROPERTIES TagInSequence
CHECK_DEADLOCK FALSE

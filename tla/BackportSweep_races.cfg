SPECIFICATION Spec
CONSTANTS
  Prs = {1, 2}
  Broken = {1}
  MaxApplied = 1
  NoTip = NoTip
  MaxTargetCommits = 1
  MaxFixes = 1
  MaxReverts = 1
  MaxFailures = 0
  MaxCloses = 0
INVARIANTS Inductive DoneImpliesNamed
PROPERTIES NoCommitLost NoRepick PollNeverPilesOn ImplementsRollingPR

SPECIFICATION FairSpec
CONSTANTS
  Prs = {1, 2}
  Broken = {}
  MaxApplied = 1
  NoTip = NoTip
  MaxTargetCommits = 0
  MaxFixes = 0
  MaxReverts = 0
  MaxFailures = 0
  MaxCloses = 0
PROPERTY SelfHealing

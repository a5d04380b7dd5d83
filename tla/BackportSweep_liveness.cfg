SPECIFICATION FairSpec
CONSTANTS
  Prs = {1, 2}
  Broken = {1}
  MaxApplied = 1
  NoTip = NoTip
  MaxTargetCommits = 1
  MaxFixes = 0
  MaxReverts = 0
  MaxFailures = 1
  MaxCloses = 1
PROPERTIES GoodCandidatesLand NamedCardsDone

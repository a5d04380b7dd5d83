SPECIFICATION AgentsSpec
CONSTANTS
  MaxRounds = 3
  Issues = {1, 2}
  MaxOcc = 2
  MaxActive = 1
  MaxTries = 2
  MaxTouches = 1
  MaxFaults = 2
  Commands = {1}
  Jobs = {1, 2}
  MaxHeadTries = 3
  MaxJobTries = 2
  MaxCommits = 3
  MaxRed = 1
  MaxEvents = 2
  MaxMishaps = 3
  Findings = {1, 2}
  Tests = {1}
  MaxDaily = 2
  MaxChanges = 1
  MaxErrors = 1
INVARIANTS
  AgentsTypeOK
  AcceptedAsTested
  AcceptedCures
  
  OneReport
  OneDraftPerIssue
  FollowUpBounded
  CleanExitRecorded
  CountedOnce
PROPERTIES
  PushOnlyAdds
  CommandAnswered
  IssueAnswered
CHECK_DEADLOCK FALSE

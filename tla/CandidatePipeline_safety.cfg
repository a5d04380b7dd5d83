SPECIFICATION Spec
CONSTANTS
  Prs <- ThreePrs
  Known <- FirstIsKnown
  Hunks <- OneHunk
  MaxApplied = 2
  MaxConflicts = 2
  Repairs = TRUE
  MaxFaults = 2
INVARIANTS Inductive AcceptedIsValidated AcceptedIsNamed WholeChangePicked NoConflictMarkers NobodyLeftOut
PROPERTIES RejectedLeavesNoTrace ImplementsLedger
CHECK_DEADLOCK FALSE

SPECIFICATION Spec
CONSTANTS
  Points <- ThePoints
  Pool <- ThePool
  Specs <- BadSpecs
  Bindings = {"r1", "r2"}
  Remarks = {"r"}
  AuthRef = FALSE
  MaxAnswer = 2
  MaxSpecs = 2
  MaxGaps = 500
  MayFail = TRUE
CHECK_DEADLOCK FALSE
INVARIANTS TypeOK FinalCasesDiffer NothingLostSilently SilenceIsCompleteness AddedAreSupplements

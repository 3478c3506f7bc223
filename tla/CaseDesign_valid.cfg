SPECIFICATION Spec
CONSTANTS
  Points <- ThePoints
  Pool <- OneAssertion
  Specs = {}
  Bindings = {"r1", "r2"}
  Remarks = {}
  AuthRef = FALSE
  MaxAnswer = 2
  MaxSpecs = 5
  MaxGaps = 500
  MayFail = FALSE
CHECK_DEADLOCK FALSE
INVARIANTS ReadyCasesAreValid

SPECIFICATION Spec
CONSTANTS
  q1 = q1 q2 = q2 opA = opA opB = opB
  Queues = {q1, q2}
  Operations = {opA, opB}
  MaxItems = 1
  NoOp = NoOp
  Legacy <- NoLegacy
  MayCrash = TRUE
  MayFault = TRUE
  MayReanalyse = TRUE
SYMMETRY Symmetry
CHECK_DEADLOCK FALSE
INVARIANTS TypeOK ReadyQueuesHaveFrozenCases
PROPERTIES FrozenCasesStayFrozen ImplementsPipeline

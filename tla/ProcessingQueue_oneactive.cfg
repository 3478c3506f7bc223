SPECIFICATION Spec
CONSTANTS
  q1 = q1 q2 = q2 opA = opA opB = opB
  Queues = {q1, q2}
  Operations = {opA, opB}
  MaxItems = 1
  NoOp = NoOp
  Legacy <- NoLegacy
  MayCrash = FALSE
  MayFault = FALSE
  MayReanalyse = FALSE
CHECK_DEADLOCK FALSE
INVARIANTS OneActiveQueue

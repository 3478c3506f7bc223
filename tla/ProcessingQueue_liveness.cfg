SPECIFICATION FairSpec
CONSTANTS
  q1 = q1 q2 = q2 opA = opA opB = opB
  Queues = {q1, q2}
  Operations = {opA, opB}
  MaxItems = 2
  NoOp = NoOp
  Legacy <- LegacyOfTwo
  MayCrash = FALSE
  MayFault = FALSE
  MayReanalyse = FALSE
CHECK_DEADLOCK FALSE
INVARIANTS RunningQueuesAreWorkedOn ContinuationsFindTheirItem
PROPERTIES RunningSettles ImplementsPipeline

SPECIFICATION MCSpec
CONSTANTS
  A = A B = B a1 = a1 a2 = a2 b1 = b1 None = None
  s1 = s1 s2 = s2
  Projects = {A, B}
  Ops = {a1, a2, b1}
  ProjectOf <- TheProjectOf
  SideEffects = {a1, a2}
  Slots = {s1, s2}
  MaxQueues = 2
  MaxRuns = 1
  MaxClicks = 4
CHECK_DEADLOCK FALSE
INVARIANTS TypeOK ShownBelongsToProject OneHandlerAtATime GateIsWhatIsShown
PROPERTIES BusyEnds

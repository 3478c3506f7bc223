SPECIFICATION FairSpec
CONSTANTS
  p1 = p1 p2 = p2 r1 = r1 r2 = r2 NoRequest = NoRequest
  Processes = {p1, p2}
  Approvals = {a1}
  Requests = {r1, r2}
  NumCases = 2
  MayCrash = TRUE
  MayFault = TRUE
INVARIANTS TypeOK OneExecutor RepliesAgree
PROPERTIES SettledIsFinal ImplementsOneShot ExecutionsEnd

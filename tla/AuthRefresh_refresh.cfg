SPECIFICATION FairSpec
CONSTANTS
  Projects = {p1}
  Runs = {r1}
  Tokens = {t1, t2, t3, t4}
  NoToken = NoToken
  Ttl = 2
  RetryDelay = 2
  Timeout = 2
  Cases = 2
  MaxUpdates = 1
  MayRaise = TRUE
INVARIANTS NoRefusedTokenIsServed
PROPERTIES RefresherServes RunsEnd

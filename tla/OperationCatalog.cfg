SPECIFICATION Spec
CONSTANTS
  r1 = r1 r2 = r2 A = A B = B C = C x = x y = y k1 = k1 k2 = k2
  NoDoc = NoDoc NoEntry = NoEntry
  Requests = {r1, r2}
  Documents = {A, B, C}
  Ids = {x, y}
  Keys = {k1, k2}
  OpsOf <- TheOps
  Malformed = {C}
  Imports <- TheImports
  MaxStarts = 3
  MaxSessions = 2
SYMMETRY Symmetry
CHECK_DEADLOCK FALSE
INVARIANTS OneEntryPerOperation FlowReadsItsDocument
PROPERTIES NothingVanishes

SPECIFICATION Spec
CONSTANTS
  o1 = o1 o2 = o2 m1 = m1 m2 = m2 m3 = m3 Control = Control
  Operations = {o1, o2}
  Order <- TheOrder
  Mutations = {m1, m2, m3}
  OpOf <- TheOpOf
  Pilot = o2
  PilotSuites <- TheSuites
  MaxRuns = 2
  MaxReports = 2
SYMMETRY Symmetry
CHECK_DEADLOCK FALSE
INVARIANTS ReportsTellOfCampaign PooledRunsAgree

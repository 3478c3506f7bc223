SPECIFICATION FairSpec
CONSTANTS
  Budgets = {2, 5}
  MaxAttempts = 2
  MaxPhases = 3
  Replies <- TheReplies
CHECK_DEADLOCK FALSE
INVARIANTS TypeOK BudgetIsKept CallsExplainTheOutcome TelemetryIsKept
PROPERTIES PhaseEnds

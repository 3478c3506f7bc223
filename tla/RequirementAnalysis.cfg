SPECIFICATION AnalysisSpec
CONSTANTS
  Parameters <- MCParameters
  AgentIds <- MCAgentIds
  PathParams = {"id"}
  NoBound = NoBound
  Outputs <- MCOutputs
  Projects <- MCProjects
  Declarations <- MCDeclarations
CHECK_DEADLOCK FALSE
INVARIANTS AnalysisTypeOK AnswerIsTraced PointsCanBeDesigned

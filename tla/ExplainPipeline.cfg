SPECIFICATION FairSpec
CONSTANTS
  PlanFor <- Classify
  Build <- BuildExplain
  ReadReply <- ReadExplain
  Connections = {"c1", "c2"}
  Sinks = {"Sender", "UnboundedSender", "Fn", "TracingOnly"}
  Capacity = 2
  MinId <- MCMinId
  Scenes <- MCScenes
  Lower <- MCLower
INVARIANTS
  TypeOK
  ExplainDescribesRequest
  WholeOrFirstFault
  PlanMirrorsReply
  CorrelatedInOrder
PROPERTIES
  NeverBlocked

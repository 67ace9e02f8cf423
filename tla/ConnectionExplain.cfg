SPECIFICATION FairUpstream
CONSTANTS
  ExplainOn = TRUE
  RewriteOn = TRUE
  MaxRequests = 3
  MaxReplies = 2
  MinId <- MCMinId
INVARIANTS
  ReplyCorrelation
  QuietWhenFree
  ExplainTravelsAlone
  ExplainIdsFresh
  OneRecordPerExplainable
PROPERTIES
  RequestSettles
  AnswerSurvivesExplain
  ImplementsChannel

SPECIFICATION FairTask
CONSTANTS
  ExplainOn = FALSE
  RewriteOn = TRUE
  MaxRequests = 3
  MaxReplies = 2
  MinId <- MCMinId
PROPERTIES
  StreamedReplyForwarded
  ImplementsChannel

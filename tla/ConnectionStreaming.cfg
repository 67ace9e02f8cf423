SPECIFICATION FairExplain
CONSTANTS
  ExplainOn = TRUE
  RewriteOn = TRUE
  MaxRequests = 1
  MaxReplies = 2
  MinId <- MCMinId
PROPERTY StreamedReplyForwarded

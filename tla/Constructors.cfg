SPECIFICATION FairSpec
CONSTANTS
  Lower <- MCLower
  Numerals <- MCNumerals
  Calls <- MCCalls
  Answers <- MCAnswers
  Replies <- MCReplies
  Cert <- MCCert
  DnsNames <- MCDnsNames
  MaxRounds = 2
INVARIANTS
  TypeOK
  UriHonoured
  OrderRespected
  TargetInDomain
  ProbedIsForwardable
PROPERTIES
  RoundsEnd
CHECK_DEADLOCK FALSE

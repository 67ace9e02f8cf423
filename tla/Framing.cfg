CONSTANTS
  MaxMessageLength = 50
  TopologySize = 1
  Lower <- MCLower
  LogLine <- LogEvent
  Requests <- MCRequests
  Streams <- MCStreams
  Verbatim <- MCVerbatim
SPECIFICATION Spec
INVARIANTS
  RelayFaithful
  NeverTooLarge
  LogFaithful
PROPERTIES
  ImplementsQueue
  PipelinedDelivered
CHECK_DEADLOCK FALSE

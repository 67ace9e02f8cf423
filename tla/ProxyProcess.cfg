SPECIFICATION FairSpec
CONSTANTS
  h1 = h1
  h2 = h2
  Hosts = {h1, h2}
  None = None
  Candidates <- MCCandidates
  MaxElections = 1
  MaxFaults = 1
  Reprobe = TRUE
  Clients = {"a"}
INVARIANTS
  TypeOK
  DialsOnlyClaimants
PROPERTIES
  NewConnectionsFollow
  LoopStopsWithServer

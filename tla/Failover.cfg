SPECIFICATION FairSpec
CONSTANTS
  h1 = h1
  h2 = h2
  Hosts = {h1, h2}
  None = None
  Candidates <- MCCandidates
  MaxElections = 2
  MaxFaults = 2
  Reprobe = TRUE
PROPERTIES
  MovesToClaimant
  RoundFindsPrimary
  Converges

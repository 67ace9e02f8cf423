SPECIFICATION Spec
CONSTANTS
  h1 = h1
  h2 = h2
  h3 = h3
  Hosts = {h1, h2, h3}
  None = None
  Candidates <- MCCandidates
  MaxElections = 0
INVARIANT FirstRecordUsed


SPECIFICATION FairSpec
CONSTANT Clients = {c1, c2, c3}
INVARIANTS
  DrainedOnOk
  NoOrphan
PROPERTIES
  FinishedReaped
  ShutdownReturns

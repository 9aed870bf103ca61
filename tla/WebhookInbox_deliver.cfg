CONSTANTS
  h1 = h1 h2 = h2 t1 = t1 d1 = d1 d2 = d2
  Appenders = {h1, h2}
  Tenants = {t1}
  Tenant = t1
  Ids = {d1, d2}
  Events <- EventsDef
  MaxCommits = 1
  MaxDeliveries = 3
  MaxAborts = 1
SYMMETRY Symmetry
SPECIFICATION Spec
INVARIANTS TypeOK ChainVerifies AcceptedOnce AcknowledgedIsRecorded
PROPERTY ImplementsLog
CHECK_DEADLOCK FALSE

CONSTANTS
  h1 = h1 h2 = h2 t1 = t1 d1 = d1 d2 = d2
  Appenders = {h1, h2}
  Tenants = {t1}
  Tenant = t1
  Ids = {d1}
  Events <- EventsDef
  MaxCommits = 1
  MaxDeliveries = 2
  MaxAborts = 1

SPECIFICATION Spec
INVARIANT AcknowledgedIsAccepted
CHECK_DEADLOCK FALSE

CONSTANTS
  s1 = s1 s2 = s2 w1 = w1 w2 = w2
  Servers = {s1, s2}
  Threads = {w1, w2}
  None = None
  Torn = Torn
  MaxDeliveries = 2
  MaxTime = 1
  MaxCrashes = 1
SYMMETRY Symmetry
SPECIFICATION Spec
INVARIANTS TypeOK AcknowledgedIsCaptured ReportIsComplete ReportIsHonest
CHECK_DEADLOCK FALSE

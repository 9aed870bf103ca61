CONSTANTS
  r1 = r1 r2 = r2 r3 = r3
  Runs = {r1, r2, r3}
  Plans <- AllPlans
  None = None
SPECIFICATION Spec
INVARIANTS TypeOK OneEffectPerRun ReportsAreTrue ReportsAreComplete CloseCloses
INVARIANTS RejectionsHaveOneCause OnlyFixturesAreRefunded
CHECK_DEADLOCK FALSE

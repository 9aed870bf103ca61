CONSTANTS
  h1 = h1 t1 = t1 e1 = e1 e2 = e2 e3 = e3
  Appenders = {h1}
  Tenants = {t1}
  Events = {e1, e2, e3}
  MaxCommits = 1
  Window = 3
  MaxEdits = 3
SYMMETRY Symmetry
SPECIFICATION Spec
INVARIANTS TypeOK VerifiedIsWhatWasExported
CHECK_DEADLOCK FALSE

CONSTANTS
  h1 = h1 h2 = h2 i1 = i1 i2 = i2 t1 = t1 t2 = t2 bad = bad b1 = b1 b2 = b2
  Handlers = {h1, h2}
  Intents = {i1}
  Targets = {t1, t2, bad}
  Bodies = {b1, b2}
  Unsendable = {bad}
  Requests <- AllRequests
  None = None
  MaxAborts = 2
SPECIFICATION LiveSpec
INVARIANTS TypeOK CompletedIsDeterminate OneAnswerPerIntent EvidenceMatchesLedger
PROPERTIES ImplementsAtMostOnce PendingIsSettled

--------------------------- MODULE MCEvidenceAudit ---------------------------
(* Small instances of EvidenceAudit for TLC: one tenant, three links.        *)
EXTENDS EvidenceAudit, TLC

CONSTANTS h1, t1, e1, e2, e3

Symmetry == Permutations(Events)
=============================================================================

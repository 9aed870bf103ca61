--------------------------- MODULE MCEffectLedger ---------------------------
(* Small instances of EffectLedger for TLC.                                 *)
EXTENDS EffectLedger, TLC

CONSTANTS h1, h2, i1, i2, t1, t2, bad, b1, b2

\* Requests of the given kinds for every intent: two bodies, and a target
\* that render_path refuses.
RequestsOf(kinds, targets) == [intent : Intents, kind : kinds, target : targets, body : Bodies]

\* Both retry policies and the document surface compete for the intents.
AllRequests == RequestsOf({"gateway_required", "refund_header"}, {t1, bad})
                   \cup RequestsOf({"document"}, {t1})
TwoTargets == RequestsOf({"gateway_required"}, {t1, t2})

Symmetry == Permutations(Handlers) \cup Permutations(Intents) \cup Permutations(Bodies)
=============================================================================

-------------------------- MODULE MCWebhookCapture --------------------------
(* Small instances of WebhookCapture for TLC.                               *)
EXTENDS WebhookCapture, TLC

CONSTANTS s1, s2, w1, w2

Symmetry == Permutations(Servers) \cup Permutations(Threads)
=============================================================================

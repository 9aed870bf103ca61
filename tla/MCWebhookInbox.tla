--------------------------- MODULE MCWebhookInbox ---------------------------
(* Small instances of WebhookInbox for TLC.                                 *)
EXTENDS WebhookInbox, TLC

CONSTANTS h1, h2, t1, d1, d2

\* The chain of this model carries the webhook events only.
EventsDef == WebhookEvent

Symmetry == Permutations(Appenders) \cup Permutations(Ids)
=============================================================================

---------------------------- MODULE AppendOnlyLog ----------------------------
(***************************************************************************)
(* What the evidence of each tenant promises: a sequence of events that    *)
(* only ever grows at its end, one event at a time.                        *)
(***************************************************************************)
EXTENDS Sequences

CONSTANTS Tenants, Events

VARIABLE log   \* the events of each tenant, oldest first

Init == log = [t \in Tenants |-> <<>>]

Record(t, e) == log' = [log EXCEPT ![t] = Append(@, e)]

Next == \E t \in Tenants, e \in Events : Record(t, e)

Spec == Init /\ [][Next]_log
=============================================================================

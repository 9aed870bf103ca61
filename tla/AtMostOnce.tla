----------------------------- MODULE AtMostOnce -----------------------------
(***************************************************************************)
(* What the effect ledger promises about each intent, without handlers,    *)
(* messages or retries: an intent is claimed once, the provider carries it *)
(* out at most once, and its outcome is settled once, either as an answer  *)
(* (a success only if the provider did carry it out) or frozen.            *)
(***************************************************************************)
EXTENDS Naturals

CONSTANTS Intents, Answers, None

VARIABLES
    phase,    \* "absent", "pending", "completed" or "failed"
    applied,  \* how often the provider carried out the intent
    outcome   \* the answer of a completed intent

vars == <<phase, applied, outcome>>

Init ==
    /\ phase = [i \in Intents |-> "absent"]
    /\ applied = [i \in Intents |-> 0]
    /\ outcome = [i \in Intents |-> None]

Claim(i) ==
    /\ phase[i] = "absent"
    /\ phase' = [phase EXCEPT ![i] = "pending"]
    /\ UNCHANGED <<applied, outcome>>

\* The provider acts, perhaps long after the caller has given up.
Apply(i) ==
    /\ phase[i] # "absent"
    /\ applied[i] = 0
    /\ applied' = [applied EXCEPT ![i] = 1]
    /\ UNCHANGED <<phase, outcome>>

Answer(i, a) ==
    /\ phase[i] = "pending"
    /\ a = "ok" => applied[i] = 1
    /\ phase' = [phase EXCEPT ![i] = "completed"]
    /\ outcome' = [outcome EXCEPT ![i] = a]
    /\ UNCHANGED applied

Freeze(i) ==
    /\ phase[i] = "pending"
    /\ phase' = [phase EXCEPT ![i] = "failed"]
    /\ UNCHANGED <<applied, outcome>>

Next ==
    \E i \in Intents :
        \/ Claim(i)
        \/ Apply(i)
        \/ \E a \in Answers : Answer(i, a)
        \/ Freeze(i)

Spec == Init /\ [][Next]_vars
=============================================================================

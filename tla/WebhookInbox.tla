---------------------------- MODULE WebhookInbox ----------------------------
(***************************************************************************)
(* receive_webhook: Razorpay delivers each event at least once, until it   *)
(* sees a 2xx response; the handler verifies the signature, records the    *)
(* event identity (INSERT OR IGNORE), appends the evidence through         *)
(* EvidenceChain and answers.  One tenant receives the webhooks; the chain *)
(* also carries the events of other handlers, which only make appends      *)
(* fail.  A delivery refused before record_webhook changes nothing.        *)
(***************************************************************************)
EXTENDS EvidenceChain, FiniteSets

CONSTANTS
    Tenant,         \* the tenant of the webhook URL
    Ids,            \* values of X-Razorpay-Event-Id
    MaxDeliveries,  \* bounds the deliveries of each event
    MaxAborts       \* bounds the requests cut short

\* What the evidence says of an event; copy tells the UUIDs apart.
WebhookEvent == [kind : {"WebhookAccepted", "WebhookDuplicate"}, id : Ids,
                 copy : 1..MaxDeliveries]

ASSUME WebhookAssumption == Tenant \in Tenants /\ WebhookEvent \subseteq Events
ASSUME BoundsAssumption == MaxDeliveries \in Nat /\ MaxAborts \in Nat

VARIABLES
    inbox,       \* the webhook_events table: the identities recorded
    deliveries,  \* how often Razorpay has delivered each event
    acked,       \* the events Razorpay has seen a 2xx response for
    pc,          \* the await each handler is at
    event,       \* the event id each handler was called with
    duplicate,   \* receipt.duplicate of each handler
    aborts       \* how many requests were cut short

inboxVars == <<inbox, deliveries, acked, pc, event, duplicate, aborts>>
vars == <<rows, tx, commits, inbox, deliveries, acked, pc, event, duplicate, aborts>>

Init ==
    /\ ChainInit
    /\ inbox = {}
    /\ deliveries = [d \in Ids |-> 0]
    /\ acked = {}
    /\ pc = [h \in Appenders |-> "idle"]
    /\ event \in [Appenders -> Ids]
    /\ duplicate = [h \in Appenders |-> FALSE]
    /\ aborts = 0

Goto(h, next) == pc' = [pc EXCEPT ![h] = next]

\* Razorpay delivers, again even after it has seen the 2xx.
Deliver(h, d) ==
    /\ pc[h] = "idle"
    /\ deliveries[d] < MaxDeliveries
    /\ deliveries' = [deliveries EXCEPT ![d] = @ + 1]
    /\ event' = [event EXCEPT ![h] = d]
    /\ Goto(h, "record")
    /\ UNCHANGED <<chain, inbox, acked, duplicate, aborts>>

\* Mutant: the receipt is not taken from the rows the INSERT changed but is
\* decided before it, so that every delivery in progress is the first.
MutRecordWebhook(h) ==
    /\ pc[h] = "record"
    /\ duplicate' = [duplicate EXCEPT ![h] = event[h] \in acked]
    /\ inbox' = inbox \cup {event[h]}
    /\ tx' = [g \in Appenders |-> Outdated(tx[g])]
    /\ Goto(h, "append")
    /\ UNCHANGED <<rows, commits, deliveries, acked, event, aborts>>

\* record_webhook; an ignored INSERT writes nothing and outdates no snapshot.
RecordWebhook(h) ==
    /\ pc[h] = "record"
    /\ duplicate' = [duplicate EXCEPT ![h] = event[h] \in inbox]
    /\ inbox' = inbox \cup {event[h]}
    /\ tx' = IF event[h] \in inbox THEN tx ELSE [g \in Appenders |-> Outdated(tx[g])]
    /\ Goto(h, "append")
    /\ UNCHANGED <<rows, commits, deliveries, acked, event, aborts>>

StartAppend(h) ==
    /\ pc[h] = "append"
    /\ \E n \in 1..MaxDeliveries :
          ReadNewest(h, Tenant, [id |-> event[h], copy |-> n,
              kind |-> IF duplicate[h] THEN "WebhookDuplicate" ELSE "WebhookAccepted"])
    /\ Goto(h, "commit")
    /\ UNCHANGED <<inbox, deliveries, acked, event, duplicate, aborts>>

\* Mutant: the response does not wait for the evidence.
MutAcknowledge(h) ==
    /\ pc[h] \in {"append", "commit"}
    /\ Rollback(h) \/ UNCHANGED chain
    /\ acked' = acked \cup {event[h]}
    /\ Goto(h, "idle")
    /\ UNCHANGED <<inbox, deliveries, event, duplicate, aborts>>

\* The evidence commits; 200 with the duplicate flag.
Acknowledge(h) ==
    /\ pc[h] = "commit"
    /\ Insert(h)
    /\ acked' = acked \cup {event[h]}
    /\ Goto(h, "idle")
    /\ UNCHANGED <<inbox, deliveries, event, duplicate, aborts>>

\* append_evidence fails on an outdated snapshot; 500.
Fail(h) ==
    /\ pc[h] = "commit"
    /\ ~tx[h].current
    /\ Rollback(h)
    /\ Goto(h, "idle")
    /\ UNCHANGED <<inbox, deliveries, acked, event, duplicate, aborts>>

\* A disconnect, another store error or a crash.
Abort(h) ==
    /\ pc[h] # "idle"
    /\ aborts < MaxAborts
    /\ aborts' = aborts + 1
    /\ tx' = [tx EXCEPT ![h] = Closed]
    /\ Goto(h, "idle")
    /\ UNCHANGED <<rows, commits, inbox, deliveries, acked, event, duplicate>>

\* Another handler commits.
OtherHandler == OtherCommit /\ UNCHANGED inboxVars

HandlerStep(h) ==
    RecordWebhook(h) \/ StartAppend(h) \/ Acknowledge(h) \/ Fail(h)

Next ==
    \/ \E h \in Appenders :
          \/ \E d \in Ids : Deliver(h, d)
          \/ HandlerStep(h)
          \/ Abort(h)
    \/ OtherHandler

Spec == Init /\ [][Next]_vars

-----------------------------------------------------------------------------
(* Properties.                                                             *)

Recorded(kind, d) ==
    {n \in DOMAIN rows[Tenant] :
        rows[Tenant][n].event.kind = kind /\ rows[Tenant][n].event.id = d}

\* The type of every variable of this module and of the chain.
TypeOK ==
    /\ ChainTypeOK
    /\ inbox \subseteq Ids
    /\ deliveries \in [Ids -> 0..MaxDeliveries]
    /\ acked \subseteq Ids
    /\ pc \in [Appenders -> {"idle", "record", "append", "commit"}]
    /\ event \in [Appenders -> Ids]
    /\ duplicate \in [Appenders -> BOOLEAN]
    /\ aborts \in 0..MaxAborts

\* However often and however concurrently an event is delivered, it is
\* accepted at most once.  (record_webhook, receive_webhook)
AcceptedOnce == \A d \in Ids : Cardinality(Recorded("WebhookAccepted", d)) <= 1

\* An event Razorpay will not deliver again is in the table and in evidence.
\* (receive_webhook)
AcknowledgedIsRecorded ==
    \A d \in acked :
        /\ d \in inbox
        /\ Recorded("WebhookAccepted", d) \cup Recorded("WebhookDuplicate", d) # {}

\* razorproof-rs/docs/ARCHITECTURE.md: "Provider event identity is processed
\* once": an event Razorpay will not deliver again has been accepted.
AcknowledgedIsAccepted ==
    \A d \in acked : Recorded("WebhookAccepted", d) # {}
=============================================================================

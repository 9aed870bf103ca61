-------------------------- MODULE WebhookInboxProofs --------------------------
(***************************************************************************)
(* For any number of handlers, event identities, deliveries and aborts: a  *)
(* webhook event is accepted at most once, what Razorpay stops delivering  *)
(* is in the table and in the evidence, and the chain verifies and stays   *)
(* an append-only log with the inbox's own writes between its appends.     *)
(*                                                                         *)
(* The argument is the INSERT of record_webhook: only the handler whose    *)
(* INSERT changed a row holds the right to accept the event (Accepts); it  *)
(* holds it alone, and only while no acceptance is in evidence.            *)
(***************************************************************************)
EXTENDS WebhookInbox, EvidenceChainProofs, FiniteSetTheorems

\* Handler h is going to append, or has started to append, the acceptance.
Accepts(h, d) ==
    pc[h] \in {"append", "commit"} /\ ~duplicate[h] /\ event[h] = d

\* The one handler that accepts d, before the evidence does.
OneAccepts ==
    /\ \A h \in Appenders, d \in Ids : Accepts(h, d) =>
          /\ d \in inbox
          /\ Recorded("WebhookAccepted", d) = {}
          /\ \A g \in Appenders : Accepts(g, d) => g = h
    /\ \A d \in Ids : \A m, n \in Recorded("WebhookAccepted", d) : m = n /\ d \in inbox

\* The open transaction of a handler carries the event it is about.
CarriesEvent ==
    \A h \in Appenders :
        /\ pc[h] \in {"append", "commit"} => event[h] \in inbox
        /\ pc[h] = "commit" => /\ tx[h].open
                               /\ tx[h].tenant = Tenant
                               /\ tx[h].event.id = event[h]
                               /\ tx[h].event.kind = IF duplicate[h] THEN "WebhookDuplicate"
                                                     ELSE "WebhookAccepted"

InboxInv ==
    /\ ChainInv
    /\ TypeOK
    /\ OneAccepts
    /\ CarriesEvent
    /\ AcknowledgedIsRecorded

-----------------------------------------------------------------------------
(* The chain under the steps of the inbox.                                  *)

\* A write to another table outdates the open snapshots and changes no link.
LEMMA OutdateInv ==
    ASSUME ChainInv, rows' = rows, commits' = commits,
           tx' = [g \in Appenders |-> Outdated(tx[g])]
    PROVE  ChainInv'
<1>0. ChainTypeOK /\ SnapshotIsNewest /\ ChainVerifies
  BY DEF ChainInv
<1>1. \A g \in Appenders : tx'[g] \in TxType /\ ~(tx'[g].open /\ tx'[g].current)
  BY <1>0, OutdatedType DEF ChainTypeOK
<1>2. ChainTypeOK'
  BY <1>0, <1>1 DEF ChainTypeOK
<1>3. SnapshotIsNewest'
  BY <1>1 DEF SnapshotIsNewest
<1>4. ChainVerifies'
  BY <1>0 DEF ChainVerifies
<1> QED BY <1>2, <1>3, <1>4 DEF ChainInv

LEMMA CloseInv ==
    ASSUME ChainInv, NEW h \in Appenders, rows' = rows, commits' = commits,
           tx' = [tx EXCEPT ![h] = Closed]
    PROVE  ChainInv'
<1>0. ChainTypeOK /\ SnapshotIsNewest /\ ChainVerifies
  BY DEF ChainInv
<1>1. Closed \in TxType /\ ~Closed.open
  BY DEF Closed, TxType
<1>2. \A g \in Appenders : tx'[g] = IF g = h THEN Closed ELSE tx[g]
  BY <1>0 DEF ChainTypeOK
<1>3. ChainTypeOK'
  BY <1>0, <1>1 DEF ChainTypeOK
<1>4. SnapshotIsNewest'
  BY <1>0, <1>1, <1>2 DEF SnapshotIsNewest, NewestHash
<1>5. ChainVerifies'
  BY <1>0 DEF ChainVerifies
<1> QED BY <1>3, <1>4, <1>5 DEF ChainInv

LEMMA SameChainInv ==
    ASSUME ChainInv, UNCHANGED chain
    PROVE  ChainInv'
BY ChainStep

\* Every step of the inbox keeps the chain's invariant, and is an append of
\* the chain or leaves its rows alone.
LEMMA InboxChainStep ==
    ASSUME InboxInv, [Next]_vars
    PROVE  /\ ChainInv'
           /\ rows' = rows \/ \E h \in Appenders : Insert(h)
<1> USE DEF InboxInv
<1>0. \A h \in Appenders, n \in 1..MaxDeliveries :
         [id |-> event[h], copy |-> n,
          kind |-> IF duplicate[h] THEN "WebhookDuplicate" ELSE "WebhookAccepted"] \in Events
  BY WebhookAssumption DEF WebhookEvent, TypeOK
<1>1. ASSUME NEW h \in Appenders, NEW d \in Ids, Deliver(h, d)
      PROVE  ChainInv' /\ rows' = rows
  BY <1>1, SameChainInv DEF Deliver, chain
<1>2. ASSUME NEW h \in Appenders, RecordWebhook(h)
      PROVE  ChainInv' /\ rows' = rows
  <2>1. CASE event[h] \in inbox
    BY <1>2, <2>1, SameChainInv DEF RecordWebhook, chain
  <2>2. CASE event[h] \notin inbox
    BY <1>2, <2>2, OutdateInv DEF RecordWebhook
  <2> QED BY <2>1, <2>2
<1>3. ASSUME NEW h \in Appenders, StartAppend(h)
      PROVE  ChainInv' /\ rows' = rows
  <2>1. PICK e \in Events : ReadNewest(h, Tenant, e)
    BY <1>0, <1>3 DEF StartAppend
  <2>2. ChainInv'
    BY <2>1, ReadNewestInv, WebhookAssumption
  <2> QED BY <2>1, <2>2 DEF ReadNewest
<1>4. ASSUME NEW h \in Appenders, Acknowledge(h)
      PROVE  ChainInv' /\ Insert(h)
  BY <1>4, InsertInv DEF Acknowledge
<1>5. ASSUME NEW h \in Appenders, Fail(h)
      PROVE  ChainInv' /\ rows' = rows
  BY <1>5, RollbackInv DEF Fail, Rollback
<1>6. ASSUME NEW h \in Appenders, Abort(h)
      PROVE  ChainInv' /\ rows' = rows
  BY <1>6, CloseInv DEF Abort
<1>7. CASE OtherHandler
  BY <1>7, OtherCommitInv DEF OtherHandler, OtherCommit
<1>8. CASE UNCHANGED vars
  BY <1>8, SameChainInv DEF vars, chain
<1> QED BY <1>1, <1>2, <1>3, <1>4, <1>5, <1>6, <1>7, <1>8 DEF Next, HandlerStep

-----------------------------------------------------------------------------
(* The steps that record nothing in the evidence.                           *)

LEMMA QuietFrame ==
    ASSUME InboxInv, rows' = rows, inbox \subseteq inbox', acked' = acked,
           \A h \in Appenders, d \in Ids : Accepts(h, d)' => Accepts(h, d)
    PROVE  OneAccepts' /\ AcknowledgedIsRecorded'
<1> USE DEF InboxInv
<1>1. \A k, d : Recorded(k, d)' = Recorded(k, d)
  BY DEF Recorded
<1>2. OneAccepts'
  BY <1>1 DEF OneAccepts
<1>3. AcknowledgedIsRecorded'
  BY <1>1 DEF AcknowledgedIsRecorded
<1> QED BY <1>2, <1>3

\* What a step of one handler leaves of the others.
LEMMA OtherHandlers ==
    ASSUME InboxInv, NEW h \in Appenders, NEW next, Goto(h, next)
    PROVE  \A g \in Appenders : pc'[g] = IF g = h THEN next ELSE pc[g]
BY DEF InboxInv, TypeOK, Goto

LEMMA DeliverStep ==
    ASSUME InboxInv, NEW h \in Appenders, NEW d \in Ids, Deliver(h, d), ChainInv'
    PROVE  InboxInv'
<1> USE DEF InboxInv
<1>1. /\ UNCHANGED <<rows, tx, commits, inbox, acked, duplicate, aborts>>
      /\ \A g \in Appenders : pc'[g] = IF g = h THEN "record" ELSE pc[g]
      /\ \A g \in Appenders : event'[g] = IF g = h THEN d ELSE event[g]
  BY OtherHandlers DEF Deliver, TypeOK, chain
<1>2. TypeOK'
  BY <1>1, BoundsAssumption DEF TypeOK, Deliver, Goto, ChainInv
<1>3. \A g \in Appenders, e \in Ids : Accepts(g, e)' => Accepts(g, e)
  BY <1>1 DEF Accepts
<1>4. OneAccepts' /\ AcknowledgedIsRecorded'
  BY <1>1, <1>3, QuietFrame
<1>5. CarriesEvent'
  BY <1>1 DEF CarriesEvent
<1> QED BY <1>2, <1>4, <1>5

LEMMA RecordStep ==
    ASSUME InboxInv, NEW h \in Appenders, RecordWebhook(h), ChainInv'
    PROVE  InboxInv'
<1> USE DEF InboxInv
<1>1. /\ pc[h] = "record" /\ inbox' = inbox \cup {event[h]} /\ event[h] \in Ids
      /\ UNCHANGED <<rows, commits, deliveries, acked, event, aborts>>
      /\ \A g \in Appenders : pc'[g] = IF g = h THEN "append" ELSE pc[g]
      /\ \A g \in Appenders : duplicate'[g] = IF g = h THEN event[h] \in inbox ELSE duplicate[g]
  BY OtherHandlers DEF RecordWebhook, TypeOK
<1>2. TypeOK'
  BY <1>1 DEF TypeOK, RecordWebhook, Goto, ChainInv
<1>3. \A k, d : Recorded(k, d)' = Recorded(k, d)
  BY <1>1 DEF Recorded
<1>4. \A g \in Appenders, d \in Ids : g # h => (Accepts(g, d)' <=> Accepts(g, d))
  BY <1>1 DEF Accepts
<1>5. \A d \in Ids : Accepts(h, d)' => d = event[h] /\ d \notin inbox
  BY <1>1 DEF Accepts
<1>6. OneAccepts'
  <2>1. ASSUME NEW g \in Appenders, NEW d \in Ids, Accepts(g, d)'
        PROVE  /\ d \in inbox'
               /\ Recorded("WebhookAccepted", d) = {}
               /\ \A f \in Appenders : Accepts(f, d)' => f = g
    <3>1. CASE g = h
      <4>1. d = event[h] /\ d \notin inbox
        BY <1>5, <2>1, <3>1
      <4>2. \A f \in Appenders : ~Accepts(f, d)
        BY <4>1 DEF OneAccepts
      <4>3. Recorded("WebhookAccepted", d) = {}
        BY <4>1 DEF OneAccepts
      <4> QED BY <1>1, <1>4, <3>1, <4>1, <4>2, <4>3
    <3>2. CASE g # h
      <4>1. Accepts(g, d)
        BY <1>4, <2>1, <3>2
      <4>2. d \in inbox /\ Recorded("WebhookAccepted", d) = {}
            /\ \A f \in Appenders : Accepts(f, d) => f = g
        BY <4>1 DEF OneAccepts
      <4> QED BY <1>1, <1>4, <1>5, <4>2
    <3> QED BY <3>1, <3>2
  <2>2. \A d \in Ids : \A m, n \in Recorded("WebhookAccepted", d) : m = n /\ d \in inbox'
    BY <1>1 DEF OneAccepts
  <2> QED BY <1>3, <2>1, <2>2 DEF OneAccepts
<1>7. CarriesEvent'
  <2>1. \A g \in Appenders : pc[g] = "commit" =>
           /\ tx'[g].open /\ tx'[g].tenant = tx[g].tenant /\ tx'[g].event = tx[g].event
    BY DEF RecordWebhook, Outdated, CarriesEvent, ChainInv, ChainTypeOK, TxType
  <2> QED BY <1>1, <2>1 DEF CarriesEvent
<1>8. AcknowledgedIsRecorded'
  BY <1>1, <1>3 DEF AcknowledgedIsRecorded
<1> QED BY <1>2, <1>6, <1>7, <1>8

LEMMA StartAppendStep ==
    ASSUME InboxInv, NEW h \in Appenders, StartAppend(h), ChainInv'
    PROVE  InboxInv'
<1> USE DEF InboxInv
<1>0. PICK n \in 1..MaxDeliveries :
         ReadNewest(h, Tenant, [id |-> event[h], copy |-> n,
             kind |-> IF duplicate[h] THEN "WebhookDuplicate" ELSE "WebhookAccepted"])
  BY DEF StartAppend
<1>1. /\ pc[h] = "append"
      /\ UNCHANGED <<rows, commits, inbox, deliveries, acked, event, duplicate, aborts>>
      /\ \A g \in Appenders : pc'[g] = IF g = h THEN "commit" ELSE pc[g]
  BY <1>0, OtherHandlers DEF StartAppend, ReadNewest
<1>2. TypeOK'
  BY <1>1 DEF TypeOK, StartAppend, Goto, ChainInv
<1>3. \A g \in Appenders, d \in Ids : Accepts(g, d)' => Accepts(g, d)
  BY <1>1 DEF Accepts
<1>4. OneAccepts' /\ AcknowledgedIsRecorded'
  BY <1>1, <1>3, QuietFrame
<1>5. CarriesEvent'
  <2>1. \A g \in Appenders : g # h => tx'[g] = tx[g]
    BY <1>0 DEF ReadNewest, ChainInv, ChainTypeOK
  <2>2. /\ tx'[h].open /\ tx'[h].tenant = Tenant /\ tx'[h].event.id = event[h]
        /\ tx'[h].event.kind = IF duplicate[h] THEN "WebhookDuplicate" ELSE "WebhookAccepted"
    BY <1>0 DEF ReadNewest, Open, ChainInv, ChainTypeOK
  <2> QED BY <1>1, <2>1, <2>2 DEF CarriesEvent
<1> QED BY <1>2, <1>4, <1>5

\* The request ends without a link: its transaction is rolled back.
LEMMA EndStep ==
    ASSUME InboxInv, NEW h \in Appenders, Fail(h) \/ Abort(h), ChainInv'
    PROVE  InboxInv'
<1> USE DEF InboxInv
<1>1. /\ UNCHANGED <<rows, commits, inbox, deliveries, acked, event, duplicate>>
      /\ tx' = [tx EXCEPT ![h] = Closed]
      /\ Goto(h, "idle")
      /\ aborts' \in 0..MaxAborts
  BY BoundsAssumption DEF Fail, Abort, Rollback, TypeOK
<1>2. \A g \in Appenders : pc'[g] = IF g = h THEN "idle" ELSE pc[g]
  BY <1>1, OtherHandlers
<1>3. TypeOK'
  BY <1>1 DEF TypeOK, Goto, ChainInv
<1>4. \A g \in Appenders, d \in Ids : Accepts(g, d)' => Accepts(g, d)
  BY <1>1, <1>2 DEF Accepts
<1>5. OneAccepts' /\ AcknowledgedIsRecorded'
  BY <1>1, <1>4, QuietFrame
<1>6. CarriesEvent'
  BY <1>1, <1>2 DEF CarriesEvent, ChainInv, ChainTypeOK
<1> QED BY <1>3, <1>5, <1>6

\* Another handler's commit, and the stutter.
LEMMA OtherStep ==
    ASSUME InboxInv, OtherHandler \/ UNCHANGED vars, ChainInv'
    PROVE  InboxInv'
<1> USE DEF InboxInv
<1>1. /\ rows' = rows /\ UNCHANGED inboxVars
      /\ tx' = tx \/ tx' = [g \in Appenders |-> Outdated(tx[g])]
  BY DEF OtherHandler, OtherCommit, vars, inboxVars
<1>2. TypeOK'
  BY <1>1 DEF TypeOK, inboxVars, ChainInv
<1>3. \A g \in Appenders, d \in Ids : Accepts(g, d)' => Accepts(g, d)
  BY <1>1 DEF Accepts, inboxVars
<1>4. OneAccepts' /\ AcknowledgedIsRecorded'
  BY <1>1, <1>3, QuietFrame DEF inboxVars
<1>5. \A g \in Appenders : pc[g] = "commit" =>
         /\ tx'[g].open /\ tx'[g].tenant = tx[g].tenant /\ tx'[g].event = tx[g].event
  <2>1. \A g \in Appenders : pc[g] = "commit" => tx[g].open /\ tx[g] \in TxType
    BY DEF CarriesEvent, ChainInv, ChainTypeOK
  <2>2. CASE tx' = tx
    BY <2>1, <2>2
  <2>3. CASE tx' = [g \in Appenders |-> Outdated(tx[g])]
    BY <2>1, <2>3 DEF Outdated, TxType
  <2> QED BY <1>1, <2>2, <2>3
<1>6. CarriesEvent'
  BY <1>1, <1>5 DEF CarriesEvent, inboxVars
<1> QED BY <1>2, <1>4, <1>6

-----------------------------------------------------------------------------
(* The step that records.                                                   *)

LEMMA AcknowledgeStep ==
    ASSUME InboxInv, NEW h \in Appenders, Acknowledge(h), ChainInv'
    PROVE  InboxInv'
<1> USE DEF InboxInv
<1> DEFINE new == Len(rows[Tenant]) + 1
           r == NewRow(tx[h].previous, tx[h].event)
           kind == IF duplicate[h] THEN "WebhookDuplicate" ELSE "WebhookAccepted"
<1>1. /\ pc[h] = "commit" /\ Insert(h) /\ acked' = acked \cup {event[h]}
      /\ UNCHANGED <<inbox, deliveries, event, duplicate, aborts>>
      /\ Goto(h, "idle")
  BY DEF Acknowledge
<1>2. \A g \in Appenders : pc'[g] = IF g = h THEN "idle" ELSE pc[g]
  BY <1>1, OtherHandlers
<1>3. /\ tx[h].open /\ tx[h].tenant = Tenant /\ event[h] \in inbox /\ event[h] \in Ids
      /\ tx[h].event.id = event[h] /\ tx[h].event.kind = kind
  BY <1>1 DEF CarriesEvent, TypeOK
<1>4. rows[Tenant] \in Seq(Row) /\ r \in Row /\ r.event = tx[h].event
  <2>1. tx[h].event \in Events /\ tx[h].previous \in Seq(Events)
    BY <1>3 DEF ChainInv, ChainTypeOK, TxType
  <2> QED BY <2>1, NewRowType, WebhookAssumption DEF ChainInv, ChainTypeOK, NewRow
<1>5. rows'[Tenant] = Append(rows[Tenant], r)
  BY <1>1, <1>3, WebhookAssumption DEF Insert, ChainInv, ChainTypeOK
<1>6. /\ DOMAIN rows'[Tenant] = DOMAIN rows[Tenant] \cup {new} /\ new \notin DOMAIN rows[Tenant]
      /\ rows'[Tenant][new] = r
      /\ \A n \in DOMAIN rows[Tenant] : rows'[Tenant][n] = rows[Tenant][n]
  <2> HIDE DEF r
  <2> QED BY <1>4, <1>5
<1> HIDE DEF new, r
<1>7. \A d \in Ids, k \in {"WebhookAccepted", "WebhookDuplicate"} :
         Recorded(k, d)' = IF k = kind /\ d = event[h] THEN Recorded(k, d) \cup {new}
                           ELSE Recorded(k, d)
  BY <1>3, <1>4, <1>6 DEF Recorded
<1>8. \A g \in Appenders, d \in Ids : Accepts(g, d)' <=> (g # h /\ Accepts(g, d))
  BY <1>1, <1>2 DEF Accepts
<1>9. kind = "WebhookAccepted" => Accepts(h, event[h])
  BY <1>1 DEF Accepts
<1>10. TypeOK'
  BY <1>1, <1>3 DEF TypeOK, Goto, ChainInv
<1>11. OneAccepts'
  <2>1. ASSUME NEW g \in Appenders, NEW d \in Ids, Accepts(g, d)'
        PROVE  /\ d \in inbox'
               /\ Recorded("WebhookAccepted", d)' = {}
               /\ \A f \in Appenders : Accepts(f, d)' => f = g
    <3>1. Accepts(g, d) /\ g # h
      BY <1>8, <2>1
    <3>2. d \in inbox /\ Recorded("WebhookAccepted", d) = {}
          /\ \A f \in Appenders : Accepts(f, d) => f = g
      BY <3>1 DEF OneAccepts
    <3>3. ~(kind = "WebhookAccepted" /\ d = event[h])
      BY <1>9, <3>1, <3>2
    <3> QED BY <1>1, <1>7, <1>8, <3>2, <3>3
  <2>2. ASSUME NEW d \in Ids
        PROVE  \A m, n \in Recorded("WebhookAccepted", d)' : m = n /\ d \in inbox'
    <3>1. CASE kind = "WebhookAccepted" /\ d = event[h]
      <4>1. Recorded("WebhookAccepted", d) = {}
        BY <1>3, <1>9, <3>1 DEF OneAccepts
      <4> QED BY <1>1, <1>3, <1>7, <3>1, <4>1
    <3>2. CASE ~(kind = "WebhookAccepted" /\ d = event[h])
      BY <1>1, <1>7, <3>2 DEF OneAccepts
    <3> QED BY <3>1, <3>2
  <2> QED BY <2>1, <2>2 DEF OneAccepts
<1>12. CarriesEvent'
  <2>1. \A g \in Appenders : g # h /\ pc[g] = "commit" =>
           /\ tx'[g].open /\ tx'[g].tenant = tx[g].tenant /\ tx'[g].event = tx[g].event
    BY <1>1 DEF Insert, Outdate, Outdated, CarriesEvent, ChainInv, ChainTypeOK, TxType
  <2> QED BY <1>1, <1>2, <2>1 DEF CarriesEvent
<1>13. AcknowledgedIsRecorded'
  BY <1>1, <1>3, <1>7 DEF AcknowledgedIsRecorded, TypeOK
<1> QED BY <1>10, <1>11, <1>12, <1>13

-----------------------------------------------------------------------------
\* The strengthening is an invariant of the specification.
THEOREM InboxInvariant == Spec => []InboxInv
<1>1. Init => InboxInv
  <2> SUFFICES ASSUME Init PROVE InboxInv
    OBVIOUS
  <2>1. ChainInv
    BY ChainInitInv DEF Init
  <2>2. TypeOK
    BY <2>1, BoundsAssumption DEF Init, TypeOK, ChainInv
  <2>3. \A k, d : Recorded(k, d) = {}
    BY WebhookAssumption DEF Init, ChainInit, Recorded
  <2>4. OneAccepts /\ CarriesEvent /\ AcknowledgedIsRecorded
    BY <2>3 DEF Init, OneAccepts, Accepts, CarriesEvent, AcknowledgedIsRecorded
  <2> QED BY <2>1, <2>2, <2>4 DEF InboxInv
<1>2. InboxInv /\ [Next]_vars => InboxInv'
  <2> SUFFICES ASSUME InboxInv, [Next]_vars PROVE InboxInv'
    OBVIOUS
  <2>1. ChainInv'
    BY InboxChainStep
  <2>2. ASSUME NEW h \in Appenders, NEW d \in Ids, Deliver(h, d) PROVE InboxInv'
    BY <2>1, <2>2, DeliverStep
  <2>3. ASSUME NEW h \in Appenders, HandlerStep(h) PROVE InboxInv'
    BY <2>1, <2>3, RecordStep, StartAppendStep, AcknowledgeStep, EndStep DEF HandlerStep
  <2>4. ASSUME NEW h \in Appenders, Abort(h) PROVE InboxInv'
    BY <2>1, <2>4, EndStep
  <2>5. CASE OtherHandler \/ UNCHANGED vars
    BY <2>1, <2>5, OtherStep
  <2> QED BY <2>2, <2>3, <2>4, <2>5 DEF Next
<1> QED BY <1>1, <1>2, PTL DEF Spec

\* Every variable of the inbox and of its chain keeps its type.
THEOREM InboxTypeCorrect == Spec => []TypeOK
<1>1. InboxInv => TypeOK
  BY DEF InboxInv
<1> QED BY <1>1, InboxInvariant, PTL

\* However often and however concurrently record_webhook is called with one
\* identity, at most one WebhookAccepted is in evidence for it.
THEOREM AcceptedAtMostOnce == Spec => []AcceptedOnce
<1>1. InboxInv => AcceptedOnce
  <2> SUFFICES ASSUME InboxInv, NEW d \in Ids
               PROVE  Cardinality(Recorded("WebhookAccepted", d)) <= 1
    BY DEF AcceptedOnce
  <2>1. \A m, n \in Recorded("WebhookAccepted", d) : m = n
    BY DEF InboxInv, OneAccepts
  <2>2. CASE Recorded("WebhookAccepted", d) = {}
    BY <2>2, FS_EmptySet
  <2>3. CASE Recorded("WebhookAccepted", d) # {}
    <3>1. PICK n : n \in Recorded("WebhookAccepted", d)
      BY <2>3
    <3>2. Recorded("WebhookAccepted", d) = {n}
      BY <2>1, <3>1
    <3>3. Cardinality({n}) = 1
      BY FS_Singleton
    <3> QED BY <3>2, <3>3
  <2> QED BY <2>2, <2>3
<1> QED BY <1>1, InboxInvariant, PTL

\* receive_webhook answers 2xx only after the event is in webhook_events and
\* in the evidence.
THEOREM AcknowledgedStaysRecorded == Spec => []AcknowledgedIsRecorded
<1>1. InboxInv => AcknowledgedIsRecorded
  BY DEF InboxInv
<1> QED BY <1>1, InboxInvariant, PTL

\* The chain that carries the webhook events verifies.
THEOREM InboxChainVerifies == Spec => []ChainVerifies
<1>1. InboxInv => ChainVerifies
  BY DEF InboxInv, ChainInv
<1> QED BY <1>1, InboxInvariant, PTL

\* With the inbox's own writes between the appends the chain is still an
\* append-only log.
THEOREM InboxIsALog == Spec => ImplementsLog
<1>1. Init => Log!Init
  BY LogInit DEF Init
<1>2. InboxInv /\ [Next]_vars => [Log!Next]_([t \in Tenants |-> NewestHash(t)])
  <2> SUFFICES ASSUME InboxInv, [Next]_vars
               PROVE  [Log!Next]_([t \in Tenants |-> NewestHash(t)])
    OBVIOUS
  <2>1. CASE rows' = rows
    BY <2>1 DEF NewestHash
  <2>2. ASSUME NEW h \in Appenders, Insert(h)
        PROVE  [Log!Next]_([t \in Tenants |-> NewestHash(t)])
    <3>1. [ChainNext]_chain
      BY <2>2 DEF ChainNext
    <3> QED BY <3>1, LogStep DEF InboxInv
  <2> QED BY <2>1, <2>2, InboxChainStep
<1> QED BY <1>1, <1>2, InboxInvariant, PTL DEF Spec, ImplementsLog, Log!Spec
=============================================================================

-------------------------- MODULE EvidenceAuditProofs --------------------------
(***************************************************************************)
(* For any number of tenants, appenders and events, any window and any     *)
(* number of edits: what verify-evidence accepts is what was exported, and *)
(* an unedited chain is accepted exactly when it fits the window.          *)
(*                                                                         *)
(* The argument is an induction along the chain: each link that verifies   *)
(* stands for the events of the rows up to it (LinksStandForEvents).  It   *)
(* is proved by the least row at which that fails.                         *)
(***************************************************************************)
EXTENDS EvidenceAudit, EvidenceChainProofs, WellFoundedInduction

-----------------------------------------------------------------------------
\* Every set of naturals that is not empty has a least element.
LEMMA LeastNatural ==
    ASSUME NEW T \in SUBSET Nat, T # {}
    PROVE  \E n \in T : \A m \in T : n <= m
<1>1. PICK n \in T : \A m \in T : <<m, n>> \notin OpToRel(<, Nat)
  BY NatLessThanWellFounded, WFMin
<1>2. \A m \in T : m < n => <<m, n>> \in OpToRel(<, Nat)
  BY DEF OpToRel
<1>3. \A m \in T : ~(m < n)
  BY <1>1, <1>2, Zenon
<1> QED BY <1>3

UpTo(s, n) == [k \in 1..n |-> s[k].event]

\* Every link of a chain that verifies stands for the events up to it: there
\* is no first link that does not.  (verify_evidence_chain)
LEMMA LinksStandForEvents ==
    ASSUME NEW s \in Seq(Row), VerifyChain(s)
    PROVE  \A n \in DOMAIN s : s[n].hash = UpTo(s, n)
<1> DEFINE Wrong == {n \in DOMAIN s : s[n].hash # UpTo(s, n)}
<1>0. Len(s) \in Nat /\ DOMAIN s = 1..Len(s) /\ \A n \in 1..Len(s) : s[n] \in Row
  OBVIOUS
<1>1. SUFFICES ASSUME Wrong # {} PROVE FALSE
  OBVIOUS
<1>2. PICK n \in Wrong : \A m \in Wrong : n <= m
  <2>1. Wrong \in SUBSET Nat
    BY <1>0
  <2> HIDE DEF Wrong
  <2> QED BY <1>1, <2>1, LeastNatural
<1>3. n \in 1..Len(s)
  BY <1>0
<1> DEFINE previous == IF n = 1 THEN NoPrevious ELSE s[n - 1].hash
<1>4. s[n].hash = Append(previous, s[n].event)
  <2>1. VerifyLink(s[n], previous)
    BY <1>0, <1>3 DEF VerifyChain
  <2> QED BY <2>1 DEF VerifyLink, Hash
<1>5. previous = UpTo(s, n - 1)
  <2>1. CASE n = 1
    <3>1. UpTo(s, 0) = <<>>
      BY DEF UpTo
    <3> QED BY <2>1, <3>1 DEF NoPrevious
  <2>2. CASE n # 1
    <3>1. n - 1 \in 1..Len(s) /\ ~(n <= n - 1)
      BY <1>3, <2>2
    <3>2. n - 1 \notin Wrong
      BY <3>1, <1>2
    <3> QED BY <2>2, <3>1, <3>2, <1>0
  <2> QED BY <2>1, <2>2
<1>6. UpTo(s, n - 1) \in Seq(Events) /\ Len(UpTo(s, n - 1)) = n - 1
  <2>1. \A k \in 1..(n - 1) : s[k].event \in Events
    BY <1>0, <1>3 DEF Row
  <2>2. UpTo(s, n - 1) \in [1..(n - 1) -> Events] /\ n - 1 \in Nat
    BY <2>1, <1>3 DEF UpTo
  <2> QED BY <2>2
<1>7. Append(UpTo(s, n - 1), s[n].event) = UpTo(s, n)
  <2> DEFINE u == UpTo(s, n - 1)
             a == Append(u, s[n].event)
  <2>1. s[n].event \in Events
    BY <1>0, <1>3 DEF Row
  <2>2. \A k \in 1..(n - 1) : u[k] = s[k].event
    BY DEF UpTo
  <2>3. a = [k \in 1..n |-> IF k = n THEN s[n].event ELSE u[k]]
    <3> HIDE DEF u
    <3> QED BY <1>6, <2>1, <1>3 DEF u
  <2>4. \A k \in 1..n : (IF k = n THEN s[n].event ELSE u[k]) = s[k].event
    BY <2>2, <1>3
  <2> QED BY <2>3, <2>4 DEF UpTo
<1> QED BY <1>4, <1>5, <1>7, <1>2

\* What fits the window is read whole.
LEMMA NewestIsAll ==
    ASSUME NEW s \in Seq(Row), Len(s) <= Window
    PROVE  Newest(s) = s
<1>0. Len(s) \in Nat /\ ~(Len(s) > Window)
  BY WindowAssumption
<1>1. Len(s) \in Nat /\ Newest(s) = SubSeq(s, 1, Len(s))
  BY <1>0, Zenon DEF Newest
<1>2. SubSeq(s, 1, Len(s)) = s
  BY <1>1
<1> QED BY <1>1, <1>2

LEMMA VerifiedWhenTyped == TypeOK => VerifiedIsWhatWasExported
<1> SUFFICES ASSUME TypeOK, NEW head \in heads,
                    Len(rows[head.tenant]) <= Window, VerifyEvidence(head.tenant),
                    NEW n \in DOMAIN rows[head.tenant],
                    rows[head.tenant][n].hash = head.hash
             PROVE  EventsUpTo(head.tenant, n) = head.hash
  BY DEF VerifiedIsWhatWasExported
<1> DEFINE t == head.tenant
<1>1. rows[t] \in Seq(Row)
  BY DEF TypeOK, ChainTypeOK
<1>2. VerifyChain(rows[t])
  BY <1>1, NewestIsAll DEF VerifyEvidence
<1>3. rows[t][n].hash = UpTo(rows[t], n)
  BY <1>1, <1>2, LinksStandForEvents
<1> QED BY <1>3 DEF UpTo, EventsUpTo

-----------------------------------------------------------------------------
(* The table keeps its type under every edit.                              *)

LEMMA ChangedEventType ==
    ASSUME NEW s \in Seq(Row), NEW n \in DOMAIN s, NEW e \in Events
    PROVE  [s EXCEPT ![n] = [@ EXCEPT !.event = e]] \in Seq(Row)
<1>1. n \in 1..Len(s) /\ s[n] \in Row
  OBVIOUS
<1>2. [s[n] EXCEPT !.event = e] \in Row
  BY <1>1 DEF Row
<1> QED BY <1>1, <1>2

LEMMA RelinkedType ==
    ASSUME NEW s \in Seq(Row)
    PROVE  Relink(s) \in Seq(Row)
<1>0. Len(s) \in Nat /\ DOMAIN s = 1..Len(s) /\ \A k \in 1..Len(s) : s[k] \in Row
  OBVIOUS
<1>1. Len(s) \in Nat /\ DOMAIN s = 1..Len(s) /\ \A k \in 1..Len(s) : s[k].event \in Events
  BY <1>0 DEF Row
<1>2. ASSUME NEW n \in 1..Len(s)
      PROVE  NewRow([k \in 1..(n - 1) |-> s[k].event], s[n].event) \in Row
  <2>1. [k \in 1..(n - 1) |-> s[k].event] \in [1..(n - 1) -> Events] /\ n - 1 \in Nat
    BY <1>1
  <2>2. [k \in 1..(n - 1) |-> s[k].event] \in Seq(Events)
    BY <2>1
  <2> QED BY <1>1, <2>2, NewRowType
<1>3. Relink(s) \in [1..Len(s) -> Row]
  BY <1>1, <1>2 DEF Relink
<1> QED BY <1>1, <1>3

LEMMA RemovedType ==
    ASSUME NEW s \in Seq(Row), NEW n \in DOMAIN s
    PROVE  RemoveAt(s, n) \in Seq(Row)
<1>1. n \in 1..Len(s) /\ Len(s) \in Nat
  OBVIOUS
<1>2. SubSeq(s, 1, n - 1) \in Seq(Row) /\ SubSeq(s, n + 1, Len(s)) \in Seq(Row)
  BY <1>1
<1> QED BY <1>2 DEF RemoveAt

LEMMA EditType ==
    ASSUME TypeOK, NEW t \in Tenants, NEW s \in Seq(Row), Edit(t, s)
    PROVE  TypeOK' /\ edits' # 0
BY MaxEditsAssumption DEF TypeOK, ChainTypeOK, Edit

\* Until the first edit the chain is the one the service appended.
AuditInv == TypeOK /\ (edits = 0 => ChainInv)

LEMMA AuditInit == Init => AuditInv
BY ChainInitInv, MaxEditsAssumption DEF Init, AuditInv, TypeOK, ChainInv

LEMMA AuditStep == AuditInv /\ [Next]_vars => AuditInv'
<1> SUFFICES ASSUME AuditInv, [Next]_vars PROVE AuditInv'
  OBVIOUS
<1>0. TypeOK /\ ChainTypeOK
  BY DEF AuditInv, TypeOK
<1>1. ASSUME ChainTypeOK', UNCHANGED <<heads, edits>>, ChainNext
      PROVE  AuditInv'
  <2>1. TypeOK'
    BY <1>0, <1>1 DEF TypeOK
  <2>2. edits' = 0 => ChainInv'
    BY <1>1, ChainStep DEF AuditInv
  <2> QED BY <2>1, <2>2 DEF AuditInv
<1>2. ASSUME NEW h \in Appenders, AppendStep(h) PROVE AuditInv'
  <2>1. ChainTypeOK' /\ ChainNext
    BY <1>0, <1>2, ChainTypeStep DEF AppendStep, ChainNext
  <2> QED BY <1>1, <1>2, <2>1 DEF AppendStep
<1>3. CASE CommitStep
  <2>1. ChainTypeOK' /\ ChainNext
    BY <1>0, <1>3, ChainTypeStep DEF CommitStep, ChainNext
  <2> QED BY <1>1, <1>3, <2>1 DEF CommitStep
<1>4. ASSUME UNCHANGED chain, UNCHANGED edits, heads' \subseteq [tenant : Tenants, hash : Seq(Events)]
      PROVE  AuditInv'
  <2>1. TypeOK'
    BY <1>0, <1>4 DEF TypeOK, ChainTypeOK, chain
  <2>2. ChainInv => ChainInv'
    BY <1>4, ChainStep
  <2> QED BY <2>1, <2>2, <1>4 DEF AuditInv
<1>5. ASSUME NEW t \in Tenants, ExportHead(t) PROVE AuditInv'
  <2>1. NewestHash(t) \in Seq(Events)
    BY <1>0, NewestHashType
  <2> QED BY <1>0, <1>4, <1>5, <2>1 DEF ExportHead, TypeOK
<1>6. ASSUME NEW t \in Tenants, NEW n \in DOMAIN rows[t],
             DeleteRow(t, n) \/ \E e \in Events : ChangeEvent(t, n, e) \/ Rewrite(t, n, e)
      PROVE  AuditInv'
  <2>0. rows[t] \in Seq(Row)
    BY <1>0 DEF ChainTypeOK
  <2>1. PICK s \in Seq(Row) : Edit(t, s)
    BY <2>0, <1>6, RemovedType, ChangedEventType, RelinkedType
    DEF DeleteRow, ChangeEvent, Rewrite
  <2> QED BY <1>0, <2>1, EditType DEF AuditInv
<1>7. CASE UNCHANGED vars
  BY <1>0, <1>4, <1>7 DEF vars, chain, TypeOK
<1> QED BY <1>2, <1>3, <1>5, <1>6, <1>7 DEF Next

\* Every variable keeps its type, the table under any edit included.
THEOREM AuditTypeCorrect == Spec => []TypeOK
<1>1. AuditInv => TypeOK
  BY DEF AuditInv
<1> QED BY <1>1, AuditInit, AuditStep, PTL DEF Spec

\* No change, deletion or recomputation of the rows makes verify-evidence
\* accept events below an exported head that are not the exported ones.
\* (verify_evidence_chain, EvidenceEvent::verify_link)
THEOREM AuditIsSound == Spec => []VerifiedIsWhatWasExported
BY AuditTypeCorrect, VerifiedWhenTyped, PTL

-----------------------------------------------------------------------------
(* What the window does to a chain nobody edited.                          *)

LEMMA LongChainIsRefused ==
    ASSUME NEW s \in Seq(Row), VerifyChain(s), Len(s) > Window
    PROVE  ~VerifyChain(Newest(s))
<1> DEFINE first == Len(s) - Window + 1
           w == Newest(s)
<1>1. Len(s) \in Nat /\ first \in 2..Len(s) /\ DOMAIN s = 1..Len(s)
  BY WindowAssumption
<1>2. w = SubSeq(s, first, Len(s))
  BY DEF Newest
<1>3. 1 \in DOMAIN w /\ w[1] = s[first]
  BY <1>1, <1>2
<1>4. s[first].previous = s[first - 1].hash
  BY <1>1 DEF VerifyChain, VerifyLink
<1>5. s[first - 1].hash # NoPrevious
  <2>1. s[first - 1].hash = UpTo(s, first - 1) /\ first - 1 \in 1..Len(s)
    BY <1>1, LinksStandForEvents
  <2>2. DOMAIN UpTo(s, first - 1) = 1..(first - 1)
    BY DEF UpTo
  <2>3. 1 \in 1..(first - 1) /\ 1 \notin DOMAIN NoPrevious
    BY <1>1 DEF NoPrevious
  <2> QED BY <2>1, <2>2, <2>3
<1> QED BY <1>3, <1>4, <1>5 DEF VerifyChain, VerifyLink

AcceptedIfItFits ==
    edits = 0 =>
        \A t \in Tenants : VerifyEvidence(t) <=> Len(rows[t]) <= Window

\* verify-evidence accepts a chain nobody edited as long as it is no longer
\* than the window, and refuses it from then on.  (verify_evidence)
THEOREM WindowDecides == Spec => []AcceptedIfItFits
<1>1. AuditInv => AcceptedIfItFits
  <2> SUFFICES ASSUME AuditInv, edits = 0, NEW t \in Tenants
               PROVE  VerifyEvidence(t) <=> Len(rows[t]) <= Window
    BY DEF AcceptedIfItFits
  <2>1. rows[t] \in Seq(Row) /\ VerifyChain(rows[t])
    BY DEF AuditInv, ChainInv, ChainTypeOK, ChainVerifies
  <2>2. Len(rows[t]) \in Nat /\ Window \in Nat
    BY <2>1, WindowAssumption
  <2>3. CASE Len(rows[t]) <= Window
    BY <2>1, <2>3, NewestIsAll DEF VerifyEvidence
  <2>4. CASE Len(rows[t]) > Window
    BY <2>1, <2>2, <2>4, LongChainIsRefused DEF VerifyEvidence
  <2> QED BY <2>2, <2>3, <2>4
<1> QED BY <1>1, AuditInit, AuditStep, PTL DEF Spec
=============================================================================

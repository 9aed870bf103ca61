------------------------- MODULE EvidenceChainProofs -------------------------
(***************************************************************************)
(* For any number of appenders, tenants and events: the evidence chain of  *)
(* every tenant verifies, and it implements an append-only log.            *)
(*                                                                         *)
(* The argument is the snapshot: an open transaction whose snapshot is     *)
(* still current read the newest link there is (SnapshotIsNewest).  That   *)
(* makes the invariant inductive; the unique index is not needed for it.   *)
(***************************************************************************)
EXTENDS EvidenceChain, TLAPS, SequenceTheorems

\* What an open transaction read is still the newest link of its tenant.
SnapshotIsNewest ==
    \A h \in Appenders :
        tx[h].open /\ tx[h].current => tx[h].previous = NewestHash(tx[h].tenant)

ChainInv == ChainTypeOK /\ SnapshotIsNewest /\ ChainVerifies

-----------------------------------------------------------------------------
LEMMA NewRowType ==
    ASSUME NEW p \in Seq(Events), NEW e \in Events
    PROVE  NewRow(p, e) \in Row
BY DEF NewRow, Row, Hash

LEMMA NewestHashType ==
    ASSUME ChainTypeOK, NEW t \in Tenants
    PROVE  NewestHash(t) \in Seq(Events)
<1>1. rows[t] \in Seq(Row)
  BY DEF ChainTypeOK
<1>2. CASE rows[t] = <<>>
  BY <1>2 DEF NewestHash, NoPrevious
<1>3. CASE rows[t] # <<>>
  <2>1. rows[t][Len(rows[t])] \in Row
    BY <1>1, <1>3
  <2> QED BY <1>3, <2>1 DEF NewestHash, Row
<1> QED BY <1>2, <1>3

\* A chain that verifies still does with a row for its newest link behind it.
LEMMA AppendVerifies ==
    ASSUME NEW s \in Seq(Row), VerifyChain(s), NEW p, NEW e,
           p = IF s = <<>> THEN NoPrevious ELSE s[Len(s)].hash
    PROVE  VerifyChain(Append(s, NewRow(p, e)))
<1> DEFINE r == NewRow(p, e)
           n == Len(s) + 1
           a == Append(s, r)
<1>0. Len(s) \in Nat /\ DOMAIN s = 1..Len(s) /\ DOMAIN a = 1..n
  OBVIOUS
<1>1. r.previous = p /\ r.hash = Hash(r.previous, r.event)
  BY DEF NewRow
<1>2. a[n] = r /\ \A k \in 1..Len(s) : a[k] = s[k]
  OBVIOUS
<1>3. SUFFICES ASSUME NEW k \in 1..n
               PROVE  VerifyLink(a[k], IF k = 1 THEN NoPrevious ELSE a[k - 1].hash)
  BY <1>0 DEF VerifyChain
<1>4. CASE k \in 1..Len(s)
  <2>1. VerifyLink(s[k], IF k = 1 THEN NoPrevious ELSE s[k - 1].hash)
    BY <1>4, <1>0 DEF VerifyChain
  <2>2. a[k] = s[k] /\ (k # 1 => k - 1 \in 1..Len(s) /\ a[k - 1] = s[k - 1])
    BY <1>4, <1>2, <1>0
  <2> QED BY <2>1, <2>2
<1>5. CASE k = n
  <2>1. CASE s = <<>>
    <3>1. k = 1
      BY <1>5, <2>1
    <3> QED BY <3>1, <1>5, <2>1, <1>1, <1>2 DEF VerifyLink
  <2>2. CASE s # <<>>
    <3>1. Len(s) \in 1..Len(s) /\ k # 1 /\ k - 1 = Len(s)
      BY <1>5, <2>2, <1>0
    <3> QED BY <3>1, <1>5, <2>2, <1>1, <1>2 DEF VerifyLink
  <2> QED BY <2>1, <2>2
<1> QED BY <1>4, <1>5, <1>0

-----------------------------------------------------------------------------
(* The invariant.                                                          *)

LEMMA OutdatedType ==
    ASSUME NEW x \in TxType
    PROVE  /\ Outdated(x) \in TxType
           /\ ~(Outdated(x).open /\ Outdated(x).current)
BY DEF Outdated, TxType

LEMMA NewRowsType ==
    ASSUME ChainTypeOK, NEW t \in Tenants, NEW r \in Row,
           rows' = [rows EXCEPT ![t] = Append(@, r)]
    PROVE  rows' \in [Tenants -> Seq(Row)]
<1>1. rows \in [Tenants -> Seq(Row)] /\ rows[t] \in Seq(Row)
  BY DEF ChainTypeOK
<1>2. Append(rows[t], r) \in Seq(Row)
  BY <1>1
<1> QED BY <1>1, <1>2

LEMMA InsertedRow ==
    ASSUME ChainTypeOK, NEW h \in Appenders, tx[h].open
    PROVE  /\ tx[h].tenant \in Tenants
           /\ NewRow(tx[h].previous, tx[h].event) \in Row
<1>1. tx[h] \in TxType
  BY DEF ChainTypeOK
<1>2. tx[h].tenant \in Tenants /\ tx[h].event \in Events /\ tx[h].previous \in Seq(Events)
  BY <1>1 DEF TxType
<1> QED BY <1>2, NewRowType

\* No transaction is still current after a commit.
LEMMA OutdateType ==
    ASSUME ChainTypeOK, NEW h \in Appenders, Outdate(h)
    PROVE  /\ tx' \in [Appenders -> TxType]
           /\ \A g \in Appenders : ~(tx'[g].open /\ tx'[g].current)
<1>1. tx' = [g \in Appenders |-> IF g = h THEN Closed ELSE Outdated(tx[g])]
  BY DEF Outdate
<1>2. Closed \in TxType /\ ~Closed.open
  BY DEF Closed, TxType
<1>3. ASSUME NEW g \in Appenders
      PROVE  tx'[g] \in TxType /\ ~(tx'[g].open /\ tx'[g].current)
  <2>1. tx[g] \in TxType
    BY DEF ChainTypeOK
  <2>2. CASE g = h
    BY <2>2, <1>1, <1>2
  <2>3. CASE g # h
    BY <2>3, <2>1, <1>1, OutdatedType
  <2> QED BY <2>2, <2>3
<1> QED BY <1>1, <1>3

\* Types do not need the chain to verify: they survive any edit of the table.
LEMMA ChainTypeStep ==
    ASSUME ChainTypeOK,
           \/ \E h \in Appenders :
                 \/ \E t \in Tenants, e \in Events : ReadNewest(h, t, e)
                 \/ Insert(h)
                 \/ Rollback(h)
           \/ OtherCommit
    PROVE  ChainTypeOK'
<1>1. ASSUME NEW h \in Appenders, NEW t \in Tenants, NEW e \in Events, ReadNewest(h, t, e)
      PROVE  ChainTypeOK'
  <2>1. Open(t, e, NewestHash(t)) \in TxType
    BY NewestHashType DEF Open, TxType
  <2> QED BY <1>1, <2>1 DEF ReadNewest, ChainTypeOK
<1>2. ASSUME NEW h \in Appenders, Insert(h) PROVE ChainTypeOK'
  <2>1. tx' \in [Appenders -> TxType] /\ commits' = commits
    BY <1>2, OutdateType DEF Insert
  <2>2. rows' \in [Tenants -> Seq(Row)]
    BY <1>2, InsertedRow, NewRowsType DEF Insert
  <2> QED BY <2>1, <2>2 DEF ChainTypeOK
<1>3. ASSUME NEW h \in Appenders, Rollback(h) PROVE ChainTypeOK'
  BY <1>3 DEF Rollback, ChainTypeOK, Closed, TxType
<1>4. ASSUME OtherCommit PROVE ChainTypeOK'
  <2>1. \A g \in Appenders : Outdated(tx[g]) \in TxType
    BY OutdatedType DEF ChainTypeOK
  <2>2. commits' \in 0..MaxCommits
    BY <1>4, MaxCommitsAssumption DEF OtherCommit, ChainTypeOK
  <2> QED BY <1>4, <2>1, <2>2 DEF OtherCommit, ChainTypeOK
<1> QED BY <1>1, <1>2, <1>3, <1>4

LEMMA ChainInitInv == ChainInit => ChainInv
<1> SUFFICES ASSUME ChainInit PROVE ChainInv
  OBVIOUS
<1>1. ChainTypeOK
  BY MaxCommitsAssumption DEF ChainInit, ChainTypeOK, TxType, Closed
<1>2. SnapshotIsNewest
  BY DEF ChainInit, SnapshotIsNewest, Closed
<1>3. ChainVerifies
  BY DEF ChainInit, ChainVerifies, VerifyChain
<1> QED BY <1>1, <1>2, <1>3 DEF ChainInv

LEMMA ReadNewestInv ==
    ASSUME ChainInv, NEW h \in Appenders, NEW t \in Tenants, NEW e \in Events,
           ReadNewest(h, t, e)
    PROVE  ChainInv'
<1>0. ChainTypeOK /\ SnapshotIsNewest /\ ChainVerifies
  BY DEF ChainInv
<1>1. rows' = rows /\ commits' = commits /\ tx' = [tx EXCEPT ![h] = Open(t, e, NewestHash(t))]
  BY DEF ReadNewest
<1>3. ChainTypeOK'
  BY <1>0, ChainTypeStep
<1>4. \A u : NewestHash(u)' = NewestHash(u)
  BY <1>1 DEF NewestHash
<1>5. SnapshotIsNewest'
  <2> SUFFICES ASSUME NEW g \in Appenders, (tx[g].open /\ tx[g].current)'
               PROVE  (tx[g].previous = NewestHash(tx[g].tenant))'
    BY DEF SnapshotIsNewest
  <2>1. CASE g = h
    <3>1. tx'[g] = Open(t, e, NewestHash(t))
      BY <2>1, <1>1, <1>0 DEF ChainTypeOK
    <3> QED BY <3>1, <1>1 DEF Open, NewestHash
  <2>2. CASE g # h
    <3>1. tx'[g] = tx[g]
      BY <2>2, <1>1, <1>0 DEF ChainTypeOK
    <3> QED BY <3>1, <1>0, <1>1 DEF SnapshotIsNewest, NewestHash
  <2> QED BY <2>1, <2>2
<1>6. ChainVerifies'
  BY <1>0, <1>1 DEF ChainVerifies
<1> QED BY <1>3, <1>5, <1>6 DEF ChainInv

LEMMA InsertInv ==
    ASSUME ChainInv, NEW h \in Appenders, Insert(h)
    PROVE  ChainInv'
<1> DEFINE t == tx[h].tenant
           r == NewRow(tx[h].previous, tx[h].event)
<1>0. ChainTypeOK /\ SnapshotIsNewest /\ ChainVerifies
  BY DEF ChainInv
<1>1. /\ tx[h].open /\ tx[h].current
      /\ rows' = [rows EXCEPT ![t] = Append(@, r)]
      /\ commits' = commits
  BY DEF Insert
<1>3. t \in Tenants /\ r \in Row
  BY <1>0, <1>1, InsertedRow
<1>5. rows \in [Tenants -> Seq(Row)] /\ rows[t] \in Seq(Row)
  BY <1>0, <1>3 DEF ChainTypeOK
<1>7. \A g \in Appenders : ~(tx'[g].open /\ tx'[g].current)
  BY <1>0, OutdateType DEF Insert
<1>8. ChainTypeOK'
  BY <1>0, ChainTypeStep
<1>9. SnapshotIsNewest'
  BY <1>7 DEF SnapshotIsNewest
<1>10. ChainVerifies'
  <2> SUFFICES ASSUME NEW u \in Tenants PROVE VerifyChain(rows'[u])
    BY DEF ChainVerifies, VerifyChain, VerifyLink
  <2>1. CASE u = t
    <3>1. rows'[u] = Append(rows[t], r)
      BY <2>1, <1>1, <1>5, <1>3
    <3>2. tx[h].previous = IF rows[t] = <<>> THEN NoPrevious ELSE rows[t][Len(rows[t])].hash
      BY <1>0, <1>1 DEF SnapshotIsNewest, NewestHash
    <3>3. VerifyChain(rows[t])
      BY <1>0, <1>3 DEF ChainVerifies
    <3>4. VerifyChain(Append(rows[t], r))
      BY <3>2, <3>3, <1>5, AppendVerifies
    <3> QED BY <3>1, <3>4
  <2>2. CASE u # t
    <3>1. rows'[u] = rows[u]
      BY <2>2, <1>1, <1>5
    <3> QED BY <3>1, <1>0 DEF ChainVerifies
  <2> QED BY <2>1, <2>2
<1> QED BY <1>8, <1>9, <1>10 DEF ChainInv

LEMMA RollbackInv ==
    ASSUME ChainInv, NEW h \in Appenders, Rollback(h)
    PROVE  ChainInv'
<1>0. ChainTypeOK /\ SnapshotIsNewest /\ ChainVerifies
  BY DEF ChainInv
<1>1. rows' = rows /\ commits' = commits /\ tx' = [tx EXCEPT ![h] = Closed]
  BY DEF Rollback
<1>2. Closed \in TxType /\ ~Closed.open
  BY DEF Closed, TxType
<1>3. \A g \in Appenders : tx'[g] = IF g = h THEN Closed ELSE tx[g]
  BY <1>0, <1>1 DEF ChainTypeOK
<1>4. ChainTypeOK'
  BY <1>0, ChainTypeStep
<1>5. SnapshotIsNewest'
  BY <1>0, <1>1, <1>2, <1>3 DEF SnapshotIsNewest, NewestHash
<1>6. ChainVerifies'
  BY <1>0, <1>1 DEF ChainVerifies
<1> QED BY <1>4, <1>5, <1>6 DEF ChainInv

LEMMA OtherCommitInv ==
    ASSUME ChainInv, OtherCommit
    PROVE  ChainInv'
<1>0. ChainTypeOK /\ SnapshotIsNewest /\ ChainVerifies
  BY DEF ChainInv
<1>1. /\ rows' = rows /\ commits < MaxCommits /\ commits' = commits + 1
      /\ tx' = [g \in Appenders |-> Outdated(tx[g])]
  BY DEF OtherCommit
<1>2. \A g \in Appenders : tx'[g] \in TxType /\ ~(tx'[g].open /\ tx'[g].current)
  BY <1>0, <1>1, OutdatedType DEF ChainTypeOK
<1>4. ChainTypeOK'
  BY <1>0, ChainTypeStep
<1>5. SnapshotIsNewest'
  BY <1>2 DEF SnapshotIsNewest
<1>6. ChainVerifies'
  BY <1>0, <1>1 DEF ChainVerifies
<1> QED BY <1>4, <1>5, <1>6 DEF ChainInv

LEMMA ChainStep == ChainInv /\ [ChainNext]_chain => ChainInv'
<1> SUFFICES ASSUME ChainInv, [ChainNext]_chain PROVE ChainInv'
  OBVIOUS
<1>1. CASE UNCHANGED chain
  BY <1>1 DEF chain, ChainInv, ChainTypeOK, SnapshotIsNewest, ChainVerifies,
              NewestHash
<1>2. ASSUME NEW h \in Appenders, NEW t \in Tenants, NEW e \in Events, ReadNewest(h, t, e)
      PROVE  ChainInv'
  BY <1>2, ReadNewestInv
<1>3. ASSUME NEW h \in Appenders, Insert(h) PROVE ChainInv'
  BY <1>3, InsertInv
<1>4. ASSUME NEW h \in Appenders, Rollback(h) PROVE ChainInv'
  BY <1>4, RollbackInv
<1>5. CASE OtherCommit
  BY <1>5, OtherCommitInv
<1> QED BY <1>1, <1>2, <1>3, <1>4, <1>5 DEF ChainNext

\* The invariant holds in every reachable state.
THEOREM ChainInvariant == ChainSpec => []ChainInv
<1>1. ChainInit => ChainInv
  BY ChainInitInv
<1>2. ChainInv /\ [ChainNext]_chain => ChainInv'
  BY ChainStep
<1> QED BY <1>1, <1>2, PTL DEF ChainSpec

\* Every variable of the chain keeps its type.
THEOREM ChainTypeCorrect == ChainSpec => []ChainTypeOK
<1>1. ChainInv => ChainTypeOK
  BY DEF ChainInv
<1> QED BY <1>1, ChainInvariant, PTL

\* Whatever appends and commits interleave, and whichever fail, the chain of
\* every tenant verifies from its first link to its last.  (append_evidence)
THEOREM NoForksNoGaps == ChainSpec => []ChainVerifies
<1>1. ChainInv => ChainVerifies
  BY DEF ChainInv
<1> QED BY <1>1, ChainInvariant, PTL

-----------------------------------------------------------------------------
(* The refinement.                                                         *)

LEMMA LogInit == ChainInit => Log!Init
BY DEF ChainInit, Log!Init, NewestHash, NoPrevious

LEMMA LogStep ==
    ASSUME ChainInv, [ChainNext]_chain
    PROVE  [Log!Next]_([t \in Tenants |-> NewestHash(t)])
<1> DEFINE L == [t \in Tenants |-> NewestHash(t)]
<1>0. ChainTypeOK /\ SnapshotIsNewest
  BY DEF ChainInv
<1>1. CASE rows' = rows
  BY <1>1 DEF NewestHash
<1>2. ASSUME NEW h \in Appenders, Insert(h)
      PROVE  Log!Next
  <2>0. tx[h].open /\ tx[h].current
    BY <1>2 DEF Insert
  <2>2. PICK t \in Tenants, e \in Events : tx[h].tenant = t /\ tx[h].event = e
    BY <1>0, <2>0 DEF ChainTypeOK, TxType
  <2> DEFINE r == NewRow(tx[h].previous, e)
  <2>1. tx[h].open /\ tx[h].current /\ rows' = [rows EXCEPT ![t] = Append(@, r)]
    BY <1>2, <2>2 DEF Insert
  <2>3. rows[t] \in Seq(Row) /\ rows \in [Tenants -> Seq(Row)] /\ r \in Row
    <3>1. tx[h].previous \in Seq(Events)
      BY <1>0, <2>1 DEF ChainTypeOK, TxType
    <3> QED BY <3>1, <1>0, <2>2, NewRowType DEF ChainTypeOK
  <2>4. r.hash = Append(NewestHash(t), e)
    BY <1>0, <2>1, <2>2 DEF SnapshotIsNewest, NewRow, Hash
  <2>5. NewestHash(t)' = Append(NewestHash(t), e)
    <3>1. rows'[t] = Append(rows[t], r)
      BY <2>1, <2>2, <2>3
    <3>2. rows'[t] # <<>> /\ rows'[t][Len(rows'[t])] = r
      <4> HIDE DEF r
      <4>1. \A s \in Seq(Row), x \in Row :
               Append(s, x) # <<>> /\ Append(s, x)[Len(Append(s, x))] = x
        OBVIOUS
      <4> QED BY <3>1, <2>3, <4>1
    <3> QED BY <3>2, <2>4 DEF NewestHash
  <2>6. \A u \in Tenants \ {t} : NewestHash(u)' = NewestHash(u)
    BY <2>1, <2>3 DEF NewestHash
  <2>7. L' = [L EXCEPT ![t] = Append(@, e)]
    BY <2>2, <2>5, <2>6
  <2>8. Log!Record(t, e)
    BY <2>7 DEF Log!Record
  <2> QED BY <2>2, <2>8 DEF Log!Next
<1> QED BY <1>1, <1>2 DEF ChainNext, chain, ReadNewest, Rollback, OtherCommit

\* append_evidence implements an append-only log of each tenant's events.
THEOREM ChainIsALog == ChainSpec => ImplementsLog
<1>1. ChainInit => Log!Init
  BY LogInit
<1>2. ChainInv /\ [ChainNext]_chain => [Log!Next]_([t \in Tenants |-> NewestHash(t)])
  BY LogStep
<1> QED BY <1>1, <1>2, ChainInvariant, PTL DEF ChainSpec, ImplementsLog, Log!Spec
=============================================================================

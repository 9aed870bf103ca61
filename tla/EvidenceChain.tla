---------------------------- MODULE EvidenceChain ----------------------------
(***************************************************************************)
(* Store::append_evidence: each tenant's events form a hash chain in the   *)
(* evidence table.  An append is a deferred SQLite transaction in WAL      *)
(* mode: it reads the newest link from a snapshot, and its INSERT fails    *)
(* (SQLITE_BUSY_SNAPSHOT) when any commit came after the snapshot.  The    *)
(* unique index evidence_single_successor is checked by the INSERT too,    *)
(* but says nothing about links without a predecessor.                     *)
(*                                                                         *)
(* blake3 over canonical JSON has no collisions here: the hash of a link   *)
(* is the sequence of the events it stands for.                            *)
(***************************************************************************)
EXTENDS Naturals, Sequences

CONSTANTS
    Appenders,   \* the handlers that append evidence
    Tenants,     \* the tenants of the service
    Events,      \* events: a fresh UUIDv7 with the fields of the link
    MaxCommits   \* bounds the commits to other tables (quotes, effects, ...)

ASSUME MaxCommitsAssumption == MaxCommits \in Nat

VARIABLES
    rows,     \* the evidence table: the rows of each tenant by sequence
    tx,       \* the open transaction of each appender
    commits   \* the commits to other tables so far

chain == <<rows, tx, commits>>

\* previous_hash IS NULL
NoPrevious == <<>>

\* hash_canonical_json of the link.
Hash(previous, e) == Append(previous, e)

Row == [event : Events, previous : Seq(Events), hash : Seq(Events)]

\* Mutant: the chain hash is not stored with the link.
MutNewRow(previous, e) == [event |-> e, previous |-> previous]

\* EvidenceEvent::new
NewRow(previous, e) == [event |-> e, previous |-> previous, hash |-> Hash(previous, e)]

Closed == [open |-> FALSE]
Open(t, e, previous) ==
    [open |-> TRUE, tenant |-> t, event |-> e, previous |-> previous, current |-> TRUE]

\* SELECT chain_hash ... ORDER BY sequence DESC LIMIT 1
NewestHash(t) ==
    IF rows[t] = <<>> THEN NoPrevious ELSE rows[t][Len(rows[t])].hash

\* The unique index on (tenant_id, previous_hash) WHERE it is not null.
HasSuccessor(t, previous) ==
    previous # NoPrevious /\ \E n \in DOMAIN rows[t] : rows[t][n].previous = previous

\* The snapshots of all open transactions are out of date after a commit.
Outdated(x) == IF x.open THEN [x EXCEPT !.current = FALSE] ELSE x
Outdate(h) == tx' = [g \in Appenders |-> IF g = h THEN Closed ELSE Outdated(tx[g])]

ChainInit ==
    /\ rows = [t \in Tenants |-> <<>>]
    /\ tx = [h \in Appenders |-> Closed]
    /\ commits = 0

\* BEGIN, the SELECT, and EvidenceEvent::new on what it returned.
ReadNewest(h, t, e) ==
    /\ ~tx[h].open
    /\ \A u \in Tenants : \A n \in DOMAIN rows[u] : rows[u][n].event # e
    /\ \A g \in Appenders : tx[g].open => tx[g].event # e
    /\ tx' = [tx EXCEPT ![h] = Open(t, e, NewestHash(t))]
    /\ UNCHANGED <<rows, commits>>

\* Mutant: the newest link is read outside the transaction that inserts.
MutInsert(h) ==
    /\ tx[h].open
    /\ ~HasSuccessor(tx[h].tenant, tx[h].previous)
    /\ rows' = [rows EXCEPT ![tx[h].tenant] =
                   Append(@, NewRow(tx[h].previous, tx[h].event))]
    /\ Outdate(h)
    /\ UNCHANGED commits

\* INSERT and COMMIT.
Insert(h) ==
    /\ tx[h].open
    /\ tx[h].current
    /\ ~HasSuccessor(tx[h].tenant, tx[h].previous)
    /\ rows' = [rows EXCEPT ![tx[h].tenant] =
                   Append(@, NewRow(tx[h].previous, tx[h].event))]
    /\ Outdate(h)
    /\ UNCHANGED commits

\* The transaction is rolled back: SQLITE_BUSY_SNAPSHOT, a constraint error,
\* or the future is dropped.
Rollback(h) ==
    /\ tx[h].open
    /\ tx' = [tx EXCEPT ![h] = Closed]
    /\ UNCHANGED <<rows, commits>>

\* Another table is written.
OtherCommit ==
    /\ commits < MaxCommits
    /\ commits' = commits + 1
    /\ tx' = [g \in Appenders |-> Outdated(tx[g])]
    /\ UNCHANGED rows

ChainNext ==
    \/ \E h \in Appenders :
          \/ \E t \in Tenants, e \in Events : ReadNewest(h, t, e)
          \/ Insert(h)
          \/ Rollback(h)
    \/ OtherCommit

ChainSpec == ChainInit /\ [][ChainNext]_chain

-----------------------------------------------------------------------------
(* verify_evidence_chain.                                                  *)

\* Mutant: the hash is not recomputed.
MutVerifyLinkNoHash(r, previous) == r.previous = previous

VerifyLink(r, previous) ==
    /\ r.previous = previous
    /\ r.hash = Hash(r.previous, r.event)

VerifyChain(s) ==
    \A n \in DOMAIN s :
        VerifyLink(s[n], IF n = 1 THEN NoPrevious ELSE s[n - 1].hash)

-----------------------------------------------------------------------------
(* Properties.                                                             *)

TxType ==
    [open : {FALSE}] \cup
    [open : {TRUE}, tenant : Tenants, event : Events, previous : Seq(Events), current : BOOLEAN]

\* The type of every variable.
ChainTypeOK ==
    /\ rows \in [Tenants -> Seq(Row)]
    /\ tx \in [Appenders -> TxType]
    /\ commits \in 0..MaxCommits

\* No interleaving of appends, of one tenant or several, and of commits to
\* other tables forks a tenant's chain or leaves a gap in it: it verifies.
\* (append_evidence)
ChainVerifies == \A t \in Tenants : VerifyChain(rows[t])

Log == INSTANCE AppendOnlyLog WITH log <- [t \in Tenants |-> NewestHash(t)]

\* The events the newest link stands for only ever grow at their end: no
\* append replaces or drops what another one recorded.  (append_evidence)
ImplementsLog == Log!Spec
=============================================================================

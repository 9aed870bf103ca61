---------------------------- MODULE EvidenceAudit ----------------------------
(***************************************************************************)
(* The evidence chain under audit: the service appends (EvidenceChain),    *)
(* an operator exports chain heads to independent storage, somebody with   *)
(* access to the database file edits the table afterwards, and             *)
(* `razorproof verify-evidence` reads the newest events and checks them.   *)
(***************************************************************************)
EXTENDS EvidenceChain, SequencesExt

CONSTANTS
    Window,     \* the limit of list_evidence in verify_evidence (500)
    MaxEdits    \* bounds the edits of the table

ASSUME WindowAssumption == Window \in Nat \ {0}
ASSUME MaxEditsAssumption == MaxEdits \in Nat

VARIABLES
    heads,   \* the exported heads: tenant and chain_hash
    edits    \* how often the table was edited

vars == <<rows, tx, commits, heads, edits>>

Init == ChainInit /\ heads = {} /\ edits = 0

AppendStep(h) ==
    /\ \/ \E t \in Tenants, e \in Events : ReadNewest(h, t, e)
       \/ Insert(h)
       \/ Rollback(h)
    /\ UNCHANGED <<heads, edits>>

CommitStep == OtherCommit /\ UNCHANGED <<heads, edits>>

\* The chain head of an unedited table is exported.
ExportHead(t) ==
    /\ edits = 0
    /\ rows[t] # <<>>
    /\ heads' = heads \cup {[tenant |-> t, hash |-> NewestHash(t)]}
    /\ UNCHANGED <<chain, edits>>

Edit(t, s) ==
    /\ edits < MaxEdits
    /\ edits' = edits + 1
    /\ rows' = [rows EXCEPT ![t] = s]
    /\ UNCHANGED <<tx, commits, heads>>

\* Another event in row n, its hashes untouched.
ChangeEvent(t, n, e) == Edit(t, [rows[t] EXCEPT ![n] = [@ EXCEPT !.event = e]])

DeleteRow(t, n) == Edit(t, RemoveAt(rows[t], n))

\* Another event in row n, and every link computed again from the first on.
Relink(s) ==
    [n \in DOMAIN s |-> NewRow([k \in 1..(n - 1) |-> s[k].event], s[n].event)]
Rewrite(t, n, e) == Edit(t, Relink([rows[t] EXCEPT ![n] = [@ EXCEPT !.event = e]]))

Next ==
    \/ \E h \in Appenders : AppendStep(h)
    \/ CommitStep
    \/ \E t \in Tenants :
          \/ ExportHead(t)
          \/ \E n \in DOMAIN rows[t] :
                \/ DeleteRow(t, n)
                \/ \E e \in Events : ChangeEvent(t, n, e) \/ Rewrite(t, n, e)

Spec == Init /\ [][Next]_vars

-----------------------------------------------------------------------------
\* list_evidence returns the newest events first; verify_evidence reverses.
Newest(s) == SubSeq(s, IF Len(s) > Window THEN Len(s) - Window + 1 ELSE 1, Len(s))

VerifyEvidence(t) == VerifyChain(Newest(rows[t]))

\* The type of every variable, the limit of the edits included.
TypeOK ==
    /\ ChainTypeOK
    /\ heads \subseteq [tenant : Tenants, hash : Seq(Events)]
    /\ edits \in 0..MaxEdits

EventsUpTo(t, n) == [k \in 1..n |-> rows[t][k].event]

\* If verify-evidence accepts a table that fits the window and a link of it
\* carries an exported head, the events up to that link are the ones the
\* head was exported for, whatever was edited or recomputed in between.
\* (verify_evidence_chain, EvidenceEvent::verify_link)
VerifiedIsWhatWasExported ==
    \A head \in heads :
        LET t == head.tenant IN
        Len(rows[t]) <= Window /\ VerifyEvidence(t) =>
            \A n \in DOMAIN rows[t] :
                rows[t][n].hash = head.hash => EventsUpTo(t, n) = head.hash

\* razorproof-rs/docs/ARCHITECTURE.md: "Each tenant has one verifiable
\* chain": verify-evidence accepts a table nobody edited.
ChainIsVerifiable == edits = 0 => \A t \in Tenants : VerifyEvidence(t)
=============================================================================

---------------------------- MODULE TestProvider ----------------------------
(***************************************************************************)
(* Razorpay in Test Mode, as live_e2e.py, live.py and their recorded        *)
(* reports meet it.  A ledger is the sequence of the refunds of one payment *)
(* or of the orders of the account, in the order Razorpay made them; the    *)
(* identifier of a refund or an order is its place in its ledger.           *)
(* Everything here is external to the repository.  Where the reports in     *)
(* artifacts/razorpay-test disagree with each other, for a fractional or    *)
(* an omitted amount, either answer is possible.                            *)
(***************************************************************************)
EXTENDS Integers, Sequences

CONSTANT None   \* no operation identity

Minimum == 100  \* the least amount the recorded reports saw accepted

\* A request of experiment r.  form tells how the JSON states the amount:
\* "exact", "fraction" (100.75) or "omitted".
Request(r, label, form, amount, key, receipt) ==
    [owner |-> r, label |-> label, form |-> form, amount |-> amount,
     key |-> key, receipt |-> receipt]

Total(ledger) ==
    LET sum[n \in 0..Len(ledger)] == IF n = 0 THEN 0 ELSE sum[n - 1] + ledger[n].amount IN
    sum[Len(ledger)]

\* The amount a request comes to when rest subunits can still be refunded.
Worth(q, rest) ==
    IF q.form = "exact" THEN q.amount ELSE IF q.form = "fraction" THEN 100 ELSE rest

SameKey(entry, q) == q.key # None /\ entry.request.key = q.key
SameReceipt(entry, q) == q.receipt # None /\ entry.request.receipt = q.receipt

\* Why the request cannot be executed: every reason that applies.
Reasons(ledger, price, q) ==
    LET worth == Worth(q, price - Total(ledger))
        when(P, reason) == IF P THEN {reason} ELSE {} IN
    when(\E i \in DOMAIN ledger : SameKey(ledger[i], q), "conflict")
    \cup when(\E i \in DOMAIN ledger : SameReceipt(ledger[i], q), "duplicate")
    \cup when(q.form = "exact" /\ worth < Minimum, "minimum")
    \cup when(worth = 0 \/ Total(ledger) + worth > price, "balance")

NoAnswer == [ok |-> FALSE, id |-> 0, amount |-> 0, count |-> 0, total |-> 0, why |-> {}]
Refusal(why) == [NoAnswer EXCEPT !.why = why]
Accepted(ledger, i) == [NoAnswer EXCEPT !.ok = TRUE, !.id = i, !.amount = ledger[i].amount]

\* What Razorpay may do with a refund request: the new ledger and the answer.
\* The same key and body name the same refund; anything else is refused when a
\* reason applies, and possibly when the amount is not an exact one.
Replays(ledger, q) ==
    {[ledger |-> ledger, answer |-> Accepted(ledger, i)] :
        i \in {j \in DOMAIN ledger : SameKey(ledger[j], q) /\ ledger[j].request = q}}

Refusals(ledger, price, q) ==
    LET why == Reasons(ledger, price, q) IN
    IF why # {} \/ q.form # "exact"
    THEN {[ledger |-> ledger, answer |-> Refusal(why)]}
    ELSE {}

Creations(ledger, price, q) ==
    LET new == Append(ledger, [request |-> q, amount |-> Worth(q, price - Total(ledger))]) IN
    IF Reasons(ledger, price, q) = {}
    THEN {[ledger |-> new, answer |-> Accepted(new, Len(new))]}
    ELSE {}

Outcomes(ledger, price, q) ==
    IF Replays(ledger, q) # {} THEN Replays(ledger, q)
    ELSE Refusals(ledger, price, q) \cup Creations(ledger, price, q)

\* What Razorpay does with an order: two orders may carry one receipt.
OrderOutcomes(orders, q) ==
    LET new == Append(orders, [request |-> q, amount |-> q.amount]) IN
    IF q.form = "exact" /\ q.amount >= Minimum
    THEN {[ledger |-> new, answer |-> Accepted(new, Len(new))]}
    ELSE {[ledger |-> orders, answer |-> Refusal({q.form})]}
=============================================================================

--------------------------- MODULE TestModeRunsProofs ---------------------------
(***************************************************************************)
(* For any number of commands, prices, payments, faults and late            *)
(* executions: what the experiments of live_e2e.py and live.py do to the    *)
(* account, and what their reports say of it.                              *)
(***************************************************************************)
EXTENDS TestModeRuns, TLAPS, FiniteSetTheorems, WellFoundedInduction

(***************************************************************************)
(* The scripts in a table: what each request is, and the label of those     *)
(* that ask for a refund.                                                   *)
(***************************************************************************)
Ops ==
    [link |-> << "create_link" >>,
     refresh |-> << "link", "payments" >>,
     live |-> << "refund", "refund" >>,
     header |-> << "refund", "refund" >>,
     matrix |-> << "list", "refund", "refund", "refund", "refund", "refund", "refund", "refund",
                   "refund", "refund", "list", "refund", "refund", "relist" >>,
     close |-> << "list", "refund", "refund", "list" >>,
     ledger |-> << "payment", "list" >>,
     dust |-> << "payment", "list", "refund", "payment", "list", "refund", "refund", "refund",
                 "refund", "refund", "payment", "list" >>,
     orders |-> << "order", "order", "order", "order", "order", "order", "order", "order" >>,
     contract |-> << "order", "order", "order", "order", "order", "order", "order", "order" >>,
     lab |-> << "new_lab", "lab", "new_lab", "lab" >>]

Asks ==
    [live |-> << "live", "live" >>,
     header |-> << "header", "header" >>,
     matrix |-> << "none", "below", "fraction", "over", "mismatch", "mismatch", "receipt", "receipt",
                   "unkeyed", "unkeyed", "none", "final", "final", "none" >>,
     close |-> << "none", "close", "close", "none" >>,
     ledger |-> << "none", "none" >>,
     dust |-> << "none", "none", "coerced", "none", "none", "one", "dust", "dust", "dust", "dust", "none", "none" >>]

Refunders == {"live", "header", "matrix", "close", "ledger", "dust"}

(***************************************************************************)
(* Parts of the invariant.                                                 *)
(***************************************************************************)
\* A session names a link made by live-payment-link, and a payment of such a link.
SessionFits(file, made, paid) ==
    /\ file \in Session
    /\ file.link \in 1..made
    /\ file.since \in 0..Len(paid)
    /\ file.payment \in 0..Len(paid)
    /\ file.payment # 0 => paid[file.payment].link # 0
    /\ file.captured => file.payment # 0 /\ paid[file.payment].captured

\* The account keeps its promise about the refunds of a payment.
LedgerFits(ledger, price) ==
    /\ Total(ledger) \in 0..price
    /\ \A i, j \in DOMAIN ledger :
         LET x == ledger[i].request
             y == ledger[j].request IN
         \/ x.key # None /\ x.key = y.key
         \/ x.receipt # None /\ x.receipt = y.receipt
         \/ x.owner = y.owner /\ x.label = y.label /\ x.label \in {"fraction", "dust"}
         => i = j
    /\ \A i \in DOMAIN ledger :
         /\ ledger[i].request.label \in {"close", "final", "dust"} => Total(ledger) = price
         /\ ledger[i].request.label \notin {"below", "one", "over"}

\* The payment a process refunds.
Target(run) == IF run.command.name = "live" THEN 1 ELSE run.file.payment

\* What a request is like, by its label.
Known(q) ==
    /\ q.label \in {"below", "one"} => q.form = "exact" /\ q.amount < Minimum
    /\ q.label = "fraction" => q.form = "fraction"
    /\ q.label = "mismatch" =>
         q.form = "exact" /\ q.amount <= 200 /\ q.key = Fresh(q.owner, "mismatch")
    /\ q.label = "receipt" =>
         q.form = "exact" /\ q.amount = 100 /\ q.receipt = Fresh(q.owner, "receipt")
    /\ q.label = "dust" => q.form = "omitted"
    /\ q.label = "final" => q.key = Fresh(q.owner, "final")

\* Request q for a refund of payment p was made by this process.
MadeBy(q, p, run, paid) ==
    LET c == run.command IN
    /\ run.at # "new"
    /\ c.name \in Refunders
    /\ p = Target(run)
    /\ c.name # "live" => p \in DOMAIN paid /\ paid[p].link # 0
    /\ q.label \in Labels
    /\ Known(q)
    /\ c.name = "live" => q.key = Fresh(q.owner, "live")
    /\ c.name = "header" => q.key = Fresh(q.owner, "header")
    /\ c.name = "close" =>
         IF c.identity = "header" THEN q.key = Fresh(q.owner, "close")
         ELSE q.receipt = Fresh(q.owner, "close")

\* A request that is to close its payment is large enough, one that is to be
\* too large is.
ClosesAll(q, total, price) ==
    /\ q.label \in {"close", "final"} => q.form = "exact" /\ q.amount + total >= price
    /\ q.label = "over" => q.form = "exact" /\ q.amount + total > price

\* Run r has no refund with this label.
Lacks(r, label, ledger) ==
    \A i \in DOMAIN ledger :
        ~ (ledger[i].request.owner = r /\ ledger[i].request.label = label)

\* Where a process is.
Active(run) == run.at \in {"exchange", "save", "write", "done"}

Placed(run, made, paid) ==
    LET c == run.command
        n == Len(run.answers) IN
    /\ run.at = "new" => n = 0
    /\ run.at = "exchange" => n < Len(Ops[c.name])
    /\ run.at \in {"save", "write", "done"} => n = Len(Ops[c.name])
    /\ run.at \in {"save", "write"} => Saves(c)
    /\ Active(run) /\ OnSession(c) => SessionFits(run.file, made, paid) /\ Admitted(c, run.file)

\* The answers to link and refresh are about links and payments there are.
Found(run, made, paid) ==
    LET c == run.command
        a == run.answers IN
    Active(run) =>
        /\ c.name = "link" /\ Len(a) = 1 =>
             a[1].id \in 1..made /\ a[1].count \in 0..Len(paid)
        /\ c.name = "refresh" /\ Len(a) > 0 => a[1].count \in 0..Len(paid)
        /\ c.name = "refresh" /\ run.at \in {"save", "write"} =>
             /\ a[2].id \in 1..Len(paid)
             /\ paid[a[2].id].link # 0
             /\ a[2].ok => paid[a[2].id].captured

\* A request with this label was answered with an error status: nobody knows
\* what became of it.
Errored(run, label) ==
    \E n \in DOMAIN run.answers :
        /\ Ops[run.command.name][n] = "refund" /\ Asks[run.command.name][n] = label
        /\ ~ run.answers[n].ok /\ run.answers[n].why = {"error"}

\* The refunds a process was told of are there and are its own; those it was
\* not told of are behind an error status.
Accounted(r, run, ledger) ==
    LET name == run.command.name
        a == run.answers IN
    /\ \A n \in DOMAIN a :
         Ops[name][n] = "refund" /\ a[n].ok =>
             /\ a[n].id \in DOMAIN ledger
             /\ ledger[a[n].id].request.owner = r
             /\ ledger[a[n].id].request.label = Asks[name][n]
    /\ \A i \in DOMAIN ledger :
         ledger[i].request.owner = r =>
             \/ \E n \in DOMAIN a : Ops[name][n] = "refund" /\ a[n].ok /\ a[n].id = i
             \/ Errored(run, ledger[i].request.label)

\* What it read was there, and what it read as left to refund still covers the rest.
Read(run, ledger, price) ==
    LET name == run.command.name
        a == run.answers IN
    /\ \A n \in DOMAIN a :
         Ops[name][n] \in {"list", "relist", "payment"} =>
             a[n].total <= Total(ledger) /\ a[n].count <= Len(ledger)
    /\ name \in {"close", "matrix"} /\ Len(a) > 0 /\ run.at = "exchange"
         => run.rest + Total(ledger) >= price

\* The first two orders of live-expanded-orders.
Ordered(r, run, placed) ==
    Active(run) /\ run.command.name = "contract" =>
        \A n \in DOMAIN run.answers \cap {1, 2} :
            LET a == run.answers[n] IN
            a.ok => /\ a.id \in DOMAIN placed
                    /\ placed[a.id].request.owner = r
                    /\ placed[a.id].request.receipt = Fresh(<<r, 1>>, "contract")

\* The effects of the fault lab's server.
Served(r, run, lab) ==
    LET a == run.answers
        n == Len(a) IN
    Active(run) /\ run.command.name = "lab" =>
        /\ n = 1 => lab.effects = << None >>
        /\ n = 3 => lab.effects = << Fresh(r, "lab") >>
        /\ n >= 2 => a[2].count = 2
        /\ n >= 4 => a[4].count = 1

\* The matrix, alone on a captured payment since its first reading.
Alone(r, run, ledger) ==
    \A i \in DOMAIN ledger : i > run.answers[1].count => ledger[i].request.owner = r

\* What its refunds before the second reading come to at most.
Weight(r, ledger) ==
    (IF Lacks(r, "fraction", ledger) THEN 0 ELSE 100)
    + (IF Lacks(r, "mismatch", ledger) THEN 0 ELSE 200)
    + (IF Lacks(r, "receipt", ledger) THEN 0 ELSE 100)

Bounded(r, run, ledger) ==
    LET a == run.answers IN
    run.command.name = "matrix" /\ Len(a) \in 1..7 /\ Alone(r, run, ledger) =>
        Total(ledger) <= a[1].total + Weight(r, ledger)

Sole(why, reason) == why \in {{reason}, {"error"}}

Explained(a) ==
    LET n == Len(a) IN
    /\ n >= 4 /\ ~ a[4].ok => Sole(a[4].why, "balance")
    /\ n >= 6 /\ a[5].ok /\ ~ a[6].ok => Sole(a[6].why, "conflict")
    /\ n >= 8 /\ a[7].ok /\ ~ a[8].ok => Sole(a[8].why, "duplicate")

\* The refunds that carry the identities the matrix tries again.
Held(r, a, ledger) ==
    /\ Len(a) >= 5 /\ a[5].ok =>
         ledger[a[5].id].request = Request(r, "mismatch", "exact", 100, Fresh(r, "mismatch"), None)
    /\ Len(a) >= 7 /\ a[7].ok =>
         ledger[a[7].id].request = Request(r, "receipt", "exact", 100, None, Fresh(r, "receipt"))

Roomy(r, run, ledger, price) ==
    LET a == run.answers
        n == Len(a) IN
    run.command.name = "matrix" /\ n > 0 =>
        /\ n <= 10 /\ run.at = "exchange" => run.rest >= 500 /\ run.rest + a[1].total = price
        /\ Held(r, a, ledger)
        /\ run.file.captured /\ Alone(r, run, ledger) => Explained(a)

\* What a process that refunds knows of its payment.
RefundsFit(r, run, books, price) ==
    Active(run) /\ run.command.name \in Refunders =>
        LET p == Target(run) IN
        /\ p \in DOMAIN books
        /\ Accounted(r, run, books[p])
        /\ Read(run, books[p], price)
        /\ Roomy(r, run, books[p], price)
        /\ Bounded(r, run, books[p])

(***************************************************************************)
(* The invariant.                                                          *)
(***************************************************************************)
Typed ==
    /\ plan \in Plans
    /\ links \in Nat
    /\ payments \in Seq([link : 0..links, captured : BOOLEAN])
    /\ Len(payments) <= plan.customers
    /\ session # None => SessionFits(session, links, payments)
    /\ ledgers \in [1..plan.customers -> Seq(Entry)]
    /\ orders \in Seq(Entry)
    /\ labs \in [DOMAIN runs -> Lab]
    /\ DOMAIN runs = DOMAIN plan.commands
    /\ \A r \in DOMAIN runs : runs[r] \in Process
    /\ faults \in 0..plan.faults

\* A fractional refund that may still be made is the only one of its maker.
Single(x) ==
    x.op = "refund" /\ x.request.label = "fraction" =>
        /\ Lacks(x.request.owner, "fraction", ledgers[x.payment])
        /\ \A y \in late :
             y.op = "refund" /\ y.request.owner = x.request.owner /\ y.request.label = "fraction"
                 => y = x

\* A refund that may still be made is one its maker was not told of, and its
\* maker has stopped or was answered with an error status.
LateFits(x) ==
    /\ x \in Underway
    /\ x.op = "refund" =>
         LET q == x.request
             owner == q.owner IN
         /\ x.payment \in DOMAIN ledgers
         /\ owner \in DOMAIN runs
         /\ ~ Active(runs[owner]) \/ Errored(runs[owner], q.label)
         /\ MadeBy(q, x.payment, runs[owner], payments)
         /\ ClosesAll(q, Total(ledgers[x.payment]), plan.price)
         /\ Single(x)

EntriesFit ==
    \A p \in DOMAIN ledgers : \A i \in DOMAIN ledgers[p] :
        LET q == ledgers[p][i].request IN
        q.owner \in DOMAIN runs /\ MadeBy(q, p, runs[q.owner], payments)

Fits(r, run) ==
    /\ Placed(run, links, payments)
    /\ Found(run, links, payments)
    /\ Ordered(r, run, orders)
    /\ Served(r, run, labs[r])
    /\ RefundsFit(r, run, ledgers, plan.price)

AccountInv ==
    /\ Typed
    /\ \A p \in DOMAIN ledgers : LedgerFits(ledgers[p], plan.price)
    /\ EntriesFit
    /\ \A x \in late : LateFits(x)
    /\ \A r \in DOMAIN runs : Fits(r, runs[r])

-----------------------------------------------------------------------------
(* Sums of ledgers.                                                        *)

\* Every set of naturals that is not empty has a least element.
LEMMA LeastNatural ==
    ASSUME NEW T \in SUBSET Nat, T # {}
    PROVE  \E n \in T : \A m \in T : n <= m
<1>1. PICK n \in T : \A m \in T : <<m, n>> \notin OpToRel(<, Nat)
  BY NatLessThanWellFounded, WFMin
<1>2. \A m \in T : m < n => <<m, n>> \in OpToRel(<, Nat)
  BY DEF OpToRel
<1>3. \A m \in T : ~(m < n)
  BY <1>1, <1>2, Zenon
<1> QED BY <1>3

\* f holds the values of a loop of N turns over S.
Loops(f, S, start, N, Turn) ==
    /\ f \in [0..N -> S]
    /\ f[0] = start
    /\ \A n \in 1..N : f[n] = Turn[<<f[n - 1], n>>]

\* Every loop runs to its end: there is no first turn that it does not reach.
LEMMA LoopRuns ==
    ASSUME NEW S, NEW start \in S, NEW N \in Nat, NEW Turn \in [S \X (1..N) -> S]
    PROVE  \E f : Loops(f, S, start, N, Turn)
<1> DEFINE Reached(k) ==
               \E f \in [0..k -> S] :
                  f[0] = start /\ \A n \in 1..k : f[n] = Turn[<<f[n - 1], n>>]
           T == {k \in 0..N : ~ Reached(k)}
<1>1. SUFFICES ASSUME T # {} PROVE FALSE
  <2>1. N \in T \/ Reached(N)
    OBVIOUS
  <2> QED BY <2>1 DEF Loops
<1>2. PICK k \in T : \A m \in T : k <= m
  <2>1. T \in SUBSET Nat
    OBVIOUS
  <2> HIDE DEF T
  <2> QED BY <1>1, <2>1, LeastNatural
<1>3. k # 0
  <2>1. [i \in 0..0 |-> start] \in [0..0 -> S] /\ [i \in 0..0 |-> start][0] = start
    OBVIOUS
  <2>2. \A n \in 1..0 : FALSE
    OBVIOUS
  <2>3. Reached(0)
    BY <2>1, <2>2
  <2> HIDE DEF Reached
  <2> QED BY <2>3
<1>4. Reached(k - 1)
  <2>1. k - 1 \in 0..N /\ k - 1 \notin T
    BY <1>2, <1>3
  <2> QED BY <2>1
<1>5. PICK f \in [0..(k - 1) -> S] :
          f[0] = start /\ \A n \in 1..(k - 1) : f[n] = Turn[<<f[n - 1], n>>]
  BY <1>4
<1> DEFINE g == [i \in 0..k |-> IF i < k THEN f[i] ELSE Turn[<<f[k - 1], k>>]]
<1>6. k \in 1..N
  BY <1>3
<1>7. g \in [0..k -> S] /\ g[0] = start
  BY <1>5, <1>6
<1>8. ASSUME NEW n \in 1..k PROVE g[n] = Turn[<<g[n - 1], n>>]
  <2>1. n - 1 \in 0..k /\ n - 1 < k /\ n \in 0..k
    BY <1>6
  <2>2. g[n - 1] = f[n - 1]
    BY <2>1
  <2>3. CASE n < k
    <3>1. g[n] = f[n] /\ n \in 1..(k - 1)
      BY <2>1, <2>3
    <3> QED BY <3>1, <2>2, <1>5
  <2>4. CASE n = k
    <3>1. g[n] = Turn[<<f[k - 1], k>>]
      BY <2>1, <2>4
    <3> QED BY <3>1, <2>4, <2>2
  <2> QED BY <2>3, <2>4, <1>6
<1>9. Reached(k)
  <2> HIDE DEF g
  <2> QED BY <1>7, <1>8
<1> QED BY <1>2, <1>9

\* f holds the sums of the first refunds of a ledger.
Sums(f, ledger) ==
    /\ f \in [0..Len(ledger) -> Nat]
    /\ f[0] = 0
    /\ \A n \in 1..Len(ledger) : f[n] = f[n - 1] + ledger[n].amount

LEMMA TotalSums ==
    ASSUME NEW ledger \in Seq(Entry)
    PROVE  \E f : Sums(f, ledger) /\ Total(ledger) = f[Len(ledger)]
<1> DEFINE N == Len(ledger)
           S == Nat
           Turn == [x \in Nat \X (1..N) |-> x[1] + ledger[x[2]].amount]
           Loop(h) == [n \in 0..N |-> IF n = 0 THEN 0 ELSE h[n - 1] + ledger[n].amount]
<1>1. N \in Nat /\ \A n \in 1..N : ledger[n].amount \in Nat
  <2>1. \A n \in 1..N : ledger[n] \in Entry
    OBVIOUS
  <2> QED BY <2>1 DEF Entry
<1>2. Turn \in [S \X (1..N) -> S]
  BY <1>1
<1>3. PICK f : Loops(f, S, 0, N, Turn)
  <2>1. 0 \in S
    OBVIOUS
  <2> HIDE DEF S, N, Turn
  <2> QED BY <2>1, <1>1, <1>2, LoopRuns
<1>4. Sums(f, ledger)
  <2>1. f \in [0..N -> Nat] /\ f[0] = 0
    BY <1>3 DEF Loops
  <2>2. ASSUME NEW n \in 1..N PROVE f[n] = f[n - 1] + ledger[n].amount
    <3>1. n - 1 \in 0..N /\ f[n - 1] \in Nat
      BY <1>1, <2>1
    <3>2. f[n] = Turn[<<f[n - 1], n>>]
      BY <1>3 DEF Loops
    <3> QED BY <3>1, <3>2
  <2> QED BY <2>1, <2>2 DEF Sums
<1>5. f = Loop(f)
  <2> HIDE DEF N
  <2>1. f \in [0..N -> Nat] /\ f[0] = 0 /\ \A n \in 1..N : f[n] = f[n - 1] + ledger[n].amount
    BY <1>4 DEF Sums, N
  <2> QED BY <2>1, <1>1
<1> DEFINE loop == CHOOSE h : h = Loop(h)
<1>6. loop = Loop(loop)
  <2> HIDE DEF Loop
  <2> QED BY <1>5
<1>7. Total(ledger) = loop[N]
  BY DEF Total
<1> HIDE DEF loop
<1>8. loop \in [0..N -> Nat]
  <2> DEFINE Wrong == {n \in 0..N : loop[n] \notin Nat}
  <2>1. Wrong = {}
    <3>1. SUFFICES ASSUME Wrong # {} PROVE FALSE
      OBVIOUS
    <3>2. PICK n \in Wrong : \A m \in Wrong : n <= m
      <4>1. Wrong \in SUBSET Nat
        OBVIOUS
      <4> HIDE DEF Wrong
      <4> QED BY <3>1, <4>1, LeastNatural
    <3>3. loop[n] = IF n = 0 THEN 0 ELSE loop[n - 1] + ledger[n].amount
      BY <1>6
    <3>4. n # 0 => n - 1 \in 0..N /\ ~(n <= n - 1) /\ n \in 1..N
      BY <1>1
    <3>5. n # 0 => loop[n - 1] \in Nat
      BY <3>2, <3>4
    <3> QED BY <1>1, <3>3, <3>4, <3>5
  <2>2. DOMAIN loop = 0..N /\ loop = [n \in 0..N |-> loop[n]]
    <3>1. loop = [n \in 0..N |-> IF n = 0 THEN 0 ELSE loop[n - 1] + ledger[n].amount]
      BY <1>6
    <3> QED BY <3>1
  <2> QED BY <2>1, <2>2
<1>9. Sums(loop, ledger)
  <2>1. \A n \in 0..N : loop[n] = IF n = 0 THEN 0 ELSE loop[n - 1] + ledger[n].amount
    BY <1>6
  <2> QED BY <1>1, <1>8, <2>1 DEF Sums
<1> QED BY <1>7, <1>9

LEMMA SumsAgree ==
    ASSUME NEW s \in Seq(Entry), NEW t \in Seq(Entry), NEW f, NEW g, Sums(f, s), Sums(g, t),
           Len(s) <= Len(t), \A n \in 1..Len(s) : s[n] = t[n]
    PROVE  \A n \in 0..Len(s) : f[n] = g[n]
<1> DEFINE Wrong == {n \in 0..Len(s) : f[n] # g[n]}
<1>1. SUFFICES ASSUME Wrong # {} PROVE FALSE
  OBVIOUS
<1>2. PICK n \in Wrong : \A m \in Wrong : n <= m
  <2>1. Wrong \in SUBSET Nat
    OBVIOUS
  <2> HIDE DEF Wrong
  <2> QED BY <1>1, <2>1, LeastNatural
<1>3. f[0] = 0 /\ g[0] = 0
  BY DEF Sums
<1>4. n \in 1..Len(s) /\ n \in 1..Len(t) /\ n - 1 \in 0..Len(s) /\ ~(n <= n - 1)
  BY <1>2, <1>3
<1>5. f[n - 1] = g[n - 1]
  BY <1>2, <1>4
<1>6. f[n] = f[n - 1] + s[n].amount /\ g[n] = g[n - 1] + t[n].amount
  BY <1>4 DEF Sums
<1> QED BY <1>2, <1>4, <1>5, <1>6

\* What a refund adds to the sum of its ledger.
LEMMA TotalAppend ==
    ASSUME NEW ledger \in Seq(Entry), NEW e \in Entry
    PROVE  Total(Append(ledger, e)) = Total(ledger) + e.amount
<1> DEFINE new == Append(ledger, e)
           n == Len(ledger)
<1>1. new \in Seq(Entry) /\ n \in Nat /\ Len(new) = n + 1 /\ new[n + 1] = e
      /\ \A i \in 1..n : new[i] = ledger[i]
  OBVIOUS
<1>2. PICK f : Sums(f, ledger) /\ Total(ledger) = f[n]
  BY TotalSums
<1>3. PICK g : Sums(g, new) /\ Total(new) = g[n + 1]
  <2> HIDE DEF new, n
  <2> QED BY <1>1, TotalSums
<1>4. f[n] = g[n]
  <2>1. n <= Len(new) /\ n \in 0..n
    BY <1>1
  <2>2. \A i \in 0..n : f[i] = g[i]
    <3> HIDE DEF new
    <3> QED BY <1>1, <1>2, <1>3, <2>1, SumsAgree
  <2> QED BY <2>1, <2>2
<1>5. g[n + 1] = g[n] + e.amount
  <2>0. n \in Nat /\ Len(new) = n + 1 /\ new[n + 1] = e
    BY <1>1
  <2> HIDE DEF new, n
  <2>1. PICK m \in 1..Len(new) : m = n + 1
    BY <2>0
  <2>2. g[m] = g[m - 1] + new[m].amount
    BY <1>3 DEF Sums
  <2>3. m - 1 = n
    BY <2>0, <2>1
  <2> QED BY <2>0, <2>1, <2>2, <2>3
<1> QED BY <1>2, <1>3, <1>4, <1>5

LEMMA TotalNatural ==
    ASSUME NEW ledger \in Seq(Entry)
    PROVE  Total(ledger) \in Nat
<1>1. PICK f : Sums(f, ledger) /\ Total(ledger) = f[Len(ledger)]
  BY TotalSums
<1> QED BY <1>1 DEF Sums

LEMMA TotalNothing == Total(<<>>) = 0
<1>1. <<>> \in Seq(Entry) /\ Len(<<>>) = 0
  OBVIOUS
<1>2. PICK f : Sums(f, <<>>) /\ Total(<<>>) = f[Len(<<>>)]
  BY <1>1, TotalSums
<1> QED BY <1>1, <1>2 DEF Sums

-----------------------------------------------------------------------------
(* The scripts.                                                            *)

LEMMA StepFields ==
    /\ \A op, q : Post(op, q).op = op /\ Post(op, q).request = q
    /\ \A op : Get(op).op = op
    /\ \A lo, hi : /\ List(lo, hi).op = "list"
                   /\ Relist(hi).op = "relist"
                   /\ Relist(hi).lo = 0 /\ Relist(hi).hi = hi
                   /\ List(lo, hi).lo = lo /\ List(lo, hi).hi = hi
    /\ \A r, label, form, amount, key, receipt :
         LET step == Refund(r, label, form, amount, key, receipt) IN
         step.op = "refund" /\ step.request = Request(r, label, form, amount, key, receipt)
    /\ \A r, label, form, amount, receipt :
         LET step == Order(r, label, form, amount, receipt) IN
         step.op = "order" /\ step.request = Request(r, label, form, amount, None, receipt)
<1>1. \A op, q : Post(op, q).op = op /\ Post(op, q).request = q
  BY DEF Post
<1>2. \A lo, hi : /\ List(lo, hi).op = "list"
                 /\ Relist(hi).op = "relist" /\ Relist(hi).lo = 0 /\ Relist(hi).hi = hi
                 /\ List(lo, hi).lo = lo /\ List(lo, hi).hi = hi
  BY DEF List, Relist
<1> QED BY <1>1, <1>2 DEF Get, Refund, Order

LEMMA RequestFields ==
    \A r, label, form, amount, key, receipt :
        LET q == Request(r, label, form, amount, key, receipt) IN
        /\ q.owner = r /\ q.label = label /\ q.form = form /\ q.amount = amount
        /\ q.key = key /\ q.receipt = receipt
BY DEF Request

\* What each request of a script is, whatever was left to refund.
LEMMA ScriptShape ==
    ASSUME NEW r, NEW c, c.name \in Commands, NEW rest, NEW price
    PROVE  /\ Len(Script(r, c, rest, price)) = Len(Ops[c.name])
           /\ \A n \in 1..Len(Ops[c.name]) : Script(r, c, rest, price)[n].op = Ops[c.name][n]
<1>1. CASE c.name = "link"
  <2>1. Ops[c.name] = << "create_link" >>
    BY <1>1 DEF Ops
  <2>2. Script(r, c, rest, price) = << Get("create_link") >>
    BY <1>1 DEF Script
  <2> QED BY <2>1, <2>2, StepFields
<1>2. CASE c.name = "refresh"
  <2>1. Ops[c.name] = << "link", "payments" >>
    BY <1>2 DEF Ops
  <2>2. Script(r, c, rest, price) = << Get("link"), Get("payments") >>
    BY <1>2 DEF Script
  <2> QED BY <2>1, <2>2, StepFields
<1>3. CASE c.name = "live"
  <2>1. Ops[c.name] = << "refund", "refund" >>
    BY <1>3 DEF Ops
  <2>2. Script(r, c, rest, price) = LiveScript(r, c)
    BY <1>3 DEF Script
  <2> QED BY <2>1, <2>2, StepFields DEF LiveScript
<1>4. CASE c.name = "header"
  <2>1. Ops[c.name] = << "refund", "refund" >>
    BY <1>4 DEF Ops
  <2>2. Script(r, c, rest, price) = HeaderScript(r, c)
    BY <1>4 DEF Script
  <2> QED BY <2>1, <2>2, StepFields DEF HeaderScript
<1>5. CASE c.name = "matrix"
  <2>1. Ops[c.name] = << "list", "refund", "refund", "refund", "refund", "refund", "refund",
           "refund", "refund", "refund", "list", "refund", "refund", "relist" >>
    BY <1>5 DEF Ops
  <2>2. Script(r, c, rest, price) = MatrixScript(r, rest, price)
    BY <1>5 DEF Script
  <2> QED BY <2>1, <2>2, StepFields DEF MatrixScript
<1>6. CASE c.name = "close"
  <2>1. Ops[c.name] = << "list", "refund", "refund", "list" >>
    BY <1>6 DEF Ops
  <2>2. Script(r, c, rest, price) = CloseScript(r, c, rest, price)
    BY <1>6 DEF Script
  <2> QED BY <2>1, <2>2, StepFields DEF CloseScript
<1>7. CASE c.name = "ledger"
  <2>1. Ops[c.name] = << "payment", "list" >>
    BY <1>7 DEF Ops
  <2>2. Script(r, c, rest, price) = LedgerScript(price)
    BY <1>7 DEF Script
  <2> QED BY <2>1, <2>2, StepFields DEF LedgerScript
<1>8. CASE c.name = "dust"
  <2>1. Ops[c.name] = << "payment", "list", "refund", "payment", "list", "refund", "refund",
           "refund", "refund", "refund", "payment", "list" >>
    BY <1>8 DEF Ops
  <2>2. Script(r, c, rest, price) = DustScript(r, price)
    BY <1>8 DEF Script
  <2> QED BY <2>1, <2>2, StepFields DEF DustScript
<1>9. CASE c.name = "orders"
  <2>1. Ops[c.name] = << "order", "order", "order", "order", "order", "order", "order",
           "order" >>
    BY <1>9 DEF Ops
  <2>2. Script(r, c, rest, price) = OrdersScript(r)
    BY <1>9 DEF Script
  <2>3. Len(OrdersScript(r)) = 8 /\ \A n \in 1..8 : OrdersScript(r)[n].op = "order"
    BY StepFields DEF OrdersScript
  <2> QED BY <2>1, <2>2, <2>3
<1>10. CASE c.name = "contract"
  <2>1. Ops[c.name] = << "order", "order", "order", "order", "order", "order", "order",
           "order" >>
    BY <1>10 DEF Ops
  <2>2. Script(r, c, rest, price) = ContractScript(r)
    BY <1>10 DEF Script
  <2>3. Len(ContractScript(r)) = 8 /\ \A n \in 1..8 : ContractScript(r)[n].op = "order"
    BY StepFields DEF ContractScript
  <2> QED BY <2>1, <2>2, <2>3
<1>11. CASE c.name = "lab"
  <2>1. Ops[c.name] = << "new_lab", "lab", "new_lab", "lab" >>
    BY <1>11 DEF Ops
  <2>2. Script(r, c, rest, price) = LabScript(r)
    BY <1>11 DEF Script
  <2> QED BY <2>1, <2>2, StepFields DEF LabScript
<1> QED BY <1>1, <1>2, <1>3, <1>4, <1>5, <1>6, <1>7, <1>8, <1>9, <1>10, <1>11 DEF Commands

LEMMA CommandNames ==
    ASSUME NEW c \in Command
    PROVE  c.name \in Commands /\ c.identity \in {"header", "receipt"} /\ c.amount \in Nat
BY DEF Command

LEMMA RequestTyped ==
    ASSUME NEW r \in Runs, NEW label \in Purposes, NEW form \in {"exact", "fraction", "omitted"},
           NEW amount \in Nat, NEW key \in Identity, NEW receipt \in Identity
    PROVE  Request(r, label, form, amount, key, receipt) \in RequestType
BY DEF Request, RequestType

LEMMA FreshTyped ==
    ASSUME NEW r \in Runs, NEW label \in Purposes
    PROVE  Fresh(r, label) \in Identity /\ \A n \in Nat : Fresh(<<r, n>>, label) \in Identity
BY DEF Fresh, Identity

\* The refunds of the matrix, one by one.
LEMMA MatrixRequests ==
    ASSUME NEW r, NEW rest, NEW price
    PROVE  LET at(n) == MatrixScript(r, rest, price)[n].request IN
           /\ at(2) = Request(r, "below", "exact", 99, None, None)
           /\ at(3) = Request(r, "fraction", "fraction", 100, None, None)
           /\ at(4) = Request(r, "over", "exact", rest + 1, None, None)
           /\ at(5) = Request(r, "mismatch", "exact", 100, Fresh(r, "mismatch"), None)
           /\ at(6) = Request(r, "mismatch", "exact", 200, Fresh(r, "mismatch"), None)
           /\ \A n \in {7, 8} : at(n) = Request(r, "receipt", "exact", 100, None, Fresh(r, "receipt"))
           /\ \A n \in {9, 10} : at(n) = Request(r, "unkeyed", "exact", 100, None, None)
           /\ \A n \in {12, 13} : at(n) = Request(r, "final", "exact", rest, Fresh(r, "final"), None)
BY StepFields DEF MatrixScript

LEMMA DustRequests ==
    ASSUME NEW r, NEW price
    PROVE  LET at(n) == DustScript(r, price)[n].request IN
           /\ at(3) = Request(r, "coerced", "fraction", 100, None, None)
           /\ at(6) = Request(r, "one", "exact", 1, None, None)
           /\ \A n \in {7, 8} : at(n) = Request(r, "dust", "omitted", 0, Fresh(r, "dust"), None)
           /\ \A n \in {9, 10} : at(n) = Request(r, "dust", "omitted", 0, None, Fresh(r, "dust"))
BY StepFields DEF DustScript

LEMMA TwiceRequests ==
    ASSUME NEW r, NEW c, NEW rest, NEW price
    PROVE  /\ \A n \in {1, 2} : LiveScript(r, c)[n].request
                  = Request(r, "live", "exact", c.amount, Fresh(r, "live"), None)
           /\ \A n \in {1, 2} : HeaderScript(r, c)[n].request
                  = Request(r, "header", "exact", c.amount, Fresh(r, "header"), None)
           /\ \A n \in {2, 3} : CloseScript(r, c, rest, price)[n].request
                  = IF c.identity = "header"
                    THEN Request(r, "close", "exact", rest, Fresh(r, "close"), None)
                    ELSE Request(r, "close", "exact", rest, None, Fresh(r, "close"))
<1>1. \A n \in {1, 2} : LiveScript(r, c)[n].request
          = Request(r, "live", "exact", c.amount, Fresh(r, "live"), None)
  BY StepFields DEF LiveScript
<1>2. \A n \in {1, 2} : HeaderScript(r, c)[n].request
          = Request(r, "header", "exact", c.amount, Fresh(r, "header"), None)
  BY StepFields DEF HeaderScript
<1>3. \A n \in {2, 3} : CloseScript(r, c, rest, price)[n].request
          = IF c.identity = "header"
            THEN Request(r, "close", "exact", rest, Fresh(r, "close"), None)
            ELSE Request(r, "close", "exact", rest, None, Fresh(r, "close"))
  BY StepFields DEF CloseScript
<1> QED BY <1>1, <1>2, <1>3

\* Only some commands refund.
LEMMA Refunding ==
    ASSUME NEW name \in Commands, NEW n \in 1..Len(Ops[name]), Ops[name][n] = "refund"
    PROVE  /\ name \in Refunders
           /\ name = "live" => n \in {1, 2}
           /\ name = "header" => n \in {1, 2}
           /\ name = "close" => n \in {2, 3}
           /\ name = "matrix" => n \in {2, 3, 4, 5, 6, 7, 8, 9, 10, 12, 13}
           /\ name = "dust" => n \in {3, 6, 7, 8, 9, 10}
           /\ name # "ledger"
<1> DEFINE refunds(o) == {i \in 1..Len(o) : o[i] = "refund"}
<1>1. n \in refunds(Ops[name])
  OBVIOUS
<1>2. ASSUME name = "link" PROVE refunds(Ops[name]) = {}
  BY <1>2 DEF Ops
<1>3. ASSUME name = "refresh" PROVE refunds(Ops[name]) = {}
  BY <1>3 DEF Ops
<1>4. ASSUME name = "live" PROVE refunds(Ops[name]) = {1, 2}
  BY <1>4 DEF Ops
<1>5. ASSUME name = "header" PROVE refunds(Ops[name]) = {1, 2}
  BY <1>5 DEF Ops
<1>6. ASSUME name = "matrix" PROVE refunds(Ops[name]) = {2, 3, 4, 5, 6, 7, 8, 9, 10, 12, 13}
  BY <1>6 DEF Ops
<1>7. ASSUME name = "close" PROVE refunds(Ops[name]) = {2, 3}
  BY <1>7 DEF Ops
<1>8. ASSUME name = "ledger" PROVE refunds(Ops[name]) = {}
  BY <1>8 DEF Ops
<1>9. ASSUME name = "dust" PROVE refunds(Ops[name]) = {3, 6, 7, 8, 9, 10}
  BY <1>9 DEF Ops
<1>10. ASSUME name = "orders" PROVE refunds(Ops[name]) = {}
  BY <1>10 DEF Ops
<1>11. ASSUME name = "contract" PROVE refunds(Ops[name]) = {}
  BY <1>11 DEF Ops
<1>12. ASSUME name = "lab" PROVE refunds(Ops[name]) = {}
  BY <1>12 DEF Ops
<1> HIDE DEF refunds
<1> QED BY <1>1, <1>2, <1>3, <1>4, <1>5, <1>6, <1>7, <1>8, <1>9, <1>10, <1>11, <1>12 DEF Commands, Refunders

\* What holds of every request for a refund.
Proper(q, r, c, n, rest) ==
    /\ q \in RequestType
    /\ q.owner = r
    /\ q.label = Asks[c.name][n]
    /\ q.label \in Labels
    /\ Known(q)
    /\ c.name = "live" => q.key = Fresh(r, "live")
    /\ c.name = "header" => q.key = Fresh(r, "header")
    /\ c.name = "close" =>
         IF c.identity = "header" THEN q.key = Fresh(r, "close") ELSE q.receipt = Fresh(r, "close")
    /\ q.label \in {"close", "final", "over"} =>
         /\ q.form = "exact" /\ q.amount = IF q.label = "over" THEN rest + 1 ELSE rest
         /\ c.name \in {"close", "matrix"} /\ n > 1

LEMMA PurposesOf ==
    /\ {"live", "header", "close", "below", "fraction", "over", "mismatch", "receipt", "unkeyed",
        "final", "coerced", "one", "dust"} \subseteq Labels
    /\ Asks["live"] = << "live", "live" >>
    /\ Asks["header"] = << "header", "header" >>
    /\ Asks["close"] = << "none", "close", "close", "none" >>
    /\ Asks["matrix"] = << "none", "below", "fraction", "over", "mismatch", "mismatch", "receipt",
                           "receipt", "unkeyed", "unkeyed", "none", "final", "final", "none" >>
    /\ Asks["dust"] = << "none", "none", "coerced", "none", "none", "one", "dust", "dust", "dust",
                         "dust", "none", "none" >>
BY DEF Asks, Labels

LEMMA MatrixAsks ==
    /\ Asks["matrix"][2] = "below" /\ Asks["matrix"][3] = "fraction" /\ Asks["matrix"][4] = "over"
    /\ \A n \in {5, 6} : Asks["matrix"][n] = "mismatch"
    /\ \A n \in {7, 8} : Asks["matrix"][n] = "receipt"
    /\ \A n \in {9, 10} : Asks["matrix"][n] = "unkeyed"
    /\ \A n \in {12, 13} : Asks["matrix"][n] = "final"
BY DEF Asks

LEMMA RefundStep ==
    ASSUME NEW r \in Runs, NEW c \in Command, NEW rest \in Nat, NEW price,
           NEW n \in 1..Len(Ops[c.name]), Ops[c.name][n] = "refund"
    PROVE  Proper(Script(r, c, rest, price)[n].request, r, c, n, rest)
<1> DEFINE q == Script(r, c, rest, price)[n].request
<1> SUFFICES Proper(q, r, c, n, rest)
  OBVIOUS
<1>0. c.name \in Commands /\ c.identity \in {"header", "receipt"} /\ c.amount \in Nat
  BY CommandNames
<1>1. ASSUME NEW label \in Labels, NEW form \in {"exact", "fraction", "omitted"},
             NEW amount \in Nat, NEW key \in Identity, NEW receipt \in Identity
      PROVE  Request(r, label, form, amount, key, receipt) \in RequestType
  <2>1. label \in Purposes
    BY DEF Purposes
  <2> QED BY <2>1, RequestTyped
<1>2. None \in Identity /\ \A label \in Labels : Fresh(r, label) \in Identity
  <2>1. Labels \subseteq Purposes
    BY DEF Purposes
  <2> QED BY <2>1, FreshTyped DEF Identity
<1>3. CASE c.name = "live"
  <2>1. q = Request(r, "live", "exact", c.amount, Fresh(r, "live"), None)
    BY <1>0, <1>3, Refunding, TwiceRequests DEF Script
  <2> HIDE DEF q
  <2>2. q \in RequestType
    BY <1>0, <1>1, <1>2, <2>1, PurposesOf
  <2>3. q.owner = r /\ q.label = "live" /\ q.key = Fresh(r, "live")
    BY <2>1, RequestFields
  <2>4. n \in {1, 2} /\ Asks[c.name][n] = "live" /\ "live" \in Labels
    BY SMTT(20), <1>0, <1>3, Refunding, PurposesOf
  <2>5. Known(q)
    BY <2>3 DEF Known
  <2> QED BY <1>3, <2>2, <2>3, <2>4, <2>5 DEF Proper
<1>4. CASE c.name = "header"
  <2>1. q = Request(r, "header", "exact", c.amount, Fresh(r, "header"), None)
    BY <1>0, <1>4, Refunding, TwiceRequests DEF Script
  <2> HIDE DEF q
  <2>2. q \in RequestType
    BY <1>0, <1>1, <1>2, <2>1, PurposesOf
  <2>3. q.owner = r /\ q.label = "header" /\ q.key = Fresh(r, "header")
    BY <2>1, RequestFields
  <2>4. n \in {1, 2} /\ Asks[c.name][n] = "header" /\ "header" \in Labels
    BY SMTT(20), <1>0, <1>4, Refunding, PurposesOf
  <2>5. Known(q)
    BY <2>3 DEF Known
  <2> QED BY <1>4, <2>2, <2>3, <2>4, <2>5 DEF Proper
<1>5. CASE c.name = "close"
  <2>1. q = IF c.identity = "header"
            THEN Request(r, "close", "exact", rest, Fresh(r, "close"), None)
            ELSE Request(r, "close", "exact", rest, None, Fresh(r, "close"))
    BY <1>0, <1>5, Refunding, TwiceRequests DEF Script
  <2> HIDE DEF q
  <2>2. q \in RequestType
    BY <1>1, <1>2, <2>1, PurposesOf
  <2>3. q.owner = r /\ q.label = "close" /\ q.form = "exact" /\ q.amount = rest
        /\ IF c.identity = "header" THEN q.key = Fresh(r, "close") ELSE q.receipt = Fresh(r, "close")
    BY <2>1, RequestFields
  <2>4. n \in {2, 3} /\ Asks[c.name][n] = "close" /\ "close" \in Labels
    BY <1>0, <1>5, Refunding, PurposesOf
  <2>5. Known(q)
    BY <2>3 DEF Known
  <2> QED BY <1>5, <2>2, <2>3, <2>4, <2>5 DEF Proper
<1>6. CASE c.name = "matrix"
  <2>1. q = MatrixScript(r, rest, price)[n].request
    BY <1>0, <1>6 DEF Script
  <2>2. n \in {2, 3, 4, 5, 6, 7, 8, 9, 10, 12, 13}
    BY <1>0, <1>6, Refunding
  <2>3. Asks[c.name] = << "none", "below", "fraction", "over", "mismatch", "mismatch", "receipt",
                          "receipt", "unkeyed", "unkeyed", "none", "final", "final", "none" >>
    BY <1>6, PurposesOf
  <2> HIDE DEF q
  <2>4. ASSUME NEW label \in Labels, q \in RequestType, q.owner = r, q.label = label,
               Asks[c.name][n] = label, Known(q),
               label \in {"close", "final", "over"} =>
                   /\ q.form = "exact" /\ q.amount = IF q.label = "over" THEN rest + 1 ELSE rest
                   /\ n > 1
        PROVE  Proper(q, r, c, n, rest)
    BY <1>6, <2>4 DEF Proper
  <2>5. CASE n \in {2, 3, 4}
    <3>1. \/ n = 2 /\ q = Request(r, "below", "exact", 99, None, None)
          \/ n = 3 /\ q = Request(r, "fraction", "fraction", 100, None, None)
          \/ n = 4 /\ q = Request(r, "over", "exact", rest + 1, None, None)
      BY <2>1, <2>5, MatrixRequests
    <3>2. rest + 1 \in Nat
      OBVIOUS
    <3>3. {"below", "fraction", "over"} \subseteq Labels
      BY PurposesOf
    <3>4. q \in RequestType
      BY <1>1, <1>2, <3>1, <3>2, <3>3
    <3>5. q.owner = r /\ q.label = Asks[c.name][n] /\ q.label \in {"below", "fraction", "over"}
      BY SMTT(20), <2>3, <3>1, RequestFields
    <3>6. Known(q)
      BY <3>1, RequestFields DEF Known, Minimum
    <3>7. q.label = "over" => q.form = "exact" /\ q.amount = rest + 1 /\ n > 1
      BY <3>1, RequestFields
    <3> QED BY <2>4, <3>3, <3>4, <3>5, <3>6, <3>7
  <2>6. CASE n \in {5, 6}
    <3>1. \/ q = Request(r, "mismatch", "exact", 100, Fresh(r, "mismatch"), None)
          \/ q = Request(r, "mismatch", "exact", 200, Fresh(r, "mismatch"), None)
      BY <2>1, <2>6, MatrixRequests
    <3>2. "mismatch" \in Labels /\ Asks[c.name][n] = "mismatch"
      BY <1>6, <2>6, PurposesOf, MatrixAsks
    <3>3. q \in RequestType /\ q.owner = r /\ q.label = "mismatch"
      BY <1>1, <1>2, <3>1, <3>2, RequestFields
    <3>4. Known(q)
      BY <3>1, RequestFields DEF Known
    <3> QED BY <2>4, <3>2, <3>3, <3>4
  <2>7. CASE n \in {7, 8}
    <3>1. q = Request(r, "receipt", "exact", 100, None, Fresh(r, "receipt"))
      BY <2>1, <2>7, MatrixRequests
    <3>2. "receipt" \in Labels /\ Asks[c.name][n] = "receipt"
      BY <1>6, <2>7, PurposesOf, MatrixAsks
    <3>3. q \in RequestType /\ q.owner = r /\ q.label = "receipt"
      BY <1>1, <1>2, <3>1, <3>2, RequestFields
    <3>4. Known(q)
      BY <3>1, RequestFields DEF Known
    <3> QED BY <2>4, <3>2, <3>3, <3>4
  <2>8. CASE n \in {9, 10}
    <3>1. q = Request(r, "unkeyed", "exact", 100, None, None)
      BY <2>1, <2>8, MatrixRequests
    <3>2. "unkeyed" \in Labels /\ Asks[c.name][n] = "unkeyed"
      BY <1>6, <2>8, PurposesOf, MatrixAsks
    <3>3. q \in RequestType /\ q.owner = r /\ q.label = "unkeyed"
      BY <1>1, <1>2, <3>1, <3>2, RequestFields
    <3>4. Known(q)
      BY <3>3 DEF Known
    <3> QED BY <2>4, <3>2, <3>3, <3>4
  <2>9. CASE n \in {12, 13}
    <3>1. q = Request(r, "final", "exact", rest, Fresh(r, "final"), None)
      BY <2>1, <2>9, MatrixRequests
    <3>2. "final" \in Labels /\ Asks[c.name][n] = "final" /\ n > 1
      BY <1>6, <2>9, PurposesOf, MatrixAsks
    <3>3. q \in RequestType
      BY <1>1, <1>2, <3>1, <3>2
    <3>4. q.owner = r /\ q.label = "final" /\ q.form = "exact" /\ q.amount = rest
      BY <3>1, RequestFields
    <3>5. Known(q)
      BY <3>1, RequestFields DEF Known
    <3> QED BY <2>4, <3>2, <3>3, <3>4, <3>5
  <2> QED BY <2>2, <2>5, <2>6, <2>7, <2>8, <2>9
<1>7. CASE c.name = "dust"
  <2>1. q = DustScript(r, price)[n].request
    BY <1>0, <1>7 DEF Script
  <2>2. n \in {3, 6, 7, 8, 9, 10}
    BY <1>0, <1>7, Refunding
  <2>3. Asks[c.name] = << "none", "none", "coerced", "none", "none", "one", "dust", "dust", "dust", "dust", "none", "none" >>
    BY <1>7, PurposesOf
  <2> HIDE DEF q
  <2>4. \/ n = 3 /\ q = Request(r, "coerced", "fraction", 100, None, None)
        \/ n = 6 /\ q = Request(r, "one", "exact", 1, None, None)
        \/ n \in {7, 8} /\ q = Request(r, "dust", "omitted", 0, Fresh(r, "dust"), None)
        \/ n \in {9, 10} /\ q = Request(r, "dust", "omitted", 0, None, Fresh(r, "dust"))
    BY <2>1, <2>2, DustRequests
  <2>5. {"coerced", "one", "dust"} \subseteq Labels
    BY PurposesOf
  <2>6. q \in RequestType
    BY <1>1, <1>2, <2>4, <2>5
  <2>7. q.owner = r /\ q.label = Asks[c.name][n] /\ q.label \in {"coerced", "one", "dust"}
    BY <2>3, <2>4, RequestFields
  <2>8. Known(q)
    BY <2>4, RequestFields DEF Known, Minimum
  <2> QED BY <1>7, <2>5, <2>6, <2>7, <2>8 DEF Proper
<1> QED BY <1>0, <1>3, <1>4, <1>5, <1>6, <1>7, Refunding DEF Refunders

\* Where the requests of the matrix with an identity, and the fractional one, are.
LEMMA LabelPlaces ==
    ASSUME NEW name \in Commands, NEW n \in 1..Len(Ops[name]), Ops[name][n] = "refund"
    PROVE  /\ Asks[name][n] = "fraction" => name = "matrix" /\ n = 3
           /\ name = "matrix" => Asks[name][n] = "fraction" <=> n = 3
           /\ name = "matrix" => Asks[name][n] = "mismatch" <=> n \in {5, 6}
           /\ name = "matrix" => Asks[name][n] = "receipt" <=> n \in {7, 8}
           /\ name = "matrix" /\ n <= 7 =>
                Asks[name][n] \in {"below", "fraction", "over", "mismatch", "receipt"}
<1>1. /\ name \in {"live", "header", "close", "matrix", "dust"}
      /\ name = "live" => n \in {1, 2}
      /\ name = "header" => n \in {1, 2}
      /\ name = "close" => n \in {2, 3}
      /\ name = "matrix" => n \in {2, 3, 4, 5, 6, 7, 8, 9, 10, 12, 13}
      /\ name = "dust" => n \in {3, 6, 7, 8, 9, 10}
  BY Refunding DEF Refunders
<1>2. name = "live" => Asks[name][n] = "live"
  BY <1>1, PurposesOf
<1>3. name = "header" => Asks[name][n] = "header"
  BY <1>1, PurposesOf
<1>4. name = "close" => Asks[name][n] = "close"
  BY <1>1, PurposesOf
<1>5. name = "dust" => Asks[name][n] \in {"coerced", "one", "dust"}
  BY <1>1, PurposesOf
<1>6. name = "matrix" =>
          \/ n = 2 /\ Asks[name][n] = "below"
          \/ n = 3 /\ Asks[name][n] = "fraction"
          \/ n = 4 /\ Asks[name][n] = "over"
          \/ n \in {5, 6} /\ Asks[name][n] = "mismatch"
          \/ n \in {7, 8} /\ Asks[name][n] = "receipt"
          \/ n \in {9, 10} /\ Asks[name][n] = "unkeyed"
          \/ n \in {12, 13} /\ Asks[name][n] = "final"
  BY <1>1, MatrixAsks
<1> QED BY <1>1, <1>2, <1>3, <1>4, <1>5, <1>6

-----------------------------------------------------------------------------
(* Razorpay.                                                               *)

LEMMA ReasonsAre ==
    ASSUME NEW ledger, NEW price, NEW q
    PROVE  LET why == Reasons(ledger, price, q)
               worth == Worth(q, price - Total(ledger)) IN
           /\ why \subseteq {"conflict", "duplicate", "minimum", "balance"}
           /\ "conflict" \in why <=> \E i \in DOMAIN ledger : SameKey(ledger[i], q)
           /\ "duplicate" \in why <=> \E i \in DOMAIN ledger : SameReceipt(ledger[i], q)
           /\ "minimum" \in why <=> q.form = "exact" /\ worth < Minimum
           /\ "balance" \in why <=> worth = 0 \/ Total(ledger) + worth > price
<1> DEFINE C == \E i \in DOMAIN ledger : SameKey(ledger[i], q)
           D == \E i \in DOMAIN ledger : SameReceipt(ledger[i], q)
           M == q.form = "exact" /\ Worth(q, price - Total(ledger)) < Minimum
           B == \/ Worth(q, price - Total(ledger)) = 0
                \/ Total(ledger) + Worth(q, price - Total(ledger)) > price
<1>1. Reasons(ledger, price, q) =
          (IF C THEN {"conflict"} ELSE {}) \cup (IF D THEN {"duplicate"} ELSE {})
          \cup (IF M THEN {"minimum"} ELSE {}) \cup (IF B THEN {"balance"} ELSE {})
  BY DEF Reasons
<1> HIDE DEF C, D, M, B
<1>2. LET why == Reasons(ledger, price, q) IN
      /\ why \subseteq {"conflict", "duplicate", "minimum", "balance"}
      /\ "conflict" \in why <=> C
      /\ "duplicate" \in why <=> D
      /\ "minimum" \in why <=> M
      /\ "balance" \in why <=> B
  BY <1>1
<1> QED BY <1>2 DEF C, D, M, B

LEMMA AnswerFields ==
    /\ NoAnswer \in Answer
    /\ ~ NoAnswer.ok /\ NoAnswer.id = 0 /\ NoAnswer.count = 0 /\ NoAnswer.total = 0
    /\ \A why \in SUBSET Causes :
         /\ Refusal(why) \in Answer
         /\ ~ Refusal(why).ok /\ Refusal(why).why = why
         /\ Refusal(why).count = 0 /\ Refusal(why).total = 0
<1>1. NoAnswer \in Answer
  BY DEF NoAnswer, Answer
<1>2. ~ NoAnswer.ok /\ NoAnswer.id = 0 /\ NoAnswer.count = 0 /\ NoAnswer.total = 0
  BY DEF NoAnswer
<1>3. ASSUME NEW why \in SUBSET Causes
      PROVE  /\ Refusal(why) \in Answer
             /\ Refusal(why).why = why
             /\ Refusal(why).ok = NoAnswer.ok /\ Refusal(why).count = NoAnswer.count
             /\ Refusal(why).total = NoAnswer.total
  BY <1>1 DEF Refusal, Answer
<1> QED BY <1>1, <1>2, <1>3

LEMMA AcceptedFields ==
    ASSUME NEW ledger \in Seq(Entry), NEW i \in DOMAIN ledger
    PROVE  /\ Accepted(ledger, i) \in Answer
           /\ Accepted(ledger, i).ok
           /\ Accepted(ledger, i).id = i
<1>1. i \in Nat /\ ledger[i].amount \in Nat
  <2>1. ledger[i] \in Entry
    OBVIOUS
  <2> QED BY <2>1 DEF Entry
<1> QED BY <1>1, AnswerFields DEF Accepted, Answer

\* What Razorpay answers, and what it adds to a ledger.
Outcome(old, o, q) ==
    /\ o.answer \in Answer
    /\ \/ /\ o.ledger = old
          /\ o.answer.ok => o.answer.id \in DOMAIN old /\ old[o.answer.id].request = q
       \/ /\ o.answer.ok
          /\ o.answer.id = Len(old) + 1
          /\ \E e \in Entry : e.request = q /\ o.ledger = Append(old, e)

LEMMA WorthNatural ==
    ASSUME NEW q \in RequestType, NEW rest \in Nat
    PROVE  Worth(q, rest) \in Nat
BY DEF Worth, RequestType

LEMMA AppendEntry ==
    ASSUME NEW ledger \in Seq(Entry), NEW e \in Entry
    PROVE  LET new == Append(ledger, e) IN
           /\ new \in Seq(Entry)
           /\ Len(ledger) \in Nat
           /\ Len(new) = Len(ledger) + 1
           /\ DOMAIN new = DOMAIN ledger \cup {Len(ledger) + 1}
           /\ DOMAIN ledger = 1..Len(ledger)
           /\ new[Len(ledger) + 1] = e
           /\ \A i \in DOMAIN ledger : new[i] = ledger[i]
<1> DEFINE new == Append(ledger, e)
           n == Len(ledger)
<1>1. new \in Seq(Entry) /\ n \in Nat /\ Len(new) = n + 1 /\ new[n + 1] = e
      /\ (\A i \in 1..n : new[i] = ledger[i]) /\ DOMAIN ledger = 1..n /\ DOMAIN new = 1..(n + 1)
  OBVIOUS
<1>2. 1..(n + 1) = 1..n \cup {n + 1}
  BY <1>1
<1> HIDE DEF new, n
<1>3. DOMAIN new = DOMAIN ledger \cup {n + 1}
  BY <1>1, <1>2
<1> QED BY <1>1, <1>3 DEF new, n

LEMMA RefundOutcome ==
    ASSUME NEW ledger \in Seq(Entry), NEW price \in Nat, Total(ledger) \in 0..price,
           NEW q \in RequestType, NEW o \in Outcomes(ledger, price, q)
    PROVE  Outcome(ledger, o, q)
<1>1. \/ o \in Replays(ledger, q)
      \/ o \in Refusals(ledger, price, q)
      \/ o \in Creations(ledger, price, q)
  BY DEF Outcomes
<1>2. CASE o \in Replays(ledger, q)
  <2>1. PICK i \in DOMAIN ledger : /\ ledger[i].request = q
                                   /\ o = [ledger |-> ledger, answer |-> Accepted(ledger, i)]
    BY <1>2 DEF Replays
  <2> QED BY <2>1, AcceptedFields DEF Outcome
<1>3. CASE o \in Refusals(ledger, price, q)
  <2>1. o = [ledger |-> ledger, answer |-> Refusal(Reasons(ledger, price, q))]
    BY <1>3 DEF Refusals
  <2>2. Reasons(ledger, price, q) \in SUBSET Causes
    BY ReasonsAre DEF Causes
  <2> QED BY <2>1, <2>2, AnswerFields DEF Outcome
<1>4. CASE o \in Creations(ledger, price, q)
  <2> DEFINE e == [request |-> q, amount |-> Worth(q, price - Total(ledger))]
             new == Append(ledger, e)
  <2>1. o = [ledger |-> new, answer |-> Accepted(new, Len(new))]
    BY <1>4 DEF Creations
  <2>2. price - Total(ledger) \in Nat
    OBVIOUS
  <2>3. e \in Entry /\ e.request = q
    BY <2>2, WorthNatural DEF Entry
  <2> HIDE DEF e
  <2>4. new \in Seq(Entry) /\ Len(new) = Len(ledger) + 1 /\ Len(new) \in DOMAIN new
    BY <2>3, AppendEntry
  <2>5. o.ledger = new /\ o.answer = Accepted(new, Len(new))
    BY <2>1
  <2>6. o.answer \in Answer /\ o.answer.ok /\ o.answer.id = Len(ledger) + 1
    <3> HIDE DEF new
    <3> QED BY <2>4, <2>5, AcceptedFields
  <2> QED BY <2>3, <2>5, <2>6 DEF Outcome
<1> QED BY <1>1, <1>2, <1>3, <1>4

LEMMA OrderOutcome ==
    ASSUME NEW placed \in Seq(Entry), NEW q \in RequestType, NEW o \in OrderOutcomes(placed, q)
    PROVE  Outcome(placed, o, q)
<1> DEFINE e == [request |-> q, amount |-> q.amount]
           new == Append(placed, e)
<1>1. \/ o = [ledger |-> new, answer |-> Accepted(new, Len(new))]
      \/ o = [ledger |-> placed, answer |-> Refusal({q.form})]
  BY DEF OrderOutcomes
<1>2. e \in Entry /\ e.request = q
  <2>1. q.amount \in Nat
    BY DEF RequestType
  <2> QED BY <2>1 DEF Entry
<1>3. CASE o = [ledger |-> new, answer |-> Accepted(new, Len(new))]
  <2> HIDE DEF e
  <2>1. new \in Seq(Entry) /\ Len(new) = Len(placed) + 1 /\ Len(new) \in DOMAIN new
    BY <1>2, AppendEntry
  <2>2. o.ledger = new /\ o.answer = Accepted(new, Len(new))
    BY <1>3
  <2>3. o.answer \in Answer /\ o.answer.ok /\ o.answer.id = Len(placed) + 1
    <3> HIDE DEF new
    <3> QED BY <2>1, <2>2, AcceptedFields
  <2> QED BY <1>2, <2>2, <2>3 DEF Outcome
<1>4. CASE o = [ledger |-> placed, answer |-> Refusal({q.form})]
  <2>1. {q.form} \in SUBSET Causes
    BY DEF RequestType, Causes
  <2> QED BY <1>4, <2>1, AnswerFields DEF Outcome
<1> QED BY <1>1, <1>3, <1>4

\* Razorpay never refunds more than the price, nor twice for one identity.
LEMMA PromiseKept ==
    ASSUME NEW ledger \in Seq(Entry), NEW price \in Nat, LedgerFits(ledger, price),
           NEW q \in RequestType, Known(q), ClosesAll(q, Total(ledger), price),
           q.label = "fraction" => Lacks(q.owner, "fraction", ledger),
           NEW o \in Outcomes(ledger, price, q)
    PROVE  /\ LedgerFits(o.ledger, price)
           /\ Total(ledger) <= Total(o.ledger)
<1> DEFINE total == Total(ledger)
           worth == Worth(q, price - total)
           e == [request |-> q, amount |-> worth]
           new == Append(ledger, e)
<1>1. total \in 0..price /\ total \in Nat /\ price - total \in Nat /\ worth \in Nat
  <2>1. total \in 0..price
    BY DEF LedgerFits
  <2>2. price - total \in Nat
    BY <2>1
  <2>3. worth \in Nat
    <3> HIDE DEF total
    <3> QED BY <2>2, WorthNatural
  <2> QED BY <2>1, <2>2, <2>3
<1>2. CASE o.ledger = ledger
  BY <1>1, <1>2
<1>3. CASE o.ledger # ledger
  <2>1. o \in Creations(ledger, price, q)
    BY <1>3 DEF Outcomes, Replays, Refusals
  <2>2. o.ledger = new /\ Reasons(ledger, price, q) = {}
    BY <2>1 DEF Creations
  <2>3. e \in Entry /\ e.request = q /\ e.amount = worth
    BY <1>1 DEF Entry
  <2>4. /\ \A i \in DOMAIN ledger : ~ SameKey(ledger[i], q) /\ ~ SameReceipt(ledger[i], q)
        /\ worth # 0 /\ total + worth <= price
        /\ q.form = "exact" => worth >= Minimum
    <3> DEFINE big == total + worth > price
    <3>1. ~ (worth = 0 \/ big)
      BY <2>2, ReasonsAre
    <3>2. \A i \in DOMAIN ledger : ~ SameKey(ledger[i], q) /\ ~ SameReceipt(ledger[i], q)
      BY <2>2, ReasonsAre
    <3>3. ~ (q.form = "exact" /\ worth < Minimum)
      BY <2>2, ReasonsAre
    <3> HIDE DEF worth
    <3> QED BY <1>1, <3>1, <3>2, <3>3 DEF Minimum
  <2>5. Total(new) = total + worth
    <3> HIDE DEF e, worth
    <3> QED BY <2>3, TotalAppend
  <2>6. /\ DOMAIN new = DOMAIN ledger \cup {Len(ledger) + 1}
        /\ new[Len(ledger) + 1] = e
        /\ \A i \in DOMAIN ledger : new[i] = ledger[i]
    <3> HIDE DEF e
    <3> QED BY <2>3, AppendEntry
  <2> HIDE DEF new, e, worth, total
  <2>11. \A i \in DOMAIN ledger : ledger[i].request.label \notin {"close", "final", "dust"}
    <3>1. total # price
      BY <1>1, <2>4
    <3> QED BY <3>1 DEF LedgerFits, total
  <2>7. ASSUME NEW i \in DOMAIN new, NEW j \in DOMAIN new,
               LET x == new[i].request
                   y == new[j].request IN
               \/ x.key # None /\ x.key = y.key
               \/ x.receipt # None /\ x.receipt = y.receipt
               \/ x.owner = y.owner /\ x.label = y.label /\ x.label \in {"fraction", "dust"}
        PROVE  i = j
    <3>1. CASE i \in DOMAIN ledger /\ j \in DOMAIN ledger
      BY <2>6, <2>7, <3>1 DEF LedgerFits
    <3>2. CASE i \notin DOMAIN ledger /\ j \notin DOMAIN ledger
      BY <2>6, <3>2
    <3>3. CASE i \in DOMAIN ledger /\ j \notin DOMAIN ledger
      <4>1. new[i] = ledger[i] /\ new[j] = e /\ e.request = q
        BY <2>3, <2>6, <3>3
      <4>2. ~ (ledger[i].request.owner = q.owner /\ ledger[i].request.label = q.label
               /\ q.label \in {"fraction", "dust"})
        BY <2>11, <3>3 DEF Lacks
      <4> QED BY <2>4, <2>7, <3>3, <4>1, <4>2 DEF SameKey, SameReceipt
    <3>4. CASE i \notin DOMAIN ledger /\ j \in DOMAIN ledger
      <4>1. new[j] = ledger[j] /\ new[i] = e /\ e.request = q
        BY <2>3, <2>6, <3>4
      <4>2. ~ (ledger[j].request.owner = q.owner /\ ledger[j].request.label = q.label
               /\ q.label \in {"fraction", "dust"})
        BY <2>11, <3>4 DEF Lacks
      <4> QED BY <2>4, <2>7, <3>4, <4>1, <4>2 DEF SameKey, SameReceipt
    <3> QED BY <3>1, <3>2, <3>3, <3>4
  <2>8. ASSUME NEW i \in DOMAIN new
        PROVE  /\ new[i].request.label \in {"close", "final", "dust"} => Total(new) = price
               /\ new[i].request.label \notin {"below", "one", "over"}
    <3>1. CASE i \in DOMAIN ledger
      BY <2>6, <2>11, <3>1 DEF LedgerFits
    <3>2. CASE i \notin DOMAIN ledger
      <4>0. new[i].request = q
        BY <2>3, <2>6, <3>2
      <4>1. q.label \in {"close", "final"} => q.form = "exact" /\ q.amount + total >= price
        BY DEF ClosesAll, total
      <4>2. q.form = "exact" => worth = q.amount
        BY DEF Worth, worth
      <4>3. q.form = "omitted" => worth = price - total
        BY DEF Worth, worth
      <4>4. q.label = "dust" => q.form = "omitted"
        BY DEF Known
      <4>5. q.label \in {"below", "one"} => q.form = "exact" /\ q.amount < Minimum
        BY DEF Known
      <4>6. q.label = "over" => q.form = "exact" /\ q.amount + total > price
        BY DEF ClosesAll, total
      <4>7. q.amount \in Nat
        BY DEF RequestType
      <4>8. q.label \in {"close", "final", "dust"} => Total(new) = price
        BY <1>1, <2>4, <2>5, <4>1, <4>2, <4>3, <4>4, <4>7
      <4>9. q.label \notin {"below", "one", "over"}
        BY <1>1, <2>4, <4>2, <4>5, <4>6, <4>7 DEF Minimum
      <4> QED BY <4>0, <4>8, <4>9
    <3> QED BY <3>1, <3>2
  <2>9. Total(new) \in 0..price /\ total <= Total(new)
    BY <1>1, <2>4, <2>5
  <2>10. LedgerFits(new, price)
    BY <2>7, <2>8, <2>9 DEF LedgerFits
  <2> QED BY <2>2, <2>9, <2>10 DEF total
<1> QED BY <1>2, <1>3

-----------------------------------------------------------------------------
(* What others do to the account does not touch what a process knows.       *)

\* Payments stay, and stay captured.
Kept(paid, new) ==
    /\ Len(paid) \in Nat /\ Len(new) \in Nat
    /\ Len(paid) <= Len(new)
    /\ DOMAIN paid = 1..Len(paid) /\ DOMAIN new = 1..Len(new)
    /\ \A p \in 1..Len(paid) : /\ new[p].link = paid[p].link
                               /\ paid[p].captured => new[p].captured

\* A ledger gets no refund of r.
SparedBy(r, ledger, new) ==
    \/ new = ledger
    \/ \E e \in Entry : e.request.owner # r /\ new = Append(ledger, e)

Grown(placed, new) == new = placed \/ \E e \in Entry : new = Append(placed, e)

LEMMA SessionKept ==
    ASSUME NEW made \in Nat, NEW more \in Nat, made <= more, NEW paid, NEW new, Kept(paid, new),
           NEW file, SessionFits(file, made, paid)
    PROVE  SessionFits(file, more, new)
<1>1. file.payment # 0 => file.payment \in 1..Len(paid)
  BY DEF SessionFits, Kept
<1> QED BY <1>1 DEF SessionFits, Kept

LEMMA PlacedKept ==
    ASSUME NEW made \in Nat, NEW more \in Nat, made <= more, NEW paid, NEW new, Kept(paid, new),
           NEW run, Placed(run, made, paid)
    PROVE  Placed(run, more, new)
BY SessionKept DEF Placed

LEMMA FoundKept ==
    ASSUME NEW made \in Nat, NEW more \in Nat, made <= more, NEW paid, NEW new, Kept(paid, new),
           NEW run, Found(run, made, paid)
    PROVE  Found(run, more, new)
<1> DEFINE c == run.command
           a == run.answers
<1>1. Active(run) /\ c.name = "link" /\ Len(a) = 1 => a[1].id \in 1..more /\ a[1].count \in 0..Len(new)
  BY DEF Found, Kept
<1>2. Active(run) /\ c.name = "refresh" /\ Len(a) > 0 => a[1].count \in 0..Len(new)
  BY DEF Found, Kept
<1>3. Active(run) /\ c.name = "refresh" /\ run.at \in {"save", "write"} =>
          /\ a[2].id \in 1..Len(new)
          /\ new[a[2].id].link # 0
          /\ a[2].ok => new[a[2].id].captured
  BY DEF Found, Kept
<1> QED BY <1>1, <1>2, <1>3 DEF Found

LEMMA OrderedKept ==
    ASSUME NEW r, NEW run, NEW placed \in Seq(Entry), NEW new, Grown(placed, new),
           Ordered(r, run, placed)
    PROVE  Ordered(r, run, new)
<1>1. CASE new = placed
  BY <1>1
<1>2. CASE new # placed
  <2>1. PICK e \in Entry : new = Append(placed, e)
    BY <1>2 DEF Grown
  <2>2. DOMAIN placed \subseteq DOMAIN new /\ \A i \in DOMAIN placed : new[i] = placed[i]
    BY <2>1, AppendEntry
  <2> QED BY <2>2 DEF Ordered
<1> QED BY <1>1, <1>2

LEMMA TotalGrows ==
    ASSUME NEW ledger \in Seq(Entry), NEW e \in Entry
    PROVE  Total(ledger) \in Nat /\ Total(Append(ledger, e)) \in Nat
           /\ Total(ledger) <= Total(Append(ledger, e))
<1>1. Total(ledger) \in Nat /\ e.amount \in Nat
  BY TotalNatural DEF Entry
<1> QED BY <1>1, TotalAppend

LEMMA AccountedKept ==
    ASSUME NEW r, NEW run \in Process, NEW ledger \in Seq(Entry), NEW new,
           SparedBy(r, ledger, new), Accounted(r, run, ledger)
    PROVE  Accounted(r, run, new)
<1>1. CASE new = ledger
  BY <1>1
<1>2. CASE new # ledger
  <2>1. PICK e \in Entry : e.request.owner # r /\ new = Append(ledger, e)
    BY <1>2 DEF SparedBy
  <2>2. /\ DOMAIN new = DOMAIN ledger \cup {Len(ledger) + 1}
        /\ new[Len(ledger) + 1] = e
        /\ \A i \in DOMAIN ledger : new[i] = ledger[i]
    BY <2>1, AppendEntry
  <2> QED BY <2>1, <2>2 DEF Accounted
<1> QED BY <1>1, <1>2

LEMMA ReadKept ==
    ASSUME NEW r, NEW run \in Process, NEW ledger \in Seq(Entry), NEW new, NEW price \in Nat,
           SparedBy(r, ledger, new), Read(run, ledger, price)
    PROVE  Read(run, new, price)
<1>1. CASE new = ledger
  BY <1>1
<1>2. CASE new # ledger
  <2>1. PICK e \in Entry : new = Append(ledger, e)
    BY <1>2 DEF SparedBy
  <2>2. /\ Len(ledger) \in Nat /\ Len(new) = Len(ledger) + 1
        /\ Total(ledger) \in Nat /\ Total(new) \in Nat /\ Total(ledger) <= Total(new)
    BY <2>1, AppendEntry, TotalGrows
  <2>3. run.rest \in Nat /\ \A n \in DOMAIN run.answers :
            run.answers[n].total \in Nat /\ run.answers[n].count \in Nat
    <3>1. run.rest \in Nat /\ run.answers \in Seq(Answer)
      BY DEF Process
    <3>2. \A n \in DOMAIN run.answers : run.answers[n] \in Answer
      BY <3>1
    <3> QED BY <3>1, <3>2 DEF Answer
  <2> QED BY <2>2, <2>3 DEF Read
<1> QED BY <1>1, <1>2

LEMMA MatrixOps ==
    /\ Len(Ops["matrix"]) = 14
    /\ Ops["matrix"][1] = "list" /\ Ops["matrix"][11] = "list" /\ Ops["matrix"][14] = "relist"
    /\ \A n \in {2, 3, 4, 5, 6, 7, 8, 9, 10, 12, 13} : Ops["matrix"][n] = "refund"
BY DEF Ops

LEMMA Answers ==
    ASSUME NEW run \in Process
    PROVE  /\ run.answers \in Seq(Answer)
           /\ Len(run.answers) \in Nat
           /\ DOMAIN run.answers = 1..Len(run.answers)
           /\ run.rest \in Nat
           /\ run.command \in Command
           /\ run.at \in Points
           /\ \A n \in DOMAIN run.answers :
                /\ run.answers[n] \in Answer
                /\ run.answers[n].ok \in BOOLEAN
                /\ run.answers[n].id \in Nat
                /\ run.answers[n].total \in Nat
                /\ run.answers[n].count \in Nat
<1>1. run.answers \in Seq(Answer) /\ run.rest \in Nat /\ run.command \in Command /\ run.at \in Points
  BY DEF Process
<1>2. \A n \in DOMAIN run.answers : run.answers[n] \in Answer
  BY <1>1
<1>3. \A n \in DOMAIN run.answers :
          /\ run.answers[n].ok \in BOOLEAN
          /\ run.answers[n].id \in Nat
          /\ run.answers[n].total \in Nat
          /\ run.answers[n].count \in Nat
  BY <1>2 DEF Answer
<1>4. Len(run.answers) \in Nat /\ DOMAIN run.answers = 1..Len(run.answers)
  BY <1>1
<1> QED BY <1>1, <1>2, <1>3, <1>4

\* A refund of somebody else since its first reading: the matrix is not alone.
LEMMA NotAlone ==
    ASSUME NEW r, NEW run \in Process, run.command.name = "matrix", Len(run.answers) > 0,
           NEW ledger \in Seq(Entry), NEW price, Read(run, ledger, price),
           NEW e \in Entry, e.request.owner # r
    PROVE  ~ Alone(r, run, Append(ledger, e))
<1>1. 1 \in DOMAIN run.answers /\ run.answers[1].count \in Nat
  BY Answers
<1>2. run.answers[1].count <= Len(ledger)
  BY <1>1, MatrixOps DEF Read
<1>3. Len(ledger) \in Nat /\ Len(ledger) + 1 \in DOMAIN Append(ledger, e)
      /\ Append(ledger, e)[Len(ledger) + 1] = e
  BY AppendEntry
<1> QED BY <1>1, <1>2, <1>3 DEF Alone

LEMMA HeldKept ==
    ASSUME NEW r, NEW run \in Process, run.command.name = "matrix", NEW ledger \in Seq(Entry),
           NEW e \in Entry, Accounted(r, run, ledger), Held(r, run.answers, ledger)
    PROVE  Held(r, run.answers, Append(ledger, e))
<1> DEFINE a == run.answers
           n == Len(a)
           new == Append(ledger, e)
<1>1. \A i \in DOMAIN ledger : new[i] = ledger[i]
  BY AppendEntry
<1>2. (n >= 5 => 5 \in DOMAIN a) /\ (n >= 7 => 7 \in DOMAIN a)
  BY Answers
<1>3. \A k \in DOMAIN a : Ops["matrix"][k] = "refund" /\ a[k].ok => a[k].id \in DOMAIN ledger
  BY DEF Accounted
<1>4. n >= 5 /\ a[5].ok => new[a[5].id] = ledger[a[5].id]
  BY <1>1, <1>2, <1>3, MatrixOps
<1>5. n >= 7 /\ a[7].ok => new[a[7].id] = ledger[a[7].id]
  BY <1>1, <1>2, <1>3, MatrixOps
<1> HIDE DEF a, n, new
<1>6. Held(r, a, ledger)
  BY DEF a
<1> QED BY <1>4, <1>5, <1>6 DEF Held, a, n, new

LEMMA RoomyKept ==
    ASSUME NEW r, NEW run \in Process, NEW ledger \in Seq(Entry), NEW new, NEW price \in Nat,
           SparedBy(r, ledger, new), Accounted(r, run, ledger), Read(run, ledger, price),
           Roomy(r, run, ledger, price), Bounded(r, run, ledger)
    PROVE  Roomy(r, run, new, price) /\ Bounded(r, run, new)
<1> DEFINE n == Len(run.answers)
<1>1. CASE new = ledger
  BY <1>1
<1>2. CASE new # ledger /\ run.command.name = "matrix" /\ n > 0
  <2>1. PICK e \in Entry : e.request.owner # r /\ new = Append(ledger, e)
    BY <1>2 DEF SparedBy
  <2>2. ~ Alone(r, run, new)
    BY <1>2, <2>1, NotAlone
  <2>3. Held(r, run.answers, new)
    BY <1>2, <2>1, HeldKept DEF Roomy
  <2> QED BY <1>2, <2>2, <2>3 DEF Roomy, Bounded
<1>3. CASE ~ (run.command.name = "matrix" /\ n > 0)
  BY <1>3, Answers DEF Roomy, Bounded
<1> QED BY <1>1, <1>2, <1>3

\* Every ledger of books is spared.
BooksSpared(r, books, new) ==
    DOMAIN new = DOMAIN books /\ \A p \in DOMAIN books : SparedBy(r, books[p], new[p])

LEMMA RefundsKept ==
    ASSUME NEW r, NEW run \in Process, NEW books, \A p \in DOMAIN books : books[p] \in Seq(Entry),
           NEW new, NEW price \in Nat, BooksSpared(r, books, new), RefundsFit(r, run, books, price)
    PROVE  RefundsFit(r, run, new, price)
<1> SUFFICES ASSUME Active(run) /\ run.command.name \in Refunders
             PROVE  LET p == Target(run) IN
                    /\ p \in DOMAIN new
                    /\ Accounted(r, run, new[p])
                    /\ Read(run, new[p], price)
                    /\ Roomy(r, run, new[p], price)
                    /\ Bounded(r, run, new[p])
  BY DEF RefundsFit
<1> DEFINE p == Target(run)
<1>1. /\ p \in DOMAIN books /\ p \in DOMAIN new
      /\ books[p] \in Seq(Entry)
      /\ SparedBy(r, books[p], new[p])
      /\ Accounted(r, run, books[p]) /\ Read(run, books[p], price)
      /\ Roomy(r, run, books[p], price) /\ Bounded(r, run, books[p])
  BY DEF RefundsFit, BooksSpared
<1> HIDE DEF p
<1>2. Accounted(r, run, new[p])
  BY <1>1, AccountedKept
<1>3. Read(run, new[p], price)
  BY <1>1, ReadKept
<1>4. Roomy(r, run, new[p], price) /\ Bounded(r, run, new[p])
  BY <1>1, RoomyKept
<1> QED BY <1>1, <1>2, <1>3, <1>4 DEF p

-----------------------------------------------------------------------------
(* Steps.                                                                  *)

\* A process keeps its command, its copy of the session file and its answers.
Keeps(run, next) ==
    /\ next.at # "new" /\ next.command = run.command /\ next.file = run.file
    /\ \A n \in DOMAIN run.answers :
         n \in DOMAIN next.answers /\ next.answers[n] = run.answers[n]

Follows(run, next) == run.at # "new" => Active(run) /\ Keeps(run, next)

Moved ==
    /\ DOMAIN runs' = DOMAIN runs
    /\ \A x \in DOMAIN runs : runs[x].at # "new" =>
         /\ Keeps(runs[x], runs'[x])
         /\ ~ Active(runs[x]) => ~ Active(runs'[x])

LEMMA ErroredKept ==
    ASSUME NEW run, NEW next, Keeps(run, next), NEW label, Errored(run, label)
    PROVE  Errored(next, label)
BY DEF Keeps, Errored

LEMMA OneMoves ==
    ASSUME Typed, NEW r \in DOMAIN runs, NEW next \in Process,
           runs' = [runs EXCEPT ![r] = next], Follows(runs[r], next)
    PROVE  /\ Moved
           /\ runs'[r] = next
           /\ \A x \in DOMAIN runs : x # r => runs'[x] = runs[x]
           /\ \A x \in DOMAIN runs' : runs'[x] \in Process
BY DEF Typed, Moved, Follows, Keeps

LEMMA NobodyMoves ==
    ASSUME runs' = runs
    PROVE  Moved
BY DEF Moved, Keeps

LEMMA AccountTypes ==
    ASSUME Typed
    PROVE  /\ plan.price \in Nat /\ plan.customers \in Nat /\ 1 \in 1..plan.customers
           /\ plan.price # 0 /\ plan.faults \in Nat
           /\ DOMAIN ledgers = 1..plan.customers
           /\ \A p \in DOMAIN ledgers : ledgers[p] \in Seq(Entry) /\ Total(ledgers[p]) \in Nat
           /\ Len(payments) \in Nat /\ DOMAIN payments = 1..Len(payments)
           /\ \A p \in DOMAIN payments : payments[p].link \in Nat /\ payments[p].captured \in BOOLEAN
           /\ Kept(payments, payments)
           /\ DOMAIN runs \subseteq Runs
<1>1. plan.price \in Nat \ {0} /\ plan.customers \in Nat \ {0} /\ plan.faults \in Nat
      /\ \E S \in SUBSET Runs : plan.commands \in [S -> Command]
  BY PlansAssumption DEF Typed
<1>2. DOMAIN ledgers = 1..plan.customers /\ \A p \in DOMAIN ledgers : ledgers[p] \in Seq(Entry)
  BY DEF Typed
<1>3. payments \in Seq([link : 0..links, captured : BOOLEAN]) /\ links \in Nat
  BY DEF Typed
<1> DEFINE P == [link : 0..links, captured : BOOLEAN]
<1>4. Len(payments) \in Nat /\ DOMAIN payments = 1..Len(payments)
      /\ \A p \in DOMAIN payments : payments[p] \in P
  <2>1. payments \in Seq(P)
    BY <1>3
  <2> HIDE DEF P
  <2> QED BY <2>1
<1>5. \A p \in DOMAIN payments : payments[p].link \in Nat /\ payments[p].captured \in BOOLEAN
  BY <1>3, <1>4
<1>6. Kept(payments, payments)
  BY <1>4 DEF Kept
<1>7. DOMAIN runs \subseteq Runs
  BY <1>1 DEF Typed
<1> QED BY <1>1, <1>2, <1>4, <1>5, <1>6, <1>7, TotalNatural

LEMMA OthersFit ==
    ASSUME AccountInv, NEW r \in DOMAIN runs, plan' = plan,
           links' \in Nat, links <= links', Kept(payments, payments'), Grown(orders, orders'),
           BooksSpared(r, ledgers, ledgers'), labs'[r] = labs[r], runs'[r] = runs[r]
    PROVE  Fits(r, runs[r])'
<1> DEFINE run == runs[r]
<1>1. /\ run \in Process /\ links \in Nat /\ orders \in Seq(Entry) /\ plan.price \in Nat
      /\ \A p \in DOMAIN ledgers : ledgers[p] \in Seq(Entry)
      /\ Fits(r, run)
  <2>1. Typed /\ Fits(r, run)
    BY DEF AccountInv
  <2> QED BY <2>1, AccountTypes DEF Typed
<1> HIDE DEF run
<1>2. Placed(run, links', payments') /\ Found(run, links', payments')
  BY <1>1, PlacedKept, FoundKept DEF Fits
<1>3. Ordered(r, run, orders')
  BY <1>1, OrderedKept DEF Fits
<1>4. RefundsFit(r, run, ledgers', plan.price)
  BY <1>1, RefundsKept DEF Fits
<1>5. Served(r, run, labs'[r])
  BY <1>1 DEF Fits
<1>6. runs'[r] = run
  BY DEF run
<1> QED BY <1>2, <1>3, <1>4, <1>5, <1>6 DEF Fits

LEMMA MadeByKept ==
    ASSUME NEW q, NEW p, NEW run, NEW next, NEW paid, NEW new, Kept(paid, new),
           MadeBy(q, p, run, paid), next.at # "new", next.command = run.command, next.file = run.file
    PROVE  MadeBy(q, p, next, new)
BY DEF MadeBy, Target, Kept

\* New entries of the ledgers are of known makers.
LEMMA EntriesStay ==
    ASSUME EntriesFit, Typed, Moved, Kept(payments, payments'), DOMAIN ledgers' = DOMAIN ledgers,
           \A p \in DOMAIN ledgers :
               \/ ledgers'[p] = ledgers[p]
               \/ \E e \in Entry : /\ ledgers'[p] = Append(ledgers[p], e)
                                   /\ e.request.owner \in DOMAIN runs'
                                   /\ MadeBy(e.request, p, runs'[e.request.owner], payments')
    PROVE  EntriesFit'
<1> SUFFICES ASSUME NEW p \in DOMAIN ledgers, NEW i \in DOMAIN ledgers'[p]
             PROVE  LET q == ledgers'[p][i].request IN
                    q.owner \in DOMAIN runs' /\ MadeBy(q, p, runs'[q.owner], payments')
  BY DEF EntriesFit
<1>1. ASSUME i \in DOMAIN ledgers[p], ledgers'[p][i] = ledgers[p][i]
      PROVE  LET q == ledgers'[p][i].request IN
             q.owner \in DOMAIN runs' /\ MadeBy(q, p, runs'[q.owner], payments')
  <2> DEFINE q == ledgers[p][i].request
  <2>1. q.owner \in DOMAIN runs /\ MadeBy(q, p, runs[q.owner], payments)
    BY <1>1 DEF EntriesFit
  <2>2. runs[q.owner].at # "new"
    BY <2>1 DEF MadeBy
  <2> HIDE DEF q
  <2>3. MadeBy(q, p, runs'[q.owner], payments')
    BY <2>1, <2>2, MadeByKept DEF Moved, Keeps
  <2> QED BY <1>1, <2>1, <2>3 DEF Moved, q
<1>2. CASE ledgers'[p] = ledgers[p]
  BY <1>1, <1>2
<1>3. CASE ledgers'[p] # ledgers[p]
  <2>1. PICK e \in Entry : /\ ledgers'[p] = Append(ledgers[p], e)
                           /\ e.request.owner \in DOMAIN runs'
                           /\ MadeBy(e.request, p, runs'[e.request.owner], payments')
    BY <1>3
  <2>2. ledgers[p] \in Seq(Entry)
    BY AccountTypes
  <2>3. \/ i \in DOMAIN ledgers[p] /\ ledgers'[p][i] = ledgers[p][i]
        \/ ledgers'[p][i] = e
    BY <2>1, <2>2, AppendEntry
  <2> QED BY <1>1, <2>1, <2>3
<1> QED BY <1>2, <1>3

LEMMA LateStays ==
    ASSUME Typed, NEW x, LateFits(x), Single(x)', Moved, plan' = plan, Kept(payments, payments'),
           DOMAIN ledgers' = DOMAIN ledgers,
           \A p \in DOMAIN ledgers : Total(ledgers'[p]) \in Nat /\ Total(ledgers[p]) <= Total(ledgers'[p])
    PROVE  LateFits(x)'
<1>1. x \in Underway /\ x.request \in RequestType
  BY DEF LateFits, Underway
<1>2. CASE x.op = "refund"
  <2> DEFINE q == x.request
             owner == q.owner
             p == x.payment
  <2>1. /\ p \in DOMAIN ledgers /\ owner \in DOMAIN runs
        /\ ~ Active(runs[owner]) \/ Errored(runs[owner], q.label)
        /\ MadeBy(q, p, runs[owner], payments)
        /\ ClosesAll(q, Total(ledgers[p]), plan.price)
    BY <1>2 DEF LateFits
  <2>2. q \in RequestType
    BY <1>1
  <2>3. Single(x)'
    OBVIOUS
  <2> HIDE DEF owner, p, q
  <2>4. owner \in DOMAIN runs' /\ Keeps(runs[owner], runs'[owner])
        /\ (~ Active(runs[owner]) => ~ Active(runs'[owner]))
    BY <2>1 DEF Moved, MadeBy
  <2>5. MadeBy(q, p, runs'[owner], payments')
    BY <2>1, <2>4, MadeByKept DEF Keeps
  <2>6. ClosesAll(q, Total(ledgers'[p]), plan.price)
    <3>1. q.amount \in Nat /\ Total(ledgers[p]) \in Nat /\ Total(ledgers'[p]) \in Nat
          /\ Total(ledgers[p]) <= Total(ledgers'[p]) /\ plan.price \in Nat
      BY <2>1, <2>2, AccountTypes DEF RequestType
    <3> QED BY <2>1, <3>1 DEF ClosesAll
  <2>7. ~ Active(runs'[owner]) \/ Errored(runs'[owner], q.label)
    BY <2>1, <2>4, ErroredKept
  <2>8. p \in DOMAIN ledgers'
    BY <2>1
  <2> QED BY <1>1, <2>3, <2>4, <2>5, <2>6, <2>7, <2>8 DEF LateFits, owner, p, q
<1>3. CASE x.op # "refund"
  BY <1>1, <1>3 DEF LateFits
<1> QED BY <1>2, <1>3

\* Requests that may still be executed were before, or fit now.
LateGrows == \A x \in late' : LateFits(x)' \/ (x \in late /\ Single(x)')

LEMMA LateSame ==
    ASSUME AccountInv, late' = late, ledgers' = ledgers
    PROVE  LateGrows /\ \A x \in late : Single(x)'
<1>1. \A x \in late : Single(x)
  BY DEF AccountInv, LateFits, Single
<1>2. \A x \in late : Single(x)'
  BY <1>1 DEF Single
<1> QED BY <1>2 DEF LateGrows

\* More links, and the payments keep their type.
LEMMA PaymentsTyped ==
    ASSUME Typed, NEW more \in Nat, links <= more
    PROVE  payments \in Seq([link : 0..more, captured : BOOLEAN])
<1> DEFINE P == [link : 0..links, captured : BOOLEAN]
           Q == [link : 0..more, captured : BOOLEAN]
<1>1. payments \in Seq(P) /\ links \in Nat
  BY DEF Typed
<1>2. P \subseteq Q
  BY <1>1
<1> HIDE DEF P, Q
<1>3. payments \in Seq(Q)
  BY <1>1, <1>2
<1> QED BY <1>3 DEF Q

\* A step of one process that leaves the account alone, but for a link and for
\* what Razorpay may still execute.
AccountStays ==
    /\ UNCHANGED <<plan, payments, ledgers, orders, labs>>
    /\ links' \in Nat /\ links <= links'
    /\ session' # None => SessionFits(session', links, payments)
    /\ faults' \in 0..plan.faults
    /\ LateGrows

LEMMA Unaffected ==
    ASSUME AccountInv, UNCHANGED <<plan, session, account, late, faults>>
    PROVE  AccountStays
<1>1. Typed
  BY DEF AccountInv
<1>2. LateGrows
  BY LateSame DEF account
<1> QED BY <1>1, <1>2 DEF AccountStays, Typed, account

LEMMA QuietStep ==
    ASSUME AccountInv, NEW r \in DOMAIN runs, NEW next \in Process,
           runs' = [runs EXCEPT ![r] = next], Follows(runs[r], next), Fits(r, next), AccountStays
    PROVE  AccountInv'
<1>0. /\ plan' = plan /\ payments' = payments /\ ledgers' = ledgers /\ orders' = orders
      /\ labs' = labs /\ links' \in Nat /\ links <= links' /\ faults' \in 0..plan.faults
      /\ session' # None => SessionFits(session', links, payments)
      /\ LateGrows
  BY DEF AccountStays
<1>1. Typed /\ EntriesFit
  BY DEF AccountInv
<1>2. /\ Moved /\ runs'[r] = next /\ DOMAIN runs' = DOMAIN runs
      /\ \A x \in DOMAIN runs : x # r => runs'[x] = runs[x]
      /\ \A x \in DOMAIN runs' : runs'[x] \in Process
  BY <1>1, OneMoves DEF Moved
<1>3. links \in Nat /\ Kept(payments, payments)
  BY <1>1, AccountTypes DEF Typed
<1>4. Typed'
  <2>1. payments \in Seq([link : 0..links', captured : BOOLEAN])
    BY <1>0, <1>1, PaymentsTyped
  <2>2. session' # None => SessionFits(session', links', payments)
    BY <1>0, <1>3, SessionKept
  <2> QED BY <1>0, <1>1, <1>2, <2>1, <2>2 DEF Typed
<1>5. (\A p \in DOMAIN ledgers : LedgerFits(ledgers[p], plan.price))'
  BY <1>0 DEF AccountInv
<1>6. EntriesFit'
  BY <1>0, <1>1, <1>2, AccountTypes, EntriesStay
<1>7. (\A x \in late : LateFits(x))'
  <2>1. ASSUME NEW x \in late' PROVE LateFits(x)'
    <3>1. CASE x \in late /\ Single(x)'
      <4>1. LateFits(x)
        BY <3>1 DEF AccountInv
      <4> QED BY <1>0, <1>1, <1>2, <3>1, <4>1, AccountTypes, LateStays
    <3> QED BY <1>0, <3>1 DEF LateGrows
  <2> QED BY <2>1
<1>8. ASSUME NEW x \in DOMAIN runs PROVE Fits(x, runs[x])'
  <2>1. CASE x = r
    <3>1. Placed(next, links', payments) /\ Found(next, links', payments)
      BY <1>0, <1>3, PlacedKept, FoundKept DEF Fits
    <3> QED BY <1>0, <1>2, <2>1, <3>1 DEF Fits
  <2>2. CASE x # r
    <3>1. Kept(payments, payments') /\ Grown(orders, orders')
          /\ BooksSpared(x, ledgers, ledgers') /\ labs'[x] = labs[x]
      BY <1>0, <1>3 DEF Grown, BooksSpared, SparedBy
    <3> QED BY <1>0, <1>2, <2>2, <3>1, OthersFit
  <2> QED BY <2>1, <2>2
<1> QED BY <1>2, <1>4, <1>5, <1>6, <1>7, <1>8 DEF AccountInv

\* What an answer makes of a process.
Advances(run, next, a, rest, ok) ==
    /\ next.command = run.command
    /\ next.file = run.file
    /\ next.answers = Append(run.answers, a)
    /\ next.rest = rest
    /\ next.at = IF ~ok THEN "refused"
                 ELSE IF Len(run.answers) + 1 # Len(Ops[run.command.name]) THEN "exchange"
                 ELSE IF Saves(run.command) THEN "save" ELSE "done"

\* The process and the length of its script.
LEMMA AtExchange ==
    ASSUME AccountInv, NEW r \in DOMAIN runs, runs[r].at = "exchange"
    PROVE  LET run == runs[r]
               n == Len(run.answers) IN
           /\ run \in Process /\ r \in Runs
           /\ run.command.name \in Commands
           /\ n \in Nat /\ n + 1 \in 1..Len(Ops[run.command.name])
           /\ Len(ScriptOf(r)) = Len(Ops[run.command.name])
           /\ Step(r).op = Ops[run.command.name][n + 1]
           /\ Fits(r, run)
           /\ Active(run)
           /\ Len(Ops[run.command.name]) \in Nat
<1> DEFINE run == runs[r]
           n == Len(run.answers)
<1>1. Typed /\ Fits(r, run)
  BY DEF AccountInv
<1>2. run \in Process /\ r \in Runs
  BY <1>1, AccountTypes DEF Typed
<1>3. run.command.name \in Commands /\ n \in Nat
  BY <1>2, Answers, CommandNames
<1>4. Len(Ops[run.command.name]) \in Nat
  BY <1>3 DEF Commands, Ops
<1>5. n < Len(Ops[run.command.name])
  BY <1>1 DEF Fits, Placed
<1>6. n + 1 \in 1..Len(Ops[run.command.name])
  BY <1>3, <1>4, <1>5
<1>7. Len(ScriptOf(r)) = Len(Ops[run.command.name]) /\ Step(r).op = Ops[run.command.name][n + 1]
  BY <1>3, <1>6, ScriptShape DEF ScriptOf, Step
<1> QED BY <1>1, <1>2, <1>3, <1>4, <1>6, <1>7 DEF Active

LEMMA Advance ==
    ASSUME AccountInv, NEW r \in DOMAIN runs, runs[r].at = "exchange",
           NEW a \in Answer, NEW rest \in Nat, NEW ok \in BOOLEAN, Proceed(r, a, rest, ok)
    PROVE  \E next \in Process :
               /\ runs' = [runs EXCEPT ![r] = next]
               /\ Follows(runs[r], next)
               /\ Advances(runs[r], next, a, rest, ok)
               /\ Placed(next, links, payments)
<1> DEFINE run == runs[r]
           length == Len(Ops[run.command.name])
           at == IF ~ok THEN "refused"
                 ELSE IF Len(run.answers) + 1 # length THEN "exchange"
                 ELSE IF Saves(run.command) THEN "save" ELSE "done"
           next == [run EXCEPT !.answers = Append(run.answers, a), !.rest = rest, !.at = at]
<1>1. /\ run \in Process /\ Len(ScriptOf(r)) = length /\ Fits(r, run)
      /\ Len(run.answers) + 1 \in 1..length /\ Len(run.answers) \in Nat /\ length \in Nat
      /\ run.at = "exchange"
  BY AtExchange
<1>2. runs' = [runs EXCEPT ![r].answers = Append(@, a), ![r].rest = rest, ![r].at = at]
  BY <1>1 DEF Proceed
<1>3. at \in {"refused", "exchange", "save", "done"}
  OBVIOUS
<1> HIDE DEF at
<1>4. Append(run.answers, a) \in Seq(Answer) /\ Len(Append(run.answers, a)) = Len(run.answers) + 1
  <2>1. run.answers \in Seq(Answer)
    BY <1>1, Answers
  <2> QED BY <2>1
<1>5. runs' = [runs EXCEPT ![r] = next]
  BY <1>1, <1>2 DEF Process
<1>6. next \in Process
  <2>1. at \in Points
    BY <1>3 DEF Points
  <2> HIDE DEF run
  <2> QED BY <1>1, <1>4, <2>1 DEF Process
<1>7. /\ next.command = run.command /\ next.file = run.file
      /\ next.answers = Append(run.answers, a) /\ next.rest = rest /\ next.at = at
  <2> HIDE DEF run
  <2> QED BY <1>1 DEF Process
<1> HIDE DEF next
<1>8. Follows(run, next)
  <2>1. run.answers \in Seq(Answer)
    BY <1>1, Answers
  <2>2. \A n \in DOMAIN run.answers :
            n \in DOMAIN next.answers /\ next.answers[n] = run.answers[n]
    <3> HIDE DEF run
    <3> QED BY <1>7, <2>1
  <2>3. Active(run) /\ next.at # "new"
    BY <1>1, <1>3, <1>7 DEF Active
  <2> QED BY <1>7, <2>2, <2>3 DEF Follows, Keeps
<1>9. Advances(run, next, a, rest, ok)
  BY <1>7 DEF Advances, at
<1>10. Placed(next, links, payments)
  <2> HIDE DEF run
  <2>1. Placed(run, links, payments) /\ Active(run)
    BY <1>1 DEF Fits, Active
  <2>2. Len(next.answers) = Len(run.answers) + 1
    BY <1>4, <1>7
  <2>3. next.at = "exchange" => Len(next.answers) < length
    BY <1>1, <1>7, <2>2 DEF at
  <2>4. next.at \in {"save", "write", "done"} => Len(next.answers) = length
    BY <1>3, <1>7, <2>2 DEF at
  <2>5. next.at \in {"save", "write"} => Saves(next.command)
    BY <1>3, <1>7 DEF at
  <2>6. next.at # "new"
    BY <1>3, <1>7
  <2> QED BY <1>7, <2>1, <2>3, <2>4, <2>5, <2>6 DEF Placed
<1> QED BY <1>5, <1>6, <1>8, <1>9, <1>10

\* A process that gave up knows nothing more.
LEMMA GivenUp ==
    ASSUME NEW r, NEW next, Placed(next, links, payments), ~ Active(next)
    PROVE  Fits(r, next)
BY DEF Fits, Found, Ordered, Served, RefundsFit

-----------------------------------------------------------------------------
(* Launching.                                                              *)

LEMMA OpsLengths ==
    ASSUME NEW name \in Commands
    PROVE  /\ name = "link" => Len(Ops[name]) = 1
           /\ name = "refresh" => Len(Ops[name]) = 2
           /\ name = "live" => Len(Ops[name]) = 2
           /\ name = "header" => Len(Ops[name]) = 2
           /\ name = "matrix" => Len(Ops[name]) = 14
           /\ name = "close" => Len(Ops[name]) = 4
           /\ name = "ledger" => Len(Ops[name]) = 2
           /\ name = "dust" => Len(Ops[name]) = 12
           /\ name = "orders" => Len(Ops[name]) = 8
           /\ name = "contract" => Len(Ops[name]) = 8
           /\ name = "lab" => Len(Ops[name]) = 4
           /\ Len(Ops[name]) \in Nat /\ 0 < Len(Ops[name])
<1>1. ASSUME name = "link" PROVE Len(Ops[name]) = 1
  BY <1>1 DEF Ops
<1>2. ASSUME name = "refresh" PROVE Len(Ops[name]) = 2
  BY <1>2 DEF Ops
<1>3. ASSUME name = "live" PROVE Len(Ops[name]) = 2
  BY <1>3 DEF Ops
<1>4. ASSUME name = "header" PROVE Len(Ops[name]) = 2
  BY <1>4 DEF Ops
<1>5. ASSUME name = "matrix" PROVE Len(Ops[name]) = 14
  BY <1>5 DEF Ops
<1>6. ASSUME name = "close" PROVE Len(Ops[name]) = 4
  BY <1>6 DEF Ops
<1>7. ASSUME name = "ledger" PROVE Len(Ops[name]) = 2
  BY <1>7 DEF Ops
<1>8. ASSUME name = "dust" PROVE Len(Ops[name]) = 12
  BY <1>8 DEF Ops
<1>9. ASSUME name = "orders" PROVE Len(Ops[name]) = 8
  BY <1>9 DEF Ops
<1>10. ASSUME name = "contract" PROVE Len(Ops[name]) = 8
  BY <1>10 DEF Ops
<1>11. ASSUME name = "lab" PROVE Len(Ops[name]) = 4
  BY <1>11 DEF Ops
<1> DEFINE k == Len(Ops[name])
<1>12. k \in {1, 2, 4, 8, 12, 14}
  <2> HIDE DEF k
  <2> QED BY <1>1, <1>2, <1>3, <1>4, <1>5, <1>6, <1>7, <1>8, <1>9, <1>10, <1>11 DEF Commands, k
<1>13. k \in Nat /\ 0 < k
  <2> HIDE DEF k
  <2> QED BY <1>12
<1> QED BY <1>1, <1>2, <1>3, <1>4, <1>5, <1>6, <1>7, <1>8, <1>9, <1>10, <1>11, <1>12, <1>13

LEMMA DispatchedIsCommand ==
    ASSUME NEW c \in Command, NEW d \in Dispatched(c)
    PROVE  d \in Command /\ d.name = c.name
BY DEF Dispatched, Command

\* The payment of a process that refunds.
LEMMA TargetIsThere ==
    ASSUME Typed, NEW run, run.command.name \in Refunders,
           run.command.name # "live" => /\ SessionFits(run.file, links, payments)
                                        /\ run.file.payment # 0
    PROVE  /\ Target(run) \in DOMAIN ledgers
           /\ run.command.name # "live" =>
                Target(run) \in DOMAIN payments /\ payments[Target(run)].link # 0
<1>1. /\ Len(payments) \in Nat /\ Len(payments) <= plan.customers /\ plan.customers \in Nat
      /\ 1 \in 1..plan.customers
      /\ DOMAIN payments = 1..Len(payments) /\ DOMAIN ledgers = 1..plan.customers
  BY AccountTypes DEF Typed
<1>2. CASE run.command.name = "live"
  BY <1>1, <1>2 DEF Target
<1>3. CASE run.command.name # "live"
  <2>1. run.file.payment \in 1..Len(payments) /\ payments[run.file.payment].link # 0
    BY <1>1, <1>3 DEF SessionFits
  <2> QED BY <1>1, <1>3, <2>1 DEF Target
<1> QED BY <1>2, <1>3

LEMMA LaunchStep ==
    ASSUME AccountInv, NEW r \in DOMAIN runs, Launch(r)
    PROVE  AccountInv'
<1> DEFINE run == runs[r]
<1>0. /\ Typed /\ run \in Process /\ run.at = "new" /\ Fits(r, run) /\ faults \in 0..plan.faults
      /\ EntriesFit /\ UNCHANGED <<plan, account, late, faults, session>>
  BY DEF AccountInv, Typed, Launch
<1>1. PICK c \in Dispatched(run.command) :
          /\ OnSession(c) => session # None
          /\ runs' = [runs EXCEPT ![r].command = c, ![r].file = session,
                                  ![r].at = IF Admitted(c, session) THEN "exchange" ELSE "refused"]
  BY DEF Launch
<1>2. c \in Command /\ c.name \in Commands
  BY <1>0, <1>1, DispatchedIsCommand, CommandNames DEF Process
<1> DEFINE at == IF Admitted(c, session) THEN "exchange" ELSE "refused"
           next == [run EXCEPT !.command = c, !.file = session, !.at = at]
<1>3. runs' = [runs EXCEPT ![r] = next]
  BY <1>0, <1>1 DEF Process
<1>4. at \in {"exchange", "refused"}
  OBVIOUS
<1>5. session \in {None} \cup Session
  BY <1>0 DEF Typed, SessionFits
<1>6. next \in Process
  <2>1. at \in Points
    BY <1>4 DEF Points
  <2> HIDE DEF run, at
  <2> QED BY <1>0, <1>2, <1>5, <2>1 DEF Process
<1>7. /\ next.command = c /\ next.file = session /\ next.at = at
      /\ next.answers = run.answers /\ next.rest = run.rest
  <2> HIDE DEF run, at
  <2> QED BY <1>0 DEF Process
<1> HIDE DEF next
<1>8. Len(next.answers) = 0 /\ DOMAIN next.answers = {}
  <2>1. Len(run.answers) = 0
    BY <1>0 DEF Fits, Placed
  <2>2. DOMAIN next.answers = 1..Len(next.answers)
    BY <1>6, Answers
  <2> QED BY <1>7, <2>1, <2>2
<1>9. Follows(run, next)
  BY <1>0 DEF Follows
<1>10. Placed(next, links, payments)
  <2>1. Active(next) => next.at = "exchange" /\ Admitted(c, session)
    BY <1>4, <1>7 DEF Active
  <2>2. OnSession(c) => SessionFits(session, links, payments)
    BY <1>0, <1>1 DEF Typed
  <2>3. next.at \notin {"new", "save", "write", "done"}
    BY <1>4, <1>7
  <2>4. 0 < Len(Ops[c.name])
    BY <1>2, OpsLengths
  <2> QED BY <1>7, <1>8, <2>1, <2>2, <2>3, <2>4 DEF Placed
<1>11. Fits(r, next)
  <2>1. CASE ~ Active(next)
    BY <1>10, <2>1, GivenUp
  <2>2. CASE Active(next)
    <3>1. Found(next, links, payments) /\ Ordered(r, next, orders) /\ Served(r, next, labs[r])
      <4>1. next.at \notin {"save", "write"}
        BY <1>4, <1>7
      <4> QED BY <1>8, <4>1 DEF Found, Ordered, Served
    <3>2. ASSUME next.command.name \in Refunders
          PROVE  LET p == Target(next) IN
                 /\ p \in DOMAIN ledgers
                 /\ Accounted(r, next, ledgers[p])
                 /\ Read(next, ledgers[p], plan.price)
                 /\ Roomy(r, next, ledgers[p], plan.price)
                 /\ Bounded(r, next, ledgers[p])
      <4> DEFINE p == Target(next)
      <4>1. next.command.name # "live" =>
                SessionFits(next.file, links, payments) /\ next.file.payment # 0
        BY <1>10, <2>2, <3>2 DEF Placed, OnSession, OnPayment, Admitted, Refunders
      <4>2. p \in DOMAIN ledgers
        BY <1>0, <3>2, <4>1, TargetIsThere
      <4> HIDE DEF p
      <4>3. \A i \in DOMAIN ledgers[p] : ledgers[p][i].request.owner # r
        BY <1>0, <4>2 DEF EntriesFit, MadeBy
      <4>4. Accounted(r, next, ledgers[p])
        BY <1>8, <4>3 DEF Accounted
      <4>5. Read(next, ledgers[p], plan.price) /\ Roomy(r, next, ledgers[p], plan.price)
            /\ Bounded(r, next, ledgers[p])
        BY <1>8 DEF Read, Roomy, Bounded
      <4> QED BY <4>2, <4>4, <4>5 DEF p
    <3>3. RefundsFit(r, next, ledgers, plan.price)
      BY <3>2 DEF RefundsFit
    <3> QED BY <1>10, <3>1, <3>3 DEF Fits
  <2> QED BY <2>1, <2>2
<1>12. AccountStays
  BY <1>0, Unaffected
<1> QED BY <1>3, <1>6, <1>9, <1>11, <1>12, QuietStep

LEMMA LaunchFailsStep ==
    ASSUME AccountInv, NEW r \in DOMAIN runs, LaunchFails(r)
    PROVE  AccountInv'
<1> DEFINE run == runs[r]
           next == [run EXCEPT !.at = "dead"]
<1>0. /\ Typed /\ run \in Process /\ run.at = "new" /\ faults \in 0..plan.faults
      /\ UNCHANGED <<plan, account, late, faults, session>>
      /\ runs' = [runs EXCEPT ![r].at = "dead"]
  BY DEF AccountInv, Typed, LaunchFails
<1>1. runs' = [runs EXCEPT ![r] = next]
  BY <1>0 DEF Process
<1>2. next \in Process /\ next.at = "dead"
  <2>1. "dead" \in Points
    BY DEF Points
  <2> HIDE DEF run
  <2> QED BY <1>0, <2>1 DEF Process
<1> HIDE DEF next
<1>3. Follows(run, next) /\ ~ Active(next) /\ Placed(next, links, payments)
  BY <1>0, <1>2 DEF Follows, Active, Placed
<1>4. Fits(r, next)
  BY <1>3, GivenUp
<1>5. AccountStays
  BY <1>0, Unaffected
<1> QED BY <1>1, <1>2, <1>3, <1>4, <1>5, QuietStep

-----------------------------------------------------------------------------
(* One answer more.                                                        *)

LEMMA AppendAnswer ==
    ASSUME NEW a \in Seq(Answer), NEW x \in Answer
    PROVE  LET b == Append(a, x)
               n == Len(a) IN
           /\ b \in Seq(Answer) /\ n \in Nat /\ Len(b) = n + 1
           /\ DOMAIN a = 1..n /\ DOMAIN b = 1..(n + 1)
           /\ b[n + 1] = x
           /\ \A i \in 1..n : b[i] = a[i] /\ i # n + 1 /\ i \in 1..(n + 1)
           /\ \A i \in 1..(n + 1) : i \in 1..n \/ i = n + 1
OBVIOUS

\* Which commands make which requests.
LEMMA WhoAsks ==
    ASSUME NEW name \in Commands, NEW n \in 1..Len(Ops[name])
    PROVE  LET op == Ops[name][n] IN
           /\ op = "create_link" => name = "link"
           /\ op = "link" => name = "refresh" /\ n = 1
           /\ op = "payments" => name = "refresh" /\ n = 2
           /\ op \in {"refund", "list", "relist", "payment"} => name \in Refunders
           /\ op = "order" => name \in {"orders", "contract"}
           /\ op \in {"lab", "new_lab"} => name = "lab"
           /\ name = "link" => op = "create_link" /\ n = 1
           /\ name = "refresh" => op \in {"link", "payments"}
           /\ name = "lab" => n \in 1..4
           /\ name \in {"matrix", "close"} /\ n = 1 => op = "list"
           /\ name = "lab" => op = IF n \in {1, 3} THEN "new_lab" ELSE "lab"
           /\ op = "relist" => name = "matrix" /\ n = 14
           /\ name = "matrix" /\ op = "list" => n \in {1, 11}
           /\ name = "matrix" /\ op # "refund" => n \in {1, 11, 14}
           /\ name = "matrix" => op # "payment"
<1> DEFINE op == Ops[name][n]
<1>1. CASE name = "link"
  BY <1>1 DEF Ops
<1>2. CASE name = "refresh"
  BY <1>2 DEF Ops
<1>3. CASE name = "live"
  BY <1>3 DEF Ops, Refunders
<1>4. CASE name = "header"
  BY <1>4 DEF Ops, Refunders
<1>5. CASE name = "matrix"
  BY <1>5 DEF Ops, Refunders
<1>6. CASE name = "close"
  BY <1>6 DEF Ops, Refunders
<1>7. CASE name = "ledger"
  BY <1>7 DEF Ops, Refunders
<1>8. CASE name = "dust"
  BY <1>8 DEF Ops, Refunders
<1>9. CASE name = "orders"
  BY <1>9 DEF Ops
<1>10. CASE name = "contract"
  BY <1>10 DEF Ops
<1>11. CASE name = "lab"
  BY <1>11 DEF Ops
<1> HIDE DEF op
<1> QED BY <1>1, <1>2, <1>3, <1>4, <1>5, <1>6, <1>7, <1>8, <1>9, <1>10, <1>11 DEF Commands

\* An answer that is no refund adds none.
LEMMA AccountedSame ==
    ASSUME NEW r, NEW run \in Process, NEW next \in Process, NEW a \in Answer, NEW ledger,
           Accounted(r, run, ledger), next.command = run.command,
           next.answers = Append(run.answers, a),
           Ops[run.command.name][Len(run.answers) + 1] # "refund" \/ ~ a.ok
    PROVE  Accounted(r, next, ledger)
<1> DEFINE old == run.answers
           new == next.answers
           name == run.command.name
           n == Len(old)
<1>1. /\ DOMAIN old = 1..n /\ DOMAIN new = 1..(n + 1) /\ new[n + 1] = a /\ n \in Nat
      /\ \A i \in 1..n : new[i] = old[i] /\ i # n + 1 /\ i \in 1..(n + 1)
      /\ \A i \in 1..(n + 1) : i \in 1..n \/ i = n + 1
  BY Answers, AppendAnswer
<1>2. ASSUME NEW i \in DOMAIN new, Ops[name][i] = "refund", new[i].ok
      PROVE  /\ new[i].id \in DOMAIN ledger
             /\ ledger[new[i].id].request.owner = r
             /\ ledger[new[i].id].request.label = Asks[name][i]
  <2>1. i \in 1..n
    BY <1>1, <1>2
  <2> QED BY <1>1, <1>2, <2>1 DEF Accounted
<1>3. ASSUME NEW k \in DOMAIN ledger, ledger[k].request.owner = r
      PROVE  \/ \E i \in DOMAIN new : Ops[name][i] = "refund" /\ new[i].ok /\ new[i].id = k
             \/ Errored(next, ledger[k].request.label)
  <2>1. CASE \E i \in DOMAIN old : Ops[name][i] = "refund" /\ old[i].ok /\ old[i].id = k
    BY <1>1, <2>1
  <2>2. CASE Errored(run, ledger[k].request.label)
    <3>1. PICK i \in DOMAIN old : /\ Ops[name][i] = "refund" /\ Asks[name][i] = ledger[k].request.label
                                  /\ ~ old[i].ok /\ old[i].why = {"error"}
      BY <2>2 DEF Errored
    <3>2. i \in DOMAIN new /\ new[i] = old[i]
      BY <1>1
    <3> QED BY <3>1, <3>2 DEF Errored
  <2> QED BY <1>3, <2>1, <2>2 DEF Accounted
<1>4. next.command.name = name
  OBVIOUS
<1>5. \A i \in DOMAIN next.answers :
        Ops[next.command.name][i] = "refund" /\ next.answers[i].ok =>
            /\ next.answers[i].id \in DOMAIN ledger
            /\ ledger[next.answers[i].id].request.owner = r
            /\ ledger[next.answers[i].id].request.label = Asks[next.command.name][i]
  BY <1>2, <1>4
<1>6. \A k \in DOMAIN ledger :
        ledger[k].request.owner = r =>
            \/ \E i \in DOMAIN next.answers :
                 /\ Ops[next.command.name][i] = "refund"
                 /\ next.answers[i].ok /\ next.answers[i].id = k
            \/ Errored(next, ledger[k].request.label)
  BY <1>3, <1>4
<1> QED BY <1>5, <1>6, Zenon DEF Accounted

LEMMA ReadMore ==
    ASSUME NEW run \in Process, NEW next \in Process, NEW a \in Answer, NEW ledger, NEW price,
           Read(run, ledger, price), next.command = run.command,
           next.answers = Append(run.answers, a),
           Ops[run.command.name][Len(run.answers) + 1] \in {"list", "relist", "payment"}
               => a.total <= Total(ledger) /\ a.count <= Len(ledger),
           run.command.name \in {"close", "matrix"} /\ next.at = "exchange"
               => next.rest + Total(ledger) >= price
    PROVE  Read(next, ledger, price)
<1> DEFINE old == run.answers
           new == next.answers
           name == run.command.name
           n == Len(old)
<1>1. /\ DOMAIN old = 1..n /\ DOMAIN new = 1..(n + 1) /\ new[n + 1] = a
      /\ \A i \in 1..n : new[i] = old[i]
      /\ \A i \in 1..(n + 1) : i \in 1..n \/ i = n + 1
  BY Answers, AppendAnswer
<1>2. ASSUME NEW i \in DOMAIN new, Ops[name][i] \in {"list", "relist", "payment"}
      PROVE  new[i].total <= Total(ledger) /\ new[i].count <= Len(ledger)
  <2>1. CASE i \in 1..n
    BY <1>1, <1>2, <2>1 DEF Read
  <2>2. CASE i = n + 1
    BY <1>1, <1>2, <2>2
  <2> QED BY <1>1, <2>1, <2>2
<1> QED BY <1>2 DEF Read

LEMMA ExplainedMore ==
    ASSUME NEW a \in Seq(Answer), NEW x \in Answer, Explained(a),
           Len(a) + 1 = 4 /\ ~ x.ok => Sole(x.why, "balance"),
           Len(a) + 1 = 6 /\ a[5].ok /\ ~ x.ok => Sole(x.why, "conflict"),
           Len(a) + 1 = 8 /\ a[7].ok /\ ~ x.ok => Sole(x.why, "duplicate")
    PROVE  Explained(Append(a, x))
<1> DEFINE b == Append(a, x)
           n == Len(a)
<1>1. n \in Nat /\ Len(b) = n + 1 /\ b[n + 1] = x /\ \A i \in 1..n : b[i] = a[i]
  BY AppendAnswer
<1> HIDE DEF b
<1>2. n + 1 >= 4 /\ ~ b[4].ok => Sole(b[4].why, "balance")
  BY <1>1 DEF Explained
<1>3. n + 1 >= 6 /\ b[5].ok /\ ~ b[6].ok => Sole(b[6].why, "conflict")
  BY <1>1 DEF Explained
<1>4. n + 1 >= 8 /\ b[7].ok /\ ~ b[8].ok => Sole(b[8].why, "duplicate")
  BY <1>1 DEF Explained
<1> QED BY <1>1, <1>2, <1>3, <1>4 DEF Explained, b

\* Each part of what a process knows is about some commands only.
LEMMA Concerns ==
    ASSUME NEW r, NEW run, run.command.name \in Commands
    PROVE  /\ run.command.name \notin {"link", "refresh"} => Found(run, links, payments)
           /\ run.command.name # "contract" => Ordered(r, run, orders)
           /\ run.command.name # "lab" => Served(r, run, labs[r])
           /\ run.command.name \notin Refunders => RefundsFit(r, run, ledgers, plan.price)
BY DEF Found, Ordered, Served, RefundsFit

LEMMA Apart ==
    /\ Refunders \subseteq Commands
    /\ \A name \in Refunders : name \notin {"link", "refresh", "orders", "contract", "lab"}
BY DEF Refunders, Commands

\* An answer that changes nothing but the process.
LEMMA AnswerStep ==
    ASSUME AccountInv, NEW r \in DOMAIN runs, runs[r].at = "exchange",
           NEW a \in Answer, NEW rest \in Nat, NEW ok \in BOOLEAN, Proceed(r, a, rest, ok),
           AccountStays,
           ASSUME NEW next \in Process, Advances(runs[r], next, a, rest, ok), ok,
                  Placed(next, links, payments)
           PROVE  /\ Found(next, links, payments)
                  /\ Ordered(r, next, orders)
                  /\ Served(r, next, labs[r])
                  /\ RefundsFit(r, next, ledgers, plan.price)
    PROVE  AccountInv'
<1>1. PICK next \in Process :
          /\ runs' = [runs EXCEPT ![r] = next]
          /\ Follows(runs[r], next)
          /\ Advances(runs[r], next, a, rest, ok)
          /\ Placed(next, links, payments)
  BY Advance
<1>2. Fits(r, next)
  <2>1. CASE ok
    BY <1>1, <2>1 DEF Fits
  <2>2. CASE ~ ok
    BY <1>1, <2>2, GivenUp DEF Active, Advances
  <2> QED BY <2>1, <2>2
<1> QED BY <1>1, <1>2, QuietStep

\* The same for a process that refunds.
LEMMA ReadingStep ==
    ASSUME AccountInv, NEW r \in DOMAIN runs, runs[r].at = "exchange",
           runs[r].command.name \in Refunders,
           NEW a \in Answer, NEW rest \in Nat, NEW ok \in BOOLEAN, Proceed(r, a, rest, ok),
           AccountStays,
           LET run == runs[r]
               op == Ops[run.command.name][Len(run.answers) + 1]
               ledger == ledgers[Target(run)] IN
           /\ op # "refund" \/ ~ a.ok
           /\ op \in {"list", "relist", "payment"} =>
                a.total <= Total(ledger) /\ a.count <= Len(ledger)
           /\ ok /\ run.command.name \in {"close", "matrix"} => rest + Total(ledger) >= plan.price,
           ASSUME NEW next \in Process, Advances(runs[r], next, a, rest, ok), ok,
                  runs[r].command.name = "matrix"
           PROVE  /\ Roomy(r, next, ledgers[Target(runs[r])], plan.price)
                  /\ Bounded(r, next, ledgers[Target(runs[r])])
    PROVE  AccountInv'
<1> DEFINE run == runs[r]
           p == Target(run)
<1>0. /\ run \in Process /\ Fits(r, run) /\ Active(run) /\ run.command.name \in Commands
      /\ p \in DOMAIN ledgers
      /\ Accounted(r, run, ledgers[p])
      /\ Read(run, ledgers[p], plan.price)
  <2>1. run \in Process /\ Fits(r, run) /\ Active(run) /\ run.command.name \in Commands
    BY AtExchange
  <2> QED BY <2>1 DEF Fits, RefundsFit
<1>1. ASSUME NEW next \in Process, Advances(run, next, a, rest, ok), ok,
             Placed(next, links, payments)
      PROVE  /\ Found(next, links, payments)
             /\ Ordered(r, next, orders)
             /\ Served(r, next, labs[r])
             /\ RefundsFit(r, next, ledgers, plan.price)
  <2>1. next.command = run.command /\ next.file = run.file /\ next.rest = rest
        /\ next.answers = Append(run.answers, a)
    BY <1>1 DEF Advances
  <2>2. Found(next, links, payments) /\ Ordered(r, next, orders) /\ Served(r, next, labs[r])
    BY <1>0, <2>1, Apart, Concerns
  <2>3. Target(next) = p
    BY <2>1 DEF Target
  <2>4. Roomy(r, next, ledgers[p], plan.price) /\ Bounded(r, next, ledgers[p])
    <3>1. CASE run.command.name = "matrix"
      BY <1>1, <3>1
    <3>2. CASE run.command.name # "matrix"
      BY <2>1, <3>2 DEF Roomy, Bounded
    <3> QED BY <3>1, <3>2
  <2>5. Accounted(r, next, ledgers[p])
    <3> HIDE DEF run, p
    <3> SUFFICES Ops[run.command.name][Len(run.answers) + 1] # "refund" \/ ~ a.ok
      BY <1>0, <2>1, AccountedSame
    <3> QED BY DEF run
  <2>6. Read(next, ledgers[p], plan.price)
    <3>1. Ops[run.command.name][Len(run.answers) + 1] \in {"list", "relist", "payment"} =>
              a.total <= Total(ledgers[p]) /\ a.count <= Len(ledgers[p])
      OBVIOUS
    <3>2. run.command.name \in {"close", "matrix"} => next.rest + Total(ledgers[p]) >= plan.price
      BY <1>1, <2>1
    <3> HIDE DEF run, p
    <3> QED BY <1>0, <2>1, <3>1, <3>2, ReadMore
  <2>7. RefundsFit(r, next, ledgers, plan.price)
    BY <1>0, <2>3, <2>4, <2>5, <2>6 DEF RefundsFit
  <2> QED BY <2>2, <2>7
<1> QED BY <1>1, AnswerStep

LEMMA BoundedSame ==
    ASSUME NEW r, NEW run \in Process, NEW next \in Process, NEW a \in Answer, NEW ledger,
           Bounded(r, run, ledger), Len(run.answers) > 0, next.command = run.command,
           next.answers = Append(run.answers, a)
    PROVE  Bounded(r, next, ledger)
<1>1. /\ Len(run.answers) \in Nat /\ Len(next.answers) = Len(run.answers) + 1
      /\ next.answers[1] = run.answers[1]
  BY Answers, AppendAnswer
<1>2. Alone(r, next, ledger) => Alone(r, run, ledger)
  BY <1>1 DEF Alone
<1>3. Len(next.answers) \in 1..7 => Len(run.answers) \in 1..7
  <2> DEFINE n == Len(run.answers)
             m == Len(next.answers)
  <2>1. n \in Nat /\ m = n + 1 /\ n > 0
    BY <1>1
  <2> HIDE DEF n, m
  <2>2. m \in 1..7 => n \in 1..7
    BY <2>1
  <2> QED BY <2>2 DEF n, m
<1> QED BY <1>1, <1>2, <1>3 DEF Bounded

LEMMA WeightNatural ==
    ASSUME NEW r, NEW ledger
    PROVE  Weight(r, ledger) \in Nat /\ Weight(r, ledger) <= 400
BY DEF Weight

\* One answer more for a matrix that has read what there is to refund.
LEMMA RoomyMore ==
    ASSUME NEW r, NEW run \in Process, NEW next \in Process, NEW a \in Answer,
           NEW ledger \in Seq(Entry), NEW new, NEW price \in Nat,
           run.command.name = "matrix", run.at = "exchange", Len(run.answers) > 0,
           Roomy(r, run, ledger, price), Accounted(r, run, ledger), Bounded(r, run, ledger),
           next.command = run.command, next.file = run.file,
           next.answers = Append(run.answers, a),
           Len(run.answers) < 10 => next.rest = run.rest,
           Grown(ledger, new),
           Len(run.answers) + 1 = 5 /\ a.ok =>
               new[a.id].request = Request(r, "mismatch", "exact", 100, Fresh(r, "mismatch"), None),
           Len(run.answers) + 1 = 7 /\ a.ok =>
               new[a.id].request = Request(r, "receipt", "exact", 100, None, Fresh(r, "receipt")),
           ASSUME run.file.captured, Alone(r, run, ledger),
                  Len(run.answers) <= 7 =>
                      Total(ledger) <= run.answers[1].total + Weight(r, ledger),
                  Len(run.answers) <= 9 => run.rest >= 500 /\ run.rest + run.answers[1].total = price,
                  Held(r, run.answers, ledger)
           PROVE  /\ Len(run.answers) + 1 = 4 /\ ~ a.ok => Sole(a.why, "balance")
                  /\ Len(run.answers) + 1 = 6 /\ run.answers[5].ok /\ ~ a.ok => Sole(a.why, "conflict")
                  /\ Len(run.answers) + 1 = 8 /\ run.answers[7].ok /\ ~ a.ok => Sole(a.why, "duplicate")
    PROVE  Roomy(r, next, new, price)
<1> DEFINE old == run.answers
           b == next.answers
           n == Len(old)
<1>1. /\ n \in Nat /\ Len(b) = n + 1 /\ b[n + 1] = a /\ \A i \in 1..n : b[i] = old[i]
      /\ old \in Seq(Answer) /\ b = Append(old, a) /\ DOMAIN old = 1..n
      /\ b[1] = old[1] /\ n > 0
  <2>1. old \in Seq(Answer)
    BY Answers
  <2> QED BY <2>1, AppendAnswer
<1>2. /\ DOMAIN ledger \subseteq DOMAIN new
      /\ \A i \in DOMAIN ledger : new[i] = ledger[i]
  <2>1. CASE new = ledger
    BY <2>1
  <2>2. CASE new # ledger
    BY <2>2, AppendEntry DEF Grown
  <2> QED BY <2>1, <2>2
<1>3. /\ n <= 10 => run.rest >= 500 /\ run.rest + old[1].total = price
      /\ Held(r, old, ledger)
      /\ run.file.captured /\ Alone(r, run, ledger) =>
             /\ n <= 7 => Total(ledger) <= old[1].total + Weight(r, ledger)
             /\ Explained(old)
  <2>1. n \in Nat /\ n > 0 /\ (n <= 7 => n \in 1..7)
    <3> HIDE DEF n
    <3> QED BY <1>1
  <2>2. n <= 10 => run.rest >= 500 /\ run.rest + old[1].total = price
    BY <2>1 DEF Roomy
  <2>3. Held(r, old, ledger) /\ (run.file.captured /\ Alone(r, run, ledger) => Explained(old))
    BY <2>1 DEF Roomy
  <2>4. Alone(r, run, ledger) /\ n <= 7 => Total(ledger) <= old[1].total + Weight(r, ledger)
    BY <2>1 DEF Bounded
  <2> QED BY <2>2, <2>3, <2>4
<1>4. Held(r, b, new)
  <2>1. \A k \in DOMAIN old : Ops["matrix"][k] = "refund" /\ old[k].ok => old[k].id \in DOMAIN ledger
    BY DEF Accounted
  <2>2. n >= 5 /\ b[5].ok =>
            new[b[5].id].request = Request(r, "mismatch", "exact", 100, Fresh(r, "mismatch"), None)
    <3>1. n >= 5 => 5 \in DOMAIN old /\ b[5] = old[5]
      BY <1>1
    <3>2. n >= 5 /\ b[5].ok => old[5].id \in DOMAIN ledger
      BY <2>1, <3>1, MatrixOps
    <3> HIDE DEF old, b
    <3>3. n >= 5 /\ old[5].ok => ledger[old[5].id].request = Request(r, "mismatch", "exact", 100, Fresh(r, "mismatch"), None)
      BY <1>3 DEF Held
    <3> QED BY <1>2, <3>1, <3>2, <3>3
  <2>3. n >= 7 /\ b[7].ok =>
            new[b[7].id].request = Request(r, "receipt", "exact", 100, None, Fresh(r, "receipt"))
    <3>1. n >= 7 => 7 \in DOMAIN old /\ b[7] = old[7]
      BY <1>1
    <3>2. n >= 7 /\ b[7].ok => old[7].id \in DOMAIN ledger
      BY <2>1, <3>1, MatrixOps
    <3> HIDE DEF old, b
    <3>3. n >= 7 /\ old[7].ok => ledger[old[7].id].request = Request(r, "receipt", "exact", 100, None, Fresh(r, "receipt"))
      BY <1>3 DEF Held
    <3> QED BY <1>2, <3>1, <3>2, <3>3
  <2>4. n = 4 => b[5] = a /\ (a.ok => new[a.id].request
              = Request(r, "mismatch", "exact", 100, Fresh(r, "mismatch"), None))
    BY <1>1
  <2>5. n = 6 => b[7] = a /\ (a.ok => new[a.id].request
              = Request(r, "receipt", "exact", 100, None, Fresh(r, "receipt")))
    BY <1>1
  <2>6. (n + 1 >= 5 => n >= 5 \/ n = 4) /\ (n + 1 >= 7 => n >= 7 \/ n = 6)
    <3>1. n \in Nat
      BY <1>1
    <3> HIDE DEF n
    <3> QED BY <3>1
  <2> HIDE DEF b, n
  <2>8. n + 1 >= 5 /\ b[5].ok =>
            new[b[5].id].request = Request(r, "mismatch", "exact", 100, Fresh(r, "mismatch"), None)
    BY <2>2, <2>4, <2>6
  <2>9. n + 1 >= 7 /\ b[7].ok =>
            new[b[7].id].request = Request(r, "receipt", "exact", 100, None, Fresh(r, "receipt"))
    BY <2>3, <2>5, <2>6
  <2> QED BY <1>1, <2>8, <2>9 DEF Held, n, b
<1>5. ASSUME run.file.captured, Alone(r, next, new)
      PROVE  Explained(b)
  <2>1. Alone(r, run, ledger)
    BY <1>1, <1>2, <1>5 DEF Alone
  <2>2. /\ n + 1 = 4 /\ ~ a.ok => Sole(a.why, "balance")
        /\ n + 1 = 6 /\ old[5].ok /\ ~ a.ok => Sole(a.why, "conflict")
        /\ n + 1 = 8 /\ old[7].ok /\ ~ a.ok => Sole(a.why, "duplicate")
    <3>1. n <= 9 => run.rest >= 500 /\ run.rest + old[1].total = price
      BY <1>1, <1>3
    <3> QED BY <1>3, <1>5, <2>1, <3>1
  <2>3. Explained(old)
    BY <1>3, <1>5, <2>1
  <2> HIDE DEF old, b
  <2>4. Explained(Append(old, a))
    BY <1>1, <2>2, <2>3, ExplainedMore DEF n
  <2> QED BY <1>1, <2>4
<1>6. n + 1 <= 10 => next.rest >= 500 /\ next.rest + b[1].total = price
  <2>1. n + 1 <= 10 => n < 10 /\ n <= 10
    BY <1>1
  <2> QED BY <1>1, <1>3, <2>1
<1> QED BY <1>1, <1>4, <1>5, <1>6 DEF Roomy

LEMMA ReadingFields ==
    ASSUME Typed, NEW p \in DOMAIN ledgers
    PROVE  /\ Reading(p) \in Answer
           /\ Reading(p).total = Total(ledgers[p])
           /\ Reading(p).count = Len(ledgers[p])
<1>1. Total(ledgers[p]) \in Nat /\ Len(ledgers[p]) \in Nat
  <2>1. ledgers[p] \in Seq(Entry) /\ Total(ledgers[p]) \in Nat
    BY AccountTypes
  <2> QED BY <2>1
<1> QED BY <1>1, AnswerFields DEF Reading, Answer

\* What is left to refund, and the process that is to refund it.
LEMMA AtPayment ==
    ASSUME AccountInv, NEW r \in DOMAIN runs, runs[r].at = "exchange",
           runs[r].command.name \in Refunders
    PROVE  LET run == runs[r]
               p == Target(run) IN
           /\ p \in DOMAIN ledgers
           /\ p = PaymentOf(r)
           /\ ledgers[p] \in Seq(Entry)
           /\ LedgerFits(ledgers[p], plan.price)
           /\ plan.price \in Nat
           /\ Total(ledgers[p]) \in Nat
           /\ Rest(p) \in Nat /\ Rest(p) + Total(ledgers[p]) = plan.price
           /\ Accounted(r, run, ledgers[p])
           /\ Read(run, ledgers[p], plan.price)
           /\ Roomy(r, run, ledgers[p], plan.price)
           /\ Bounded(r, run, ledgers[p])
           /\ run.command.name # "live" => p \in DOMAIN payments /\ payments[p].link # 0
           /\ run.command.name # "live" /\ run.file.captured => payments[p].captured
<1> DEFINE run == runs[r]
           p == Target(run)
<1>1. Typed /\ Fits(r, run) /\ Active(run)
  BY AtExchange DEF AccountInv
<1>2. /\ p \in DOMAIN ledgers
      /\ Accounted(r, run, ledgers[p])
      /\ Read(run, ledgers[p], plan.price)
      /\ Roomy(r, run, ledgers[p], plan.price)
      /\ Bounded(r, run, ledgers[p])
  BY <1>1 DEF Fits, RefundsFit
<1>3. p = PaymentOf(r)
  BY DEF PaymentOf, Target
<1>4. ledgers[p] \in Seq(Entry) /\ Total(ledgers[p]) \in Nat /\ plan.price \in Nat
  BY <1>1, <1>2, AccountTypes
<1>5. LedgerFits(ledgers[p], plan.price)
  BY <1>2 DEF AccountInv
<1>6. Rest(p) \in Nat /\ Rest(p) + Total(ledgers[p]) = plan.price
  BY <1>4, <1>5 DEF LedgerFits, Rest
<1>7. run.command.name # "live" => SessionFits(run.file, links, payments) /\ run.file.payment # 0
  BY <1>1 DEF Fits, Placed, OnSession, OnPayment, Admitted, Refunders
<1>8. run.command.name # "live" => p \in DOMAIN payments /\ payments[p].link # 0
  BY <1>1, <1>7, TargetIsThere
<1>9. run.command.name # "live" /\ run.file.captured => payments[p].captured
  BY <1>7 DEF SessionFits, Target
<1> QED BY <1>2, <1>3, <1>4, <1>5, <1>6, <1>8, <1>9

LEMMA ListRefundsStep ==
    ASSUME AccountInv, NEW r \in DOMAIN runs, ListRefunds(r)
    PROVE  AccountInv'
<1> DEFINE run == runs[r]
           name == run.command.name
           op == Ops[name][Len(run.answers) + 1]
           p == Target(run)
           ledger == ledgers[p]
           a == Reading(p)
           ok == Rest(p) \in Step(r).lo..Step(r).hi
           n == Len(run.answers)
<1>0. /\ run.at = "exchange" /\ op \in {"list", "relist"} /\ name \in Refunders
      /\ run \in Process /\ n \in Nat /\ n + 1 \in 1..Len(Ops[name]) /\ name \in Commands
      /\ Step(r).op \in {"list", "relist"}
  <2>1. run.at = "exchange" /\ Step(r).op \in {"list", "relist"}
    BY DEF ListRefunds, AtStep
  <2>2. /\ op = Step(r).op /\ name \in Commands
        /\ run \in Process /\ n \in Nat /\ n + 1 \in 1..Len(Ops[name])
    BY <2>1, AtExchange
  <2> HIDE DEF run
  <2> QED BY <2>1, <2>2, WhoAsks
<1>1. /\ p = PaymentOf(r) /\ p \in DOMAIN ledgers /\ ledger \in Seq(Entry)
      /\ Rest(p) \in Nat /\ Rest(p) + Total(ledger) = plan.price
      /\ Accounted(r, run, ledger) /\ Roomy(r, run, ledger, plan.price)
      /\ Bounded(r, run, ledger) /\ Total(ledger) \in Nat /\ Len(ledger) \in Nat /\ plan.price \in Nat
  BY <1>0, AtPayment
<1>2. a \in Answer /\ a.total = Total(ledger) /\ a.count = Len(ledger)
  BY <1>1, ReadingFields DEF AccountInv
<1>3. Proceed(r, a, Rest(p), ok) /\ ok \in BOOLEAN /\ AccountStays
  BY <1>1, Unaffected DEF ListRefunds
<1>4. ASSUME NEW next \in Process, Advances(run, next, a, Rest(p), ok), ok, name = "matrix"
      PROVE  Roomy(r, next, ledger, plan.price) /\ Bounded(r, next, ledger)
  <2>1. /\ next.command = run.command /\ next.file = run.file /\ next.rest = Rest(p)
        /\ next.answers = Append(run.answers, a)
    BY <1>4 DEF Advances
  <2>2. n + 1 \in {1, 11, 14}
    <3> HIDE DEF run, n
    <3> QED BY <1>0, <1>4, WhoAsks DEF n
  <2>3. CASE n = 0
    <3>1. ScriptOf(r)[1] = List(500, plan.price)
      BY <1>4 DEF ScriptOf, Script, MatrixScript
    <3>2. Rest(p) >= 500
      <4>1. Step(r).lo = 500
        BY <2>3, <3>1, StepFields DEF Step
      <4> HIDE DEF p
      <4> QED BY <1>1, <1>4, <4>1
    <3>3. run.answers \in Seq(Answer)
      BY <1>0, Answers
    <3>4. Len(next.answers) = 1 /\ next.answers[1] = a
      <4> HIDE DEF a, run
      <4> QED BY <1>2, <2>1, <2>3, <3>3, AppendAnswer DEF n
    <3>5. Held(r, next.answers, ledger) /\ Explained(next.answers)
      BY <3>4 DEF Held, Explained
    <3> HIDE DEF a, ledger, p
    <3>6. Bounded(r, next, ledger)
      BY <1>1, <1>2, <3>4, WeightNatural DEF Bounded
    <3> QED BY <1>1, <1>2, <2>1, <3>2, <3>4, <3>5, <3>6 DEF Roomy
  <2>4. CASE n # 0
    <3>1. n >= 10 /\ n > 0
      BY <2>2, <2>4
    <3>2. /\ n > 0 /\ ~ (n < 10)
          /\ n + 1 # 4 /\ n + 1 # 5 /\ n + 1 # 6 /\ n + 1 # 7 /\ n + 1 # 8
      <4> HIDE DEF n
      <4> QED BY <1>0, <3>1
    <3>3. Grown(ledger, ledger)
      BY DEF Grown
    <3> HIDE DEF a, ledger, p, run
    <3>4. Bounded(r, next, ledger)
      BY <1>0, <1>1, <1>2, <2>1, <3>2, BoundedSame DEF n
    <3> QED BY <1>0, <1>1, <1>2, <1>4, <2>1, <3>2, <3>3, <3>4, RoomyMore DEF n, name
  <2> QED BY <2>3, <2>4
<1>5. /\ op # "refund" \/ ~ a.ok
      /\ op \in {"list", "relist", "payment"} => a.total <= Total(ledger) /\ a.count <= Len(ledger)
      /\ ok /\ name \in {"close", "matrix"} => Rest(p) + Total(ledger) >= plan.price
  <2>1. op # "refund"
    BY <1>0
  <2> HIDE DEF a, ledger, p
  <2> QED BY <1>1, <1>2, <2>1
<1> HIDE DEF a, ok
<1> QED BY <1>0, <1>1, <1>2, <1>3, <1>4, <1>5, ReadingStep

\* A matrix or a close that has its first answer knows what to refund.
LEMMA RestCovers ==
    ASSUME AccountInv, NEW r \in DOMAIN runs, runs[r].at = "exchange",
           runs[r].command.name \in {"close", "matrix"}, Step(r).op # "list"
    PROVE  /\ Len(runs[r].answers) > 0
           /\ runs[r].rest + Total(ledgers[Target(runs[r])]) >= plan.price
<1> DEFINE run == runs[r]
           name == run.command.name
           n == Len(run.answers)
<1>1. /\ n \in Nat /\ n + 1 \in 1..Len(Ops[name]) /\ name \in Commands
      /\ Step(r).op = Ops[name][n + 1]
  BY AtExchange
<1>2. n > 0
  <2>1. n = 0 => Ops[name][n + 1] = "list"
    <3> HIDE DEF n
    <3> QED BY <1>1, WhoAsks
  <2> HIDE DEF n
  <2> QED BY <1>1, <2>1
<1>3. Read(run, ledgers[Target(run)], plan.price)
  BY AtPayment DEF Refunders
<1> QED BY <1>2, <1>3 DEF Read

LEMMA FetchPaymentStep ==
    ASSUME AccountInv, NEW r \in DOMAIN runs, FetchPayment(r)
    PROVE  AccountInv'
<1> DEFINE run == runs[r]
           name == run.command.name
           op == Ops[name][Len(run.answers) + 1]
           p == Target(run)
           ledger == ledgers[p]
           a == Reading(p)
<1>0. /\ run.at = "exchange" /\ op = "payment" /\ name \in Refunders /\ name # "matrix"
      /\ run \in Process /\ Step(r).op = "payment"
  <2>1. run.at = "exchange" /\ Step(r).op = "payment"
    BY DEF FetchPayment, AtStep
  <2>2. /\ op = Step(r).op /\ name \in Commands
        /\ run \in Process /\ Len(run.answers) + 1 \in 1..Len(Ops[name])
    BY <2>1, AtExchange
  <2> HIDE DEF run
  <2> QED BY <2>1, <2>2, WhoAsks
<1>1. p = PaymentOf(r) /\ p \in DOMAIN ledgers /\ Total(ledger) \in Nat /\ Len(ledger) \in Nat
  BY <1>0, AtPayment
<1>2. a \in Answer /\ a.total = Total(ledger) /\ a.count = Len(ledger)
  BY <1>1, ReadingFields DEF AccountInv
<1>3. Proceed(r, a, run.rest, TRUE) /\ run.rest \in Nat /\ AccountStays
  BY <1>0, <1>1, Answers, Unaffected DEF FetchPayment
<1>4. /\ op # "refund" \/ ~ a.ok
      /\ op \in {"list", "relist", "payment"} => a.total <= Total(ledger) /\ a.count <= Len(ledger)
      /\ TRUE /\ name \in {"close", "matrix"} => run.rest + Total(ledger) >= plan.price
  <2>1. op # "refund"
    BY <1>0
  <2>2. name \in {"close", "matrix"} => run.rest + Total(ledger) >= plan.price
    BY <1>0, RestCovers
  <2> HIDE DEF a, ledger, p
  <2> QED BY <1>1, <1>2, <2>1, <2>2
<1> HIDE DEF a
<1> QED BY <1>0, <1>1, <1>2, <1>3, <1>4, ReadingStep

LEMMA OrderedMore ==
    ASSUME NEW r, NEW run \in Process, NEW next \in Process, NEW a \in Answer,
           NEW placed \in Seq(Entry), NEW new, Grown(placed, new), run.at = "exchange",
           Ordered(r, run, placed), next.command = run.command,
           next.answers = Append(run.answers, a),
           Len(run.answers) + 1 \in {1, 2} /\ a.ok /\ run.command.name = "contract" =>
               /\ a.id \in DOMAIN new
               /\ new[a.id].request.owner = r
               /\ new[a.id].request.receipt = Fresh(<<r, 1>>, "contract")
    PROVE  Ordered(r, next, new)
<1> DEFINE old == run.answers
           b == next.answers
           n == Len(old)
<1>1. /\ DOMAIN old = 1..n /\ DOMAIN b = 1..(n + 1) /\ b[n + 1] = a
      /\ \A i \in 1..n : b[i] = old[i]
      /\ \A i \in 1..(n + 1) : i \in 1..n \/ i = n + 1
  BY Answers, AppendAnswer
<1>2. Ordered(r, run, new)
  BY OrderedKept
<1>3. ASSUME next.command.name = "contract", NEW i \in DOMAIN b \cap {1, 2}, b[i].ok
      PROVE  /\ b[i].id \in DOMAIN new
             /\ new[b[i].id].request.owner = r
             /\ new[b[i].id].request.receipt = Fresh(<<r, 1>>, "contract")
  <2>1. CASE i \in 1..n
    <3>1. i \in DOMAIN old \cap {1, 2} /\ b[i] = old[i] /\ old[i].ok
      BY <1>1, <1>3, <2>1
    <3> HIDE DEF b, old
    <3>2. Active(run) /\ run.command.name = "contract"
      BY <1>3 DEF Active
    <3>3. \A k \in DOMAIN old \cap {1, 2} : old[k].ok =>
             /\ old[k].id \in DOMAIN new
             /\ new[old[k].id].request.owner = r
             /\ new[old[k].id].request.receipt = Fresh(<<r, 1>>, "contract")
      BY <1>2, <3>2 DEF Ordered, old
    <3> QED BY <3>1, <3>3
  <2>2. CASE i = n + 1
    BY <1>1, <1>3, <2>2
  <2> QED BY <1>1, <1>3, <2>1, <2>2
<1> QED BY <1>3 DEF Ordered

\* The payment of a refresh.
LEMMA ResolveStep ==
    ASSUME AccountInv, NEW r \in DOMAIN runs, runs[r].at = "exchange", Step(r).op = "payments",
           NEW candidates \in SUBSET DOMAIN payments,
           \A p \in candidates : payments[p].link # 0,
           Resolve(r, candidates), AccountStays
    PROVE  AccountInv'
<1> DEFINE run == runs[r]
           n == Len(run.answers)
<1>0. /\ run \in Process /\ run.command.name = "refresh" /\ n = 1 /\ Fits(r, run) /\ Typed
      /\ run.command.name \in Commands /\ Len(run.answers) + 1 = Len(Ops[run.command.name])
      /\ run.at = "exchange" /\ Active(run)
  <2>1. /\ run \in Process /\ run.command.name \in Commands /\ Fits(r, run)
        /\ n \in Nat /\ n + 1 \in 1..Len(Ops[run.command.name])
        /\ Ops[run.command.name][n + 1] = "payments" /\ Active(run)
    BY AtExchange
  <2>2. run.command.name = "refresh" /\ n + 1 = 2
    <3> HIDE DEF run, n
    <3> QED BY <2>1, WhoAsks
  <2>3. Typed
    BY DEF AccountInv
  <2>4. n = 1 /\ Len(Ops[run.command.name]) = 2
    <3> HIDE DEF run, n
    <3> QED BY <2>1, <2>2, OpsLengths
  <2> QED BY <2>1, <2>2, <2>3, <2>4
<1>1. Len(payments) \in Nat /\ DOMAIN payments = 1..Len(payments)
      /\ \A p \in DOMAIN payments : payments[p].captured \in BOOLEAN
  BY <1>0, AccountTypes
<1>2. CASE candidates = {}
  <2> DEFINE next == [run EXCEPT !.at = "done", !.answers = Append(run.answers, NoAnswer)]
  <2>1. runs' = [runs EXCEPT ![r].at = "done", ![r].answers = Append(@, NoAnswer)]
    BY <1>2 DEF Resolve
  <2>2. runs' = [runs EXCEPT ![r] = next]
    BY <1>0, <2>1 DEF Process
  <2>3. /\ Append(run.answers, NoAnswer) \in Seq(Answer)
        /\ Len(Append(run.answers, NoAnswer)) = n + 1
        /\ Append(run.answers, NoAnswer)[1] = run.answers[1]
    <3> DEFINE old == run.answers
    <3>1. old \in Seq(Answer) /\ NoAnswer \in Answer
      BY <1>0, Answers, AnswerFields
    <3>2. Len(old) = 1
      BY <1>0
    <3> DEFINE b == Append(old, NoAnswer)
    <3> HIDE DEF old
    <3>3. b \in Seq(Answer) /\ Len(b) = Len(old) + 1
      BY <3>1, AppendAnswer
    <3>4. \A i \in 1..Len(old) : b[i] = old[i]
      BY <3>1, AppendAnswer
    <3>5. b[1] = old[1]
      <4> HIDE DEF b
      <4> QED BY <3>2, <3>4
    <3> QED BY <1>0, <3>3, <3>4, <3>5 DEF old
  <2>4. next \in Process
    <3>1. "done" \in Points
      BY DEF Points
    <3> HIDE DEF run
    <3> QED BY <1>0, <2>3, <3>1 DEF Process
  <2>5. /\ next.command = run.command /\ next.file = run.file /\ next.at = "done"
        /\ next.answers = Append(run.answers, NoAnswer)
    <3> HIDE DEF run
    <3> QED BY <1>0 DEF Process
  <2> HIDE DEF next
  <2>6. Follows(run, next)
    <3>1. run.answers \in Seq(Answer)
      BY <1>0, Answers
    <3> HIDE DEF run
    <3>2. \A i \in DOMAIN run.answers :
              i \in DOMAIN next.answers /\ next.answers[i] = run.answers[i]
      BY <2>5, <3>1, AnswerFields, AppendAnswer
    <3> QED BY <1>0, <2>5, <3>2 DEF Follows, Keeps
  <2>7. Placed(next, links, payments)
    BY <1>0, <2>3, <2>5 DEF Fits, Placed, Active
  <2>8. Found(next, links, payments)
    BY <1>0, <2>3, <2>5 DEF Fits, Found
  <2>9. next.command.name = "refresh" /\ "refresh" \notin Refunders
    BY <1>0, <2>5, Apart
  <2>10. Ordered(r, next, orders) /\ Served(r, next, labs[r])
         /\ RefundsFit(r, next, ledgers, plan.price)
    BY <1>0, <2>9, Concerns
  <2>11. Fits(r, next)
    BY <2>7, <2>8, <2>10 DEF Fits
  <2> QED BY <2>2, <2>4, <2>6, <2>11, QuietStep
<1>3. CASE candidates # {}
  <2> DEFINE newest == CHOOSE p \in candidates : \A q \in candidates : q <= p
             a == [NoAnswer EXCEPT !.id = newest, !.ok = payments[newest].captured]
  <2>1. \E p \in candidates : \A q \in candidates : q <= p
    <3> DEFINE T == {Len(payments) - p : p \in candidates}
    <3>1. T \in SUBSET Nat /\ T # {}
      BY <1>1, <1>3
    <3>2. PICK m \in T : \A k \in T : m <= k
      <4> HIDE DEF T
      <4> QED BY <3>1, LeastNatural
    <3>3. PICK p \in candidates : m = Len(payments) - p
      BY <3>2
    <3>4. ASSUME NEW q \in candidates PROVE q <= p
      <4>1. Len(payments) - p <= Len(payments) - q
        BY <3>2, <3>3
      <4>2. p \in Nat /\ q \in Nat
        BY <1>1
      <4> QED BY <1>1, <4>1, <4>2
    <3> QED BY <3>4
  <2>2. newest \in candidates
    BY <2>1
  <2> HIDE DEF newest
  <2>3. newest \in 1..Len(payments) /\ newest \in Nat /\ payments[newest].link # 0
        /\ payments[newest].captured \in BOOLEAN
    BY <1>1, <2>2
  <2>4. a \in Answer /\ a.id = newest /\ a.ok = payments[newest].captured
    BY <2>3, AnswerFields DEF Answer
  <2>5. Proceed(r, a, 0, TRUE)
    BY <1>3 DEF Resolve, newest
  <2> HIDE DEF a
  <2>6. ASSUME NEW next \in Process, Advances(run, next, a, 0, TRUE), TRUE,
               Placed(next, links, payments)
        PROVE  /\ Found(next, links, payments)
               /\ Ordered(r, next, orders)
               /\ Served(r, next, labs[r])
               /\ RefundsFit(r, next, ledgers, plan.price)
    <3>1. /\ next.command = run.command /\ next.answers = Append(run.answers, a)
      BY <2>6 DEF Advances
    <3>2. Ordered(r, next, orders) /\ Served(r, next, labs[r])
          /\ RefundsFit(r, next, ledgers, plan.price)
      BY <1>0, <3>1, Apart, Concerns
    <3>3. /\ next.answers[1] = run.answers[1] /\ next.answers[2] = a /\ Len(next.answers) = 2
      <4>1. run.answers \in Seq(Answer)
        BY <1>0, Answers
      <4> HIDE DEF run
      <4> QED BY <1>0, <2>4, <3>1, <4>1, AppendAnswer DEF run
    <3>4. Found(next, links, payments)
      BY <1>0, <2>3, <2>4, <3>1, <3>3 DEF Fits, Found
    <3> QED BY <3>2, <3>4
  <2> QED BY <2>4, <2>5, <2>6, AnswerStep
<1> QED BY <1>2, <1>3

LEMMA FetchLinkStep ==
    ASSUME AccountInv, NEW r \in DOMAIN runs, FetchLink(r)
    PROVE  AccountInv'
<1> DEFINE run == runs[r]
           n == Len(run.answers)
           a == [NoAnswer EXCEPT !.ok = TRUE, !.count = Len(payments)]
<1>0. /\ run \in Process /\ run.command.name = "refresh" /\ n = 0 /\ Fits(r, run) /\ Typed
      /\ run.command.name \in Commands /\ Len(Ops[run.command.name]) = 2
      /\ run.at = "exchange" /\ Proceed(r, a, 0, TRUE)
      /\ AccountStays
  <2>1. run.at = "exchange" /\ Step(r).op = "link" /\ Proceed(r, a, 0, TRUE)
        /\ UNCHANGED <<plan, session, account, late, faults>> /\ Typed
    BY DEF FetchLink, AtStep, AccountInv
  <2>2. /\ run \in Process /\ run.command.name \in Commands /\ Fits(r, run)
        /\ n \in Nat /\ n + 1 \in 1..Len(Ops[run.command.name])
        /\ Ops[run.command.name][n + 1] = "link"
    BY <2>1, AtExchange
  <2>3. run.command.name = "refresh" /\ n + 1 = 1
    <3> HIDE DEF run, n
    <3> QED BY <2>2, WhoAsks
  <2>4. n = 0 /\ Len(Ops[run.command.name]) = 2
    <3> HIDE DEF run, n
    <3> QED BY <2>2, <2>3, OpsLengths
  <2>5. AccountStays
    BY <2>1, Unaffected
  <2> HIDE DEF a
  <2> QED BY <2>1, <2>2, <2>3, <2>4, <2>5
<1>1. Len(payments) \in Nat /\ a \in Answer /\ a.count = Len(payments)
  <2>1. Len(payments) \in Nat
    BY <1>0, AccountTypes
  <2> QED BY <2>1, AnswerFields DEF Answer
<1> HIDE DEF a
<1>2. ASSUME NEW next \in Process, Advances(run, next, a, 0, TRUE), TRUE,
             Placed(next, links, payments)
      PROVE  /\ Found(next, links, payments)
             /\ Ordered(r, next, orders)
             /\ Served(r, next, labs[r])
             /\ RefundsFit(r, next, ledgers, plan.price)
  <2>1. /\ next.command = run.command /\ next.answers = Append(run.answers, a)
        /\ next.at = "exchange"
    BY <1>0, <1>2 DEF Advances
  <2>2. Ordered(r, next, orders) /\ Served(r, next, labs[r])
        /\ RefundsFit(r, next, ledgers, plan.price)
    BY <1>0, <2>1, Apart, Concerns
  <2>3. next.answers[1] = a
    <3> DEFINE old == run.answers
    <3>1. old \in Seq(Answer) /\ Len(old) = 0
      BY <1>0, Answers
    <3> HIDE DEF old
    <3>2. Append(old, a)[Len(old) + 1] = a
      BY <1>1, <3>1, AppendAnswer
    <3> QED BY <2>1, <3>1, <3>2 DEF old
  <2>4. Found(next, links, payments)
    BY <1>0, <1>1, <2>1, <2>3 DEF Found
  <2> QED BY <2>2, <2>4
<1>3. run.at = "exchange" /\ Proceed(r, a, 0, TRUE) /\ a \in Answer /\ AccountStays
  BY <1>0, <1>1
<1> QED BY <1>2, <1>3, AnswerStep

\* The payments a refresh looks at are of links made by live-payment-link.
LEMMA Candidates ==
    ASSUME AccountInv, NEW r \in DOMAIN runs, runs[r].at = "exchange", Step(r).op = "payments"
    PROVE  /\ Embedded(r) \in SUBSET DOMAIN payments
           /\ \A p \in Embedded(r) : payments[p].link # 0
           /\ \A cutoff : /\ Recent(r, cutoff) \in SUBSET DOMAIN payments
                          /\ \A p \in Recent(r, cutoff) : payments[p].link # 0
<1> DEFINE run == runs[r]
           n == Len(run.answers)
<1>1. /\ run.command.name \in Commands /\ Fits(r, run)
      /\ n \in Nat /\ n + 1 \in 1..Len(Ops[run.command.name])
      /\ Ops[run.command.name][n + 1] = "payments" /\ Active(run)
  BY AtExchange
<1>2. run.command.name = "refresh" /\ n > 0
  <2>1. run.command.name = "refresh" /\ n + 1 = 2
    <3> HIDE DEF run, n
    <3> QED BY <1>1, WhoAsks
  <2> HIDE DEF n
  <2> QED BY <1>1, <2>1
<1>3. run.answers[1].count \in 0..Len(payments)
  BY <1>1, <1>2 DEF Fits, Found
<1>4. run.file.link \in 1..links
  BY <1>1, <1>2 DEF Fits, Placed, OnSession, SessionFits
<1>5. Len(payments) \in Nat /\ DOMAIN payments = 1..Len(payments)
  BY AccountTypes DEF AccountInv
<1>6. \A p \in Embedded(r) : p \in 1..run.answers[1].count /\ payments[p].link = run.file.link
  BY DEF Embedded
<1> HIDE DEF run
<1>7. Embedded(r) \in SUBSET DOMAIN payments /\ \A p \in Embedded(r) : payments[p].link # 0
  BY <1>3, <1>4, <1>5, <1>6
<1> QED BY <1>7 DEF Recent

LEMMA ListPaymentsStep ==
    ASSUME AccountInv, NEW r \in DOMAIN runs, ListPayments(r)
    PROVE  AccountInv'
<1>1. runs[r].at = "exchange" /\ Step(r).op = "payments" /\ AccountStays
  BY Unaffected DEF ListPayments, AtStep
<1>2. PICK cutoff \in 0..runs[r].file.since : Resolve(r, Embedded(r) \cup Recent(r, cutoff))
  BY DEF ListPayments
<1>3. /\ Embedded(r) \cup Recent(r, cutoff) \in SUBSET DOMAIN payments
      /\ \A p \in Embedded(r) \cup Recent(r, cutoff) : payments[p].link # 0
  BY <1>1, Candidates
<1> QED BY <1>1, <1>2, <1>3, ResolveStep

-----------------------------------------------------------------------------
(* Requests.                                                               *)

\* The refund a process asks for is its own, and large enough to close.
LEMMA RefundRequest ==
    ASSUME AccountInv, NEW r \in DOMAIN runs, runs[r].at = "exchange", Step(r).op = "refund"
    PROVE  LET run == runs[r]
               q == Step(r).request
               p == Target(run) IN
           /\ run.command.name \in Refunders
           /\ Proper(q, r, run.command, Len(run.answers) + 1, run.rest)
           /\ q \in RequestType /\ q.owner = r
           /\ p = PaymentOf(r) /\ p \in DOMAIN ledgers
           /\ ClosesAll(q, Total(ledgers[p]), plan.price)
           /\ \A next : /\ next.at # "new" /\ next.command = run.command /\ next.file = run.file
                        => MadeBy(q, p, next, payments)
<1> DEFINE run == runs[r]
           c == run.command
           n == Len(run.answers)
           q == Step(r).request
           p == Target(run)
<1>1. /\ run \in Process /\ r \in Runs /\ c.name \in Commands
      /\ n \in Nat /\ n + 1 \in 1..Len(Ops[c.name])
      /\ Ops[c.name][n + 1] = "refund"
  BY AtExchange
<1>2. c \in Command /\ run.rest \in Nat
  BY <1>1, Answers
<1>3. c.name \in Refunders
  <2> HIDE DEF c, n
  <2> QED BY <1>1, Refunding
<1>4. Proper(q, r, c, n + 1, run.rest)
  <2>1. q = Script(r, c, run.rest, plan.price)[n + 1].request
    BY DEF Step, ScriptOf
  <2> HIDE DEF q, c, n, run
  <2> QED BY <1>1, <1>2, <2>1, RefundStep
<1>5. /\ p \in DOMAIN ledgers /\ p = PaymentOf(r)
      /\ c.name # "live" => p \in DOMAIN payments /\ payments[p].link # 0
  BY <1>3, AtPayment
<1>6. ClosesAll(q, Total(ledgers[p]), plan.price)
  <2>1. SUFFICES ASSUME q.label \in {"close", "final", "over"}
                 PROVE  /\ q.form = "exact" /\ q.amount + Total(ledgers[p]) >= plan.price
                        /\ q.label = "over" => q.amount + Total(ledgers[p]) > plan.price
    BY DEF ClosesAll
  <2>2. /\ q.form = "exact" /\ c.name \in {"close", "matrix"}
        /\ q.amount = IF q.label = "over" THEN run.rest + 1 ELSE run.rest
    BY <1>4, <2>1 DEF Proper
  <2>3. run.rest + Total(ledgers[p]) >= plan.price
    <3>1. Step(r).op # "list"
      OBVIOUS
    <3> QED BY <2>2, <3>1, RestCovers
  <2>4. run.rest \in Nat /\ Total(ledgers[p]) \in Nat /\ plan.price \in Nat
    BY <1>2, <1>3, AtPayment
  <2> HIDE DEF q, p, run
  <2> QED BY <2>2, <2>3, <2>4
<1>7. ASSUME NEW next, next.at # "new", next.command = c, next.file = run.file
      PROVE  MadeBy(q, p, next, payments)
  <2> HIDE DEF q
  <2>1. Target(next) = p
    BY <1>7 DEF Target
  <2>2. /\ q.label \in Labels /\ q.owner = r /\ Known(q)
        /\ c.name = "live" => q.key = Fresh(r, "live")
        /\ c.name = "header" => q.key = Fresh(r, "header")
        /\ c.name = "close" =>
             IF c.identity = "header" THEN q.key = Fresh(r, "close")
             ELSE q.receipt = Fresh(r, "close")
    BY <1>4 DEF Proper
  <2> HIDE DEF c, p
  <2> QED BY <1>3, <1>5, <1>7, <2>1, <2>2 DEF MadeBy
<1>8. q \in RequestType /\ q.owner = r
  BY <1>4 DEF Proper
<1> QED BY <1>3, <1>4, <1>5, <1>6, <1>7, <1>8

LEMMA OrderRequest ==
    ASSUME AccountInv, NEW r \in DOMAIN runs, runs[r].at = "exchange", Step(r).op = "order"
    PROVE  LET run == runs[r]
               q == Step(r).request IN
           /\ run.command.name \in {"orders", "contract"}
           /\ q \in RequestType
           /\ run.command.name = "contract" /\ Len(run.answers) + 1 \in {1, 2} =>
                q.owner = r /\ q.receipt = Fresh(<<r, 1>>, "contract")
<1> DEFINE run == runs[r]
           c == run.command
           n == Len(run.answers)
           q == Step(r).request
           form(k) == IF k = 8 THEN "fraction" ELSE "exact"
           shape(k) == IF k > 6 THEN "fraction" ELSE "exact"
           amount(k) == <<9, 10, 99, 100, 101, 200, 201, 100>>[k]
           sum(k) == <<100, 100, 29500, 295, 29599, 295990, 100, 100>>[k]
<1>1. /\ run \in Process /\ r \in Runs /\ c.name \in Commands
      /\ n \in Nat /\ n + 1 \in 1..Len(Ops[c.name])
      /\ Ops[c.name][n + 1] = "order"
  BY AtExchange
<1>2. c.name \in {"orders", "contract"} /\ n + 1 \in 1..8
  <2> HIDE DEF c, n
  <2>1. c.name \in {"orders", "contract"}
    BY <1>1, WhoAsks
  <2> QED BY <1>1, <2>1, OpsLengths
<1>3. q = Script(r, c, run.rest, plan.price)[n + 1].request
  BY DEF Step, ScriptOf
<1>4. {"boundary", "contract"} \subseteq Purposes /\ None \in Identity
  BY DEF Purposes, Identity
<1>5. ASSUME NEW k \in 1..8
      PROVE  /\ amount(k) \in Nat /\ sum(k) \in Nat
             /\ form(k) \in {"exact", "fraction", "omitted"}
             /\ shape(k) \in {"exact", "fraction", "omitted"}
  BY <1>5
<1> HIDE DEF q
<1>6. CASE c.name = "orders"
  <2>1. q = Request(r, "boundary", form(n + 1), amount(n + 1), None, Fresh(<<r, n + 1>>, "boundary"))
    <3>1. q = OrdersScript(r)[n + 1].request
      BY <1>3, <1>6 DEF Script
    <3> HIDE DEF n
    <3> QED BY <1>2, <3>1, StepFields DEF OrdersScript
  <2>2. Fresh(<<r, n + 1>>, "boundary") \in Identity
    <3>1. "boundary" \in Purposes /\ n + 1 \in Nat
      BY <1>1, <1>4
    <3> QED BY <1>1, <3>1, FreshTyped
  <2>3. form(n + 1) \in {"exact", "fraction", "omitted"} /\ amount(n + 1) \in Nat
    BY SMTT(30), <1>2, <1>5
  <2> HIDE DEF n, form, amount
  <2>4. q \in RequestType
    BY <1>1, <1>4, <2>1, <2>2, <2>3, RequestTyped
  <2> QED BY <1>2, <1>6, <2>4 DEF q
<1>7. CASE c.name = "contract"
  <2> DEFINE m == IF n + 1 = 2 THEN 1 ELSE n + 1
  <2>1. q = Request(r, "contract", shape(n + 1), sum(n + 1), None, Fresh(<<r, m>>, "contract"))
    <3>1. q = ContractScript(r)[n + 1].request
      BY <1>3, <1>7 DEF Script
    <3> HIDE DEF n
    <3> QED BY <1>2, <3>1, StepFields DEF ContractScript
  <2>2. Fresh(<<r, m>>, "contract") \in Identity
    <3>1. "contract" \in Purposes /\ m \in Nat
      BY <1>1, <1>4
    <3> HIDE DEF m
    <3> QED BY <1>1, <3>1, FreshTyped
  <2>3. shape(n + 1) \in {"exact", "fraction", "omitted"} /\ sum(n + 1) \in Nat
    BY <1>2, <1>5
  <2>4. n + 1 \in {1, 2} => m = 1
    BY <1>1
  <2> HIDE DEF n, shape, sum, m
  <2>5. q \in RequestType
    BY <1>1, <1>4, <2>1, <2>2, <2>3, RequestTyped
  <2>6. q.owner = r /\ q.receipt = Fresh(<<r, m>>, "contract")
    BY <2>1, RequestFields
  <2> QED BY <1>2, <2>4, <2>5, <2>6 DEF q, n
<1> QED BY <1>2, <1>6, <1>7

\* The matrix asks for a fractional refund once.
LEMMA FirstFraction ==
    ASSUME AccountInv, NEW r \in DOMAIN runs, runs[r].at = "exchange", Step(r).op = "refund",
           Step(r).request.label = "fraction"
    PROVE  /\ Lacks(r, "fraction", ledgers[PaymentOf(r)])
           /\ \A y \in late : ~ (/\ y.op = "refund" /\ y.request.owner = r
                                 /\ y.request.label = "fraction")
<1> DEFINE run == runs[r]
           name == run.command.name
           a == run.answers
           ledger == ledgers[PaymentOf(r)]
<1>1. /\ name \in Commands /\ Active(run) /\ run \in Process
      /\ Len(a) \in Nat /\ Len(a) + 1 \in 1..Len(Ops[name]) /\ Ops[name][Len(a) + 1] = "refund"
  BY AtExchange
<1>2. DOMAIN a = 1..Len(a) /\ Len(Ops[name]) \in Nat
  BY <1>1, Answers, AtExchange
<1>3. Accounted(r, run, ledger) /\ Asks[name][Len(a) + 1] = "fraction"
  BY RefundRequest, AtPayment DEF Proper
<1> HIDE DEF name, a
<1>4. name = "matrix" /\ Len(a) + 1 = 3
  BY <1>1, <1>3, LabelPlaces
<1>5. \A n \in DOMAIN a : Ops[name][n] = "refund" => Asks[name][n] # "fraction"
  BY <1>1, <1>2, <1>4, LabelPlaces
<1>6. ~ Errored(run, "fraction")
  BY <1>5 DEF Errored, a, name
<1>7. Lacks(r, "fraction", ledger)
  <2>1. SUFFICES ASSUME NEW i \in DOMAIN ledger, ledger[i].request.owner = r,
                        ledger[i].request.label = "fraction"
                 PROVE  FALSE
    BY DEF Lacks
  <2>2. \E n \in DOMAIN a : Ops[name][n] = "refund" /\ a[n].ok /\ a[n].id = i
    BY <1>3, <1>6, <2>1 DEF Accounted, a, name
  <2> QED BY <1>3, <1>5, <2>1, <2>2 DEF Accounted, a, name
<1>8. \A y \in late : ~ (y.op = "refund" /\ y.request.owner = r /\ y.request.label = "fraction")
  BY <1>1, <1>6 DEF AccountInv, LateFits
<1> QED BY <1>7, <1>8

\* What may still be executed when run r has no answer.
LEMMA SentFits ==
    ASSUME AccountInv, NEW r \in DOMAIN runs, runs[r].at = "exchange",
           UNCHANGED <<plan, payments, ledgers>>, late' = late \cup Sent(r),
           NEW next, runs' = [runs EXCEPT ![r] = next],
           next.at # "new", next.command = runs[r].command, next.file = runs[r].file,
           Step(r).op = "refund" => ~ Active(next) \/ Errored(next, Step(r).request.label)
    PROVE  LateGrows
<1> DEFINE run == runs[r]
           q == Step(r).request
           p == PaymentOf(r)
           n == Len(run.answers) + 1
<1>1. \A x \in Sent(r) :
          /\ Step(r).op \in {"refund", "order"}
          /\ x = [op |-> Step(r).op, n |-> n, request |-> q,
                  payment |-> IF Step(r).op = "refund" THEN p ELSE 0]
  BY DEF Sent, AtStep
<1>2. /\ \A x \in Sent(r) :
           /\ Step(r).op \in {"refund", "order"}
           /\ x.op = Step(r).op /\ x.request = q /\ (Step(r).op = "refund" => x.payment = p)
      /\ \A x \in late' : x \in late \/ x \in Sent(r)
      /\ \A x, y \in Sent(r) : x = y
  BY <1>1
<1>3. \A y \in late : Single(y)
  BY DEF AccountInv, LateFits, Single
<1>4. ASSUME NEW y \in late PROVE Single(y)'
  <2>1. SUFFICES ASSUME y.op = "refund", y.request.label = "fraction",
                        NEW z \in late', z.op = "refund", z.request.owner = y.request.owner,
                        z.request.label = "fraction"
                 PROVE  z = y
    BY <1>3, <1>4 DEF Single
  <2>2. CASE z \in late
    BY <1>3, <1>4, <2>1, <2>2 DEF Single
  <2>3. CASE z \in Sent(r)
    <3>1. Step(r).op = "refund" /\ q.label = "fraction" /\ q.owner = y.request.owner
      BY <1>2, <2>1, <2>3
    <3>2. q.owner = r
      BY <3>1, RefundRequest
    <3> HIDE DEF q
    <3> QED BY <1>4, <2>1, <3>1, <3>2, FirstFraction DEF q
  <2> QED BY <1>2, <2>1, <2>2, <2>3
<1>5. ASSUME NEW x \in Sent(r) PROVE LateFits(x)'
  <2>0. n \in Nat
    BY AtExchange
  <2>1. CASE Step(r).op = "refund"
    <3>1. /\ q \in RequestType /\ q.owner = r /\ p \in DOMAIN ledgers
          /\ ClosesAll(q, Total(ledgers[p]), plan.price)
          /\ MadeBy(q, p, next, payments)
      BY <2>1, RefundRequest
    <3>2. r \in DOMAIN runs' /\ runs'[r] = next
      OBVIOUS
    <3>3. x \in Underway
      <4>1. p \in Nat
        BY <3>1, AccountTypes DEF AccountInv
      <4> HIDE DEF q, p, n
      <4> QED BY <1>1, <1>5, <2>0, <2>1, <3>1, <4>1 DEF Underway
    <3> HIDE DEF q, p
    <3>4. x.op = "refund" /\ x.request = q /\ x.payment = p
      BY <1>2, <1>5, <2>1
    <3>5. Single(x)'
      <4>1. SUFFICES ASSUME q.label = "fraction"
                     PROVE  /\ Lacks(r, "fraction", ledgers'[p])
                            /\ \A y \in late' :
                                 y.op = "refund" /\ y.request.owner = r /\ y.request.label = "fraction"
                                     => y = x
        BY <3>1, <3>4 DEF Single
      <4>2. Lacks(r, "fraction", ledgers[p])
            /\ \A y \in late : ~ (y.op = "refund" /\ y.request.owner = r /\ y.request.label = "fraction")
        BY Zenon, <2>1, <4>1, FirstFraction DEF q, p
      <4> QED BY <1>2, <1>5, <4>2
    <3>6. ~ Active(next) \/ Errored(next, q.label)
      BY <2>1 DEF q
    <3>7. plan' = plan /\ ledgers' = ledgers /\ payments' = payments
      OBVIOUS
    <3> QED BY <3>1, <3>2, <3>3, <3>4, <3>5, <3>6, <3>7 DEF LateFits
  <2>2. CASE Step(r).op = "order"
    <3>1. q \in RequestType
      BY <2>2, OrderRequest
    <3>2. x \in Underway
      <4> HIDE DEF q, n
      <4> QED BY <1>1, <1>5, <2>0, <2>2, <3>1 DEF Underway
    <3> QED BY <1>2, <1>5, <2>2, <3>2 DEF LateFits
  <2> QED BY <1>2, <1>5, <2>1, <2>2
<1> QED BY <1>2, <1>4, <1>5 DEF LateGrows

\* Nobody tells what became of the request.
LEMMA UnsettledStays ==
    ASSUME AccountInv, NEW r \in DOMAIN runs, Unsettled(r), LateGrows,
           UNCHANGED <<plan, session>>, faults < plan.faults, faults' = faults + 1
    PROVE  AccountStays
<1>1. Typed
  BY DEF AccountInv
<1>2. links' \in {links, links + 1} /\ links \in Nat
  BY <1>1 DEF Unsettled, Typed
<1>3. faults' \in 0..plan.faults
  BY <1>1, AccountTypes DEF Typed
<1> QED BY <1>1, <1>2, <1>3 DEF AccountStays, Unsettled, Typed

LEMMA FailedAnswerStep ==
    ASSUME AccountInv, NEW r \in DOMAIN runs, FailedAnswer(r)
    PROVE  AccountInv'
<1> DEFINE run == runs[r]
           name == run.command.name
           n == Len(run.answers)
           op == Ops[name][n + 1]
           a == Refusal({"error"})
           ok == \/ Step(r).op \in {"order", "relist"}
                 \/ Step(r).op = "refund" /\ Tolerates(r, a)
<1>0. /\ run.at = "exchange" /\ name # "lab"
      /\ UNCHANGED <<plan, session, payments, ledgers>> /\ Unsettled(r)
      /\ faults < plan.faults /\ faults' = faults + 1
      /\ late' = late \cup Sent(r)
      /\ IF Step(r).op = "payments" THEN Resolve(r, Embedded(r))
         ELSE Proceed(r, a, run.rest, ok)
  BY DEF FailedAnswer, Unsettled
<1>1. CASE Step(r).op = "payments"
  <2>1. late' = late
    BY <1>0, <1>1 DEF Sent, AtStep
  <2>2. AccountStays
    BY <1>0, <2>1, LateSame, UnsettledStays
  <2> QED BY <1>0, <1>1, <2>2, Candidates, ResolveStep
<1>2. CASE Step(r).op # "payments"
  <2>1. /\ run \in Process /\ name \in Commands /\ n \in Nat /\ n + 1 \in 1..Len(Ops[name])
        /\ op = Step(r).op /\ Fits(r, run)
    BY <1>0, AtExchange
  <2>2. run.rest \in Nat /\ run.answers \in Seq(Answer)
    BY <2>1, Answers
  <2>3. a \in Answer /\ ~ a.ok /\ a.why = {"error"} /\ a.total = 0 /\ a.count = 0
    <3>1. {"error"} \in SUBSET Causes
      BY DEF Causes
    <3> QED BY <3>1, AnswerFields
  <2>4. ok \in BOOLEAN /\ (ok => op \in {"order", "relist", "refund"})
    BY <2>1
  <2>5. Proceed(r, a, run.rest, ok)
    BY <1>0, <1>2
  <2>6. Typed
    BY DEF AccountInv
  <2>9. (Step(r).op = "refund" => ok \/ name = "live")
    BY DEF Tolerates
  <2> HIDE DEF a, ok
  <2>10. LateGrows
    <3>1. PICK next \in Process :
              /\ runs' = [runs EXCEPT ![r] = next]
              /\ Advances(run, next, a, run.rest, ok)
      BY <1>0, <2>2, <2>3, <2>4, <2>5, Advance
    <3>2. /\ next.command = run.command /\ next.file = run.file
          /\ next.answers = Append(run.answers, a) /\ next.at # "new"
          /\ ~ ok => ~ Active(next)
      BY <3>1 DEF Advances, Active
    <3>3. ASSUME Step(r).op = "refund" PROVE Errored(next, Step(r).request.label)
      <4>1. Asks[name][n + 1] = Step(r).request.label
        BY <1>0, <3>3, RefundRequest DEF Proper
      <4>2. n + 1 \in DOMAIN next.answers /\ next.answers[n + 1] = a
        <5> HIDE DEF run
        <5> QED BY <2>1, <2>2, <2>3, <3>2, AppendAnswer DEF n
      <4> QED BY <2>1, <2>3, <3>2, <3>3, <4>1, <4>2 DEF Errored
    <3> QED BY <1>0, <3>1, <3>2, <3>3, SentFits
  <2>11. AccountStays
    BY <1>0, <2>10, UnsettledStays
  <2>7. CASE name \in Refunders /\ op \in {"relist", "refund"}
    <3> DEFINE ledger == ledgers[Target(run)]
    <3>1. /\ ledger \in Seq(Entry) /\ Total(ledger) \in Nat /\ Len(ledger) \in Nat
          /\ plan.price \in Nat
          /\ Roomy(r, run, ledger, plan.price) /\ Accounted(r, run, ledger)
          /\ Bounded(r, run, ledger)
      BY <1>0, <2>7, AtPayment
    <3>2. name \in {"close", "matrix"} =>
              Len(run.answers) > 0 /\ run.rest + Total(ledger) >= plan.price
      BY <1>0, <2>1, <2>7, RestCovers
    <3>3. ASSUME NEW next \in Process, Advances(run, next, a, run.rest, ok), ok, name = "matrix"
          PROVE  Roomy(r, next, ledger, plan.price) /\ Bounded(r, next, ledger)
      <4>1. /\ next.command = run.command /\ next.file = run.file /\ next.rest = run.rest
            /\ next.answers = Append(run.answers, a)
        BY <3>3 DEF Advances
      <4>2. Grown(ledger, ledger)
        BY DEF Grown
      <4>3. Bounded(r, next, ledger)
        <5> HIDE DEF run, ledger
        <5> QED BY <2>1, <2>3, <3>1, <3>2, <3>3, <4>1, BoundedSame DEF name
      <4>4. Sole(a.why, "balance") /\ Sole(a.why, "conflict") /\ Sole(a.why, "duplicate")
        BY <2>3 DEF Sole
      <4> HIDE DEF run, ledger
      <4> QED BY <1>0, <2>1, <2>3, <3>1, <3>2, <3>3, <4>1, <4>2, <4>3, <4>4, RoomyMore DEF n, name
    <3>4. /\ op # "refund" \/ ~ a.ok
          /\ op \in {"list", "relist", "payment"} => a.total <= Total(ledger) /\ a.count <= Len(ledger)
          /\ ok /\ name \in {"close", "matrix"} => run.rest + Total(ledger) >= plan.price
      <4> HIDE DEF ledger
      <4> QED BY <2>3, <3>1, <3>2
    <3> QED BY <1>0, <2>2, <2>3, <2>4, <2>5, <2>7, <2>11, <3>3, <3>4, ReadingStep
  <2>8. CASE ~ (name \in Refunders /\ op \in {"relist", "refund"})
    <3>1. ok => op = "order" /\ name \in {"orders", "contract"}
      <4> HIDE DEF run, n, name
      <4> QED BY <2>1, <2>4, <2>8, WhoAsks
    <3>2. ASSUME NEW next \in Process, Advances(run, next, a, run.rest, ok), ok,
                 Placed(next, links, payments)
          PROVE  /\ Found(next, links, payments)
                 /\ Ordered(r, next, orders)
                 /\ Served(r, next, labs[r])
                 /\ RefundsFit(r, next, ledgers, plan.price)
      <4>1. next.command = run.command /\ next.answers = Append(run.answers, a)
        BY <3>2 DEF Advances
      <4>2. Found(next, links, payments) /\ Served(r, next, labs[r])
            /\ RefundsFit(r, next, ledgers, plan.price)
        BY <2>1, <3>1, <3>2, <4>1, Apart, Concerns
      <4>3. Ordered(r, run, orders) /\ orders \in Seq(Entry) /\ Grown(orders, orders)
        BY <2>1, <2>6 DEF Fits, Typed, Grown
      <4>4. Ordered(r, next, orders)
        <5> HIDE DEF run
        <5> QED BY <1>0, <2>1, <2>3, <4>1, <4>3, OrderedMore DEF run
      <4> QED BY <4>2, <4>4
    <3> QED BY <1>0, <2>2, <2>3, <2>4, <2>5, <2>11, <3>2, AnswerStep
  <2> QED BY <2>7, <2>8
<1> QED BY <1>1, <1>2

LEMMA LoseAnswerStep ==
    ASSUME AccountInv, NEW r \in DOMAIN runs, LoseAnswer(r)
    PROVE  AccountInv'
<1> DEFINE run == runs[r]
           next == [run EXCEPT !.at = "dead"]
<1>0. /\ Typed /\ run \in Process /\ run.at \in {"exchange", "save", "write"}
      /\ UNCHANGED <<plan, session, payments, ledgers>> /\ Unsettled(r)
      /\ faults < plan.faults /\ faults' = faults + 1
      /\ late' = late \cup Sent(r)
      /\ runs' = [runs EXCEPT ![r].at = "dead"]
  BY DEF AccountInv, Typed, LoseAnswer, Unsettled
<1>1. runs' = [runs EXCEPT ![r] = next]
  BY <1>0 DEF Process
<1>2. next \in Process /\ next.at = "dead" /\ next.command = run.command /\ next.file = run.file
      /\ next.answers = run.answers
  <2>1. "dead" \in Points
    BY DEF Points
  <2> HIDE DEF run
  <2> QED BY <1>0, <2>1 DEF Process
<1> HIDE DEF next
<1>3. Follows(run, next) /\ ~ Active(next) /\ Placed(next, links, payments)
  BY <1>0, <1>2 DEF Follows, Keeps, Active, Placed
<1>4. Fits(r, next)
  BY <1>3, GivenUp
<1>5. LateGrows
  <2>1. CASE run.at = "exchange"
    BY <1>0, <1>1, <1>2, <1>3, <2>1, SentFits
  <2>2. CASE run.at # "exchange"
    <3>1. late' = late
      BY <1>0, <2>2 DEF Sent, AtStep
    <3> QED BY <1>0, <3>1, LateSame
  <2> QED BY <2>1, <2>2
<1>6. AccountStays
  BY <1>0, <1>5, UnsettledStays
<1> QED BY <1>1, <1>2, <1>3, <1>4, <1>6, QuietStep

\* Writing the session, a process keeps what it knows.
LEMMA WritingFits ==
    ASSUME AccountInv, NEW r \in DOMAIN runs, runs[r].at \in {"save", "write"},
           NEW next \in Process, next.at \in {"write", "done"}, next.command = runs[r].command,
           next.file = runs[r].file, next.answers = runs[r].answers
    PROVE  Follows(runs[r], next) /\ Fits(r, next)
<1> DEFINE run == runs[r]
<1>0. Fits(r, run) /\ Active(run)
  BY DEF AccountInv, Active
<1>3. Follows(run, next) /\ Active(next) /\ Target(next) = Target(run)
  BY <1>0 DEF Follows, Keeps, Active, Target
<1>4. Placed(next, links, payments)
  BY <1>0, <1>3 DEF Fits, Placed
<1>5. Found(next, links, payments) /\ Ordered(r, next, orders) /\ Served(r, next, labs[r])
  BY SMTT(60), <1>0, <1>3 DEF Fits, Found, Ordered, Served
<1>6. RefundsFit(r, next, ledgers, plan.price)
  <2>1. SUFFICES ASSUME next.command.name \in Refunders
                 PROVE  LET p == Target(run) IN
                        /\ p \in DOMAIN ledgers
                        /\ Accounted(r, next, ledgers[p])
                        /\ Read(next, ledgers[p], plan.price)
                        /\ Roomy(r, next, ledgers[p], plan.price)
                        /\ Bounded(r, next, ledgers[p])
    BY <1>3 DEF RefundsFit
  <2> DEFINE p == Target(run)
  <2>2. /\ p \in DOMAIN ledgers
        /\ Accounted(r, run, ledgers[p])
        /\ Read(run, ledgers[p], plan.price)
        /\ Roomy(r, run, ledgers[p], plan.price)
        /\ Bounded(r, run, ledgers[p])
    BY <1>0, <2>1 DEF Fits, RefundsFit
  <2> HIDE DEF p
  <2>3. Accounted(r, next, ledgers[p])
    BY SMTT(30), <2>2 DEF Accounted, Errored
  <2>4. Read(next, ledgers[p], plan.price)
    BY <2>2 DEF Read
  <2>5. Roomy(r, next, ledgers[p], plan.price) /\ Bounded(r, next, ledgers[p])
    BY <2>2 DEF Roomy, Alone, Bounded
  <2> QED BY <2>2, <2>3, <2>4, <2>5 DEF p
<1> QED BY <1>3, <1>4, <1>5, <1>6 DEF Fits

LEMMA TruncateStep ==
    ASSUME AccountInv, NEW r \in DOMAIN runs, Truncate(r)
    PROVE  AccountInv'
<1> DEFINE run == runs[r]
           next == [run EXCEPT !.at = "write"]
<1>0. /\ Typed /\ run \in Process /\ run.at = "save" /\ session' = None
      /\ UNCHANGED <<plan, account, late, faults>>
      /\ runs' = [runs EXCEPT ![r].at = "write"]
  BY DEF AccountInv, Typed, Truncate
<1>1. runs' = [runs EXCEPT ![r] = next]
  BY <1>0 DEF Process
<1>2. next \in Process /\ next.at = "write" /\ next.command = run.command /\ next.file = run.file
      /\ next.answers = run.answers
  <2>1. "write" \in Points
    BY DEF Points
  <2> HIDE DEF run
  <2> QED BY <1>0, <2>1 DEF Process
<1> HIDE DEF next
<1>3. Follows(run, next) /\ Fits(r, next)
  BY <1>0, <1>2, WritingFits
<1>4. AccountStays
  BY <1>0, LateSame DEF AccountStays, Typed, account
<1> QED BY <1>1, <1>2, <1>3, <1>4, QuietStep

LEMMA SaveStep ==
    ASSUME AccountInv, NEW r \in DOMAIN runs, Save(r)
    PROVE  AccountInv'
<1> DEFINE run == runs[r]
           c == run.command
           next == [run EXCEPT !.at = "done"]
<1>0. /\ Typed /\ run \in Process /\ run.at = "write" /\ Fits(r, run) /\ Active(run)
      /\ UNCHANGED <<plan, account, late, faults>>
      /\ session' \in {Saved(r), None} /\ r \in Runs
      /\ runs' = [runs EXCEPT ![r].at = "done"]
  <2>1. Typed /\ Fits(r, run)
    BY DEF AccountInv
  <2>2. r \in Runs
    BY <2>1, AccountTypes
  <2> QED BY <2>1, <2>2 DEF Typed, Save, Active
<1>1. runs' = [runs EXCEPT ![r] = next]
  BY <1>0 DEF Process
<1>2. next \in Process /\ next.at = "done" /\ next.command = run.command /\ next.file = run.file
      /\ next.answers = run.answers
  <2>1. "done" \in Points
    BY DEF Points
  <2> HIDE DEF run
  <2> QED BY <1>0, <2>1 DEF Process
<1> HIDE DEF next
<1>3. Follows(run, next) /\ Fits(r, next)
  BY <1>0, <1>2, WritingFits
<1>4. CASE session' = None
  <2>1. AccountStays
    BY <1>0, <1>4, LateSame DEF AccountStays, Typed, account
  <2> QED BY <1>1, <1>2, <1>3, <2>1, QuietStep
<1>5. ASSUME session' = Saved(r) PROVE SessionFits(session', links, payments)
  <2>1. /\ Len(run.answers) = Len(Ops[c.name]) /\ Saves(c)
        /\ OnSession(c) => SessionFits(run.file, links, payments)
    BY <1>0 DEF Fits, Placed
  <2>2. Len(payments) \in Nat /\ links \in Nat /\ DOMAIN payments = 1..Len(payments)
    BY <1>0, AccountTypes DEF Typed
  <2>3. CASE c.name = "link"
    <3>1. Len(run.answers) = 1
      BY <2>1, <2>3, OpsLengths DEF Commands
    <3>2. run.answers[1].id \in 1..links /\ run.answers[1].count \in 0..Len(payments)
      BY <1>0, <2>3, <3>1 DEF Fits, Found
    <3>3. session' = Fixture(run.answers[1].id, run.answers[1].count)
      BY <1>0, <1>5, <2>3 DEF Saved
    <3> HIDE DEF run
    <3> QED BY <2>2, <3>2, <3>3 DEF Fixture, SessionFits, Session
  <2>4. CASE c.name = "refresh"
    <3> DEFINE file == run.file
               a == run.answers[2]
    <3>1. SessionFits(file, links, payments)
      BY <2>1, <2>4 DEF OnSession
    <3>2. a.id \in 1..Len(payments) /\ payments[a.id].link # 0
          /\ (a.ok => payments[a.id].captured)
      BY <1>0, <2>4 DEF Fits, Found
    <3>3. a.ok \in BOOLEAN
      <4>1. 2 \in DOMAIN run.answers
        BY <1>0, <2>1, <2>4, OpsLengths, Answers DEF Commands
      <4> QED BY <1>0, <4>1, Answers
    <3>4. session' = [file EXCEPT !.payment = a.id, !.captured = a.ok]
      BY <1>0, <1>5, <2>4 DEF Saved
    <3> HIDE DEF file, a
    <3>5. /\ session' \in Session
          /\ session'.link = file.link /\ session'.since = file.since
          /\ session'.payment = a.id /\ session'.captured = a.ok
      <4>1. file \in Session /\ a.id \in Nat
        BY <2>2, <3>1, <3>2 DEF SessionFits
      <4> QED BY <3>3, <3>4, <4>1 DEF Session
    <3> QED BY <2>2, <3>1, <3>2, <3>5 DEF SessionFits
  <2>5. CASE c.name \notin {"link", "refresh"}
    <3> DEFINE file == run.file
    <3>1. SessionFits(file, links, payments)
      BY <2>1, <2>5 DEF OnSession, Saves
    <3>2. session' = [file EXCEPT !.probes = @ \cup {r}]
      BY <1>0, <1>5, <2>5 DEF Saved
    <3> HIDE DEF file
    <3>3. /\ session' \in Session
          /\ session'.link = file.link /\ session'.since = file.since
          /\ session'.payment = file.payment /\ session'.captured = file.captured
      BY <1>0, <3>1, <3>2 DEF SessionFits, Session
    <3> QED BY <3>1, <3>3 DEF SessionFits
  <2> QED BY <2>3, <2>4, <2>5
<1>6. CASE session' = Saved(r)
  <2>1. AccountStays
    BY <1>0, <1>5, <1>6, LateSame DEF AccountStays, Typed, account
  <2> QED BY <1>1, <1>2, <1>3, <2>1, QuietStep
<1> QED BY <1>0, <1>4, <1>6

-----------------------------------------------------------------------------
(* Steps that change the account.                                          *)

LEMMA AccountStep ==
    ASSUME AccountInv, NEW r \in DOMAIN runs, NEW next \in Process,
           runs' = [runs EXCEPT ![r] = next], Follows(runs[r], next), Fits(r, next)',
           UNCHANGED <<plan, session, payments, late, faults>>, \A x \in late : Single(x)',
           links' \in Nat, links <= links',
           orders' \in Seq(Entry), Grown(orders, orders'),
           labs' \in [DOMAIN runs -> Lab], \A x \in DOMAIN runs : x # r => labs'[x] = labs[x],
           ledgers' \in [DOMAIN ledgers -> Seq(Entry)],
           \A p \in DOMAIN ledgers :
               \/ ledgers'[p] = ledgers[p]
               \/ /\ LedgerFits(ledgers'[p], plan.price)
                  /\ \E e \in Entry : /\ ledgers'[p] = Append(ledgers[p], e)
                                      /\ e.request.owner = r
                                      /\ MadeBy(e.request, p, next, payments)
    PROVE  AccountInv'
<1>1. Typed /\ EntriesFit
  BY DEF AccountInv
<1>2. /\ Moved /\ runs'[r] = next /\ DOMAIN runs' = DOMAIN runs
      /\ \A x \in DOMAIN runs : x # r => runs'[x] = runs[x]
      /\ \A x \in DOMAIN runs' : runs'[x] \in Process
  BY <1>1, OneMoves DEF Moved
<1>3. /\ Kept(payments, payments') /\ plan.price \in Nat /\ DOMAIN ledgers = 1..plan.customers
      /\ \A p \in DOMAIN ledgers : ledgers[p] \in Seq(Entry) /\ Total(ledgers[p]) \in Nat
  BY <1>1, AccountTypes
<1>4. Typed'
  <2>1. payments' \in Seq([link : 0..links', captured : BOOLEAN])
    BY <1>1, PaymentsTyped
  <2>2. session' # None => SessionFits(session', links', payments')
    <3>1. session # None => SessionFits(session, links, payments)
      BY <1>1 DEF Typed
    <3>2. links \in Nat
      BY <1>1 DEF Typed
    <3> QED BY <1>3, <3>1, <3>2, SessionKept
  <2> QED BY <1>1, <1>2, <1>3, <2>1, <2>2 DEF Typed
<1>5. (\A p \in DOMAIN ledgers : LedgerFits(ledgers[p], plan.price))'
  BY DEF AccountInv
<1>6. EntriesFit'
  <2>1. \A p \in DOMAIN ledgers :
            \/ ledgers'[p] = ledgers[p]
            \/ \E e \in Entry : /\ ledgers'[p] = Append(ledgers[p], e)
                                /\ e.request.owner \in DOMAIN runs'
                                /\ MadeBy(e.request, p, runs'[e.request.owner], payments')
    BY <1>2
  <2>2. DOMAIN ledgers' = DOMAIN ledgers
    OBVIOUS
  <2> QED BY <1>1, <1>2, <1>3, <2>1, <2>2, EntriesStay
<1>7. (\A x \in late : LateFits(x))'
  <2>1. ASSUME NEW p \in DOMAIN ledgers
        PROVE  Total(ledgers'[p]) \in Nat /\ Total(ledgers[p]) <= Total(ledgers'[p])
    <3>1. CASE ledgers'[p] = ledgers[p]
      BY <1>3, <3>1
    <3>2. CASE ledgers'[p] # ledgers[p]
      <4>1. \E e \in Entry : ledgers'[p] = Append(ledgers[p], e)
        BY <3>2
      <4> QED BY <1>3, <4>1, TotalGrows
    <3> QED BY <3>1, <3>2
  <2>2. ASSUME NEW x \in late PROVE LateFits(x)'
    <3>1. LateFits(x) /\ Single(x)' /\ DOMAIN ledgers' = DOMAIN ledgers /\ plan' = plan
      BY DEF AccountInv
    <3> QED BY <1>1, <1>2, <1>3, <2>1, <3>1, LateStays
  <2> QED BY <2>2
<1>8. ASSUME NEW x \in DOMAIN runs PROVE Fits(x, runs[x])'
  <2>1. CASE x = r
    BY <1>2, <2>1 DEF Fits
  <2>2. CASE x # r
    <3>1. BooksSpared(x, ledgers, ledgers')
      BY <2>2 DEF BooksSpared, SparedBy
    <3>2. labs'[x] = labs[x] /\ runs'[x] = runs[x] /\ plan' = plan
      BY <1>2, <2>2
    <3> QED BY <1>3, <3>1, <3>2, OthersFit
  <2> QED BY <2>1, <2>2
<1> QED BY <1>2, <1>4, <1>5, <1>6, <1>7, <1>8 DEF AccountInv

LEMMA CreateLinkStep ==
    ASSUME AccountInv, NEW r \in DOMAIN runs, CreateLink(r)
    PROVE  AccountInv'
<1> DEFINE run == runs[r]
           n == Len(run.answers)
           a == [NoAnswer EXCEPT !.ok = TRUE, !.id = links + 1, !.count = Len(payments)]
<1>0. /\ run.at = "exchange" /\ Step(r).op = "create_link" /\ Proceed(r, a, 0, TRUE)
      /\ links' = links + 1
      /\ UNCHANGED <<plan, session, payments, ledgers, orders, labs, late, faults>>
      /\ Typed
  BY DEF CreateLink, AtStep, AccountInv
<1>1. /\ run \in Process /\ run.command.name \in Commands /\ Fits(r, run)
      /\ n \in Nat /\ n + 1 \in 1..Len(Ops[run.command.name])
      /\ Ops[run.command.name][n + 1] = "create_link"
  BY <1>0, AtExchange
<1>2. run.command.name = "link" /\ n = 0
  <2>1. run.command.name = "link" /\ n + 1 = 1
    <3> HIDE DEF run, n
    <3> QED BY <1>1, WhoAsks
  <2> HIDE DEF n
  <2> QED BY <1>1, <2>1
<1>3. links \in Nat /\ links' \in Nat /\ links <= links' /\ Len(payments) \in Nat
      /\ links' \in 1..links' /\ Len(payments) \in 0..Len(payments)
      /\ Kept(payments, payments)
  BY <1>0, AccountTypes DEF Typed
<1>4. a \in Answer /\ a.count = Len(payments) /\ a.id = links'
  BY <1>0, <1>3, AnswerFields DEF Answer
<1> HIDE DEF a
<1>5. PICK next \in Process :
          /\ runs' = [runs EXCEPT ![r] = next]
          /\ Follows(run, next)
          /\ Advances(run, next, a, 0, TRUE)
          /\ Placed(next, links, payments)
  BY <1>0, <1>4, Advance
<1>6. next.command = run.command /\ next.answers = Append(run.answers, a)
  BY <1>5 DEF Advances
<1>7. Fits(r, next)'
  <2>1. Placed(next, links', payments)
    BY <1>3, <1>5, PlacedKept
  <2>2. next.answers[1] = a
    <3> DEFINE old == run.answers
    <3>1. old \in Seq(Answer) /\ Len(old) = 0
      BY <1>1, <1>2, Answers
    <3> HIDE DEF old
    <3>2. Append(old, a)[Len(old) + 1] = a
      BY <1>4, <3>1, AppendAnswer
    <3> QED BY <1>6, <3>1, <3>2 DEF old
  <2>3. Found(next, links', payments)
    BY <1>2, <1>3, <1>4, <1>6, <2>2 DEF Found
  <2>4. next.command.name = "link" /\ "link" \notin Refunders
    BY <1>2, <1>6, Apart
  <2>5. Ordered(r, next, orders') /\ Served(r, next, labs'[r])
        /\ RefundsFit(r, next, ledgers', plan'.price)
    BY <2>4 DEF Ordered, Served, RefundsFit
  <2> QED BY <1>0, <2>1, <2>3, <2>5 DEF Fits
<1>8. Grown(orders, orders') /\ orders' \in Seq(Entry) /\ labs' \in [DOMAIN runs -> Lab]
      /\ ledgers' \in [DOMAIN ledgers -> Seq(Entry)]
      /\ (\A x \in DOMAIN runs : x # r => labs'[x] = labs[x])
      /\ (\A p \in DOMAIN ledgers : ledgers'[p] = ledgers[p])
  BY <1>0 DEF Grown, Typed
<1>9. UNCHANGED <<plan, session, payments, late, faults>> /\ \A x \in late : Single(x)'
  BY <1>0, LateSame
<1> QED BY <1>3, <1>5, <1>7, <1>8, <1>9, AccountStep

LEMMA PostOrderStep ==
    ASSUME AccountInv, NEW r \in DOMAIN runs, PostOrder(r)
    PROVE  AccountInv'
<1> DEFINE run == runs[r]
           n == Len(run.answers)
           q == Step(r).request
<1>0. /\ run.at = "exchange" /\ Step(r).op = "order" /\ Typed
      /\ UNCHANGED <<plan, session, links, payments, ledgers, labs, late, faults>>
  BY DEF PostOrder, AtStep, AccountInv
<1>1. PICK o \in OrderOutcomes(orders, q) :
          orders' = o.ledger /\ Proceed(r, o.answer, run.rest, TRUE)
  BY DEF PostOrder
<1>2. /\ run.command.name \in {"orders", "contract"}
      /\ q \in RequestType
      /\ run.command.name = "contract" /\ n + 1 \in {1, 2} =>
           q.owner = r /\ q.receipt = Fresh(<<r, 1>>, "contract")
  BY <1>0, OrderRequest
<1>3. /\ run \in Process /\ Fits(r, run) /\ run.rest \in Nat
      /\ orders \in Seq(Entry) /\ links \in Nat
  <2>1. run \in Process /\ Fits(r, run)
    BY <1>0, AtExchange
  <2> QED BY <1>0, <2>1, Answers DEF Typed
<1> HIDE DEF q
<1>4. Outcome(orders, o, q)
  BY <1>1, <1>2, <1>3, OrderOutcome
<1> DEFINE a == o.answer
<1>5. a \in Answer /\ orders' \in Seq(Entry) /\ Grown(orders, orders')
      /\ (a.ok => a.id \in DOMAIN orders' /\ orders'[a.id].request = q)
  <2>1. CASE o.ledger = orders /\ (a.ok => a.id \in DOMAIN orders /\ orders[a.id].request = q)
    BY <1>1, <1>3, <1>4, <2>1 DEF Outcome, Grown
  <2>2. CASE /\ a.ok /\ a.id = Len(orders) + 1
             /\ \E e \in Entry : e.request = q /\ o.ledger = Append(orders, e)
    <3>1. PICK e \in Entry : e.request = q /\ o.ledger = Append(orders, e)
      BY <2>2
    <3>2. /\ orders' \in Seq(Entry) /\ Len(orders) + 1 \in DOMAIN orders'
          /\ orders'[Len(orders) + 1] = e
      BY <1>1, <1>3, <3>1, AppendEntry
    <3> QED BY <1>1, <1>4, <2>2, <3>1, <3>2 DEF Outcome, Grown
  <2> QED BY <1>4, <2>1, <2>2 DEF Outcome
<1> HIDE DEF a
<1>6. PICK next \in Process :
          /\ runs' = [runs EXCEPT ![r] = next]
          /\ Follows(run, next)
          /\ Advances(run, next, a, run.rest, TRUE)
          /\ Placed(next, links, payments)
  BY <1>0, <1>1, <1>3, <1>5, Advance DEF a
<1>7. next.command = run.command /\ next.answers = Append(run.answers, a)
  BY <1>6 DEF Advances
<1>8. Fits(r, next)'
  <2>1. Ordered(r, next, orders')
    <3>1. n + 1 \in {1, 2} /\ a.ok /\ run.command.name = "contract" =>
              /\ a.id \in DOMAIN orders'
              /\ orders'[a.id].request.owner = r
              /\ orders'[a.id].request.receipt = Fresh(<<r, 1>>, "contract")
      BY <1>2, <1>5
    <3>2. Ordered(r, run, orders)
      BY <1>3 DEF Fits
    <3> HIDE DEF run
    <3> QED BY <1>0, <1>3, <1>5, <1>7, <3>1, <3>2, OrderedMore DEF n
  <2>2. next.command.name \in {"orders", "contract"} /\ next.command.name \notin Refunders
        /\ next.command.name \in Commands
    BY <1>2, <1>7, Apart DEF Commands
  <2>3. /\ Found(next, links, payments) /\ Served(r, next, labs[r])
        /\ RefundsFit(r, next, ledgers, plan.price)
    BY <2>2, Concerns
  <2> QED BY <1>0, <1>6, <2>1, <2>3 DEF Fits
<1>9. labs' \in [DOMAIN runs -> Lab]
      /\ ledgers' \in [DOMAIN ledgers -> Seq(Entry)]
      /\ (\A x \in DOMAIN runs : x # r => labs'[x] = labs[x])
      /\ (\A p \in DOMAIN ledgers : ledgers'[p] = ledgers[p])
      /\ links' \in Nat /\ links <= links'
  BY <1>0, <1>3 DEF Typed
<1>10. UNCHANGED <<plan, session, payments, late, faults>> /\ \A x \in late : Single(x)'
  BY <1>0, LateSame
<1> QED BY <1>5, <1>6, <1>8, <1>9, <1>10, AccountStep

LEMMA CommitLands ==
    ASSUME NEW store \in Lab, NEW key \in Identity
    PROVE  LET effects == Commit(store, key) IN
           /\ effects \in Seq(Identity)
           /\ Len(effects) \in Nat
           /\ DOMAIN effects = 1..Len(effects)
           /\ \E i \in DOMAIN effects : effects[i] = key /\ (key = None => i = Len(effects))
           /\ store.effects = <<>> => effects = << key >>
           /\ store.effects = << None >> /\ key = None => Len(effects) = 2
           /\ store.effects = << key >> /\ key # None => effects = << key >>
<1> DEFINE old == store.effects
           new == Append(old, key)
<1>1. old \in Seq(Identity)
  BY DEF Lab
<1> HIDE DEF old
<1>2. /\ new \in Seq(Identity) /\ Len(old) \in Nat /\ Len(new) = Len(old) + 1
      /\ DOMAIN new = 1..(Len(old) + 1)
      /\ new[Len(old) + 1] = key
  BY <1>1
<1>3. old = <<>> => new = << key >>
  OBVIOUS
<1>4. old = << None >> => Len(new) = 2
  OBVIOUS
<1> HIDE DEF new
<1>5. Len(old) + 1 \in DOMAIN new
  BY <1>2
<1> DEFINE known == \E i \in DOMAIN old : old[i] = key
<1>6. CASE key # None /\ known
  <2>1. Commit(store, key) = old
    BY <1>6 DEF Commit, old
  <2>2. Len(old) \in Nat /\ DOMAIN old = 1..Len(old)
    BY <1>1
  <2>3. old # <<>>
    BY <1>6
  <2>4. \E i \in DOMAIN old : old[i] = key /\ (key = None => i = Len(old))
    BY <1>6
  <2> QED BY <1>1, <1>6, <2>1, <2>2, <2>3, <2>4 DEF old
<1>7. CASE ~ (key # None /\ known)
  <2>1. Commit(store, key) = new
    BY <1>7 DEF Commit, old, new
  <2>2. old = << key >> => known
    OBVIOUS
  <2>3. \E i \in DOMAIN new : new[i] = key /\ (key = None => i = Len(new))
    BY <1>2, <1>5
  <2>4. Len(new) \in Nat /\ DOMAIN new = 1..Len(new)
    BY <1>2
  <2> QED BY <1>2, <1>3, <1>4, <1>7, <2>1, <2>2, <2>3, <2>4 DEF old
<1> QED BY <1>6, <1>7

LEMMA LabRequests ==
    ASSUME NEW r
    PROVE  /\ \A n \in {1, 2} : LabScript(r)[n].request.key = None
           /\ \A n \in {3, 4} : LabScript(r)[n].request.key = Fresh(r, "lab")
BY StepFields, RequestFields DEF LabScript

LEMMA PostLabStep ==
    ASSUME AccountInv, NEW r \in DOMAIN runs, PostLab(r)
    PROVE  AccountInv'
<1> DEFINE run == runs[r]
           n == Len(run.answers)
           store == IF Step(r).op = "new_lab" THEN NewLab ELSE labs[r]
           key == Step(r).request.key
           effects == Commit(store, key)
           id == CHOOSE i \in DOMAIN effects : effects[i] = key
                     /\ (key = None => i = Len(effects))
           a == [NoAnswer EXCEPT !.ok = ~store.drop, !.id = id, !.count = Len(effects)]
           lab == [effects |-> effects, drop |-> FALSE]
<1>0. /\ run.at = "exchange" /\ Step(r).op \in {"new_lab", "lab"} /\ Typed
      /\ labs' = [labs EXCEPT ![r] = lab]
      /\ Proceed(r, a, 0, TRUE)
      /\ UNCHANGED <<plan, session, links, payments, ledgers, orders, late, faults>>
  BY DEF PostLab, AtStep, AccountInv
<1>1. /\ run \in Process /\ run.command.name \in Commands /\ Fits(r, run) /\ r \in Runs
      /\ n \in Nat /\ n + 1 \in 1..Len(Ops[run.command.name])
      /\ Ops[run.command.name][n + 1] = Step(r).op /\ Active(run)
  BY <1>0, AtExchange
<1>2. /\ run.command.name = "lab" /\ n + 1 \in 1..4
      /\ Step(r).op = IF n + 1 \in {1, 3} THEN "new_lab" ELSE "lab"
  <2> DEFINE name == run.command.name
             m == n + 1
  <2>1. m \in 1..Len(Ops[name]) /\ Ops[name][m] \in {"new_lab", "lab"} /\ name \in Commands
    BY <1>0, <1>1
  <2> HIDE DEF m, name
  <2>2. name = "lab" /\ m \in 1..4 /\ Ops[name][m] = IF m \in {1, 3} THEN "new_lab" ELSE "lab"
    BY <2>1, WhoAsks
  <2> QED BY <1>1, <2>2 DEF m, name
<1>3. n \in {0, 1, 2, 3}
  <2>1. n \in Nat /\ n + 1 \in 1..4
    BY <1>1, <1>2
  <2> HIDE DEF n
  <2> QED BY <2>1
<1>4. key = IF n \in {0, 1} THEN None ELSE Fresh(r, "lab")
  <2>1. ScriptOf(r) = LabScript(r)
    BY <1>2 DEF ScriptOf, Script
  <2>2. key = LabScript(r)[n + 1].request.key
    BY <2>1 DEF Step
  <2> HIDE DEF n, key
  <2> QED BY <1>3, <2>2, LabRequests
<1>5. Fresh(r, "lab") \in Identity /\ Fresh(r, "lab") # None /\ None \in Identity
  BY <1>1, FreshTyped, NoneAssumption DEF Purposes, Identity
<1>6. NewLab \in Lab /\ NewLab.effects = <<>> /\ labs[r] \in Lab
  BY <1>0 DEF NewLab, Lab, Typed
<1>7. store \in Lab /\ key \in Identity
  BY <1>4, <1>5, <1>6
<1>8. store.drop \in BOOLEAN
  <2> HIDE DEF store
  <2> QED BY <1>7 DEF Lab
<1>9. /\ n = 1 => labs[r].effects = << None >>
      /\ n = 3 => labs[r].effects = << Fresh(r, "lab") >>
      /\ n >= 2 => run.answers[2].count = 2
  BY <1>1, <1>2 DEF Fits, Served
<1>10. /\ n \in {0, 2} => store.effects = <<>>
       /\ n = 1 => store.effects = << None >>
       /\ n = 3 => store.effects = << Fresh(r, "lab") >>
  <2> HIDE DEF n
  <2>1. n \in {0, 2} => store = NewLab
    <3>1. n \in {0, 2} => n + 1 \in {1, 3}
      OBVIOUS
    <3> QED BY <1>2, <3>1
  <2>2. n \in {1, 3} => store = labs[r]
    <3>1. n \in {1, 3} => n + 1 \notin {1, 3}
      OBVIOUS
    <3>2. "lab" # "new_lab"
      OBVIOUS
    <3> QED BY <1>2, <3>1, <3>2
  <2> HIDE DEF store
  <2> QED BY <1>6, <1>9, <2>1, <2>2
<1> HIDE DEF store, key
<1>11. /\ effects \in Seq(Identity) /\ Len(effects) \in Nat /\ DOMAIN effects = 1..Len(effects)
       /\ \E i \in DOMAIN effects : effects[i] = key /\ (key = None => i = Len(effects))
  BY <1>7, CommitLands
<1>12. /\ n = 0 => effects = << None >>
       /\ n = 1 => Len(effects) = 2
       /\ n = 2 => effects = << Fresh(r, "lab") >>
       /\ n = 3 => effects = << Fresh(r, "lab") >>
  <2> HIDE DEF n
  <2>1. /\ store.effects = <<>> => effects = << key >>
        /\ store.effects = << None >> /\ key = None => Len(effects) = 2
        /\ store.effects = << key >> /\ key # None => effects = << key >>
    BY <1>7, CommitLands
  <2> HIDE DEF effects
  <2>2. n \in {0, 1} => key = None
    BY <1>4
  <2>3. n \in {2, 3} => key = Fresh(r, "lab")
    BY <1>4
  <2> QED BY <1>5, <1>10, <2>1, <2>2, <2>3
<1> HIDE DEF effects
<1>13. id \in Nat
  <2>1. id \in DOMAIN effects
    BY <1>11
  <2> HIDE DEF id
  <2> QED BY <1>11, <2>1
<1> HIDE DEF id
<1>14. a \in Answer /\ a.count = Len(effects)
  BY <1>8, <1>11, <1>13, AnswerFields DEF Answer
<1> HIDE DEF a
<1>15. PICK next \in Process :
          /\ runs' = [runs EXCEPT ![r] = next]
          /\ Follows(run, next)
          /\ Advances(run, next, a, 0, TRUE)
          /\ Placed(next, links, payments)
  BY <1>0, <1>14, Advance
<1>16. next.command = run.command /\ next.answers = Append(run.answers, a)
  BY <1>15 DEF Advances
<1>17. Served(r, next, lab)
  <2> DEFINE old == run.answers
             b == next.answers
  <2>1. /\ old \in Seq(Answer) /\ Len(b) = n + 1 /\ b[n + 1] = a
        /\ \A i \in 1..n : b[i] = old[i]
    <3>1. old \in Seq(Answer)
      BY <1>1, Answers
    <3> QED BY <1>14, <1>16, <3>1, AppendAnswer
  <2>2. lab.effects = effects
    OBVIOUS
  <2> HIDE DEF old, b, lab, n
  <2>3. n + 1 = 1 => lab.effects = << None >>
    BY <1>3, <1>12, <2>2
  <2>4. n + 1 = 3 => lab.effects = << Fresh(r, "lab") >>
    BY <1>3, <1>12, <2>2
  <2>5. n + 1 >= 2 => b[2].count = 2
    <3>1. CASE n = 1
      <4>1. Len(effects) = 2
        BY <1>12, <3>1
      <4> QED BY <1>14, <2>1, <3>1, <4>1
    <3>2. CASE n >= 2
      <4>1. 2 \in 1..n
        BY <1>3, <3>2
      <4> QED BY <1>9, <2>1, <3>2, <4>1 DEF old
    <3> QED BY <1>3, <3>1, <3>2
  <2>6. n + 1 >= 4 => b[4].count = 1
    <3>1. n + 1 >= 4 => n = 3
      BY <1>3
    <3>2. n = 3 => Len(effects) = 1
      BY <1>12
    <3>3. n = 3 => b[4] = a
      BY <2>1
    <3> QED BY <1>14, <3>1, <3>2, <3>3
  <2> QED BY <2>1, <2>3, <2>4, <2>5, <2>6 DEF Served, b
<1>18. labs' \in [DOMAIN runs -> Lab] /\ labs'[r] = lab
       /\ \A x \in DOMAIN runs : x # r => labs'[x] = labs[x]
  <2>1. lab \in Lab
    BY <1>11 DEF Lab
  <2> HIDE DEF lab
  <2> QED BY <1>0, <2>1 DEF Typed
<1>19. Fits(r, next)'
  <2>1. next.command.name = "lab" /\ "lab" \notin Refunders
    BY <1>2, <1>16, Apart
  <2>2. /\ Found(next, links, payments) /\ Ordered(r, next, orders)
        /\ RefundsFit(r, next, ledgers, plan.price)
    BY <2>1 DEF Found, Ordered, RefundsFit
  <2> HIDE DEF lab
  <2> QED BY <1>0, <1>15, <1>17, <1>18, <2>2 DEF Fits
<1>20. Grown(orders, orders') /\ orders' \in Seq(Entry)
       /\ ledgers' \in [DOMAIN ledgers -> Seq(Entry)]
       /\ (\A p \in DOMAIN ledgers : ledgers'[p] = ledgers[p])
       /\ links' \in Nat /\ links <= links'
  BY <1>0 DEF Grown, Typed
<1>21. UNCHANGED <<plan, session, payments, late, faults>> /\ \A x \in late : Single(x)'
  BY <1>0, LateSame
<1> QED BY <1>15, <1>18, <1>19, <1>20, <1>21, AccountStep

-----------------------------------------------------------------------------
(* Refunds.                                                                *)

\* What Razorpay does, with the sum it comes to.
LEMMA OutcomeCases ==
    ASSUME NEW ledger \in Seq(Entry), NEW price \in Nat, Total(ledger) \in 0..price,
           NEW q \in RequestType, NEW o \in Outcomes(ledger, price, q)
    PROVE  LET why == Reasons(ledger, price, q)
               worth == Worth(q, price - Total(ledger)) IN
           /\ worth \in Nat
           /\ \/ /\ o.ledger = ledger /\ o.answer.ok
                 /\ \E i \in DOMAIN ledger : SameKey(ledger[i], q) /\ ledger[i].request = q
              \/ o.ledger = ledger /\ ~ o.answer.ok /\ o.answer.why = why
              \/ o.answer.ok /\ why = {} /\ Total(o.ledger) = Total(ledger) + worth
<1> DEFINE why == Reasons(ledger, price, q)
           worth == Worth(q, price - Total(ledger))
           e == [request |-> q, amount |-> worth]
           new == Append(ledger, e)
<1>0. price - Total(ledger) \in Nat
  OBVIOUS
<1>1. worth \in Nat /\ e \in Entry /\ e.amount = worth
  <2>1. worth \in Nat
    BY <1>0, WorthNatural
  <2> QED BY <2>1 DEF Entry
<1>2. CASE o \in Replays(ledger, q)
  <2>1. PICK i \in DOMAIN ledger : /\ SameKey(ledger[i], q) /\ ledger[i].request = q
                                   /\ o = [ledger |-> ledger, answer |-> Accepted(ledger, i)]
    BY <1>2 DEF Replays
  <2>2. o.ledger = ledger /\ o.answer.ok
    BY <2>1, AcceptedFields
  <2> QED BY <1>1, <2>1, <2>2
<1>3. CASE o \in Refusals(ledger, price, q)
  <2>1. o = [ledger |-> ledger, answer |-> Refusal(why)]
    BY <1>3 DEF Refusals
  <2>2. why \in SUBSET Causes
    BY ReasonsAre DEF Causes
  <2> HIDE DEF why
  <2>3. o.ledger = ledger /\ ~ o.answer.ok /\ o.answer.why = why
    BY <2>1, <2>2, AnswerFields
  <2> QED BY <1>1, <2>3 DEF why
<1>4. CASE o \in Creations(ledger, price, q)
  <2>1. o = [ledger |-> new, answer |-> Accepted(new, Len(new))] /\ why = {}
    BY <1>4 DEF Creations
  <2> HIDE DEF e, worth, why
  <2>2. new \in Seq(Entry) /\ Len(new) \in DOMAIN new
    BY <1>1, AppendEntry
  <2>3. Total(new) = Total(ledger) + worth
    BY <1>1, TotalAppend
  <2> HIDE DEF new
  <2>4. o.ledger = new /\ o.answer.ok
    BY <2>1, <2>2, AcceptedFields
  <2> QED BY <1>1, <2>1, <2>3, <2>4 DEF worth, why
<1> QED BY <1>2, <1>3, <1>4 DEF Outcomes

\* What a matrix knows of the account before its next request, on a captured
\* payment that nobody else refunds.
Knows(r, old, rest, ledger, price) ==
    LET n == Len(old) IN
    /\ old[1].total \in Nat /\ old[1].total <= Total(ledger)
    /\ n <= 7 => Total(ledger) <= old[1].total + Weight(r, ledger)
    /\ n <= 5 => Lacks(r, "receipt", ledger)
    /\ n <= 9 => rest >= 500 /\ rest + old[1].total = price
    /\ n >= 5 /\ old[5].ok => old[5].id \in DOMAIN ledger
    /\ n >= 7 /\ old[7].ok => old[7].id \in DOMAIN ledger
    /\ Held(r, old, ledger)

\* Why its requests are refused.
LEMMA MatrixTold ==
    ASSUME NEW r \in Runs, NEW ledger \in Seq(Entry), NEW price \in Nat, LedgerFits(ledger, price),
           NEW old \in Seq(Answer), Len(old) > 0, NEW rest \in Nat,
           Knows(r, old, rest, ledger, price),
           NEW q \in RequestType, q = MatrixScript(r, rest, price)[Len(old) + 1].request,
           NEW o \in Outcomes(ledger, price, q)
    PROVE  LET a == o.answer
               n == Len(old) IN
           /\ n + 1 = 4 /\ ~ a.ok => Sole(a.why, "balance")
           /\ n + 1 = 6 /\ old[5].ok /\ ~ a.ok => Sole(a.why, "conflict")
           /\ n + 1 = 8 /\ old[7].ok /\ ~ a.ok => Sole(a.why, "duplicate")
<1> DEFINE a == o.answer
           n == Len(old)
           T == Total(ledger)
           first == old[1].total
           weight == Weight(r, ledger)
           why == Reasons(ledger, price, q)
           worth == Worth(q, price - T)
           replayed == \E i \in DOMAIN ledger : SameKey(ledger[i], q) /\ ledger[i].request = q
<1>1. T \in Nat /\ T \in 0..price /\ price \in Nat /\ first \in Nat /\ first <= T
      /\ n \in Nat /\ n > 0
  BY TotalNatural DEF LedgerFits, Knows
<1>2. /\ worth \in Nat
      /\ ~ a.ok => a.why = why
      /\ a.ok => replayed \/ why = {}
  BY <1>1, OutcomeCases
<1>3. /\ weight \in Nat /\ weight <= 400
      /\ n <= 5 => weight <= 300
  <2>1. n <= 5 => Lacks(r, "receipt", ledger)
    BY DEF Knows
  <2>2. Lacks(r, "receipt", ledger) => weight <= 300
    BY DEF Weight
  <2> QED BY <2>1, <2>2, WeightNatural
<1>4. /\ why \subseteq {"conflict", "duplicate", "minimum", "balance"}
      /\ "conflict" \in why <=> \E i \in DOMAIN ledger : SameKey(ledger[i], q)
      /\ "duplicate" \in why <=> \E i \in DOMAIN ledger : SameReceipt(ledger[i], q)
      /\ "minimum" \in why <=> q.form = "exact" /\ worth < 100
      /\ "balance" \in why <=> worth = 0 \/ T + worth > price
  BY ReasonsAre DEF Minimum
<1>5. q.form = "exact" => worth = q.amount
  BY DEF Worth
<1>6. q.key = None => "conflict" \notin why
  BY <1>4 DEF SameKey
<1>7. q.receipt = None => "duplicate" \notin why
  BY <1>4 DEF SameReceipt
<1>9. /\ n <= 7 => T <= first + weight
      /\ n <= 9 => rest >= 500 /\ rest + first = price
      /\ n >= 5 /\ old[5].ok => old[5].id \in DOMAIN ledger
      /\ n >= 7 /\ old[7].ok => old[7].id \in DOMAIN ledger
      /\ Held(r, old, ledger)
  BY DEF Knows
<1>0. q = MatrixScript(r, rest, price)[n + 1].request
  OBVIOUS
<1>10. Fresh(r, "mismatch") # None /\ Fresh(r, "receipt") # None
  BY NoneAssumption
<1> SUFFICES /\ n + 1 = 4 /\ ~ a.ok => Sole(a.why, "balance")
             /\ n + 1 = 6 /\ old[5].ok /\ ~ a.ok => Sole(a.why, "conflict")
             /\ n + 1 = 8 /\ old[7].ok /\ ~ a.ok => Sole(a.why, "duplicate")
  OBVIOUS
<1>20. /\ n >= 5 /\ old[5].ok =>
            ledger[old[5].id].request = Request(r, "mismatch", "exact", 100, Fresh(r, "mismatch"), None)
       /\ n >= 7 /\ old[7].ok =>
            ledger[old[7].id].request = Request(r, "receipt", "exact", 100, None, Fresh(r, "receipt"))
  BY <1>9 DEF Held
<1> HIDE DEF a, T, first, weight, why, worth, replayed, n
<1>13. CASE n = 3
  <2>1. q = Request(r, "over", "exact", rest + 1, None, None)
    BY <1>0, <1>13, MatrixRequests
  <2>2. q.form = "exact" /\ q.amount = rest + 1 /\ q.key = None /\ q.receipt = None
    BY <2>1, RequestFields
  <2>3. worth = rest + 1 /\ rest >= 500 /\ rest + first = price
    BY <1>5, <1>9, <1>13, <2>2
  <2>4. "balance" \in why /\ "minimum" \notin why
    BY <1>1, <1>4, <2>3
  <2>5. why = {"balance"}
    BY <1>4, <1>6, <1>7, <2>2, <2>4
  <2> QED BY <1>2, <1>13, <2>5 DEF Sole
<1>15. CASE n = 5
  <2>1. q = Request(r, "mismatch", "exact", 200, Fresh(r, "mismatch"), None)
    BY <1>0, <1>15, MatrixRequests
  <2>2. q.form = "exact" /\ q.amount = 200 /\ q.key = Fresh(r, "mismatch") /\ q.receipt = None
    BY <2>1, RequestFields
  <2>3. worth = 200 /\ rest >= 500 /\ rest + first = price
    BY <1>5, <1>9, <1>15, <2>2
  <2>4. SUFFICES ASSUME old[5].ok, ~ a.ok PROVE Sole(a.why, "conflict")
    BY <1>15
  <2> DEFINE i == old[5].id
             x == ledger[i].request
  <2>5. i \in DOMAIN ledger /\ x = Request(r, "mismatch", "exact", 100, Fresh(r, "mismatch"), None)
    BY <1>9, <1>15, <1>20, <2>4
  <2>6. SameKey(ledger[i], q)
    BY <1>10, <2>2, <2>5, RequestFields DEF SameKey
  <2>7. "balance" \notin why /\ "minimum" \notin why
    BY <1>1, <1>3, <1>4, <1>9, <1>15, <2>3
  <2>8. why = {"conflict"}
    <3>1. "conflict" \in why
      BY <1>4, <2>5, <2>6
    <3>2. "duplicate" \notin why
      BY <1>7, <2>2
    <3> QED BY <1>4, <2>7, <3>1, <3>2
  <2> QED BY <1>2, <2>4, <2>8 DEF Sole
<1>17. CASE n = 7
  <2>1. q = Request(r, "receipt", "exact", 100, None, Fresh(r, "receipt"))
    BY <1>0, <1>17, MatrixRequests
  <2>2. q.form = "exact" /\ q.amount = 100 /\ q.key = None /\ q.receipt = Fresh(r, "receipt")
    BY <2>1, RequestFields
  <2>3. worth = 100 /\ rest >= 500 /\ rest + first = price
    BY <1>5, <1>9, <1>17, <2>2
  <2>4. SUFFICES ASSUME old[7].ok, ~ a.ok PROVE Sole(a.why, "duplicate")
    BY <1>17
  <2> DEFINE i == old[7].id
  <2>5. i \in DOMAIN ledger
        /\ ledger[i].request = Request(r, "receipt", "exact", 100, None, Fresh(r, "receipt"))
    BY <1>9, <1>17, <1>20, <2>4
  <2>6. SameReceipt(ledger[i], q)
    BY <1>10, <2>2, <2>5, RequestFields DEF SameReceipt
  <2>7. "balance" \notin why /\ "minimum" \notin why
    BY <1>1, <1>3, <1>4, <1>9, <1>17, <2>3
  <2>8. why = {"duplicate"}
    <3>1. "duplicate" \in why
      BY <1>4, <2>5, <2>6
    <3>2. "conflict" \notin why
      BY <1>6, <2>2
    <3> QED BY <1>4, <2>7, <3>1, <3>2
  <2> QED BY <1>2, <2>4, <2>8 DEF Sole
<1>18. n + 1 = 4 \/ n + 1 = 6 \/ n + 1 = 8 => n = 3 \/ n = 5 \/ n = 7
  BY <1>1
<1> QED BY <1>13, <1>15, <1>17, <1>18

-----------------------------------------------------------------------------
(* A refund more of run r.                                                 *)

LEMMA LacksMore ==
    ASSUME NEW r, NEW label, NEW ledger \in Seq(Entry), NEW e \in Entry
    PROVE  Lacks(r, label, Append(ledger, e)) <=>
               /\ Lacks(r, label, ledger)
               /\ ~ (e.request.owner = r /\ e.request.label = label)
<1> DEFINE new == Append(ledger, e)
<1>1. /\ DOMAIN new = DOMAIN ledger \cup {Len(ledger) + 1}
      /\ new[Len(ledger) + 1] = e
      /\ \A i \in DOMAIN ledger : new[i] = ledger[i]
  BY AppendEntry
<1> HIDE DEF new
<1>2. ASSUME Lacks(r, label, ledger), ~ (e.request.owner = r /\ e.request.label = label)
      PROVE  Lacks(r, label, new)
  BY <1>1, <1>2 DEF Lacks
<1>3. ASSUME Lacks(r, label, new)
      PROVE  Lacks(r, label, ledger) /\ ~ (e.request.owner = r /\ e.request.label = label)
  BY <1>1, <1>3 DEF Lacks
<1> QED BY <1>2, <1>3 DEF new

\* It makes the sum larger by no more than the weight of its kind.
LEMMA HeavierBy ==
    ASSUME NEW r \in Runs, NEW ledger \in Seq(Entry), NEW price \in Nat, LedgerFits(ledger, price),
           \A i \in DOMAIN ledger : Known(ledger[i].request),
           NEW q \in RequestType, q.owner = r, Known(q), ClosesAll(q, Total(ledger), price),
           q.label = "fraction" => Lacks(r, "fraction", ledger),
           q.label \in {"below", "fraction", "over", "mismatch", "receipt"},
           Reasons(ledger, price, q) = {},
           NEW e \in Entry, e.request = q, e.amount = Worth(q, price - Total(ledger))
    PROVE  e.amount + Weight(r, ledger) <= Weight(r, Append(ledger, e))
<1> DEFINE T == Total(ledger)
           worth == Worth(q, price - T)
           new == Append(ledger, e)
           why == Reasons(ledger, price, q)
           lacks(label) == Lacks(r, label, ledger)
           misses(label) == Lacks(r, label, new)
<1>1. T \in Nat /\ q.amount \in Nat
  BY TotalNatural DEF RequestType
<1>2. /\ \A i \in DOMAIN ledger : ~ SameKey(ledger[i], q) /\ ~ SameReceipt(ledger[i], q)
      /\ ~ (q.form = "exact" /\ worth < 100)
      /\ ~ (T + worth > price)
  BY ReasonsAre DEF Minimum
<1>3. (q.form = "exact" => worth = q.amount) /\ (q.form = "fraction" => worth = 100)
  BY DEF Worth
<1>4. q.label \notin {"below", "over"}
  <2>1. q.label = "below" => q.form = "exact" /\ q.amount < 100
    BY DEF Known, Minimum
  <2>2. q.label = "over" => q.form = "exact" /\ q.amount + T > price
    BY DEF ClosesAll
  <2> HIDE DEF worth, T
  <2> QED BY <1>1, <1>2, <1>3, <2>1, <2>2
<1>5. q.label = "mismatch" => lacks("mismatch")
  <2>1. Fresh(r, "mismatch") # None
    BY NoneAssumption
  <2>2. \A i \in DOMAIN ledger : ledger[i].request.owner = r /\ ledger[i].request.label = "mismatch"
            => ledger[i].request.key = Fresh(r, "mismatch")
    BY DEF Known
  <2>3. q.label = "mismatch" => q.key = Fresh(r, "mismatch")
    BY DEF Known
  <2> QED BY <1>2, <2>1, <2>2, <2>3 DEF SameKey, Lacks
<1>6. q.label = "receipt" => lacks("receipt")
  <2>1. Fresh(r, "receipt") # None
    BY NoneAssumption
  <2>2. \A i \in DOMAIN ledger : ledger[i].request.owner = r /\ ledger[i].request.label = "receipt"
            => ledger[i].request.receipt = Fresh(r, "receipt")
    BY DEF Known
  <2>3. q.label = "receipt" => q.receipt = Fresh(r, "receipt")
    BY DEF Known
  <2> QED BY <1>2, <2>1, <2>2, <2>3 DEF SameReceipt, Lacks
<1>7. \A label \in {"fraction", "mismatch", "receipt"} :
          misses(label) <=> lacks(label) /\ q.label # label
  <2> HIDE DEF new
  <2> QED BY LacksMore DEF new
<1>8. e.amount = worth
  OBVIOUS
<1>9. /\ q.label = "fraction" => worth <= 100 /\ lacks("fraction")
      /\ q.label = "mismatch" => worth <= 200
      /\ q.label = "receipt" => worth <= 100
      /\ worth \in Nat
  <2>1. (q.label = "fraction" => q.form = "fraction")
        /\ (q.label = "mismatch" => q.form = "exact" /\ q.amount <= 200)
        /\ (q.label = "receipt" => q.form = "exact" /\ q.amount = 100)
    BY DEF Known
  <2>2. worth \in Nat
    <3>1. q.form \in {"exact", "fraction"}
      BY <1>4, <2>1
    <3> HIDE DEF worth
    <3> QED BY <1>1, <1>3, <3>1
  <2> HIDE DEF worth
  <2> QED BY <1>1, <1>3, <2>1, <2>2
<1>10. Weight(r, ledger) = (IF lacks("fraction") THEN 0 ELSE 100)
           + (IF lacks("mismatch") THEN 0 ELSE 200) + (IF lacks("receipt") THEN 0 ELSE 100)
  BY DEF Weight
<1>11. Weight(r, new) = (IF misses("fraction") THEN 0 ELSE 100)
           + (IF misses("mismatch") THEN 0 ELSE 200) + (IF misses("receipt") THEN 0 ELSE 100)
  BY DEF Weight
<1> HIDE DEF worth, lacks, misses, T, new
<1>12. CASE q.label = "fraction"
  BY <1>7, <1>8, <1>9, <1>10, <1>11, <1>12 DEF new
<1>13. CASE q.label = "mismatch"
  BY <1>5, <1>7, <1>8, <1>9, <1>10, <1>11, <1>13 DEF new
<1>14. CASE q.label = "receipt"
  BY <1>6, <1>7, <1>8, <1>9, <1>10, <1>11, <1>14 DEF new
<1> QED BY <1>4, <1>12, <1>13, <1>14

LEMMA BoundedMore ==
    ASSUME NEW r \in Runs, NEW run \in Process, NEW next \in Process,
           NEW ledger \in Seq(Entry), NEW price \in Nat, LedgerFits(ledger, price),
           \A i \in DOMAIN ledger : Known(ledger[i].request),
           NEW q \in RequestType, q.owner = r, Known(q), ClosesAll(q, Total(ledger), price),
           q.label = "fraction" => Lacks(r, "fraction", ledger),
           NEW o, o.ledger = ledger \/ o \in Outcomes(ledger, price, q),
           Bounded(r, run, ledger), next.command = run.command,
           run.command.name = "matrix" /\ Len(next.answers) \in 1..7 =>
               /\ Len(run.answers) \in 1..7
               /\ next.answers[1] = run.answers[1]
               /\ q.label \in {"below", "fraction", "over", "mismatch", "receipt"}
    PROVE  Bounded(r, next, o.ledger)
<1> SUFFICES ASSUME run.command.name = "matrix", Len(next.answers) \in 1..7,
                    Alone(r, next, o.ledger)
             PROVE  Total(o.ledger) <= run.answers[1].total + Weight(r, o.ledger)
  BY DEF Bounded
<1>1. CASE o.ledger = ledger
  BY <1>1 DEF Bounded, Alone
<1>2. CASE o.ledger # ledger
  <2> DEFINE e == [request |-> q, amount |-> Worth(q, price - Total(ledger))]
             new == Append(ledger, e)
  <2>1. o.ledger = new /\ Reasons(ledger, price, q) = {}
    BY <1>2 DEF Outcomes, Replays, Refusals, Creations
  <2>2. e \in Entry /\ e.request = q /\ e.amount = Worth(q, price - Total(ledger))
    <3>1. price - Total(ledger) \in Nat
      BY DEF LedgerFits
    <3>2. Worth(q, price - Total(ledger)) \in Nat
      BY <3>1, WorthNatural
    <3> QED BY <3>2 DEF Entry
  <2> HIDE DEF e
  <2>3. e.amount + Weight(r, ledger) <= Weight(r, new)
    BY <2>1, <2>2, HeavierBy
  <2>4. Total(new) = Total(ledger) + e.amount
    BY <2>2, TotalAppend
  <2>5. Alone(r, run, ledger)
    BY <2>1, <2>2, AppendEntry DEF Alone
  <2>6. Total(ledger) <= run.answers[1].total + Weight(r, ledger)
    BY <2>5 DEF Bounded
  <2>7. /\ Total(ledger) \in Nat /\ e.amount \in Nat /\ run.answers[1].total \in Nat
        /\ Weight(r, ledger) \in Nat /\ Weight(r, new) \in Nat
    <3>1. 1 \in DOMAIN run.answers
      BY Answers
    <3> QED BY <2>2, <3>1, Answers, TotalNatural, WeightNatural DEF Entry
  <2> HIDE DEF new
  <2>8. Total(new) <= run.answers[1].total + Weight(r, new)
    <3> DEFINE worth == e.amount
               first == run.answers[1].total
               light == Weight(r, ledger)
               heavy == Weight(r, new)
               small == Total(ledger)
               big == Total(new)
    <3>1. /\ worth + light <= heavy /\ big = small + worth /\ small <= first + light
          /\ worth \in Nat /\ first \in Nat /\ light \in Nat /\ heavy \in Nat /\ small \in Nat
      BY <2>3, <2>4, <2>6, <2>7 DEF new
    <3> HIDE DEF worth, first, light, heavy, small, big
    <3>2. big <= first + heavy
      BY <3>1
    <3> QED BY <3>2 DEF big, first, heavy
  <2> QED BY <2>1, <2>8
<1> QED BY <1>1, <1>2

\* What a request for a refund does to the ledger of its payment.
LEMMA RefundLands ==
    ASSUME Typed, NEW p \in DOMAIN ledgers, LedgerFits(ledgers[p], plan.price),
           NEW q \in RequestType, Known(q), ClosesAll(q, Total(ledgers[p]), plan.price),
           q.label = "fraction" => Lacks(q.owner, "fraction", ledgers[p]),
           NEW o \in RefundOutcomes(p, q)
    PROVE  /\ Outcome(ledgers[p], o, q)
           /\ LedgerFits(o.ledger, plan.price)
           /\ o.ledger \in Seq(Entry)
           /\ Total(ledgers[p]) <= Total(o.ledger)
           /\ p \in DOMAIN payments /\ payments[p].captured => o \in Outcomes(ledgers[p], plan.price, q)
           /\ o.ledger = ledgers[p] \/ o \in Outcomes(ledgers[p], plan.price, q)
<1> DEFINE ledger == ledgers[p]
           price == plan.price
<1>1. ledger \in Seq(Entry) /\ price \in Nat /\ Total(ledger) \in Nat
  BY AccountTypes
<1>2. p \in DOMAIN payments /\ payments[p].captured => o \in Outcomes(ledger, price, q)
  BY DEF RefundOutcomes
<1>3. CASE o \in Outcomes(ledger, price, q)
  <2> HIDE DEF ledger, price
  <2>1. Total(ledger) \in 0..price
    BY DEF LedgerFits, ledger, price
  <2>2. Outcome(ledger, o, q)
    BY <1>1, <1>3, <2>1, RefundOutcome
  <2>3. LedgerFits(o.ledger, price) /\ Total(ledger) <= Total(o.ledger)
    BY <1>1, <1>3, PromiseKept DEF ledger, price
  <2>4. o.ledger \in Seq(Entry)
    BY SMTT(20), <1>1, <2>2, AppendEntry DEF Outcome
  <2> QED BY <1>2, <1>3, <2>2, <2>3, <2>4 DEF ledger, price
<1>4. CASE o \notin Outcomes(ledger, price, q)
  <2>1. o = [ledger |-> ledger, answer |-> Refusal({"uncaptured"})]
    BY <1>4 DEF RefundOutcomes
  <2>2. {"uncaptured"} \in SUBSET Causes
    BY DEF Causes
  <2>3. Refusal({"uncaptured"}) \in Answer /\ ~ Refusal({"uncaptured"}).ok
    BY <2>2, AnswerFields
  <2>4. o.ledger = ledger /\ o.answer = Refusal({"uncaptured"})
    BY <2>1
  <2>5. Outcome(ledger, o, q)
    <3> HIDE DEF ledger
    <3> QED BY <2>3, <2>4 DEF Outcome
  <2> QED BY <1>1, <1>2, <2>4, <2>5
<1> QED BY <1>3, <1>4

LEMMA OutcomeLands ==
    ASSUME NEW ledger \in Seq(Entry), NEW o, NEW q, Outcome(ledger, o, q)
    PROVE  /\ o.ledger \in Seq(Entry)
           /\ Grown(ledger, o.ledger)
           /\ \A i \in DOMAIN ledger : i \in DOMAIN o.ledger /\ o.ledger[i] = ledger[i]
           /\ o.answer.ok => o.answer.id \in DOMAIN o.ledger /\ o.ledger[o.answer.id].request = q
           /\ \A i \in DOMAIN o.ledger : i \in DOMAIN ledger \/ (o.answer.ok /\ o.answer.id = i)
<1> DEFINE a == o.answer
           new == o.ledger
<1> SUFFICES /\ new \in Seq(Entry)
             /\ Grown(ledger, new)
             /\ \A i \in DOMAIN ledger : i \in DOMAIN new /\ new[i] = ledger[i]
             /\ a.ok => a.id \in DOMAIN new /\ new[a.id].request = q
             /\ \A i \in DOMAIN new : i \in DOMAIN ledger \/ (a.ok /\ a.id = i)
  OBVIOUS
<1>0. \/ new = ledger /\ (a.ok => a.id \in DOMAIN ledger /\ ledger[a.id].request = q)
      \/ /\ a.ok /\ a.id = Len(ledger) + 1
         /\ \E e \in Entry : e.request = q /\ new = Append(ledger, e)
  BY DEF Outcome
<1> HIDE DEF a, new
<1>1. CASE new = ledger /\ (a.ok => a.id \in DOMAIN ledger /\ ledger[a.id].request = q)
  <2>1. Grown(ledger, new) /\ new \in Seq(Entry)
    BY <1>1 DEF Grown
  <2>2. \A i \in DOMAIN ledger : i \in DOMAIN new /\ new[i] = ledger[i]
    BY <1>1
  <2>3. \A i \in DOMAIN new : i \in DOMAIN ledger
    BY <1>1
  <2>4. a.ok => a.id \in DOMAIN new /\ new[a.id].request = q
    BY <1>1
  <2> QED BY <2>1, <2>2, <2>3, <2>4
<1>2. CASE /\ a.ok /\ a.id = Len(ledger) + 1
           /\ \E e \in Entry : e.request = q /\ new = Append(ledger, e)
  <2>1. PICK e \in Entry : e.request = q /\ new = Append(ledger, e)
    BY <1>2
  <2>2. /\ new \in Seq(Entry) /\ DOMAIN new = DOMAIN ledger \cup {a.id}
        /\ new[a.id] = e /\ \A i \in DOMAIN ledger : new[i] = ledger[i]
    BY <1>2, <2>1, AppendEntry
  <2>3. Grown(ledger, new)
    BY <2>1 DEF Grown
  <2>4. a.id \in DOMAIN new /\ new[a.id].request = q
    BY <2>1, <2>2
  <2>5. ASSUME NEW i \in DOMAIN ledger PROVE i \in DOMAIN new /\ new[i] = ledger[i]
    BY <2>2
  <2>6. ASSUME NEW i \in DOMAIN new PROVE i \in DOMAIN ledger \/ a.id = i
    BY <2>2
  <2> QED BY <1>2, <2>2, <2>3, <2>4, <2>5, <2>6
<1> QED BY <1>0, <1>1, <1>2

\* The refund a process was just told of is its own, and the other way round.
LEMMA AccountedMore ==
    ASSUME NEW r, NEW run \in Process, NEW next \in Process, NEW a \in Answer,
           NEW ledger \in Seq(Entry), NEW new, NEW q, NEW o, o.answer = a, o.ledger = new,
           Outcome(ledger, o, q), Accounted(r, run, ledger),
           q.owner = r, q.label = Asks[run.command.name][Len(run.answers) + 1],
           Ops[run.command.name][Len(run.answers) + 1] = "refund",
           next.command = run.command, next.answers = Append(run.answers, a)
    PROVE  Accounted(r, next, new)
<1> DEFINE name == run.command.name
           old == run.answers
           more == next.answers
           n == Len(old)
<1>1. /\ old \in Seq(Answer) /\ n \in Nat /\ DOMAIN old = 1..n
      /\ n + 1 \in 1..(n + 1)
  BY Answers
<1>2. /\ DOMAIN more = 1..(n + 1) /\ more[n + 1] = a
      /\ \A i \in 1..n : more[i] = old[i] /\ i \in 1..(n + 1)
      /\ \A i \in 1..(n + 1) : i \in 1..n \/ i = n + 1
  BY <1>1, AppendAnswer
<1>3. /\ \A m \in 1..n : Ops[name][m] = "refund" /\ old[m].ok =>
             /\ old[m].id \in DOMAIN ledger
             /\ ledger[old[m].id].request.owner = r
             /\ ledger[old[m].id].request.label = Asks[name][m]
      /\ \A i \in DOMAIN ledger : ledger[i].request.owner = r =>
             \/ \E m \in 1..n : Ops[name][m] = "refund" /\ old[m].ok /\ old[m].id = i
             \/ Errored(run, ledger[i].request.label)
  BY <1>1 DEF Accounted
<1>4. next.command.name = name
  OBVIOUS
<1> HIDE DEF name, old, more, n
<1>5. SUFFICES /\ \A m \in 1..(n + 1) : Ops[name][m] = "refund" /\ more[m].ok =>
                      /\ more[m].id \in DOMAIN new
                      /\ new[more[m].id].request.owner = r
                      /\ new[more[m].id].request.label = Asks[name][m]
               /\ \A i \in DOMAIN new : new[i].request.owner = r =>
                      \/ \E m \in 1..(n + 1) : Ops[name][m] = "refund" /\ more[m].ok /\ more[m].id = i
                      \/ \E m \in 1..(n + 1) : /\ Ops[name][m] = "refund"
                                               /\ Asks[name][m] = new[i].request.label
                                               /\ ~ more[m].ok /\ more[m].why = {"error"}
  BY ZenonT(30), <1>2, <1>4 DEF Accounted, Errored, more
<1>6. Ops[name][n + 1] = "refund" /\ q.label = Asks[name][n + 1]
  BY DEF name, n, old
<1>7. /\ \A i \in DOMAIN ledger : i \in DOMAIN new /\ new[i] = ledger[i]
      /\ a.ok => a.id \in DOMAIN new /\ new[a.id].request = q
      /\ \A i \in DOMAIN new : i \in DOMAIN ledger \/ (a.ok /\ a.id = i)
  BY OutcomeLands
<1>8. ASSUME NEW m \in 1..(n + 1), Ops[name][m] = "refund", more[m].ok
      PROVE  /\ more[m].id \in DOMAIN new
             /\ new[more[m].id].request.owner = r
             /\ new[more[m].id].request.label = Asks[name][m]
  <2>1. CASE m \in 1..n
    BY <1>2, <1>3, <1>7, <1>8, <2>1
  <2>2. CASE m = n + 1
    BY <1>2, <1>6, <1>7, <1>8, <2>2
  <2> QED BY <1>2, <2>1, <2>2
<1>9. ASSUME NEW i \in DOMAIN new, new[i].request.owner = r
      PROVE  \/ \E m \in 1..(n + 1) : Ops[name][m] = "refund" /\ more[m].ok /\ more[m].id = i
             \/ \E m \in 1..(n + 1) : /\ Ops[name][m] = "refund"
                                      /\ Asks[name][m] = new[i].request.label
                                      /\ ~ more[m].ok /\ more[m].why = {"error"}
  <2>1. CASE i \in DOMAIN ledger
    <3>1. new[i] = ledger[i] /\ ledger[i].request.owner = r
      BY <1>7, <1>9, <2>1
    <3>2. CASE \E m \in 1..n : Ops[name][m] = "refund" /\ old[m].ok /\ old[m].id = i
      BY <1>2, <3>2
    <3>3. CASE Errored(run, ledger[i].request.label)
      <4>1. PICK m \in 1..n : /\ Ops[name][m] = "refund"
                              /\ Asks[name][m] = ledger[i].request.label
                              /\ ~ old[m].ok /\ old[m].why = {"error"}
        BY <1>1, <3>3 DEF Errored, name, old, n
      <4>2. m \in 1..(n + 1) /\ more[m] = old[m]
        BY <1>2
      <4> QED BY <3>1, <4>1, <4>2
    <3> QED BY <1>3, <2>1, <3>1, <3>2, <3>3
  <2>2. CASE a.ok /\ a.id = i
    BY <1>1, <1>2, <1>6, <2>2
  <2> QED BY <1>7, <2>1, <2>2
<1> QED BY <1>8, <1>9

\* What is in the ledgers was asked for by somebody.
LEMMA EntriesKnown ==
    ASSUME AccountInv, NEW p \in DOMAIN ledgers, NEW i \in DOMAIN ledgers[p]
    PROVE  Known(ledgers[p][i].request)
BY DEF AccountInv, EntriesFit, MadeBy

\* A process has no refund of a kind it has not asked for yet.
LEMMA NotAskedYet ==
    ASSUME NEW r, NEW run \in Process, NEW ledger, Accounted(r, run, ledger), NEW label,
           \A n \in DOMAIN run.answers :
               Ops[run.command.name][n] = "refund" => Asks[run.command.name][n] # label
    PROVE  Lacks(r, label, ledger) /\ ~ Errored(run, label)
<1>1. ~ Errored(run, label)
  BY DEF Errored
<1> QED BY <1>1 DEF Accounted, Lacks

\* A refund asked for by the matrix.
LEMMA RoomyRefund ==
    ASSUME AccountInv, NEW r \in DOMAIN runs, runs[r].at = "exchange", Step(r).op = "refund",
           runs[r].command.name = "matrix",
           NEW o \in RefundOutcomes(Target(runs[r]), Step(r).request),
           NEW next \in Process, Advances(runs[r], next, o.answer, runs[r].rest, TRUE)
    PROVE  Roomy(r, next, o.ledger, plan.price) /\ Bounded(r, next, o.ledger)
<1> DEFINE run == runs[r]
           old == run.answers
           n == Len(old)
           q == Step(r).request
           p == Target(run)
           ledger == ledgers[p]
           price == plan.price
           a == o.answer
<1>1. /\ run \in Process /\ r \in Runs /\ Typed
      /\ old \in Seq(Answer) /\ n \in Nat /\ run.rest \in Nat /\ DOMAIN old = 1..n
      /\ \A m \in 1..n : old[m].total \in Nat
  <2>1. run \in Process /\ r \in Runs /\ Typed
    BY AtExchange DEF AccountInv
  <2> HIDE DEF run
  <2> QED BY <2>1, Answers
<1>2. "matrix" \in Refunders
  BY DEF Refunders
<1>3. /\ p \in DOMAIN ledgers /\ ledger \in Seq(Entry) /\ LedgerFits(ledger, price)
      /\ price \in Nat
      /\ Accounted(r, run, ledger) /\ Read(run, ledger, price) /\ Roomy(r, run, ledger, price)
      /\ p \in DOMAIN payments
      /\ run.file.captured => payments[p].captured
      /\ Bounded(r, run, ledger)
      /\ \A i \in DOMAIN ledger : Known(ledger[i].request)
  <2>1. run.command.name \in Refunders /\ run.command.name # "live"
    BY <1>2
  <2> QED BY <2>1, AtPayment, EntriesKnown
<1>4. /\ q \in RequestType /\ q.owner = r /\ Known(q) /\ ClosesAll(q, Total(ledger), price)
      /\ q.label = Asks["matrix"][n + 1] /\ Ops["matrix"][n + 1] = "refund"
      /\ n + 1 \in 1..Len(Ops["matrix"])
      /\ q.label = "fraction" => Lacks(q.owner, "fraction", ledger)
  <2>1. p = PaymentOf(r)
    BY RefundRequest
  <2>2. q.label = "fraction" => Lacks(r, "fraction", ledger)
    BY <2>1, FirstFraction
  <2>3. Ops["matrix"][n + 1] = "refund" /\ n + 1 \in 1..Len(Ops["matrix"])
    BY AtExchange
  <2> QED BY <2>2, <2>3, RefundRequest DEF Proper
<1>5. n > 0
  BY RestCovers
<1>6. q = MatrixScript(r, run.rest, price)[n + 1].request
  BY DEF Step, ScriptOf, Script
<1>7. /\ Outcome(ledger, o, q)
      /\ run.file.captured => o \in Outcomes(ledger, price, q)
      /\ o.ledger = ledger \/ o \in Outcomes(ledger, price, q)
  BY <1>1, <1>3, <1>4, RefundLands
<1>8. a \in Answer
  BY <1>7 DEF Outcome
<1>9. next.command = run.command /\ next.file = run.file /\ next.answers = Append(old, a)
      /\ next.rest = run.rest
  BY DEF Advances
<1>10. /\ Grown(ledger, o.ledger)
       /\ a.ok => o.ledger[a.id].request = q
  BY <1>3, <1>7, OutcomeLands
<1>15. /\ n <= 5 => Lacks(r, "receipt", ledger)
       /\ n + 1 <= 7 => q.label \in {"below", "fraction", "over", "mismatch", "receipt"}
  <2>1. "matrix" \in Commands /\ run.command.name = "matrix" /\ Len(Ops["matrix"]) = 14
    BY MatrixOps DEF Commands
  <2>2. ASSUME n <= 5, NEW m \in DOMAIN old, Ops["matrix"][m] = "refund"
        PROVE  Asks["matrix"][m] # "receipt"
    <3>1. m \in 1..Len(Ops["matrix"]) /\ m \notin {7, 8}
      <4> HIDE DEF old, n
      <4> QED BY <1>1, <2>1, <2>2
    <3> QED BY <2>1, <2>2, <3>1, LabelPlaces
  <2>3. n <= 5 => Lacks(r, "receipt", ledger)
    <3> HIDE DEF ledger, n
    <3> QED BY ZenonT(30), <1>1, <1>3, <2>1, <2>2, NotAskedYet
  <2>4. n + 1 <= 7 => q.label \in {"below", "fraction", "over", "mismatch", "receipt"}
    <3> HIDE DEF q, n
    <3> QED BY <1>4, <2>1, LabelPlaces
  <2> QED BY <2>3, <2>4
<1> HIDE DEF q, p, ledger, price, a, run
<1>16. Bounded(r, next, o.ledger)
  <2>1. ASSUME Len(next.answers) \in 1..7
        PROVE  Len(old) \in 1..7 /\ next.answers[1] = old[1] /\ n + 1 <= 7
    <3>1. Len(next.answers) = n + 1 /\ next.answers[1] = old[1]
      BY <1>1, <1>5, <1>8, <1>9, AppendAnswer
    <3> HIDE DEF n
    <3>2. n \in 1..7 /\ n + 1 <= 7
      BY <1>1, <1>5, <2>1, <3>1
    <3> QED BY <3>1, <3>2 DEF n
  <2> QED BY <1>1, <1>3, <1>4, <1>7, <1>9, <1>15, <2>1, BoundedMore
<1>11. /\ n + 1 = 5 /\ a.ok => o.ledger[a.id].request
              = Request(r, "mismatch", "exact", 100, Fresh(r, "mismatch"), None)
       /\ n + 1 = 7 /\ a.ok => o.ledger[a.id].request
              = Request(r, "receipt", "exact", 100, None, Fresh(r, "receipt"))
  BY SMTT(20), <1>6, <1>10, MatrixRequests
<1>12. /\ old[1].total \in Nat /\ old[1].total <= Total(ledger)
       /\ n >= 5 /\ old[5].ok => old[5].id \in DOMAIN ledger
       /\ n >= 7 /\ old[7].ok => old[7].id \in DOMAIN ledger
  <2>1. run.command.name = "matrix"
    BY DEF run
  <2>2. 1 \in DOMAIN old /\ (n >= 5 => 5 \in DOMAIN old) /\ (n >= 7 => 7 \in DOMAIN old)
    BY <1>1, <1>5
  <2>3. /\ Ops[run.command.name][1] = "list"
        /\ Ops[run.command.name][5] = "refund" /\ Ops[run.command.name][7] = "refund"
    BY <2>1, MatrixOps
  <2>4. old[1].total <= Total(ledger)
    BY <1>3, <2>2, <2>3 DEF Read
  <2>5. \A m \in {5, 7} : m \in DOMAIN old /\ old[m].ok => old[m].id \in DOMAIN ledger
    BY <1>3, <2>3 DEF Accounted
  <2>6. old[1].total \in Nat
    BY <1>1, <2>2
  <2> HIDE DEF old, n
  <2> QED BY <2>2, <2>4, <2>5, <2>6
<1>13. ASSUME run.file.captured, Alone(r, run, ledger),
              n <= 7 => Total(ledger) <= old[1].total + Weight(r, ledger),
              n <= 9 => run.rest >= 500 /\ run.rest + old[1].total = price,
              Held(r, old, ledger)
       PROVE  /\ n + 1 = 4 /\ ~ a.ok => Sole(a.why, "balance")
              /\ n + 1 = 6 /\ old[5].ok /\ ~ a.ok => Sole(a.why, "conflict")
              /\ n + 1 = 8 /\ old[7].ok /\ ~ a.ok => Sole(a.why, "duplicate")
  <2> DEFINE rest == run.rest
  <2>1. Knows(r, old, rest, ledger, price)
    BY <1>12, <1>13, <1>15 DEF Knows
  <2>2. o \in Outcomes(ledger, price, q)
    BY <1>7, <1>13
  <2>3. old \in Seq(Answer) /\ n > 0 /\ rest \in Nat /\ q = MatrixScript(r, rest, price)[n + 1].request
        /\ ledger \in Seq(Entry) /\ price \in Nat /\ LedgerFits(ledger, price) /\ q \in RequestType
        /\ r \in Runs /\ o.answer \in Answer /\ a = o.answer /\ next.answers = Append(old, a)
    BY <1>1, <1>3, <1>4, <1>5, <1>6, <1>8, <1>9 DEF a
  <2> HIDE DEF old, rest
  <2> QED BY <2>1, <2>2, <2>3, MatrixTold DEF n
<1>14. run.command.name = "matrix" /\ run.at = "exchange"
  BY DEF run
<1> DEFINE new == o.ledger
<1> HIDE DEF new
<1> SUFFICES Roomy(r, next, new, price)
  BY <1>16 DEF new, price
<1> QED BY <1>1, <1>3, <1>5, <1>8, <1>9, <1>10, <1>11, <1>13, <1>14, RoomyMore DEF new

LEMMA ReadGrown ==
    ASSUME NEW run \in Process, NEW ledger \in Seq(Entry), NEW new, NEW price \in Nat,
           Grown(ledger, new), Read(run, ledger, price)
    PROVE  Read(run, new, price)
<1>1. CASE new = ledger
  BY <1>1
<1>2. CASE new # ledger
  <2>1. PICK e \in Entry : new = Append(ledger, e)
    BY <1>2 DEF Grown
  <2>2. /\ Len(ledger) \in Nat /\ Len(new) = Len(ledger) + 1
        /\ Total(ledger) \in Nat /\ Total(new) \in Nat /\ Total(ledger) <= Total(new)
    BY <2>1, AppendEntry, TotalGrows
  <2>3. run.rest \in Nat /\ \A n \in DOMAIN run.answers :
            run.answers[n].total \in Nat /\ run.answers[n].count \in Nat
    BY Answers
  <2> QED BY <2>2, <2>3 DEF Read
<1> QED BY <1>1, <1>2

LEMMA PostRefundStep ==
    ASSUME AccountInv, NEW r \in DOMAIN runs, PostRefund(r)
    PROVE  AccountInv'
<1> DEFINE run == runs[r]
           name == run.command.name
           n == Len(run.answers)
           q == Step(r).request
           p == Target(run)
           ledger == ledgers[p]
           price == plan.price
<1>0. /\ run.at = "exchange" /\ Step(r).op = "refund" /\ Typed
      /\ UNCHANGED <<plan, session, links, payments, orders, labs, late, faults>>
  BY DEF PostRefund, AtStep, AccountInv
<1>1. /\ name \in Refunders /\ q \in RequestType /\ q.owner = r
      /\ p = PaymentOf(r) /\ p \in DOMAIN ledgers
      /\ ClosesAll(q, Total(ledger), price) /\ Known(q)
      /\ q.label = Asks[name][n + 1]
      /\ \A next : /\ next.at # "new" /\ next.command = run.command /\ next.file = run.file
                   => MadeBy(q, p, next, payments)
  BY <1>0, RefundRequest DEF Proper
<1>2. PICK o \in RefundOutcomes(p, q) :
          /\ ledgers' = [ledgers EXCEPT ![p] = o.ledger]
          /\ Proceed(r, o.answer, run.rest, Tolerates(r, o.answer))
  BY <1>1 DEF PostRefund
<1>3. /\ run \in Process /\ run.rest \in Nat /\ name \in Commands /\ r \in Runs
      /\ Ops[name][n + 1] = "refund"
  <2>1. run \in Process /\ name \in Commands /\ Step(r).op = Ops[name][n + 1] /\ r \in Runs
    BY <1>0, AtExchange
  <2> QED BY <1>0, <2>1, Answers
<1>4. /\ ledger \in Seq(Entry) /\ LedgerFits(ledger, price) /\ price \in Nat /\ Total(ledger) \in Nat
      /\ Accounted(r, run, ledger) /\ Read(run, ledger, price)
  BY <1>0, <1>1, AtPayment
<1>19. q.label = "fraction" =>
           /\ Lacks(r, "fraction", ledger)
           /\ \A y \in late : ~ (y.op = "refund" /\ y.request.owner = r /\ y.request.label = "fraction")
  BY <1>0, <1>1, FirstFraction
<1> DEFINE a == o.answer
           new == o.ledger
           ok == Tolerates(r, a)
<1>5. Outcome(ledger, o, q) /\ LedgerFits(new, price) /\ new \in Seq(Entry)
  BY <1>0, <1>1, <1>4, <1>19, RefundLands
<1>6. a \in Answer
  BY <1>5 DEF Outcome
<1>7. ok \in BOOLEAN
  BY <1>6 DEF Tolerates, Answer
<1>8. PICK next \in Process :
          /\ runs' = [runs EXCEPT ![r] = next]
          /\ Follows(run, next)
          /\ Advances(run, next, a, run.rest, ok)
          /\ Placed(next, links, payments)
  <2> HIDE DEF a, ok
  <2>1. Proceed(r, a, run.rest, ok)
    BY <1>2 DEF a, ok
  <2> QED BY <1>0, <1>3, <1>6, <1>7, <2>1, Advance
<1>9. next.command = run.command /\ next.file = run.file /\ next.answers = Append(run.answers, a)
      /\ next.rest = run.rest /\ next.at # "new" /\ Target(next) = p
  BY <1>8 DEF Advances, Target
<1>10. Grown(ledger, new)
  BY <1>4, <1>5, OutcomeLands
<1>11. ledgers' \in [DOMAIN ledgers -> Seq(Entry)] /\ DOMAIN ledgers' = DOMAIN ledgers
       /\ ledgers'[p] = new /\ \A x \in DOMAIN ledgers : x # p => ledgers'[x] = ledgers[x]
  <2> HIDE DEF new, p
  <2>1. ledgers' = [ledgers EXCEPT ![p] = new] /\ ledgers \in [DOMAIN ledgers -> Seq(Entry)]
    BY <1>0, <1>2 DEF Typed, new
  <2> QED BY <1>1, <1>5, <2>1
<1>12. Accounted(r, next, new)
  <2> HIDE DEF run, p, q, ledger
  <2> QED BY <1>1, <1>3, <1>4, <1>5, <1>6, <1>9, AccountedMore DEF name, n
<1>13. Read(next, new, price)
  <2>1. name \in {"close", "matrix"} => next.rest + Total(ledger) >= price
    BY <1>0, <1>9, RestCovers
  <2>2. Read(next, ledger, price)
    <3>1. Ops[name][n + 1] \notin {"list", "relist", "payment"}
      BY <1>3
    <3> HIDE DEF run, p, a, ledger, price
    <3> QED BY <1>3, <1>4, <1>6, <1>9, <2>1, <3>1, ReadMore DEF name, n
  <2> HIDE DEF ledger, new, price
  <2> QED BY <1>4, <1>10, <2>2, ReadGrown
<1>14. ok => Roomy(r, next, new, price) /\ Bounded(r, next, new)
  <2>1. CASE name # "matrix"
    BY <1>9, <2>1 DEF Roomy, Bounded
  <2>2. CASE name = "matrix" /\ ok
    <3>1. Advances(run, next, a, run.rest, TRUE)
      BY <1>7, <1>8, <2>2 DEF Advances
    <3> QED BY <1>0, <2>2, <3>1, RoomyRefund
  <2> QED BY <2>1, <2>2
<1>15. Fits(r, next)'
  <2>1. CASE ok
    <3>1. Found(next, links, payments) /\ Ordered(r, next, orders) /\ Served(r, next, labs[r])
      BY <1>1, <1>3, <1>9, Apart, Concerns
    <3>2. RefundsFit(r, next, ledgers', price)
      BY <1>1, <1>9, <1>11, <1>12, <1>13, <1>14, <2>1 DEF RefundsFit
    <3> QED BY <1>0, <1>8, <3>1, <3>2 DEF Fits
  <2>2. CASE ~ ok
    <3>1. ~ Active(next)
      BY <1>8, <2>2 DEF Active, Advances
    <3> QED BY <1>0, <1>8, <3>1 DEF Fits, Found, Ordered, Served, RefundsFit
  <2> QED BY <2>1, <2>2
<1>16. ASSUME NEW x \in DOMAIN ledgers
       PROVE  \/ ledgers'[x] = ledgers[x]
              \/ /\ LedgerFits(ledgers'[x], plan.price)
                 /\ \E e \in Entry : /\ ledgers'[x] = Append(ledgers[x], e)
                                     /\ e.request.owner = r
                                     /\ MadeBy(e.request, x, next, payments)
  <2>1. CASE x # p
    BY <1>11, <2>1
  <2>2. CASE x = p /\ new # ledger
    <3>1. PICK e \in Entry : e.request = q /\ new = Append(ledger, e)
      BY <1>5, <2>2 DEF Outcome
    <3>2. MadeBy(q, p, next, payments)
      BY <1>1, <1>9
    <3>3. ledgers'[x] = new /\ ledgers[x] = ledger
      BY <1>11, <2>2
    <3> HIDE DEF new, ledger, p, q
    <3> QED BY <1>1, <1>5, <2>2, <3>1, <3>2, <3>3
  <2>3. CASE x = p /\ new = ledger
    BY <1>11, <2>3
  <2> QED BY <2>1, <2>2, <2>3
<1>17. /\ labs' \in [DOMAIN runs -> Lab] /\ (\A x \in DOMAIN runs : x # r => labs'[x] = labs[x])
       /\ links' \in Nat /\ links <= links' /\ orders' \in Seq(Entry) /\ Grown(orders, orders')
  BY <1>0 DEF Typed, Grown
<1>18. UNCHANGED <<plan, session, payments, late, faults>>
  BY <1>0
<1>20. ASSUME NEW x \in late PROVE Single(x)'
  <2>1. Single(x) /\ (x.op = "refund" => x.payment \in DOMAIN ledgers)
    BY DEF AccountInv, LateFits, Single
  <2>2. SUFFICES ASSUME x.op = "refund", x.request.label = "fraction"
                 PROVE  Lacks(x.request.owner, "fraction", ledgers'[x.payment])
    BY <1>18, <2>1 DEF Single
  <2>3. Lacks(x.request.owner, "fraction", ledgers[x.payment])
    BY <2>1, <2>2 DEF Single
  <2>4. CASE x.payment = p /\ new # ledger
    <3>1. PICK e \in Entry : e.request = q /\ new = Append(ledger, e)
      BY <1>5, <2>4 DEF Outcome
    <3>2. ~ (q.owner = x.request.owner /\ q.label = "fraction")
      BY <1>1, <1>19, <2>2
    <3>3. ledgers'[x.payment] = new /\ ledgers[x.payment] = ledger
      BY <1>11, <2>4
    <3> HIDE DEF new, ledger, q
    <3> QED BY <1>4, <2>3, <3>1, <3>2, <3>3, LacksMore
  <2>5. CASE ~ (x.payment = p /\ new # ledger)
    <3>1. ledgers'[x.payment] = ledgers[x.payment]
      BY <1>11, <2>1, <2>2, <2>5
    <3> QED BY <2>3, <3>1
  <2> QED BY <2>4, <2>5
<1> HIDE DEF a, ok
<1> QED BY <1>8, <1>11, <1>15, <1>16, <1>17, <1>18, <1>20, AccountStep

(***************************************************************************)
(* Razorpay and its customers.                                             *)
(***************************************************************************)
\* A process learns that an error status hid a refund, later.
LEMMA HiddenRefund ==
    ASSUME NEW r, NEW run \in Process, NEW ledger \in Seq(Entry), NEW price \in Nat,
           NEW e \in Entry, Errored(run, e.request.label),
           Accounted(r, run, ledger), Read(run, ledger, price), Roomy(r, run, ledger, price)
    PROVE  /\ Accounted(r, run, Append(ledger, e))
           /\ Read(run, Append(ledger, e), price)
           /\ Roomy(r, run, Append(ledger, e), price)
<1> DEFINE new == Append(ledger, e)
<1>1. /\ DOMAIN new = DOMAIN ledger \cup {Len(ledger) + 1}
      /\ new[Len(ledger) + 1] = e
      /\ \A i \in DOMAIN ledger : new[i] = ledger[i]
  BY AppendEntry
<1>2. Grown(ledger, new)
  BY DEF Grown
<1>3. Read(run, new, price)
  <2> HIDE DEF new
  <2> QED BY <1>2, ReadGrown
<1>4. run.command.name = "matrix" /\ Held(r, run.answers, ledger) => Held(r, run.answers, new)
  BY HeldKept
<1> HIDE DEF new
<1>5. Accounted(r, run, new)
  BY <1>1 DEF Accounted
<1>6. Alone(r, run, new) => Alone(r, run, ledger)
  BY <1>1 DEF Alone
<1>7. Roomy(r, run, new, price)
  BY <1>4, <1>6 DEF Roomy
<1> QED BY <1>3, <1>5, <1>7 DEF new

\* The account changes while the processes stay where they are; what is
\* refunded was asked for by a process that stopped, or that was answered with
\* an error status.
LEMMA OutsideStep ==
    ASSUME AccountInv, UNCHANGED <<plan, session, links, labs, runs, faults>>,
           Kept(payments, payments'), payments' \in Seq([link : 0..links, captured : BOOLEAN]),
           Len(payments') <= plan.customers,
           orders' \in Seq(Entry), Grown(orders, orders'),
           late' \subseteq late, \A x \in late' : Single(x)',
           ledgers' \in [DOMAIN ledgers -> Seq(Entry)],
           \A p \in DOMAIN ledgers :
               \/ ledgers'[p] = ledgers[p]
               \/ /\ LedgerFits(ledgers'[p], plan.price)
                  /\ \E e \in Entry :
                       LET owner == e.request.owner IN
                       /\ ledgers'[p] = Append(ledgers[p], e)
                       /\ owner \in DOMAIN runs
                       /\ MadeBy(e.request, p, runs[owner], payments)
                       /\ Active(runs[owner]) => /\ Errored(runs[owner], e.request.label)
                                                 /\ Bounded(owner, runs[owner], ledgers'[p])
    PROVE  AccountInv'
<1>1. Typed /\ EntriesFit
  BY DEF AccountInv
<1>2. /\ plan.price \in Nat /\ links \in Nat /\ DOMAIN ledgers' = DOMAIN ledgers
      /\ orders \in Seq(Entry)
      /\ \A p \in DOMAIN ledgers : ledgers[p] \in Seq(Entry) /\ Total(ledgers[p]) \in Nat
  BY <1>1, AccountTypes DEF Typed
<1>3. Moved
  BY NobodyMoves
<1>4. Typed'
  <2>1. session' # None => SessionFits(session', links', payments')
    BY <1>1, <1>2, SessionKept DEF Typed
  <2> QED BY <1>1, <1>2, <2>1 DEF Typed
<1>5. (\A p \in DOMAIN ledgers : LedgerFits(ledgers[p], plan.price))'
  BY <1>2 DEF AccountInv
<1>6. EntriesFit'
  <2>1. ASSUME NEW p \in DOMAIN ledgers, ledgers'[p] # ledgers[p]
        PROVE  \E e \in Entry : /\ ledgers'[p] = Append(ledgers[p], e)
                                /\ e.request.owner \in DOMAIN runs'
                                /\ MadeBy(e.request, p, runs'[e.request.owner], payments')
    <3>1. PICK e \in Entry : /\ ledgers'[p] = Append(ledgers[p], e)
                             /\ e.request.owner \in DOMAIN runs
                             /\ MadeBy(e.request, p, runs[e.request.owner], payments)
      BY <2>1
    <3>2. runs[e.request.owner].at # "new"
      BY <3>1 DEF MadeBy
    <3>3. MadeBy(e.request, p, runs[e.request.owner], payments')
      BY <3>1, <3>2, MadeByKept
    <3> QED BY <3>1, <3>3
  <2> QED BY <1>1, <1>2, <1>3, <2>1, EntriesStay
<1>7. (\A x \in late : LateFits(x))'
  <2>1. ASSUME NEW p \in DOMAIN ledgers
        PROVE  Total(ledgers'[p]) \in Nat /\ Total(ledgers[p]) <= Total(ledgers'[p])
    <3>1. CASE ledgers'[p] = ledgers[p]
      BY <1>2, <3>1
    <3>2. CASE ledgers'[p] # ledgers[p]
      <4>1. \E e \in Entry : ledgers'[p] = Append(ledgers[p], e)
        BY <3>2
      <4> QED BY <1>2, <4>1, TotalGrows
    <3> QED BY <3>1, <3>2
  <2>2. ASSUME NEW x \in late' PROVE LateFits(x)'
    <3>1. LateFits(x) /\ plan' = plan /\ Single(x)'
      BY <2>2 DEF AccountInv
    <3> QED BY <1>1, <1>2, <1>3, <2>1, <3>1, LateStays
  <2> QED BY <2>2
<1>8. ASSUME NEW x \in DOMAIN runs PROVE Fits(x, runs[x])'
  <2> DEFINE run == runs[x]
  <2>0. run \in Process /\ Fits(x, run) /\ runs'[x] = run /\ plan' = plan
    BY <1>1 DEF AccountInv, Typed
  <2>1. Placed(run, links', payments') /\ Found(run, links', payments')
        /\ Ordered(x, run, orders') /\ Served(x, run, labs'[x])
    <3>1. /\ Placed(run, links, payments) /\ Found(run, links, payments)
          /\ Ordered(x, run, orders) /\ Served(x, run, labs[x])
      BY <2>0 DEF Fits
    <3>2. links' = links /\ labs' = labs
      OBVIOUS
    <3> HIDE DEF run
    <3> QED BY <1>2, <3>1, <3>2, PlacedKept, FoundKept, OrderedKept
  <2>2. CASE ~ Active(run)
    BY <2>0, <2>1, <2>2 DEF Fits, RefundsFit
  <2>3. CASE BooksSpared(x, ledgers, ledgers')
    <3>1. labs'[x] = labs[x] /\ runs'[x] = runs[x] /\ links' \in Nat /\ links <= links'
      BY <1>2
    <3> QED BY <2>3, <3>1, OthersFit
  <2>4. CASE Active(run) /\ ~ BooksSpared(x, ledgers, ledgers')
    <3>1. PICK p \in DOMAIN ledgers : ~ SparedBy(x, ledgers[p], ledgers'[p])
      BY <1>2, <2>4 DEF BooksSpared
    <3>2. PICK e \in Entry :
              /\ ledgers'[p] = Append(ledgers[p], e)
              /\ MadeBy(e.request, p, run, payments)
              /\ Errored(run, e.request.label)
              /\ Bounded(x, run, ledgers'[p])
      <4>1. ledgers'[p] # ledgers[p]
        BY <3>1 DEF SparedBy
      <4>2. PICK e \in Entry :
              LET owner == e.request.owner IN
              /\ ledgers'[p] = Append(ledgers[p], e)
              /\ owner \in DOMAIN runs
              /\ MadeBy(e.request, p, runs[owner], payments)
              /\ Active(runs[owner]) => /\ Errored(runs[owner], e.request.label)
                                        /\ Bounded(owner, runs[owner], ledgers'[p])
        BY <4>1
      <4>3. e.request.owner = x
        BY <3>1, <4>2 DEF SparedBy
      <4> QED BY <2>4, <4>2, <4>3
    <3>3. run.command.name \in Refunders /\ Target(run) = p
      BY <3>2 DEF MadeBy
    <3>4. /\ Accounted(x, run, ledgers[p]) /\ Read(run, ledgers[p], plan.price)
          /\ Roomy(x, run, ledgers[p], plan.price)
      BY <2>0, <2>4, <3>3 DEF Fits, RefundsFit
    <3>5. /\ Accounted(x, run, ledgers'[p]) /\ Read(run, ledgers'[p], plan.price)
          /\ Roomy(x, run, ledgers'[p], plan.price)
      <4> HIDE DEF run
      <4> QED BY <1>2, <2>0, <3>2, <3>4, HiddenRefund
    <3>6. RefundsFit(x, run, ledgers', plan.price)
      BY <1>2, <3>2, <3>3, <3>5 DEF RefundsFit
    <3> QED BY <2>0, <2>1, <3>6 DEF Fits
  <2> QED BY <2>2, <2>3, <2>4
<1>9. DOMAIN runs' = DOMAIN runs
  OBVIOUS
<1> QED BY <1>4, <1>5, <1>6, <1>7, <1>8, <1>9 DEF AccountInv

LEMMA ExecuteLateStep ==
    ASSUME AccountInv, ExecuteLate
    PROVE  AccountInv'
<1>1. PICK x \in late :
          /\ late' = late \ {x}
          /\ \/ /\ x.op = "refund"
                /\ \E o \in RefundOutcomes(x.payment, x.request) :
                     ledgers' = [ledgers EXCEPT ![x.payment] = o.ledger]
                /\ UNCHANGED orders
             \/ /\ x.op = "order"
                /\ \E o \in OrderOutcomes(orders, x.request) : orders' = o.ledger
                /\ UNCHANGED ledgers
  BY DEF ExecuteLate
<1>2. /\ UNCHANGED <<plan, session, links, payments, labs, runs, faults>>
      /\ Typed /\ LateFits(x) /\ late' \subseteq late
  BY <1>1 DEF ExecuteLate, AccountInv
<1>3. /\ Kept(payments, payments') /\ payments' \in Seq([link : 0..links, captured : BOOLEAN])
      /\ Len(payments') <= plan.customers /\ orders \in Seq(Entry)
      /\ ledgers \in [DOMAIN ledgers -> Seq(Entry)]
  BY <1>2, AccountTypes DEF Typed
<1>4. UNCHANGED <<plan, session, links, labs, runs, faults>>
  BY <1>2
<1> DEFINE p == x.payment
           q == x.request
           owner == q.owner
           run == runs[owner]
           ledger == ledgers[p]
           price == plan.price
<1>5. q \in RequestType
  BY <1>2 DEF LateFits, Underway
<1>8. \A y \in late' : y \in late /\ y # x /\ Single(y) /\ LateFits(y)
  BY <1>1 DEF AccountInv, LateFits, Single
<1>6. CASE /\ x.op = "refund" /\ UNCHANGED orders
           /\ \E o \in RefundOutcomes(p, q) : ledgers' = [ledgers EXCEPT ![p] = o.ledger]
  <2>1. PICK o \in RefundOutcomes(p, q) : ledgers' = [ledgers EXCEPT ![p] = o.ledger]
    BY <1>6
  <2>2. /\ p \in DOMAIN ledgers /\ owner \in DOMAIN runs
        /\ ~ Active(run) \/ Errored(run, q.label)
        /\ MadeBy(q, p, run, payments) /\ ClosesAll(q, Total(ledger), price)
        /\ Single(x)
    BY <1>2, <1>6 DEF LateFits
  <2>3. LedgerFits(ledger, price) /\ ledger \in Seq(Entry) /\ price \in Nat /\ Known(q)
        /\ run \in Process /\ owner \in Runs
        /\ \A i \in DOMAIN ledger : Known(ledger[i].request)
    BY <1>2, <2>2, AccountTypes, EntriesKnown DEF AccountInv, MadeBy, Typed
  <2>8. q.label = "fraction" => Lacks(owner, "fraction", ledger)
    BY <1>6, <2>2 DEF Single
  <2> DEFINE new == o.ledger
  <2>4. Outcome(ledger, o, q) /\ LedgerFits(new, price) /\ new \in Seq(Entry)
        /\ (new = ledger \/ o \in Outcomes(ledger, price, q))
    <3> HIDE DEF q, p
    <3> QED BY <1>2, <1>5, <2>1, <2>2, <2>3, <2>8, RefundLands
  <2>5. /\ ledgers' \in [DOMAIN ledgers -> Seq(Entry)] /\ ledgers'[p] = new
        /\ \A y \in DOMAIN ledgers : y # p => ledgers'[y] = ledgers[y]
    <3> HIDE DEF new, p
    <3>1. ledgers' = [ledgers EXCEPT ![p] = new]
      BY <2>1 DEF new
    <3> QED BY <1>3, <2>2, <2>4, <3>1
  <2>9. Active(run) => Errored(run, q.label) /\ Bounded(owner, run, new)
    <3>1. SUFFICES ASSUME Active(run) PROVE Bounded(owner, run, new)
      BY <2>2
    <3>2. Bounded(owner, run, ledger)
      BY <2>2, <3>1 DEF AccountInv, Fits, RefundsFit, MadeBy
    <3>3. ASSUME run.command.name = "matrix", Len(run.answers) \in 1..7
          PROVE  q.label \in {"below", "fraction", "over", "mismatch", "receipt"}
      <4>1. PICK n \in DOMAIN run.answers : Ops["matrix"][n] = "refund" /\ Asks["matrix"][n] = q.label
        BY <2>2, <3>1, <3>3 DEF Errored
      <4>2. n \in 1..Len(Ops["matrix"]) /\ n <= 7 /\ "matrix" \in Commands
        <5> DEFINE m == Len(run.answers)
        <5>1. n \in 1..m /\ m \in 1..7
          <6> HIDE DEF run
          <6> QED BY <2>3, <3>3, <4>1, Answers
        <5> HIDE DEF m, run
        <5>2. n \in 1..14 /\ n <= 7
          BY <5>1
        <5> QED BY <5>2, MatrixOps DEF Commands
      <4> HIDE DEF q
      <4> QED BY <4>1, <4>2, LabelPlaces
    <3> HIDE DEF run, owner, q, ledger, price
    <3> QED BY <1>5, <2>2, <2>3, <2>4, <2>8, <3>2, <3>3, BoundedMore DEF owner
  <2>10. ASSUME NEW y \in late' PROVE Single(y)'
    <3>1. SUFFICES ASSUME y.op = "refund", y.request.label = "fraction"
                   PROVE  /\ Lacks(y.request.owner, "fraction", ledgers'[y.payment])
                          /\ \A z \in late' :
                               z.op = "refund" /\ z.request.owner = y.request.owner
                               /\ z.request.label = "fraction" => z = y
      BY DEF Single
    <3>2. /\ Lacks(y.request.owner, "fraction", ledgers[y.payment]) /\ y.payment \in DOMAIN ledgers
          /\ \A z \in late : z.op = "refund" /\ z.request.owner = y.request.owner
                             /\ z.request.label = "fraction" => z = y
      BY <1>8, <3>1 DEF Single, LateFits
    <3>3. ~ (owner = y.request.owner /\ q.label = "fraction")
      BY <1>6, <1>8, <3>2
    <3>4. Lacks(y.request.owner, "fraction", ledgers'[y.payment])
      <4>1. CASE y.payment = p /\ new # ledger
        <5>1. PICK e \in Entry : e.request = q /\ new = Append(ledger, e)
          BY <2>4, <4>1 DEF Outcome
        <5>2. ledgers'[y.payment] = new /\ ledgers[y.payment] = ledger
          BY <2>5, <4>1
        <5> HIDE DEF new, ledger, q
        <5> QED BY <2>3, <3>2, <3>3, <5>1, <5>2, LacksMore DEF owner
      <4>2. CASE ~ (y.payment = p /\ new # ledger)
        <5>1. ledgers'[y.payment] = ledgers[y.payment]
          BY <2>5, <3>2, <4>2
        <5> QED BY <3>2, <5>1
      <4> QED BY <4>1, <4>2
    <3> QED BY <1>8, <3>2, <3>4
  <2>6. ASSUME NEW y \in DOMAIN ledgers, ledgers'[y] # ledgers[y]
        PROVE  /\ LedgerFits(ledgers'[y], plan.price)
               /\ \E e \in Entry :
                    /\ ledgers'[y] = Append(ledgers[y], e)
                    /\ e.request.owner \in DOMAIN runs
                    /\ MadeBy(e.request, y, runs[e.request.owner], payments)
                    /\ Active(runs[e.request.owner]) =>
                         /\ Errored(runs[e.request.owner], e.request.label)
                         /\ Bounded(e.request.owner, runs[e.request.owner], ledgers'[y])
    <3>1. y = p /\ new # ledger /\ ledgers'[y] = new /\ ledgers[y] = ledger
      BY <2>5, <2>6
    <3>2. PICK e \in Entry : e.request = q /\ new = Append(ledger, e)
      BY <2>4, <3>1 DEF Outcome
    <3>3. runs[e.request.owner] = run /\ e.request.owner = owner
      BY <3>2
    <3> HIDE DEF new, ledger, p, q, owner, run
    <3> QED BY <2>2, <2>4, <2>9, <3>1, <3>2, <3>3 DEF price
  <2>7. orders' \in Seq(Entry) /\ Grown(orders, orders')
    BY <1>3, <1>6 DEF Grown
  <2> QED BY <1>2, <1>3, <1>4, <2>5, <2>6, <2>7, <2>10, OutsideStep
<1>7. CASE /\ x.op = "order" /\ UNCHANGED ledgers
           /\ \E o \in OrderOutcomes(orders, q) : orders' = o.ledger
  <2>1. PICK o \in OrderOutcomes(orders, q) : orders' = o.ledger
    BY <1>7
  <2>2. Outcome(orders, o, q)
    BY <1>3, <1>5, OrderOutcome
  <2>3. orders' \in Seq(Entry) /\ Grown(orders, orders')
    BY <1>3, <2>1, <2>2, OutcomeLands
  <2>4. ledgers' \in [DOMAIN ledgers -> Seq(Entry)] /\ \A y \in DOMAIN ledgers : ledgers'[y] = ledgers[y]
    BY <1>3, <1>7
  <2>5. \A y \in late' : Single(y)'
    BY <1>7, <1>8 DEF Single
  <2> QED BY <1>2, <1>3, <1>4, <2>3, <2>4, <2>5, OutsideStep
<1> QED BY <1>1, <1>6, <1>7

LEMMA PaymentsKept ==
    ASSUME AccountInv, UNCHANGED <<plan, session, links, ledgers, orders, labs, late, runs, faults>>,
           Kept(payments, payments'), payments' \in Seq([link : 0..links, captured : BOOLEAN]),
           Len(payments') <= plan.customers
    PROVE  AccountInv'
<1>1. /\ UNCHANGED <<plan, session, links, labs, runs, faults>>
      /\ orders' \in Seq(Entry) /\ Grown(orders, orders') /\ late' \subseteq late
      /\ ledgers' \in [DOMAIN ledgers -> Seq(Entry)]
      /\ \A p \in DOMAIN ledgers : ledgers'[p] = ledgers[p]
  BY DEF AccountInv, Typed, Grown
<1>2. \A x \in late' : Single(x)'
  BY LateSame
<1> QED BY <1>1, <1>2, OutsideStep

LEMMA PayStep ==
    ASSUME AccountInv, NEW link \in 0..links, Pay(link)
    PROVE  AccountInv'
<1> DEFINE x == [link |-> link, captured |-> FALSE]
           P == [link : 0..links, captured : BOOLEAN]
           new == Append(payments, x)
<1>1. /\ payments \in Seq(P) /\ Len(payments) < plan.customers /\ payments' = new
      /\ x \in P /\ Len(payments) \in Nat /\ DOMAIN payments = 1..Len(payments)
      /\ plan.customers \in Nat
  BY AccountTypes DEF Pay, AccountInv, Typed
<1>2. new \in Seq(P) /\ Len(new) <= plan.customers /\ Kept(payments, new)
  <2> HIDE DEF P, x
  <2>1. /\ new \in Seq(P) /\ Len(new) = Len(payments) + 1
        /\ DOMAIN new = 1..Len(new) /\ \A p \in 1..Len(payments) : new[p] = payments[p]
    BY <1>1
  <2> HIDE DEF new
  <2> QED BY <1>1, <2>1 DEF Kept
<1>3. UNCHANGED <<plan, session, links, ledgers, orders, labs, late, runs, faults>>
  BY DEF Pay
<1> HIDE DEF new
<1> QED BY <1>1, <1>2, <1>3, PaymentsKept

LEMMA CaptureStep ==
    ASSUME AccountInv, NEW p \in DOMAIN payments, Capture(p)
    PROVE  AccountInv'
<1> DEFINE P == [link : 0..links, captured : BOOLEAN]
           x == [payments[p] EXCEPT !.captured = TRUE]
           new == [payments EXCEPT ![p] = x]
<1>1. /\ payments \in Seq(P) /\ Len(payments) <= plan.customers /\ payments' = new
      /\ Len(payments) \in Nat /\ DOMAIN payments = 1..Len(payments)
      /\ plan.customers \in Nat
  BY AccountTypes DEF Capture, AccountInv, Typed
<1>2. payments[p] \in P
  <2> HIDE DEF P
  <2> QED BY <1>1
<1>3. x \in P /\ x.link = payments[p].link /\ x.captured
  BY <1>2
<1>4. new \in Seq(P) /\ Len(new) = Len(payments) /\ Kept(payments, new)
  <2> HIDE DEF P, x
  <2>1. /\ new \in Seq(P) /\ Len(new) = Len(payments)
        /\ DOMAIN new = 1..Len(new) /\ new[p] = x
        /\ \A y \in 1..Len(payments) : y # p => new[y] = payments[y]
    BY <1>1, <1>3
  <2> HIDE DEF new
  <2> QED BY <1>1, <1>3, <2>1 DEF Kept
<1>5. UNCHANGED <<plan, session, links, ledgers, orders, labs, late, runs, faults>>
  BY DEF Capture
<1> HIDE DEF new
<1> QED BY <1>1, <1>4, <1>5, PaymentsKept

LEMMA InitFits ==
    ASSUME Init
    PROVE  AccountInv
<1>1. PICK S \in SUBSET Runs : plan.commands \in [S -> Command]
  BY PlansAssumption DEF Init
<1>2. /\ plan \in Plans /\ plan.price \in Nat \ {0} /\ plan.customers \in Nat \ {0}
      /\ plan.resolved \in BOOLEAN /\ plan.faults \in Nat
  BY PlansAssumption DEF Init
<1>3. /\ DOMAIN runs = S /\ DOMAIN plan.commands = S
      /\ DOMAIN ledgers = 1..plan.customers
      /\ \A p \in DOMAIN ledgers : ledgers[p] = <<>>
      /\ late = {} /\ orders = <<>> /\ faults = 0
  BY <1>1 DEF Init
<1> DEFINE start(r) == [at |-> "new", command |-> plan.commands[r], file |-> None,
                        answers |-> <<>>, rest |-> 0]
<1>4. ASSUME NEW r \in S
      PROVE  runs[r] = start(r) /\ start(r) \in Process
  <2>1. runs[r] = start(r)
    BY <1>3 DEF Init
  <2>2. plan.commands[r] \in Command /\ <<>> \in Seq(Answer)
    BY <1>1
  <2> QED BY <2>1, <2>2 DEF Process, Points
<1>5. Typed
  <2>1. links \in Nat /\ links = IF plan.resolved THEN 1 ELSE 0
    BY <1>2 DEF Init
  <2> DEFINE P == [link : 0..links, captured : BOOLEAN]
             x == [link |-> 1, captured |-> TRUE]
  <2>2. plan.resolved => x \in P
    BY <2>1
  <2>3. payments \in Seq(P) /\ Len(payments) <= plan.customers
    <3>1. payments = IF plan.resolved THEN << x >> ELSE <<>>
      BY DEF Init
    <3> HIDE DEF P, x
    <3> QED BY <1>2, <2>2, <3>1
  <2>4. session # None => SessionFits(session, links, payments)
    <3>1. CASE ~ plan.resolved
      BY <3>1 DEF Init
    <3>2. CASE plan.resolved
      <4>1. session = [Fixture(1, 0) EXCEPT !.payment = 1, !.captured = TRUE] /\ links = 1
            /\ payments = << x >>
        BY <3>2 DEF Init
      <4>2. session = [link |-> 1, since |-> 0, payment |-> 1, captured |-> TRUE, probes |-> {}]
        BY <4>1 DEF Fixture
      <4>3. session \in Session
        BY <4>2 DEF Session
      <4>4. Len(payments) = 1 /\ payments[1] = x
        BY <4>1
      <4> HIDE DEF x
      <4>5. /\ session.link = 1 /\ session.since = 0 /\ session.payment = 1 /\ session.captured
        BY <4>2
      <4>6. x.link = 1 /\ x.captured
        BY DEF x
      <4> QED BY <4>1, <4>3, <4>4, <4>5, <4>6 DEF SessionFits
    <3> QED BY <1>2, <3>1, <3>2
  <2>5. ledgers \in [1..plan.customers -> Seq(Entry)] /\ orders \in Seq(Entry)
    <3>1. <<>> \in Seq(Entry)
      OBVIOUS
    <3> QED BY <1>3, <3>1 DEF Init
  <2>6. labs \in [DOMAIN runs -> Lab]
    <3>1. NewLab \in Lab
      <4>1. <<>> \in Seq(Identity)
        OBVIOUS
      <4> QED BY <4>1 DEF NewLab, Lab
    <3> QED BY <1>3, <3>1 DEF Init
  <2>7. faults \in 0..plan.faults
    BY <1>2, <1>3
  <2>8. \A r \in DOMAIN runs : runs[r] \in Process
    BY <1>3, <1>4
  <2> QED BY <1>2, <1>3, <2>1, <2>3, <2>4, <2>5, <2>6, <2>7, <2>8 DEF Typed
<1>6. ASSUME NEW p \in DOMAIN ledgers PROVE LedgerFits(ledgers[p], plan.price)
  <2>1. ledgers[p] = <<>> /\ Total(ledgers[p]) = 0 /\ DOMAIN ledgers[p] = {}
    BY <1>3, TotalNothing
  <2> QED BY <1>2, <2>1 DEF LedgerFits
<1>7. EntriesFit
  BY <1>3 DEF EntriesFit
<1>8. ASSUME NEW r \in DOMAIN runs PROVE Fits(r, runs[r])
  <2>1. runs[r].at = "new" /\ Len(runs[r].answers) = 0
    <3>1. r \in S
      BY <1>3
    <3>2. runs[r] = start(r)
      BY <1>4, <3>1
    <3>3. start(r).at = "new" /\ start(r).answers = <<>>
      OBVIOUS
    <3> HIDE DEF start
    <3> QED BY <3>2, <3>3
  <2>2. Placed(runs[r], links, payments)
    BY <2>1 DEF Placed, Active
  <2>3. ~ Active(runs[r])
    BY <2>1 DEF Active
  <2> QED BY <2>2, <2>3, GivenUp
<1> QED BY <1>3, <1>5, <1>6, <1>7, <1>8 DEF AccountInv

LEMMA NextKeeps ==
    ASSUME AccountInv, [Next]_vars
    PROVE  AccountInv'
<1>1. CASE UNCHANGED vars
  <2>1. /\ UNCHANGED <<plan, session, links, ledgers, orders, labs, late, runs, faults>>
        /\ payments' = payments
    BY <1>1 DEF vars
  <2>2. /\ Kept(payments, payments') /\ payments' \in Seq([link : 0..links, captured : BOOLEAN])
        /\ Len(payments') <= plan.customers
    BY <2>1, AccountTypes DEF AccountInv, Typed
  <2> QED BY <2>1, <2>2, PaymentsKept
<1>2. CASE Next
  <2>1. ASSUME NEW r \in DOMAIN runs, RunNext(r) PROVE AccountInv'
    BY <2>1, LaunchStep, LaunchFailsStep, PostRefundStep, PostOrderStep, PostLabStep, ListRefundsStep,
       FetchPaymentStep, CreateLinkStep, FetchLinkStep, ListPaymentsStep, FailedAnswerStep,
       LoseAnswerStep, TruncateStep, SaveStep DEF RunNext
  <2> QED BY <1>2, <2>1, ExecuteLateStep, PayStep, CaptureStep DEF Next
<1> QED BY <1>1, <1>2

\* Whatever the commands, the faults and the customers do: every process knows
\* of its payment what its script relies on, every refund and every request
\* still on its way was made for the payment and with the identity its command
\* uses, and no ledger breaks Razorpay's promise.
THEOREM AccountInvariant == Spec => []AccountInv
<1>1. Init => AccountInv
  BY InitFits
<1>2. AccountInv /\ [Next]_vars => AccountInv'
  BY NextKeeps
<1> QED BY <1>1, <1>2, PTL DEF Spec

-----------------------------------------------------------------------------
(* What follows.                                                           *)

LEMMA Cards ==
    /\ Cardinality({}) = 0
    /\ \A x : Cardinality({x}) = 1
    /\ \A x, y : x # y => Cardinality({x, y}) = 2
<1>1. ASSUME NEW x, NEW y, x # y PROVE Cardinality({x, y}) = 2
  <2>1. IsFiniteSet({x}) /\ Cardinality({x}) = 1
    BY FS_Singleton
  <2>2. Cardinality({x} \cup {y}) = Cardinality({x}) + 1
    BY <1>1, <2>1, FS_AddElement
  <2>3. {x} \cup {y} = {x, y}
    OBVIOUS
  <2> QED BY <2>1, <2>2, <2>3
<1> QED BY <1>1, FS_EmptySet, FS_Singleton

\* Two answers and the effects they name.
LEMMA TwoEffects ==
    ASSUME NEW x, NEW y
    PROVE  /\ OneEffect(x, y) => x.ok \/ y.ok
           /\ OneEffect(x, y) /\ x.ok /\ y.ok => x.id = y.id
           /\ x.ok /\ y.ok /\ Cardinality(Effects({x, y})) = 2 => x.id # y.id
<1> DEFINE E == Effects({x, y})
<1>1. ASSUME ~ x.ok, ~ y.ok PROVE Cardinality(E) = 0
  <2>1. E = {}
    BY <1>1 DEF Effects
  <2> QED BY <2>1, Cards
<1>2. ASSUME x.ok, y.ok PROVE E = {x.id, y.id}
  BY <1>2 DEF Effects
<1>3. ASSUME x.ok, y.ok, x.id # y.id PROVE Cardinality(E) = 2
  <2>1. Cardinality({x.id, y.id}) = 2
    BY <1>3, Cards
  <2> QED BY <1>2, <1>3, <2>1
<1>4. ASSUME x.ok, y.ok, x.id = y.id PROVE Cardinality(E) = 1
  <2>1. E = {x.id}
    BY <1>2, <1>4
  <2> QED BY <2>1, Cards
<1> QED BY <1>1, <1>3, <1>4 DEF OneEffect

\* The refunds of a run are of its payment, and it made them for one of the labels.
LEMMA OwnRefunds ==
    ASSUME AccountInv, NEW r \in DOMAIN runs, NEW labels
    PROVE  \A x \in Own(r, labels) :
               LET p == Target(runs[r])
                   q == ledgers[p][x[2]].request IN
               /\ x = <<p, x[2]>> /\ p \in DOMAIN ledgers /\ x[2] \in DOMAIN ledgers[p]
               /\ q.owner = r /\ q.label \in labels /\ q.label \in Labels
               /\ MadeBy(q, p, runs[r], payments)
<1>1. SUFFICES ASSUME NEW x \in Own(r, labels)
               PROVE  LET p == Target(runs[r])
                          q == ledgers[p][x[2]].request IN
                      /\ x = <<p, x[2]>> /\ p \in DOMAIN ledgers /\ x[2] \in DOMAIN ledgers[p]
                      /\ q.owner = r /\ q.label \in labels /\ q.label \in Labels
                      /\ MadeBy(q, p, runs[r], payments)
  OBVIOUS
<1>2. PICK p \in DOMAIN ledgers : x \in {p} \X DOMAIN ledgers[p]
  BY DEF Own
<1>3. x = <<p, x[2]>> /\ x[1] = p /\ x[2] \in DOMAIN ledgers[p]
  BY <1>2
<1> DEFINE q == ledgers[p][x[2]].request
<1>4. q.owner = r /\ q.label \in labels
  BY <1>3 DEF Own
<1>5. MadeBy(q, p, runs[r], payments)
  BY <1>3, <1>4 DEF AccountInv, EntriesFit
<1>6. p = Target(runs[r]) /\ q.label \in Labels
  BY <1>5 DEF MadeBy
<1> QED BY <1>3, <1>4, <1>5, <1>6

LEMMA IsOwn ==
    ASSUME NEW r, NEW labels, NEW p \in DOMAIN ledgers, NEW i \in DOMAIN ledgers[p],
           ledgers[p][i].request.owner = r, ledgers[p][i].request.label \in labels
    PROVE  <<p, i>> \in Own(r, labels)
<1>1. <<p, i>> \in {p} \X DOMAIN ledgers[p]
  OBVIOUS
<1>2. <<p, i>> \in UNION {{x} \X DOMAIN ledgers[x] : x \in DOMAIN ledgers}
  BY <1>1
<1> QED BY <1>2 DEF Own

\* The refunds a process was told of are its own; those it was not told of are
\* behind an error status.
LEMMA OwnToldOf ==
    ASSUME AccountInv, NEW r \in DOMAIN runs, Active(runs[r]),
           runs[r].command.name \in Refunders, NEW labels
    PROVE  LET name == runs[r].command.name
               a == runs[r].answers
               p == Target(runs[r]) IN
           /\ \A n \in DOMAIN a :
                Ops[name][n] = "refund" /\ a[n].ok /\ Asks[name][n] \in labels
                    => <<p, a[n].id>> \in Own(r, labels)
           /\ \A x \in Own(r, labels) :
                /\ x = <<p, x[2]>> /\ p \in DOMAIN ledgers /\ x[2] \in DOMAIN ledgers[p]
                /\ \/ \E n \in DOMAIN a : /\ Ops[name][n] = "refund" /\ a[n].ok
                                         /\ Asks[name][n] = ledgers[p][x[2]].request.label
                                         /\ x = <<p, a[n].id>>
                   \/ Errored(runs[r], ledgers[p][x[2]].request.label)
<1> DEFINE name == runs[r].command.name
           a == runs[r].answers
           p == Target(runs[r])
<1>1. p \in DOMAIN ledgers /\ Accounted(r, runs[r], ledgers[p])
  BY DEF AccountInv, Fits, RefundsFit
<1>2. /\ \A n \in DOMAIN a : Ops[name][n] = "refund" /\ a[n].ok =>
             /\ a[n].id \in DOMAIN ledgers[p]
             /\ ledgers[p][a[n].id].request.owner = r
             /\ ledgers[p][a[n].id].request.label = Asks[name][n]
      /\ \A i \in DOMAIN ledgers[p] : ledgers[p][i].request.owner = r =>
             \/ \E n \in DOMAIN a : Ops[name][n] = "refund" /\ a[n].ok /\ a[n].id = i
             \/ Errored(runs[r], ledgers[p][i].request.label)
  BY <1>1 DEF Accounted
<1>3. ASSUME NEW x \in Own(r, labels)
      PROVE  /\ x = <<p, x[2]>> /\ p \in DOMAIN ledgers /\ x[2] \in DOMAIN ledgers[p]
             /\ \/ \E n \in DOMAIN a : /\ Ops[name][n] = "refund" /\ a[n].ok
                                      /\ Asks[name][n] = ledgers[p][x[2]].request.label
                                      /\ x = <<p, a[n].id>>
                \/ Errored(runs[r], ledgers[p][x[2]].request.label)
  <2>1. /\ x = <<p, x[2]>> /\ p \in DOMAIN ledgers /\ x[2] \in DOMAIN ledgers[p]
        /\ ledgers[p][x[2]].request.owner = r
    BY OwnRefunds
  <2>2. CASE Errored(runs[r], ledgers[p][x[2]].request.label)
    BY <2>1, <2>2
  <2>3. CASE \E n \in DOMAIN a : Ops[name][n] = "refund" /\ a[n].ok /\ a[n].id = x[2]
    <3>1. PICK n \in DOMAIN a : Ops[name][n] = "refund" /\ a[n].ok /\ a[n].id = x[2]
      BY <2>3
    <3> HIDE DEF a, name, p
    <3> QED BY <1>2, <2>1, <3>1
  <2> QED BY <1>2, <2>1, <2>2, <2>3
<1>4. ASSUME NEW n \in DOMAIN a, Ops[name][n] = "refund", a[n].ok, Asks[name][n] \in labels
      PROVE  <<p, a[n].id>> \in Own(r, labels)
  BY <1>1, <1>2, <1>4, IsOwn
<1> QED BY <1>3, <1>4

\* A process that is done has gone through its script.
LEMMA DoneFields ==
    ASSUME AccountInv, NEW r \in DOMAIN runs, runs[r].at = "done"
    PROVE  LET run == runs[r] IN
           /\ run \in Process /\ run.command.name \in Commands /\ Active(run) /\ Fits(r, run)
           /\ Len(run.answers) = Len(Ops[run.command.name])
           /\ DOMAIN run.answers = 1..Len(Ops[run.command.name])
<1> DEFINE run == runs[r]
<1>1. run \in Process /\ Fits(r, run)
  BY DEF AccountInv, Typed
<1>2. run.command.name \in Commands /\ Active(run)
  BY <1>1, Answers, CommandNames DEF Active
<1>3. Len(run.answers) = Len(Ops[run.command.name])
  BY <1>1 DEF Fits, Placed
<1>4. DOMAIN run.answers = 1..Len(run.answers)
  <2> HIDE DEF run
  <2> QED BY <1>1, Answers
<1> QED BY <1>1, <1>2, <1>3, <1>4

LEMMA TypeFollows ==
    ASSUME AccountInv
    PROVE  TypeOK
<1>1. Typed
  BY DEF AccountInv
<1>2. session \in {None} \cup Session
  BY <1>1 DEF Typed, SessionFits
<1>3. ASSUME NEW p \in DOMAIN ledgers PROVE Total(ledgers[p]) <= plan.price
  BY <1>1, AccountTypes DEF AccountInv, LedgerFits
<1>4. ASSUME NEW r \in DOMAIN runs
      PROVE  /\ runs[r] \in Process
             /\ runs[r].at = "exchange" => Len(runs[r].answers) < Len(ScriptOf(r))
  <2>1. runs[r] \in Process
    BY <1>1 DEF Typed
  <2>2. ASSUME runs[r].at = "exchange" PROVE Len(runs[r].answers) < Len(ScriptOf(r))
    <3> DEFINE n == Len(runs[r].answers)
               m == Len(Ops[runs[r].command.name])
    <3>1. n \in Nat /\ n + 1 \in 1..m /\ Len(ScriptOf(r)) = m /\ m \in Nat
      BY <2>2, AtExchange
    <3> HIDE DEF n, m
    <3>2. n < Len(ScriptOf(r))
      BY <3>1
    <3> QED BY <3>2 DEF n
  <2> QED BY <2>1, <2>2
<1>5. late \subseteq Underway
  BY DEF AccountInv, LateFits
<1> QED BY <1>1, <1>2, <1>3, <1>4, <1>5 DEF TypeOK, Typed

\* The identity of a run allows it one refund.
LEMMA OnlyOne ==
    ASSUME AccountInv, NEW r \in DOMAIN runs,
           runs[r].command.name \in {"live", "header", "close"},
           NEW x \in Own(r, Labels), NEW y \in Own(r, Labels)
    PROVE  x = y
<1> DEFINE p == Target(runs[r])
           c == runs[r].command
           i == x[2]
           j == y[2]
           u == ledgers[p][i].request
           v == ledgers[p][j].request
<1>1. /\ x = <<p, i>> /\ y = <<p, j>> /\ p \in DOMAIN ledgers
      /\ i \in DOMAIN ledgers[p] /\ j \in DOMAIN ledgers[p]
      /\ u.owner = r /\ v.owner = r
      /\ MadeBy(u, p, runs[r], payments) /\ MadeBy(v, p, runs[r], payments)
  BY OwnRefunds
<1>2. \A label \in {"live", "header", "close"} : Fresh(r, label) # None
  <2>1. r \in Runs
    BY AccountTypes DEF AccountInv
  <2> QED BY <2>1, NoneAssumption
<1>3. \/ u.key # None /\ u.key = v.key
      \/ u.receipt # None /\ u.receipt = v.receipt
  <2>1. CASE c.name = "live"
    <3>1. u.key = Fresh(r, "live") /\ v.key = Fresh(r, "live")
      BY <1>1, <2>1 DEF MadeBy
    <3> QED BY <1>2, <3>1
  <2>2. CASE c.name = "header"
    <3>1. u.key = Fresh(r, "header") /\ v.key = Fresh(r, "header")
      BY <1>1, <2>2 DEF MadeBy
    <3> QED BY <1>2, <3>1
  <2>3. CASE c.name = "close"
    <3>1. IF c.identity = "header" THEN u.key = Fresh(r, "close") /\ v.key = Fresh(r, "close")
          ELSE u.receipt = Fresh(r, "close") /\ v.receipt = Fresh(r, "close")
      BY <1>1, <2>3 DEF MadeBy
    <3> QED BY <1>2, <3>1
  <2> QED BY <2>1, <2>2, <2>3
<1>4. i = j
  BY <1>1, <1>3 DEF AccountInv, LedgerFits
<1> QED BY <1>1, <1>4

LEMMA OneEffectFollows ==
    ASSUME AccountInv
    PROVE  OneEffectPerRun
<1>1. ASSUME NEW r \in DOMAIN runs, runs[r].command.name \in {"live", "header", "close"}
      PROVE  Cardinality(Own(r, Labels)) <= 1
  <2>1. CASE Own(r, Labels) = {}
    <3>1. Cardinality({}) = 0
      BY Cards
    <3> QED BY <2>1, <3>1
  <2>2. CASE Own(r, Labels) # {}
    <3>1. PICK x : x \in Own(r, Labels)
      BY <2>2
    <3>2. Own(r, Labels) = {x}
      BY <1>1, <3>1, OnlyOne
    <3>3. Cardinality({x}) = 1
      BY Cards
    <3> QED BY <3>2, <3>3
  <2> QED BY <2>1, <2>2
<1> QED BY <1>1 DEF OneEffectPerRun

LEMMA CloseFollows ==
    ASSUME AccountInv
    PROVE  CloseCloses
BY DEF AccountInv, LedgerFits, CloseCloses

LEMMA FixturesFollow ==
    ASSUME AccountInv
    PROVE  OnlyFixturesAreRefunded
BY DEF AccountInv, EntriesFit, MadeBy, OnlyFixturesAreRefunded

LEMMA Commanded ==
    ASSUME AccountInv, NEW r \in DOMAIN runs, runs[r].at = "done", OnPayment(runs[r].command)
    PROVE  runs[r].command.name \in Refunders
<1>1. runs[r].command.name \in Commands
  BY DoneFields
<1> QED BY <1>1 DEF OnPayment, OnSession, Commands, Refunders

\* What the requests of a process that is done were.
LEMMA DoneScript ==
    ASSUME AccountInv, NEW r \in DOMAIN runs, runs[r].at = "done",
           NEW n \in DOMAIN runs[r].answers
    PROVE  LET name == runs[r].command.name IN
           /\ ScriptOf(r)[n].op = Ops[name][n]
           /\ Ops[name][n] = "refund" => ScriptOf(r)[n].request.label = Asks[name][n]
<1> DEFINE c == runs[r].command
<1>1. /\ runs[r] \in Process /\ c.name \in Commands
      /\ n \in 1..Len(Ops[c.name])
  BY DoneFields
<1>2. r \in Runs /\ c \in Command /\ runs[r].rest \in Nat
  BY <1>1, Answers, AccountTypes DEF AccountInv
<1>3. ScriptOf(r) = Script(r, c, runs[r].rest, plan.price)
  BY DEF ScriptOf
<1> HIDE DEF c
<1>4. ScriptOf(r)[n].op = Ops[c.name][n]
  BY <1>1, <1>3, ScriptShape
<1>5. ASSUME Ops[c.name][n] = "refund" PROVE ScriptOf(r)[n].request.label = Asks[c.name][n]
  BY <1>1, <1>2, <1>3, <1>5, RefundStep DEF Proper
<1> QED BY <1>4, <1>5 DEF c

LEMMA CompleteFollows ==
    ASSUME AccountInv
    PROVE  ReportsAreComplete
<1>1. ASSUME NEW r \in DOMAIN runs, runs[r].at = "done", OnPayment(runs[r].command)
      PROVE  /\ Told(r) \subseteq {x[2] : x \in Own(r, Labels)}
             /\ \A x \in Own(r, Labels) :
                  x[2] \in Told(r) \/
                      \E n \in DOMAIN runs[r].answers :
                          /\ runs[r].answers[n].why = {"error"}
                          /\ ScriptOf(r)[n].op = "refund"
                          /\ ScriptOf(r)[n].request.label = ledgers[x[1]][x[2]].request.label
  <2> DEFINE run == runs[r]
             name == run.command.name
             a == run.answers
             p == Target(run)
             N == {m \in DOMAIN a : ScriptOf(r)[m].op = "refund"}
             told == {a[n] : n \in N}
  <2>1. name \in Refunders /\ Active(run)
    BY <1>1, Commanded, DoneFields
  <2>2. \A m \in DOMAIN a : /\ ScriptOf(r)[m].op = Ops[name][m]
                            /\ Ops[name][m] = "refund" =>
                                  ScriptOf(r)[m].request.label = Asks[name][m]
    BY <1>1, DoneScript
  <2>3. p \in DOMAIN ledgers /\ Accounted(r, run, ledgers[p])
    BY <2>1 DEF AccountInv, Fits, RefundsFit
  <2>4. Told(r) = Effects(told)
    BY DEF Told
  <2>5. ASSUME NEW x \in Own(r, Labels)
        PROVE  x[2] \in Effects(told) \/
                   \E n \in DOMAIN a :
                       /\ a[n].why = {"error"}
                       /\ ScriptOf(r)[n].op = "refund"
                       /\ ScriptOf(r)[n].request.label = ledgers[x[1]][x[2]].request.label
    <3>1. x = <<p, x[2]>>
      BY <2>1, OwnToldOf
    <3>2. CASE \E n \in DOMAIN a : Ops[name][n] = "refund" /\ a[n].ok /\ x = <<p, a[n].id>>
      <4>1. PICK n \in DOMAIN a : Ops[name][n] = "refund" /\ a[n].ok /\ x = <<p, a[n].id>>
        BY <3>2
      <4>2. a[n] \in told /\ x[2] = a[n].id
        BY <2>2, <4>1
      <4> HIDE DEF told, a
      <4> QED BY <4>1, <4>2 DEF Effects
    <3>3. CASE Errored(run, ledgers[p][x[2]].request.label)
      <4>1. PICK n \in DOMAIN a : /\ Ops[name][n] = "refund" /\ a[n].why = {"error"}
                                 /\ Asks[name][n] = ledgers[p][x[2]].request.label
        BY <3>3 DEF Errored
      <4>2. ledgers[x[1]][x[2]].request.label = ledgers[p][x[2]].request.label
        BY <3>1
      <4> HIDE DEF a, p
      <4> QED BY <2>2, <4>1, <4>2
    <3> QED BY <2>1, <3>2, <3>3, OwnToldOf
  <2>6. ASSUME NEW i \in Effects(told) PROVE i \in {x[2] : x \in Own(r, Labels)}
    <3>1. PICK n \in DOMAIN a : Ops[name][n] = "refund" /\ a[n].ok /\ a[n].id = i
      BY <2>2 DEF Effects
    <3>2. i \in DOMAIN ledgers[p] /\ ledgers[p][i].request.owner = r
      BY <2>3, <3>1 DEF Accounted
    <3>3. ledgers[p][i].request.label \in Labels
      BY <2>3, <3>2 DEF AccountInv, EntriesFit, MadeBy
    <3>4. <<p, i>> \in Own(r, Labels) /\ <<p, i>>[2] = i
      BY <2>3, <3>2, <3>3, IsOwn
    <3> QED BY <3>4
  <2> HIDE DEF told
  <2> QED BY <2>4, <2>5, <2>6
<1> QED BY <1>1 DEF ReportsAreComplete

LEMMA OneCauseFollows ==
    ASSUME AccountInv
    PROVE  RejectionsHaveOneCause
<1>1. ASSUME NEW r \in DOMAIN runs, Done(r, "matrix"), runs[r].file.captured, Undisturbed(r)
      PROVE  LET a == runs[r].answers
                 checks == MatrixChecks(a, plan.price) IN
             /\ checks.header_changed_body_rejected => Sole(a[6].why, "conflict")
             /\ checks.receipt_duplicate_prevented => Sole(a[8].why, "duplicate")
             /\ checks.over_refund_rejected => Sole(a[4].why, "balance")
  <2> DEFINE run == runs[r]
             a == run.answers
             p == Target(run)
  <2>1. run.at = "done" /\ run.command.name = "matrix"
    BY <1>1 DEF Done
  <2>2. Active(run) /\ Len(a) = 14 /\ Fits(r, run)
    BY <2>1, DoneFields, MatrixOps
  <2>3. "matrix" \in Refunders /\ "matrix" # "live"
    BY DEF Refunders
  <2>4. Roomy(r, run, ledgers[p], plan.price)
    BY <2>1, <2>2, <2>3 DEF Fits, RefundsFit
  <2>5. PaymentOf(r) = p
    BY DEF PaymentOf, Target
  <2>6. Alone(r, run, ledgers[p])
    BY <1>1, <2>5 DEF Undisturbed, Alone
  <2>7. Explained(a)
    <3>1. Len(a) > 0
      BY <2>2
    <3> QED BY <1>1, <2>1, <2>4, <2>6, <3>1 DEF Roomy
  <2>8. /\ ~ a[4].ok => Sole(a[4].why, "balance")
        /\ a[5].ok /\ ~ a[6].ok => Sole(a[6].why, "conflict")
        /\ a[7].ok /\ ~ a[8].ok => Sole(a[8].why, "duplicate")
    BY <2>2, <2>7 DEF Explained
  <2>9. MatrixChecks(a, plan.price).header_changed_body_rejected = (a[5].ok /\ ~ a[6].ok)
        /\ MatrixChecks(a, plan.price).receipt_duplicate_prevented = (a[7].ok /\ ~ a[8].ok)
        /\ MatrixChecks(a, plan.price).over_refund_rejected = ~ a[4].ok
    BY DEF MatrixChecks
  <2> HIDE DEF a
  <2> QED BY <2>8, <2>9 DEF a
<1> QED BY <1>1 DEF RejectionsHaveOneCause, Sole

\* Which requests of the matrix and of the dust experiment ask for what.
LEMMA WhatIsAsked ==
    /\ \A n \in 1..14 :
         LET label == Asks["matrix"][n] IN
         /\ label = "below" => n = 2
         /\ label = "fraction" => n = 3
         /\ label = "over" => n = 4
         /\ label = "mismatch" => n \in {5, 6}
         /\ label = "receipt" => n \in {7, 8}
         /\ label = "unkeyed" => n \in {9, 10}
         /\ label = "final" => n \in {12, 13}
    /\ \A n \in 1..12 :
         LET label == Asks["dust"][n] IN
         /\ label = "coerced" => n = 3
         /\ label = "one" => n = 6
         /\ label = "dust" => n \in {7, 8, 9, 10}
    /\ \A n \in {3, 6, 7, 8, 9, 10} : Ops["dust"][n] = "refund"
<1>1. ASSUME NEW n \in 1..14
      PROVE  LET label == Asks["matrix"][n] IN
             /\ label = "below" => n = 2
             /\ label = "fraction" => n = 3
             /\ label = "over" => n = 4
             /\ label = "mismatch" => n \in {5, 6}
             /\ label = "receipt" => n \in {7, 8}
             /\ label = "unkeyed" => n \in {9, 10}
             /\ label = "final" => n \in {12, 13}
  BY PurposesOf
<1>2. ASSUME NEW n \in 1..12
      PROVE  LET label == Asks["dust"][n] IN
             /\ label = "coerced" => n = 3
             /\ label = "one" => n = 6
             /\ label = "dust" => n \in {7, 8, 9, 10}
  BY PurposesOf
<1>3. \A n \in {3, 6, 7, 8, 9, 10} : Ops["dust"][n] = "refund"
  BY DEF Ops
<1> QED BY <1>1, <1>2, <1>3

\* A process that read that nothing is left is right.
LEMMA ClosedIsClosed ==
    ASSUME AccountInv, NEW r \in DOMAIN runs, Active(runs[r]),
           runs[r].command.name \in Refunders, NEW n \in DOMAIN runs[r].answers,
           Ops[runs[r].command.name][n] \in {"list", "relist", "payment"},
           runs[r].answers[n].total = plan.price
    PROVE  Closed(r)
<1> DEFINE p == Target(runs[r])
<1>1. p \in DOMAIN ledgers /\ Read(runs[r], ledgers[p], plan.price) /\ p = PaymentOf(r)
  BY DEF AccountInv, Fits, RefundsFit, PaymentOf, Target
<1>2. plan.price <= Total(ledgers[p])
  BY <1>1 DEF Read
<1>3. Total(ledgers[p]) \in 0..plan.price /\ plan.price \in Nat
  BY <1>1, AccountTypes DEF AccountInv, LedgerFits
<1>4. Total(ledgers[p]) = plan.price
  BY <1>2, <1>3
<1> QED BY <1>1, <1>4 DEF Closed

\* A run that makes one refund at most, and was told of one.
LEMMA ToldOfOne ==
    ASSUME AccountInv, NEW r \in DOMAIN runs, Active(runs[r]),
           runs[r].command.name \in {"live", "header", "close"},
           NEW n \in DOMAIN runs[r].answers, Ops[runs[r].command.name][n] = "refund",
           runs[r].answers[n].ok
    PROVE  Cardinality(Own(r, Labels)) = 1
<1> DEFINE p == Target(runs[r])
           i == runs[r].answers[n].id
           own == Own(r, Labels)
<1>1. runs[r].command.name \in Refunders
  BY DEF Refunders
<1>2. p \in DOMAIN ledgers /\ i \in DOMAIN ledgers[p] /\ ledgers[p][i].request.owner = r
  BY <1>1 DEF AccountInv, Fits, RefundsFit, Accounted
<1>3. ledgers[p][i].request.label \in Labels
  BY <1>2 DEF AccountInv, EntriesFit, MadeBy
<1>4. <<p, i>> \in own
  BY <1>2, <1>3, IsOwn
<1>5. own = {<<p, i>>}
  BY <1>1, <1>4, OnlyOne
<1>6. Cardinality({<<p, i>>}) = 1
  BY Cards
<1> HIDE DEF p, i, own
<1>7. Cardinality(own) = 1
  BY <1>5, <1>6
<1> QED BY <1>7 DEF own

\* At most one refund of a run carries a label whose refunds share an identity.
LEMMA OneOfLabel ==
    ASSUME AccountInv, NEW r \in DOMAIN runs,
           NEW label \in {"mismatch", "receipt", "final", "dust"},
           NEW x \in Own(r, {label}), NEW y \in Own(r, {label})
    PROVE  x = y
<1> DEFINE p == Target(runs[r])
           u == ledgers[p][x[2]].request
           v == ledgers[p][y[2]].request
<1>1. /\ x = <<p, x[2]>> /\ y = <<p, y[2]>> /\ p \in DOMAIN ledgers
      /\ x[2] \in DOMAIN ledgers[p] /\ y[2] \in DOMAIN ledgers[p]
      /\ u.owner = r /\ v.owner = r /\ u.label = label /\ v.label = label
      /\ Known(u) /\ Known(v)
  BY OwnRefunds DEF MadeBy
<1>2. \A l \in {"mismatch", "receipt", "final"} : Fresh(r, l) # None
  <2>1. r \in Runs
    BY AccountTypes DEF AccountInv
  <2> QED BY <2>1, NoneAssumption
<1>3. \/ u.key # None /\ u.key = v.key
      \/ u.receipt # None /\ u.receipt = v.receipt
      \/ u.owner = v.owner /\ u.label = v.label /\ u.label \in {"fraction", "dust"}
  <2> HIDE DEF u, v
  <2> QED BY <1>1, <1>2 DEF Known
<1>4. x[2] = y[2]
  BY <1>1, <1>3 DEF AccountInv, LedgerFits
<1> QED BY <1>1, <1>4

\* What is too small or too large is never refunded.
LEMMA NoneOfLabel ==
    ASSUME AccountInv, NEW r \in DOMAIN runs, NEW label \in {"below", "one", "over"}
    PROVE  Own(r, {label}) = {}
<1>1. ASSUME NEW x \in Own(r, {label}) PROVE FALSE
  <2> DEFINE p == Target(runs[r])
  <2>1. /\ p \in DOMAIN ledgers /\ x[2] \in DOMAIN ledgers[p]
        /\ ledgers[p][x[2]].request.label = label
    BY OwnRefunds
  <2> QED BY <2>1 DEF AccountInv, LedgerFits
<1> QED BY <1>1

\* One refund, where there is one and there are no two.
LEMMA Exactly ==
    ASSUME NEW own, NEW x \in own, \A y \in own : y = x
    PROVE  Cardinality(own) = 1
<1>1. own = {x}
  OBVIOUS
<1> QED BY <1>1, Cards

LEMMA MatrixReport ==
    ASSUME AccountInv, NEW r \in DOMAIN runs, Done(r, "matrix")
    PROVE  LET a == runs[r].answers
               checks == MatrixChecks(a, plan.price) IN
           /\ checks.below_minimum_rejected => Own(r, {"below"}) = {}
           /\ checks.fractional_subunit_rejected /\ a[3].why # {"error"}
                 => Own(r, {"fraction"}) = {}
           /\ checks.over_refund_rejected => Own(r, {"over"}) = {}
           /\ checks.header_changed_body_rejected => Cardinality(Own(r, {"mismatch"})) = 1
           /\ checks.receipt_duplicate_prevented => Cardinality(Own(r, {"receipt"})) = 1
           /\ checks.unkeyed_retry_created_two_effects => Cardinality(Own(r, {"unkeyed"})) = 2
           /\ checks.idempotent_full_refund_one_effect => Cardinality(Own(r, {"final"})) = 1
           /\ checks.payment_fully_refunded => Closed(r)
<1> DEFINE a == runs[r].answers
           p == Target(runs[r])
           at(n) == <<p, a[n].id>>
           price == plan.price
<1>1. runs[r].at = "done" /\ runs[r].command.name = "matrix" /\ "matrix" \in Refunders
  BY DEF Done, Refunders
<1>2. Active(runs[r]) /\ DOMAIN a = 1..14
  BY <1>1, DoneFields, MatrixOps
<1>3. \A labels : \A n \in 1..14 :
          Ops["matrix"][n] = "refund" /\ a[n].ok /\ Asks["matrix"][n] \in labels
              => at(n) \in Own(r, labels)
  BY <1>1, <1>2, OwnToldOf
<1>4. /\ Asks["matrix"][5] = "mismatch" /\ Asks["matrix"][7] = "receipt"
      /\ Asks["matrix"][9] = "unkeyed" /\ Asks["matrix"][10] = "unkeyed"
      /\ Asks["matrix"][12] = "final"
  BY PurposesOf
<1>5. a[14].total = price => Closed(r)
  <2>1. 14 \in DOMAIN a /\ Ops[runs[r].command.name][14] \in {"list", "relist", "payment"}
    BY <1>1, <1>2, MatrixOps
  <2> QED BY <1>1, <1>2, <2>1, ClosedIsClosed
<1>6. Cardinality(Effects({a[9], a[10]})) = 2 /\ a[9].ok /\ a[10].ok => a[9].id # a[10].id
  BY TwoEffects
<1>7. ASSUME NEW label \in {"fraction", "unkeyed"}, NEW x \in Own(r, {label})
      PROVE  \E n \in 1..14 :
                 /\ Asks["matrix"][n] = label
                 /\ \/ a[n].ok /\ x = at(n)
                    \/ ~ a[n].ok /\ a[n].why = {"error"}
  <2>1. ledgers[p][x[2]].request.label = label
    BY OwnRefunds
  <2>2. CASE \E n \in DOMAIN a : /\ Ops["matrix"][n] = "refund" /\ a[n].ok
                                 /\ Asks["matrix"][n] = label /\ x = at(n)
    BY <1>2, <2>2
  <2>3. CASE Errored(runs[r], label)
    BY <1>1, <1>2, <2>3 DEF Errored
  <2> QED BY <1>1, <1>2, <2>1, <2>2, <2>3, OwnToldOf
<1> HIDE DEF a, p, price
<1>8. ASSUME ~ a[3].ok, a[3].why # {"error"} PROVE Own(r, {"fraction"}) = {}
  <2>1. ASSUME NEW x \in Own(r, {"fraction"}) PROVE FALSE
    <3>1. PICK n \in 1..14 : /\ Asks["matrix"][n] = "fraction"
                             /\ \/ a[n].ok /\ x = at(n)
                                \/ ~ a[n].ok /\ a[n].why = {"error"}
      BY <1>7, Zenon
    <3> QED BY <1>8, <3>1, WhatIsAsked
  <2> QED BY <2>1
<1>10. ASSUME a[5].ok PROVE Cardinality(Own(r, {"mismatch"})) = 1
  <2>1. at(5) \in Own(r, {"mismatch"})
    BY <1>3, <1>4, <1>10, MatrixOps
  <2> QED BY <2>1, OneOfLabel, Exactly
<1>11. ASSUME a[7].ok PROVE Cardinality(Own(r, {"receipt"})) = 1
  <2>1. at(7) \in Own(r, {"receipt"})
    BY <1>3, <1>4, <1>11, MatrixOps
  <2> QED BY <2>1, OneOfLabel, Exactly
<1>12. ASSUME a[9].ok, a[10].ok, Cardinality(Effects({a[9], a[10]})) = 2
       PROVE  Cardinality(Own(r, {"unkeyed"})) = 2
  <2>1. at(9) \in Own(r, {"unkeyed"}) /\ at(10) \in Own(r, {"unkeyed"})
    BY <1>3, <1>4, <1>12, MatrixOps
  <2>2. ASSUME NEW x \in Own(r, {"unkeyed"}) PROVE x = at(9) \/ x = at(10)
    <3>1. PICK n \in 1..14 :
              /\ Asks["matrix"][n] = "unkeyed"
              /\ \/ a[n].ok /\ x = at(n)
                 \/ ~ a[n].ok /\ a[n].why = {"error"}
      BY <1>7, Zenon
    <3>2. n = 9 \/ n = 10
      BY <3>1, WhatIsAsked
    <3> QED BY <1>12, <3>1, <3>2
  <2>3. Own(r, {"unkeyed"}) = {at(9), at(10)}
    BY <2>1, <2>2
  <2>4. at(9) # at(10)
    BY <1>6, <1>12
  <2> HIDE DEF at
  <2>5. Cardinality({at(9), at(10)}) = 2
    BY <2>4, Cards
  <2> QED BY <2>3, <2>5
<1>13. ASSUME a[12].ok PROVE Cardinality(Own(r, {"final"})) = 1
  <2>1. at(12) \in Own(r, {"final"})
    BY <1>3, <1>4, <1>13, MatrixOps
  <2> QED BY <2>1, OneOfLabel, Exactly
<1> DEFINE checks == MatrixChecks(a, price)
<1>14. /\ checks.below_minimum_rejected = ~ a[2].ok
       /\ checks.fractional_subunit_rejected = ~ a[3].ok
       /\ checks.over_refund_rejected = ~ a[4].ok
       /\ checks.header_changed_body_rejected = (a[5].ok /\ ~ a[6].ok)
       /\ checks.receipt_duplicate_prevented = (a[7].ok /\ ~ a[8].ok)
       /\ checks.unkeyed_retry_created_two_effects
              = (a[9].ok /\ a[10].ok /\ Cardinality(Effects({a[9], a[10]})) = 2)
       /\ checks.idempotent_full_refund_one_effect
              = (a[12].ok /\ a[13].ok /\ OneEffect(a[12], a[13]))
       /\ checks.payment_fully_refunded = (a[14].total = price)
  BY DEF MatrixChecks
<1> HIDE DEF checks
<1> SUFFICES /\ checks.below_minimum_rejected => Own(r, {"below"}) = {}
             /\ checks.fractional_subunit_rejected /\ a[3].why # {"error"}
                   => Own(r, {"fraction"}) = {}
             /\ checks.over_refund_rejected => Own(r, {"over"}) = {}
             /\ checks.header_changed_body_rejected => Cardinality(Own(r, {"mismatch"})) = 1
             /\ checks.receipt_duplicate_prevented => Cardinality(Own(r, {"receipt"})) = 1
             /\ checks.unkeyed_retry_created_two_effects => Cardinality(Own(r, {"unkeyed"})) = 2
             /\ checks.idempotent_full_refund_one_effect => Cardinality(Own(r, {"final"})) = 1
             /\ checks.payment_fully_refunded => Closed(r)
  BY DEF checks, a, price
<1>15. Own(r, {"below"}) = {} /\ Own(r, {"over"}) = {}
  BY NoneOfLabel
<1> QED BY ZenonT(30), <1>5, <1>8, <1>10, <1>11, <1>12, <1>13, <1>14, <1>15

LEMMA DustReport ==
    ASSUME AccountInv, NEW r \in DOMAIN runs, Done(r, "dust")
    PROVE  LET checks == DustChecks(runs[r].answers, plan.price) IN
           /\ checks.fractional_request_accepted_and_truncated
                  => Cardinality(Own(r, {"coerced"})) = 1
           /\ checks.explicit_one_subunit_refund_rejected => Own(r, {"one"}) = {}
           /\ checks.header_omitted_amount_rejected /\ checks.receipt_retry_duplicate_prevented
                  => Cardinality(Own(r, {"dust"})) = 1
           /\ checks.receipt_omitted_amount_closed_residual => Closed(r)
<1> DEFINE a == runs[r].answers
           p == Target(runs[r])
           at(n) == <<p, a[n].id>>
           price == plan.price
<1>1. /\ runs[r].at = "done" /\ runs[r].command.name = "dust" /\ "dust" \in Refunders
      /\ "dust" \in Commands
  BY DEF Done, Refunders, Commands
<1>2. Active(runs[r]) /\ DOMAIN a = 1..12
  BY <1>1, DoneFields, OpsLengths
<1>3. \A labels : \A n \in 1..12 :
          Ops["dust"][n] = "refund" /\ a[n].ok /\ Asks["dust"][n] \in labels
              => at(n) \in Own(r, labels)
  BY <1>1, <1>2, OwnToldOf
<1>4. Asks["dust"][3] = "coerced" /\ Asks["dust"][9] = "dust"
  BY PurposesOf
<1>5. a[12].total = price => Closed(r)
  <2>1. 12 \in DOMAIN a /\ Ops["dust"][12] = "list"
    BY <1>2 DEF Ops
  <2> QED BY <1>1, <1>2, <2>1, ClosedIsClosed
<1>7. ASSUME NEW x \in Own(r, {"coerced"})
      PROVE  \/ a[3].ok /\ x = at(3)
             \/ ~ a[3].ok
  <2>1. ledgers[p][x[2]].request.label = "coerced"
    BY OwnRefunds
  <2>2. CASE \E n \in DOMAIN a : a[n].ok /\ Asks["dust"][n] = "coerced" /\ x = at(n)
    BY <1>2, <2>2, WhatIsAsked
  <2>3. CASE Errored(runs[r], "coerced")
    BY <1>1, <1>2, <2>3, WhatIsAsked DEF Errored
  <2> QED BY <1>1, <1>2, <2>1, <2>2, <2>3, OwnToldOf
<1> HIDE DEF a, p, price
<1>6. ASSUME a[3].ok PROVE Cardinality(Own(r, {"coerced"})) = 1
  <2>1. at(3) \in Own(r, {"coerced"})
    BY <1>3, <1>4, <1>6, WhatIsAsked
  <2>2. \A x \in Own(r, {"coerced"}) : x = at(3)
    BY <1>6, <1>7
  <2> QED BY <2>1, <2>2, Exactly
<1>8. ASSUME a[9].ok PROVE Cardinality(Own(r, {"dust"})) = 1
  <2>1. at(9) \in Own(r, {"dust"})
    BY <1>3, <1>4, <1>8, WhatIsAsked
  <2> QED BY <2>1, OneOfLabel, Exactly
<1>10. Own(r, {"one"}) = {}
  BY NoneOfLabel
<1> DEFINE checks == DustChecks(a, price)
<1>9. /\ checks.fractional_request_accepted_and_truncated => a[3].ok
      /\ checks.explicit_one_subunit_refund_rejected => ~ a[6].ok
      /\ checks.header_omitted_amount_rejected => ~ a[7].ok /\ ~ a[8].ok
      /\ checks.receipt_retry_duplicate_prevented => a[9].ok /\ ~ a[10].ok
      /\ checks.receipt_omitted_amount_closed_residual => a[12].total = price
  BY DEF DustChecks
<1> HIDE DEF checks
<1> SUFFICES /\ checks.fractional_request_accepted_and_truncated
                    => Cardinality(Own(r, {"coerced"})) = 1
             /\ checks.explicit_one_subunit_refund_rejected => Own(r, {"one"}) = {}
             /\ checks.header_omitted_amount_rejected /\ checks.receipt_retry_duplicate_prevented
                    => Cardinality(Own(r, {"dust"})) = 1
             /\ checks.receipt_omitted_amount_closed_residual => Closed(r)
  BY DEF checks, a, price
<1> QED BY <1>5, <1>6, <1>8, <1>9, <1>10

LEMMA TwiceReports ==
    ASSUME AccountInv, NEW r \in DOMAIN runs
    PROVE  LET a == runs[r].answers IN
           /\ Done(r, "live") /\ LiveChecks(a).one_effect => Cardinality(Own(r, Labels)) = 1
           /\ Done(r, "header") /\ HeaderChecks(a).one_refund_effect => Cardinality(Own(r, Labels)) = 1
<1> DEFINE a == runs[r].answers
           name == runs[r].command.name
<1>1. ASSUME runs[r].at = "done", name \in {"live", "header"}, OneEffect(a[1], a[2])
      PROVE  Cardinality(Own(r, Labels)) = 1
  <2>1. name \in {"live", "header", "close"} /\ name \in Commands
    BY <1>1 DEF Commands
  <2>2. Active(runs[r]) /\ DOMAIN a = 1..2
    BY <1>1, <2>1, DoneFields, OpsLengths
  <2>3. \A n \in {1, 2} : n \in DOMAIN a /\ Ops[name][n] = "refund"
    <3>1. Ops["live"] = << "refund", "refund" >> /\ Ops["header"] = << "refund", "refund" >>
      BY DEF Ops
    <3> QED BY <1>1, <2>2, <3>1
  <2>4. a[1].ok \/ a[2].ok
    BY <1>1, TwoEffects
  <2>5. PICK n \in {1, 2} : a[n].ok
    BY <2>4
  <2> QED BY <2>1, <2>2, <2>3, <2>5, ToldOfOne
<1>2. LiveChecks(a).one_effect = OneEffect(a[1], a[2])
      /\ HeaderChecks(a).one_refund_effect = OneEffect(a[1], a[2])
  BY DEF LiveChecks, HeaderChecks
<1> HIDE DEF a
<1>3. /\ Done(r, "live") /\ LiveChecks(a).one_effect => Cardinality(Own(r, Labels)) = 1
      /\ Done(r, "header") /\ HeaderChecks(a).one_refund_effect => Cardinality(Own(r, Labels)) = 1
  BY <1>1, <1>2 DEF Done
<1> QED BY <1>3 DEF a

LEMMA CloseReport ==
    ASSUME AccountInv, NEW r \in DOMAIN runs, Done(r, "close")
    PROVE  LET checks == CloseChecks(runs[r].command, runs[r].answers, plan.price) IN
           /\ checks.one_refund_effect \/ checks.retry_safely_identified
                  => Cardinality(Own(r, Labels)) = 1
           /\ checks.payment_fully_refunded => Closed(r)
<1> DEFINE a == runs[r].answers
           c == runs[r].command
           price == plan.price
           checks == CloseChecks(c, a, price)
<1>1. runs[r].at = "done" /\ c.name = "close" /\ "close" \in Refunders /\ "close" \in Commands
  BY DEF Done, Refunders, Commands
<1>2. Active(runs[r]) /\ DOMAIN a = 1..4
  BY <1>1, DoneFields, OpsLengths
<1>3. Ops["close"][2] = "refund" /\ Ops["close"][4] = "list"
  BY DEF Ops
<1>4. ASSUME a[2].ok PROVE Cardinality(Own(r, Labels)) = 1
  <2>1. 2 \in DOMAIN a
    BY <1>2
  <2> QED BY <1>1, <1>2, <1>3, <1>4, <2>1, ToldOfOne
<1>5. ASSUME a[4].total = price PROVE Closed(r)
  <2>1. 4 \in DOMAIN a
    BY <1>2
  <2> QED BY <1>1, <1>2, <1>3, <1>5, <2>1, ClosedIsClosed
<1>6. /\ checks.one_refund_effect => a[2].ok
      /\ checks.retry_safely_identified => a[2].ok
      /\ checks.payment_fully_refunded => a[4].total = price
  <2> HIDE DEF a, c, price
  <2> QED BY DEF CloseChecks
<1> HIDE DEF checks, a
<1>7. /\ checks.one_refund_effect \/ checks.retry_safely_identified
             => Cardinality(Own(r, Labels)) = 1
      /\ checks.payment_fully_refunded => Closed(r)
  BY <1>4, <1>5, <1>6
<1> QED BY <1>7 DEF checks, a

LEMMA LedgerReport ==
    ASSUME AccountInv, NEW r \in DOMAIN runs, Done(r, "ledger"),
           LedgerChecks(runs[r].answers, plan.price).payment_fully_refunded
    PROVE  Closed(r)
<1> DEFINE a == runs[r].answers
<1>1. /\ runs[r].at = "done" /\ runs[r].command.name = "ledger" /\ "ledger" \in Refunders
      /\ "ledger" \in Commands
  BY DEF Done, Refunders, Commands
<1>2. Active(runs[r]) /\ DOMAIN a = 1..2
  BY <1>1, DoneFields, OpsLengths
<1>3. 2 \in DOMAIN a /\ Ops["ledger"][2] = "list"
  BY <1>2 DEF Ops
<1>4. a[2].total = plan.price
  <2> HIDE DEF a
  <2>1. LedgerChecks(a, plan.price).payment_fully_refunded
    BY DEF a
  <2> QED BY <2>1 DEF LedgerChecks
<1> QED BY <1>1, <1>2, <1>3, <1>4, ClosedIsClosed

LEMMA ContractReport ==
    ASSUME AccountInv, NEW r \in DOMAIN runs, Done(r, "contract"),
           ContractChecks(runs[r].answers).duplicate_receipt_accepted_as_two_orders
    PROVE  \E i, j \in DOMAIN orders :
               /\ i # j
               /\ orders[i].request.owner = r /\ orders[j].request.owner = r
               /\ orders[i].request.receipt = orders[j].request.receipt
<1> DEFINE a == runs[r].answers
<1>1. runs[r].at = "done" /\ runs[r].command.name = "contract" /\ "contract" \in Commands
  BY DEF Done, Commands
<1>2. Active(runs[r]) /\ DOMAIN a = 1..8 /\ Ordered(r, runs[r], orders)
  BY <1>1, DoneFields, OpsLengths DEF Fits
<1>3. a[1].ok /\ a[2].ok /\ Cardinality(Effects({a[1], a[2]})) = 2
  <2> HIDE DEF a
  <2>1. ContractChecks(a).duplicate_receipt_accepted_as_two_orders
    BY DEF a
  <2> DEFINE two == Cardinality(Effects({a[1], a[2]})) = 2
  <2>2. ContractChecks(a).duplicate_receipt_accepted_as_two_orders = (a[1].ok /\ a[2].ok /\ two)
    BY DEF ContractChecks
  <2> HIDE DEF two
  <2>3. a[1].ok /\ a[2].ok /\ two
    BY <2>1, <2>2
  <2> QED BY <2>3 DEF two
<1>4. a[1].id # a[2].id
  BY <1>3, TwoEffects
<1>5. \A n \in {1, 2} : /\ a[n].id \in DOMAIN orders
                        /\ orders[a[n].id].request.owner = r
                        /\ orders[a[n].id].request.receipt = Fresh(<<r, 1>>, "contract")
  <2>1. \A n \in {1, 2} : n \in DOMAIN a /\ a[n].ok
    BY <1>2, <1>3
  <2> QED BY <1>1, <1>2, <2>1 DEF Ordered
<1> QED BY <1>4, <1>5

LEMMA LabReport ==
    ASSUME AccountInv, NEW r \in DOMAIN runs, Done(r, "lab")
    PROVE  runs[r].answers[2].count = 2 /\ runs[r].answers[4].count = 1
<1>1. runs[r].at = "done" /\ runs[r].command.name = "lab" /\ "lab" \in Commands
  BY DEF Done, Commands
<1>2. Active(runs[r]) /\ Len(runs[r].answers) = 4 /\ Served(r, runs[r], labs[r])
  BY <1>1, DoneFields, OpsLengths DEF Fits
<1> QED BY <1>1, <1>2 DEF Served

LEMMA TrueFollows ==
    ASSUME AccountInv
    PROVE  ReportsAreTrue
<1> SUFFICES ASSUME NEW r \in DOMAIN runs
             PROVE  LET a == runs[r].answers IN
        /\ Done(r, "live") /\ LiveChecks(a).one_effect => Cardinality(Own(r, Labels)) = 1
        /\ Done(r, "header") /\ HeaderChecks(a).one_refund_effect => Cardinality(Own(r, Labels)) = 1
        /\ Done(r, "close") =>
             LET checks == CloseChecks(runs[r].command, a, plan.price) IN
             /\ checks.one_refund_effect \/ checks.retry_safely_identified
                   => Cardinality(Own(r, Labels)) = 1
             /\ checks.payment_fully_refunded => Closed(r)
        /\ Done(r, "matrix") =>
             LET checks == MatrixChecks(a, plan.price) IN
             /\ checks.below_minimum_rejected => Own(r, {"below"}) = {}
             /\ checks.fractional_subunit_rejected /\ a[3].why # {"error"}
                   => Own(r, {"fraction"}) = {}
             /\ checks.over_refund_rejected => Own(r, {"over"}) = {}
             /\ checks.header_changed_body_rejected => Cardinality(Own(r, {"mismatch"})) = 1
             /\ checks.receipt_duplicate_prevented => Cardinality(Own(r, {"receipt"})) = 1
             /\ checks.unkeyed_retry_created_two_effects => Cardinality(Own(r, {"unkeyed"})) = 2
             /\ checks.idempotent_full_refund_one_effect => Cardinality(Own(r, {"final"})) = 1
             /\ checks.payment_fully_refunded => Closed(r)
        /\ Done(r, "ledger") /\ LedgerChecks(a, plan.price).payment_fully_refunded => Closed(r)
        /\ Done(r, "dust") =>
             LET checks == DustChecks(a, plan.price) IN
             /\ checks.fractional_request_accepted_and_truncated
                   => Cardinality(Own(r, {"coerced"})) = 1
             /\ checks.explicit_one_subunit_refund_rejected => Own(r, {"one"}) = {}
             /\ checks.header_omitted_amount_rejected /\ checks.receipt_retry_duplicate_prevented
                   => Cardinality(Own(r, {"dust"})) = 1
             /\ checks.receipt_omitted_amount_closed_residual => Closed(r)
        /\ Done(r, "contract") /\ ContractChecks(a).duplicate_receipt_accepted_as_two_orders =>
             \E i, j \in DOMAIN orders :
                 /\ i # j
                 /\ orders[i].request.owner = r /\ orders[j].request.owner = r
                 /\ orders[i].request.receipt = orders[j].request.receipt
        /\ Done(r, "lab") => a[2].count = 2 /\ a[4].count = 1
  BY DEF ReportsAreTrue
<1> QED BY TwiceReports, CloseReport, MatrixReport, LedgerReport, DustReport, ContractReport, LabReport

\* Every variable keeps its type, no ledger holds more than its payment, and no
\* process is beyond the end of its script.
THEOREM TestModeTypeCorrect == Spec => []TypeOK
BY AccountInvariant, TypeFollows, PTL

\* live-refund, live-refund-e2e and live-refund-close make one refund at most,
\* whatever is lost, executed late or asked for by others.
THEOREM RefundersMakeOneEffect == Spec => []OneEffectPerRun
BY AccountInvariant, OneEffectFollows, PTL

\* The refund that is to close a payment closes it, although the rest it asks
\* for was read some requests earlier.
THEOREM ClosingRefundsClose == Spec => []CloseCloses
BY AccountInvariant, CloseFollows, PTL

\* Through the session file only payments of fixture links are refunded.
THEOREM SessionsNameFixtures == Spec => []OnlyFixturesAreRefunded
BY AccountInvariant, FixturesFollow, PTL

\* Each conclusion a report draws on effects or on the rest of a payment is so,
\* whatever was executed behind an error status: for a fractional refund that
\* was rejected, when the rejection was not one.
THEOREM ReportsTellTheTruth == Spec => []ReportsAreTrue
BY AccountInvariant, TrueFollows, PTL

\* The refunds a report lists were made by its run; one that it misses was asked
\* for by a request that was answered with an error status.
THEOREM ReportsTellAll == Spec => []ReportsAreComplete
BY AccountInvariant, CompleteFollows, PTL

\* What the matrix credits to a boundary or to an identity has no other cause,
\* on a captured payment that nobody else refunds meanwhile.
THEOREM MatrixIsolatesCauses == Spec => []RejectionsHaveOneCause
BY AccountInvariant, OneCauseFollows, PTL
=============================================================================

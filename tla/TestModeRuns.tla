---------------------------- MODULE TestModeRuns ----------------------------
(***************************************************************************)
(* The commands of the Python package that act on a Razorpay Test account:  *)
(* live-payment-link, live-refresh, live-refund, live-refund-e2e, -matrix,  *)
(* -close, -ledger, -dust, live-orders and live-expanded-orders.  Each is a *)
(* process that reads the session file, makes its HTTP requests one after   *)
(* the other (TestModeScripts), rewrites the session file from the copy it  *)
(* read, and reports.  Several may run at once, on one payment.  A request  *)
(* may be answered with an error status, which most commands record as a    *)
(* rejection, and an answer may be lost, which ends the process; neither    *)
(* says that Razorpay did not, or will not, execute the request.            *)
(***************************************************************************)
EXTENDS TestModeScripts

CONSTANTS
    Runs,       \* processes
    Plans       \* what the processes are asked to do

\* A plan gives some runs a command and its arguments; via is "main" for the
\* command line and "call" for a caller of the function.  price is the amount
\* of every payment, customers bounds the payments, faults the lost and failed
\* exchanges, and resolved says whether the session file holds a captured
\* payment at the start.
Command == [name : Commands, via : {"main", "call"}, identity : {"header", "receipt"},
            amount : Nat]
ASSUME PlansAssumption ==
    \A plan \in Plans : /\ plan.price \in Nat \ {0}
                        /\ plan.customers \in Nat \ {0}
                        /\ plan.faults \in Nat
                        /\ plan.resolved \in BOOLEAN
                        /\ \E S \in SUBSET Runs : plan.commands \in [S -> Command]
\* A uuid4 is not the missing identity.
ASSUME NoneAssumption ==
    \A r \in Runs, label \in {"live", "header", "mismatch", "receipt", "final", "close", "dust", "lab"} :
        Fresh(r, label) # None

VARIABLES
    plan,      \* the plan of this behaviour
    session,   \* the session file, None when there is none or it is not whole
    links,     \* how many payment links were made
    payments,  \* the payments of the account, oldest first; link 0 is another shop page
    ledgers,   \* the refunds of each payment
    orders,    \* the orders of the account
    labs,      \* the EffectStore of the fault lab's server, for each run
    late,      \* requests Razorpay may still execute
    runs,      \* the processes
    faults     \* how many exchanges were lost or failed

vars == <<plan, session, links, payments, ledgers, orders, labs, late, runs, faults>>
account == <<links, payments, ledgers, orders, labs>>

\* The session file as create_payment_link_fixture writes it; since is the
\* number of payments older than the link, for its created_at.
Fixture(link, since) ==
    [link |-> link, since |-> since, payment |-> 0, captured |-> FALSE, probes |-> {}]

\* effects holds the key of each effect.
NewLab == [effects |-> <<>>, drop |-> TRUE]

Init ==
    /\ plan \in Plans
    /\ links = IF plan.resolved THEN 1 ELSE 0
    /\ payments = IF plan.resolved THEN <<[link |-> 1, captured |-> TRUE]>> ELSE <<>>
    /\ session = IF plan.resolved
                 THEN [Fixture(1, 0) EXCEPT !.payment = 1, !.captured = TRUE] ELSE None
    /\ ledgers = [p \in 1..plan.customers |-> <<>>]
    /\ orders = <<>>
    /\ labs = [r \in DOMAIN plan.commands |-> NewLab]
    /\ late = {}
    /\ runs = [r \in DOMAIN plan.commands |->
                 [at |-> "new", command |-> plan.commands[r], file |-> None,
                  answers |-> <<>>, rest |-> 0]]
    /\ faults = 0

(***************************************************************************)
(* main and the checks before the first request.                           *)
(***************************************************************************)
\* live-refund-matrix reads args.identity, which its parser does not define;
\* live-refund-close parses --identity and does not pass it on.
Dispatched(c) ==
    IF c.via = "call" THEN {c}
    ELSE IF c.name = "matrix" THEN {}
    ELSE IF c.name = "close" THEN {[c EXCEPT !.identity = "header"]}
    ELSE {c}

OnSession(c) == c.name \notin {"link", "live", "orders", "contract", "lab"}
OnPayment(c) == OnSession(c) /\ c.name # "refresh"

Admitted(c, file) ==
    /\ OnPayment(c) => file.payment # 0
    /\ c.name = "header" => file.captured

Launch(r) ==
    /\ runs[r].at = "new"
    /\ \E c \in Dispatched(runs[r].command) :
         /\ OnSession(c) => session # None
         /\ runs' = [runs EXCEPT ![r].command = c, ![r].file = session,
                                 ![r].at = IF Admitted(c, session) THEN "exchange" ELSE "refused"]
    /\ UNCHANGED <<plan, session, account, late, faults>>

\* An exception nobody handles: no such argument, no such file.
LaunchFails(r) ==
    /\ runs[r].at = "new"
    /\ \A c \in Dispatched(runs[r].command) : OnSession(c) /\ session = None
    /\ runs' = [runs EXCEPT ![r].at = "dead"]
    /\ UNCHANGED <<plan, session, account, late, faults>>

(***************************************************************************)
(* One request and its answer.                                             *)
(***************************************************************************)
ScriptOf(r) == Script(r, runs[r].command, runs[r].rest, plan.price)
Step(r) == ScriptOf(r)[Len(runs[r].answers) + 1]
AtStep(r, ops) == runs[r].at = "exchange" /\ Step(r).op \in ops

\* live takes the payment as an argument, the others from the session.
PaymentOf(r) == IF runs[r].command.name = "live" THEN 1 ELSE runs[r].file.payment

\* Which commands write to the session file at the end.
Saves(c) == c.name \in {"link", "refresh", "header", "matrix", "close", "dust"}

\* Mutant: one request too many.
MutProceed(r, a, rest, ok) ==
    runs' = [runs EXCEPT ![r].answers = Append(@, a), ![r].rest = rest,
                         ![r].at = IF ~ok THEN "refused"
                                   ELSE IF Len(runs[r].answers) < Len(ScriptOf(r)) THEN "exchange" ELSE "done"]

\* The answer a to the current step, after which the command goes on when ok.
Proceed(r, a, rest, ok) ==
    LET last == Len(runs[r].answers) + 1 = Len(ScriptOf(r)) IN
    runs' = [runs EXCEPT ![r].answers = Append(@, a), ![r].rest = rest,
                         ![r].at = IF ~ok THEN "refused"
                                   ELSE IF ~last THEN "exchange"
                                   ELSE IF Saves(runs[r].command) THEN "save" ELSE "done"]

\* live stops at the first refusal, the others record it.
Tolerates(r, a) == a.ok \/ runs[r].command.name # "live"

RefundOutcomes(p, q) ==
    IF p \in DOMAIN payments /\ payments[p].captured
    THEN Outcomes(ledgers[p], plan.price, q)
    ELSE {[ledger |-> ledgers[p], answer |-> Refusal({"uncaptured"})]}

PostRefund(r) ==
    /\ AtStep(r, {"refund"})
    /\ \E o \in RefundOutcomes(PaymentOf(r), Step(r).request) :
         /\ ledgers' = [ledgers EXCEPT ![PaymentOf(r)] = o.ledger]
         /\ Proceed(r, o.answer, runs[r].rest, Tolerates(r, o.answer))
    /\ UNCHANGED <<plan, session, links, payments, orders, labs, late, faults>>

PostOrder(r) ==
    /\ AtStep(r, {"order"})
    /\ \E o \in OrderOutcomes(orders, Step(r).request) :
         /\ orders' = o.ledger
         /\ Proceed(r, o.answer, runs[r].rest, TRUE)
    /\ UNCHANGED <<plan, session, links, payments, ledgers, labs, late, faults>>

\* EffectStore.commit; the server commits, then answers or drops its answer.
Commit(store, key) ==
    IF key # None /\ \E i \in DOMAIN store.effects : store.effects[i] = key
    THEN store.effects ELSE Append(store.effects, key)

PostLab(r) ==
    /\ AtStep(r, {"new_lab", "lab"})
    /\ LET store == IF Step(r).op = "new_lab" THEN NewLab ELSE labs[r]
           key == Step(r).request.key
           effects == Commit(store, key)
           id == CHOOSE i \in DOMAIN effects : effects[i] = key
                     /\ (key = None => i = Len(effects)) IN
         /\ labs' = [labs EXCEPT ![r] = [effects |-> effects, drop |-> FALSE]]
         /\ Proceed(r, [NoAnswer EXCEPT !.ok = ~store.drop, !.id = id, !.count = Len(effects)],
                    0, TRUE)
    /\ UNCHANGED <<plan, session, links, payments, ledgers, orders, late, faults>>

\* GET .../refunds, summed by _sum_refund_amounts; GET /v1/payments/{id} tells
\* the amount refunded.
Reading(p) == [NoAnswer EXCEPT !.ok = TRUE, !.count = Len(ledgers[p]), !.total = Total(ledgers[p])]

\* Mutant: the rest is counted in whole rupees.
MutRest(p) == 100 * ((plan.price - Total(ledgers[p])) \div 100)
Rest(p) == plan.price - Total(ledgers[p])

ListRefunds(r) ==
    /\ AtStep(r, {"list", "relist"})
    /\ LET rest == Rest(PaymentOf(r)) IN
         Proceed(r, Reading(PaymentOf(r)), rest, rest \in Step(r).lo..Step(r).hi)
    /\ UNCHANGED <<plan, session, account, late, faults>>

FetchPayment(r) ==
    /\ AtStep(r, {"payment"})
    /\ Proceed(r, Reading(PaymentOf(r)), runs[r].rest, TRUE)
    /\ UNCHANGED <<plan, session, account, late, faults>>

\* The answer holds the link and, in count, how many payments there were.
CreateLink(r) ==
    /\ AtStep(r, {"create_link"})
    /\ links' = links + 1
    /\ Proceed(r, [NoAnswer EXCEPT !.ok = TRUE, !.id = links + 1, !.count = Len(payments)], 0, TRUE)
    /\ UNCHANGED <<plan, session, payments, ledgers, orders, labs, late, faults>>

FetchLink(r) ==
    /\ AtStep(r, {"link"})
    /\ Proceed(r, [NoAnswer EXCEPT !.ok = TRUE, !.count = Len(payments)], 0, TRUE)
    /\ UNCHANGED <<plan, session, account, late, faults>>

\* The payments embedded in the link, and those of any fixture made since a
\* minute before the session; the newest is taken, captured or not.
Embedded(r) ==
    {p \in 1..runs[r].answers[1].count : payments[p].link = runs[r].file.link}
\* Mutant: payments are taken without a look at their notes.
MutRecent(r, cutoff) == {p \in DOMAIN payments : p > cutoff}
Recent(r, cutoff) == {p \in DOMAIN payments : p > cutoff /\ payments[p].link # 0}

\* No payment: report that none was found.  Otherwise the answer holds the
\* payment and whether it is captured, for the session.
Resolve(r, candidates) ==
    IF candidates = {}
    THEN runs' = [runs EXCEPT ![r].at = "done", ![r].answers = Append(@, NoAnswer)]
    ELSE LET newest == CHOOSE p \in candidates : \A q \in candidates : q <= p IN
         Proceed(r, [NoAnswer EXCEPT !.id = newest, !.ok = payments[newest].captured], 0, TRUE)

ListPayments(r) ==
    /\ AtStep(r, {"payments"})
    /\ \E cutoff \in 0..runs[r].file.since : Resolve(r, Embedded(r) \cup Recent(r, cutoff))
    /\ UNCHANGED <<plan, session, account, late, faults>>

\* What Razorpay may be executing when the answer to run r is no answer.
Sent(r) == IF AtStep(r, {"refund", "order"})
           THEN {[op |-> Step(r).op, n |-> Len(runs[r].answers) + 1, request |-> Step(r).request,
                  payment |-> IF Step(r).op = "refund" THEN PaymentOf(r) ELSE 0]}
           ELSE {}

\* Nobody tells whether the current request of run r has an effect, or will.
Unsettled(r) ==
    /\ late' = late \cup Sent(r)
    /\ links' \in IF AtStep(r, {"create_link"}) THEN {links, links + 1} ELSE {links}
    /\ UNCHANGED <<payments, ledgers, orders, labs>>

\* An error status: the probes record it, readings raise TestControlPlaneError,
\* except for the last one of the matrix and the list of payments.
FailedAnswer(r) ==
    /\ runs[r].at = "exchange" /\ runs[r].command.name # "lab"
    /\ faults < plan.faults
    /\ faults' = faults + 1
    /\ IF Step(r).op = "payments" THEN Resolve(r, Embedded(r))
       ELSE Proceed(r, Refusal({"error"}), runs[r].rest,
                    \/ Step(r).op \in {"order", "relist"}
                    \/ Step(r).op = "refund" /\ Tolerates(r, Refusal({"error"})))
    /\ Unsettled(r)
    /\ UNCHANGED <<plan, session>>

\* Mutant: the command takes a lost answer for a refusal.
MutLoseAnswer(r) ==
    /\ AtStep(r, {"refund", "order"})
    /\ faults < plan.faults
    /\ faults' = faults + 1
    /\ Unsettled(r)
    /\ Proceed(r, Refusal({"lost"}), runs[r].rest, Tolerates(r, NoAnswer))
    /\ UNCHANGED <<plan, session>>

\* A timeout or a broken connection, which no command catches, or a crash.
LoseAnswer(r) ==
    /\ runs[r].at \in {"exchange", "save", "write"}
    /\ faults < plan.faults
    /\ faults' = faults + 1
    /\ Unsettled(r)
    /\ runs' = [runs EXCEPT ![r].at = "dead"]
    /\ UNCHANGED <<plan, session>>

\* What a command writes: the whole session, from the copy read at the start.
Saved(r) ==
    LET c == runs[r].command
        a == runs[r].answers
        file == runs[r].file IN
    CASE c.name = "link" -> Fixture(a[1].id, a[1].count)
      [] c.name = "refresh" -> [file EXCEPT !.payment = a[2].id, !.captured = a[2].ok]
      [] OTHER -> [file EXCEPT !.probes = @ \cup {r}]

\* write_text empties the file when it opens it.
Truncate(r) ==
    /\ runs[r].at = "save"
    /\ session' = None
    /\ runs' = [runs EXCEPT ![r].at = "write"]
    /\ UNCHANGED <<plan, account, late, faults>>

\* Where another run has written since, the end of its longer text may be left.
Save(r) ==
    /\ runs[r].at = "write"
    /\ session' \in IF session = None THEN {Saved(r)} ELSE {Saved(r), None}
    /\ runs' = [runs EXCEPT ![r].at = "done"]
    /\ UNCHANGED <<plan, account, late, faults>>

(***************************************************************************)
(* Razorpay and its customers.                                             *)
(***************************************************************************)
\* Razorpay executes a request after the answer, or after nobody waits for one.
ExecuteLate ==
    /\ \E x \in late :
         /\ late' = late \ {x}
         /\ \/ /\ x.op = "refund"
               /\ \E o \in RefundOutcomes(x.payment, x.request) :
                    ledgers' = [ledgers EXCEPT ![x.payment] = o.ledger]
               /\ UNCHANGED orders
            \/ /\ x.op = "order"
               /\ \E o \in OrderOutcomes(orders, x.request) : orders' = o.ledger
               /\ UNCHANGED ledgers
    /\ UNCHANGED <<plan, session, links, payments, labs, runs, faults>>

\* Somebody pays a link, or something else of the shop.
Pay(link) ==
    /\ Len(payments) < plan.customers
    /\ payments' = Append(payments, [link |-> link, captured |-> FALSE])
    /\ UNCHANGED <<plan, session, links, ledgers, orders, labs, late, runs, faults>>

Capture(p) ==
    /\ ~payments[p].captured
    /\ payments' = [payments EXCEPT ![p].captured = TRUE]
    /\ UNCHANGED <<plan, session, links, ledgers, orders, labs, late, runs, faults>>

RunNext(r) ==
    \/ Launch(r) \/ LaunchFails(r)
    \/ PostRefund(r) \/ PostOrder(r) \/ PostLab(r)
    \/ ListRefunds(r) \/ FetchPayment(r) \/ CreateLink(r) \/ FetchLink(r) \/ ListPayments(r)
    \/ FailedAnswer(r) \/ LoseAnswer(r) \/ Truncate(r) \/ Save(r)

Next ==
    \/ \E r \in DOMAIN runs : RunNext(r)
    \/ ExecuteLate
    \/ \E link \in 0..links : Pay(link)
    \/ \E p \in DOMAIN payments : Capture(p)

Spec == Init /\ [][Next]_vars

(***************************************************************************)
(* Properties.                                                             *)
(***************************************************************************)
\* The places of the refunds of run r with one of these labels.
Own(r, labels) ==
    {x \in UNION {{p} \X DOMAIN ledgers[p] : p \in DOMAIN ledgers} :
        LET q == ledgers[x[1]][x[2]].request IN q.owner = r /\ q.label \in labels}

Labels == {"live", "header", "below", "fraction", "over", "mismatch", "receipt", "unkeyed",
           "final", "close", "coerced", "one", "dust"}

Purposes == Labels \cup {"boundary", "contract", "lab"}

Causes == {"conflict", "duplicate", "minimum", "balance", "uncaptured", "exact", "fraction",
           "omitted", "error"}

Identity == {None} \cup (Runs \X Purposes) \cup ((Runs \X Nat) \X Purposes)

RequestType == [owner : Runs, label : Purposes, form : {"exact", "fraction", "omitted"},
                amount : Nat, key : Identity, receipt : Identity]

Entry == [request : RequestType, amount : Nat]

Answer == [ok : BOOLEAN, id : Nat, amount : Nat, count : Nat, total : Nat, why : SUBSET Causes]

Session == [link : Nat, since : Nat, payment : Nat, captured : BOOLEAN, probes : SUBSET Runs]

Points == {"new", "exchange", "save", "write", "done", "refused", "dead"}

Process == [at : Points, command : Command, file : {None} \cup Session,
            answers : Seq(Answer), rest : Nat]

Lab == [effects : Seq(Identity), drop : BOOLEAN]

Underway == [op : {"refund", "order"}, n : Nat, request : RequestType, payment : Nat]

\* Every variable keeps its type; no payment is refunded beyond its amount, and
\* no run is beyond the end of its script.
TypeOK ==
    /\ plan \in Plans
    /\ session \in {None} \cup Session
    /\ links \in Nat
    /\ payments \in Seq([link : 0..links, captured : BOOLEAN])
    /\ Len(payments) <= plan.customers
    /\ ledgers \in [1..plan.customers -> Seq(Entry)]
    /\ \A p \in DOMAIN ledgers : Total(ledgers[p]) <= plan.price
    /\ orders \in Seq(Entry)
    /\ labs \in [DOMAIN runs -> Lab]
    /\ late \subseteq Underway
    /\ DOMAIN runs = DOMAIN plan.commands
    /\ \A r \in DOMAIN runs :
         /\ runs[r] \in Process
         /\ runs[r].at = "exchange" => Len(runs[r].answers) < Len(ScriptOf(r))
    /\ faults \in 0..plan.faults

\* live-refund, live-refund-e2e and live-refund-close send their refund twice
\* and make one at most, with a rival, failed and lost answers and late executions.
OneEffectPerRun ==
    \A r \in DOMAIN runs :
        runs[r].command.name \in {"live", "header", "close"} => Cardinality(Own(r, Labels)) <= 1

Done(r, name) == runs[r].at = "done" /\ runs[r].command.name = name
Closed(r) == Total(ledgers[PaymentOf(r)]) = plan.price

\* What a report claims holds of the account, whoever else used it and whatever
\* Razorpay executed behind an error status: effects it calls one are one,
\* rejected ones are none, and a payment it calls fully refunded is.  One claim
\* needs more than the report says: a fractional refund that was rejected with
\* an error status may have been executed.
ReportsAreTrue ==
    \A r \in DOMAIN runs : LET a == runs[r].answers IN
        /\ Done(r, "live") /\ LiveChecks(a).one_effect => Cardinality(Own(r, Labels)) = 1
        /\ Done(r, "header") /\ HeaderChecks(a).one_refund_effect => Cardinality(Own(r, Labels)) = 1
        /\ Done(r, "close") =>
             LET checks == CloseChecks(runs[r].command, a, plan.price) IN
             /\ checks.one_refund_effect \/ checks.retry_safely_identified
                   => Cardinality(Own(r, Labels)) = 1
             /\ checks.payment_fully_refunded => Closed(r)
        /\ Done(r, "matrix") =>
             LET checks == MatrixChecks(a, plan.price) IN
             /\ checks.below_minimum_rejected => Own(r, {"below"}) = {}
             /\ checks.fractional_subunit_rejected /\ a[3].why # {"error"}
                   => Own(r, {"fraction"}) = {}
             /\ checks.over_refund_rejected => Own(r, {"over"}) = {}
             /\ checks.header_changed_body_rejected => Cardinality(Own(r, {"mismatch"})) = 1
             /\ checks.receipt_duplicate_prevented => Cardinality(Own(r, {"receipt"})) = 1
             /\ checks.unkeyed_retry_created_two_effects => Cardinality(Own(r, {"unkeyed"})) = 2
             /\ checks.idempotent_full_refund_one_effect => Cardinality(Own(r, {"final"})) = 1
             /\ checks.payment_fully_refunded => Closed(r)
        /\ Done(r, "ledger") /\ LedgerChecks(a, plan.price).payment_fully_refunded => Closed(r)
        /\ Done(r, "dust") =>
             LET checks == DustChecks(a, plan.price) IN
             /\ checks.fractional_request_accepted_and_truncated
                   => Cardinality(Own(r, {"coerced"})) = 1
             /\ checks.explicit_one_subunit_refund_rejected => Own(r, {"one"}) = {}
             /\ checks.header_omitted_amount_rejected /\ checks.receipt_retry_duplicate_prevented
                   => Cardinality(Own(r, {"dust"})) = 1
             /\ checks.receipt_omitted_amount_closed_residual => Closed(r)
        /\ Done(r, "contract") /\ ContractChecks(a).duplicate_receipt_accepted_as_two_orders =>
             \E i, j \in DOMAIN orders :
                 /\ i # j
                 /\ orders[i].request.owner = r /\ orders[j].request.owner = r
                 /\ orders[i].request.receipt = orders[j].request.receipt
        /\ Done(r, "lab") => a[2].count = 2 /\ a[4].count = 1

\* The refunds a finished report lists were made by its run, and the ones it
\* misses were asked for by a request that was answered with an error status.
Told(r) ==
    Effects({runs[r].answers[n] : n \in {m \in DOMAIN runs[r].answers : ScriptOf(r)[m].op = "refund"}})

ReportsAreComplete ==
    \A r \in DOMAIN runs :
        runs[r].at = "done" /\ OnPayment(runs[r].command) =>
            /\ Told(r) \subseteq {x[2] : x \in Own(r, Labels)}
            /\ \A x \in Own(r, Labels) :
                 x[2] \in Told(r) \/
                     \E n \in DOMAIN runs[r].answers :
                         /\ runs[r].answers[n].why = {"error"}
                         /\ ScriptOf(r)[n].op = "refund"
                         /\ ScriptOf(r)[n].request.label = ledgers[x[1]][x[2]].request.label

\* A refund that was to close a payment did: the rest it was computed from was
\* read some requests earlier, and another run may have refunded in between.
CloseCloses ==
    \A p \in DOMAIN ledgers : \A i \in DOMAIN ledgers[p] :
        ledgers[p][i].request.label \in {"close", "final"} => Total(ledgers[p]) = plan.price

\* Nobody else refunded the payment since the first reading of run r.
Undisturbed(r) ==
    LET refunds == ledgers[PaymentOf(r)] IN
    \A i \in DOMAIN refunds :
        i > runs[r].answers[1].count => refunds[i].request.owner = r

\* The room the matrix demands is enough for its conclusions on a captured
\* payment: a rejection it credits to a boundary or an identity has no other
\* cause, such as too small a rest.
RejectionsHaveOneCause ==
    \A r \in DOMAIN runs :
        LET a == runs[r].answers
            caused(n, why) == a[n].why \in {{why}, {"error"}} IN
        Done(r, "matrix") /\ runs[r].file.captured /\ Undisturbed(r) =>
            LET checks == MatrixChecks(a, plan.price) IN
            /\ checks.header_changed_body_rejected => caused(6, "conflict")
            /\ checks.receipt_duplicate_prevented => caused(8, "duplicate")
            /\ checks.over_refund_rejected => caused(4, "balance")

\* Only payments of a link made by live-payment-link are refunded through the
\* session, whatever else is paid in the account.
OnlyFixturesAreRefunded ==
    \A p \in DOMAIN ledgers : \A i \in DOMAIN ledgers[p] :
        runs[ledgers[p][i].request.owner].command.name # "live" => payments[p].link # 0

-----------------------------------------------------------------------------
(* What the reports and the command line say and the code does not do:      *)
(* false, and described in the README.                                      *)

\* The refunds a finished report lists are all its run made, and a fractional
\* refund it calls rejected is none: not so behind an error status.
ReportsMissNothing ==
    \A r \in DOMAIN runs :
        runs[r].at = "done" /\ OnPayment(runs[r].command) =>
            {x[2] : x \in Own(r, Labels)} = Told(r)
RejectionsAreFinal ==
    \A r \in DOMAIN runs :
        Done(r, "matrix") /\ MatrixChecks(runs[r].answers, plan.price).fractional_subunit_rejected
            => Own(r, {"fraction"}) = {}

\* The help of the commands: live-refund-matrix compares "header, receipt, and
\* unkeyed retry identity"; live-refund-close has --identity {header,receipt}.
CommandIsWhatWasAsked ==
    \A r \in DOMAIN runs :
        runs[r].at \in {"exchange", "save", "write", "done"} =>
            runs[r].command.identity = plan.commands[r].identity

\* The message of the guard: a matrix "requires at least 500 refundable
\* subunits"; one that passed it alone and met no error is not refused later.
RoomIsEnough ==
    \A r \in DOMAIN runs :
        /\ runs[r].command.name = "matrix"
        /\ Len(runs[r].answers) > 1
        /\ faults = 0
        /\ Undisturbed(r)
        => runs[r].at # "refused"

\* The message of the guard: "private session has no captured Test payment";
\* the guard looks for a payment, and all that the matrix concludes from a
\* rejection holds of a payment that is not captured.
OnlyCapturedAreProbed ==
    \A r \in DOMAIN runs :
        runs[r].at \in {"exchange", "save", "write", "done"} /\ OnPayment(runs[r].command)
            => runs[r].file.captured
=============================================================================

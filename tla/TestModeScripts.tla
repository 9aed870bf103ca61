--------------------------- MODULE TestModeScripts ---------------------------
(***************************************************************************)
(* What each command of live_e2e.py and live.py sends to Razorpay Test Mode *)
(* and what its report concludes from the answers.  A script is the         *)
(* sequence of the HTTP requests of a command that is not stopped by an     *)
(* error; rest is what the command last found left to refund.              *)
(***************************************************************************)
EXTENDS TestProvider, FiniteSets

Commands == {"link", "refresh", "live", "header", "matrix", "close", "ledger", "dust",
             "orders", "contract", "lab"}

(***************************************************************************)
(* Steps of a script.                                                      *)
(***************************************************************************)
Post(op, request) == [op |-> op, request |-> request, lo |-> 0, hi |-> 0]
Get(op) == Post(op, None)

\* GET .../refunds; the command goes on when the rest is between lo and hi.
List(lo, hi) == [op |-> "list", request |-> None, lo |-> lo, hi |-> hi]

\* The same, but an error stops nothing.
Relist(price) == [List(0, price) EXCEPT !.op = "relist"]

Refund(r, label, form, amount, key, receipt) ==
    Post("refund", Request(r, label, form, amount, key, receipt))
Order(r, label, form, amount, receipt) ==
    Post("order", Request(r, label, form, amount, None, receipt))

\* A new identity: a uuid4 of run r.
Fresh(r, label) == <<r, label>>

(***************************************************************************)
(* The scripts.  Most send a refund twice: first with its identity, then    *)
(* again with the same.                                                    *)
(***************************************************************************)
LiveScript(r, c) ==
    LET live == Refund(r, "live", "exact", c.amount, Fresh(r, "live"), None) IN << live, live >>

\* Mutant: the key is made inside the loop over the attempts.
MutHeaderScript(r, c) ==
    << Refund(r, "header", "exact", c.amount, Fresh(r, "first"), None),
       Refund(r, "header", "exact", c.amount, Fresh(r, "second"), None) >>
HeaderScript(r, c) ==
    LET header == Refund(r, "header", "exact", c.amount, Fresh(r, "header"), None) IN
    << header, header >>

\* Mutant: the changed body asks for all there was to refund.
MutMatrixScript(r, rest, price) ==
    LET receipted == Refund(r, "receipt", "exact", 100, None, Fresh(r, "receipt"))
        unkeyed == Refund(r, "unkeyed", "exact", 100, None, None)
        final == Refund(r, "final", "exact", rest, Fresh(r, "final"), None) IN
    << List(500, price),
       Refund(r, "below", "exact", 99, None, None),
       Refund(r, "fraction", "fraction", 100, None, None),
       Refund(r, "over", "exact", rest + 1, None, None),
       Refund(r, "mismatch", "exact", 100, Fresh(r, "mismatch"), None),
       Refund(r, "mismatch", "exact", rest, Fresh(r, "mismatch"), None),
       receipted, receipted, unkeyed, unkeyed,
       List(100, price), final, final, Relist(price) >>

\* Boundaries and identities; then a second look at the refunds, and all that
\* is left.
MatrixScript(r, rest, price) ==
    LET receipted == Refund(r, "receipt", "exact", 100, None, Fresh(r, "receipt"))
        unkeyed == Refund(r, "unkeyed", "exact", 100, None, None)
        final == Refund(r, "final", "exact", rest, Fresh(r, "final"), None) IN
    << List(500, price),
       Refund(r, "below", "exact", 99, None, None),
       Refund(r, "fraction", "fraction", 100, None, None),
       Refund(r, "over", "exact", rest + 1, None, None),
       Refund(r, "mismatch", "exact", 100, Fresh(r, "mismatch"), None),
       Refund(r, "mismatch", "exact", 200, Fresh(r, "mismatch"), None),
       receipted, receipted, unkeyed, unkeyed,
       List(100, price), final, final, Relist(price) >>

CloseScript(r, c, rest, price) ==
    LET close == IF c.identity = "header"
                 THEN Refund(r, "close", "exact", rest, Fresh(r, "close"), None)
                 ELSE Refund(r, "close", "exact", rest, None, Fresh(r, "close")) IN
    << List(100, price), close, close, List(0, price) >>

LedgerScript(price) == << Get("payment"), List(0, price) >>

DustScript(r, price) ==
    LET keyed == Refund(r, "dust", "omitted", 0, Fresh(r, "dust"), None)
        receipted == Refund(r, "dust", "omitted", 0, None, Fresh(r, "dust")) IN
    << Get("payment"), List(101, 101), Refund(r, "coerced", "fraction", 100, None, None),
       Get("payment"), List(0, price), Refund(r, "one", "exact", 1, None, None),
       keyed, keyed, receipted, receipted, Get("payment"), List(0, price) >>

\* int(2.01 * 100) is 200; the last order has a fractional amount.
OrdersScript(r) ==
    [n \in 1..8 |-> Order(r, "boundary", IF n = 8 THEN "fraction" ELSE "exact",
                          <<9, 10, 99, 100, 101, 200, 201, 100>>[n], Fresh(<<r, n>>, "boundary"))]

\* The first two orders share a receipt, the last two are fractional.  Amounts
\* of the other currencies are submitted as they stand; the payment link with
\* a fractional amount is a request like the fractional order.
ContractScript(r) ==
    [n \in 1..8 |-> Order(r, "contract", IF n > 6 THEN "fraction" ELSE "exact",
                          <<100, 100, 29500, 295, 29599, 295990, 100, 100>>[n],
                          Fresh(<<r, IF n = 2 THEN 1 ELSE n>>, "contract"))]

\* The fault lab sends its loopback refund to a server that drops its first
\* answer, and once more; then both again to a new server, with a key.
LabScript(r) ==
    << Post("new_lab", Request(r, "lab", "exact", 100, None, None)),
       Post("lab", Request(r, "lab", "exact", 100, None, None)),
       Post("new_lab", Request(r, "lab", "exact", 100, Fresh(r, "lab"), None)),
       Post("lab", Request(r, "lab", "exact", 100, Fresh(r, "lab"), None)) >>

Script(r, c, rest, price) ==
    CASE c.name = "link" -> << Get("create_link") >>
      [] c.name = "refresh" -> << Get("link"), Get("payments") >>
      [] c.name = "live" -> LiveScript(r, c)
      [] c.name = "header" -> HeaderScript(r, c)
      [] c.name = "matrix" -> MatrixScript(r, rest, price)
      [] c.name = "close" -> CloseScript(r, c, rest, price)
      [] c.name = "ledger" -> LedgerScript(price)
      [] c.name = "dust" -> DustScript(r, price)
      [] c.name = "orders" -> OrdersScript(r)
      [] c.name = "contract" -> ContractScript(r)
      [] c.name = "lab" -> LabScript(r)

(***************************************************************************)
(* The "checks" of each report, from the answers a to its script.          *)
(***************************************************************************)
Effects(answers) == {x.id : x \in {y \in answers : y.ok}}
OneEffect(x, y) == Cardinality(Effects({x, y})) = 1

LiveChecks(a) == [one_effect |-> OneEffect(a[1], a[2])]

HeaderChecks(a) ==
    [both_requests_accepted |-> a[1].ok /\ a[2].ok,
     one_refund_effect |-> OneEffect(a[1], a[2])]

MatrixChecks(a, price) ==
    [below_minimum_rejected |-> ~a[2].ok,
     fractional_subunit_rejected |-> ~a[3].ok,
     over_refund_rejected |-> ~a[4].ok,
     header_changed_body_rejected |-> a[5].ok /\ ~a[6].ok,
     receipt_duplicate_prevented |-> a[7].ok /\ ~a[8].ok,
     unkeyed_retry_created_two_effects |->
        a[9].ok /\ a[10].ok /\ Cardinality(Effects({a[9], a[10]})) = 2,
     idempotent_full_refund_one_effect |-> a[12].ok /\ a[13].ok /\ OneEffect(a[12], a[13]),
     payment_fully_refunded |-> a[14].total = price]

\* Mutant: the effects of the payment are counted, whoever made them.
MutCloseChecks(c, a, price) ==
    [first_request_accepted |-> a[2].ok,
     retry_safely_identified |-> FALSE,
     one_refund_effect |-> a[4].count = a[1].count + 1,
     payment_fully_refunded |-> a[4].total = price]
CloseChecks(c, a, price) ==
    [first_request_accepted |-> a[2].ok,
     retry_safely_identified |->
        a[2].ok /\ (\/ c.identity = "header" /\ a[3].ok /\ OneEffect(a[2], a[3])
                    \/ c.identity = "receipt" /\ ~a[3].ok),
     one_refund_effect |-> a[2].ok /\ a[4].count = a[1].count + 1,
     payment_fully_refunded |-> a[4].total = price]

LedgerChecks(a, price) ==
    [payment_fully_refunded |-> a[2].total = price /\ a[1].total = price]

DustChecks(a, price) ==
    [fractional_request_accepted_and_truncated |-> a[3].ok /\ a[3].amount = 100,
     one_subunit_residual_created |-> a[5].total = a[2].total + 100 /\ price - a[5].total = 1
                                      /\ a[4].total < price,
     explicit_one_subunit_refund_rejected |-> ~a[6].ok,
     header_omitted_amount_rejected |-> ~a[7].ok /\ ~a[8].ok,
     receipt_omitted_amount_closed_residual |->
        a[9].ok /\ a[9].amount = 1 /\ a[12].total = price /\ a[11].total = price,
     receipt_retry_duplicate_prevented |-> a[9].ok /\ ~a[10].ok]

OrdersChecks(a) ==
    [documented_minimum_10_mismatch |-> ~a[2].ok,
     observed_minimum_boundary_100 |-> ~a[3].ok /\ a[4].amount = 100 /\ a[5].amount = 101,
     fractional_subunit_rejected |-> ~a[8].ok,
     below_minimum_rejected |-> ~a[1].ok,
     generated_200_reached_server |-> a[6].amount = 200,
     exact_201_control_reached_server |-> a[7].amount = 201]

ContractChecks(a) ==
    [duplicate_receipt_accepted_as_two_orders |->
        a[1].ok /\ a[2].ok /\ Cardinality(Effects({a[1], a[2]})) = 2,
     generated_jpy_wrong_amount_persisted |-> a[3].amount = 29500 /\ a[4].amount = 295,
     generated_kwd_wrong_amount_persisted |-> a[5].amount = 29599 /\ a[6].amount = 295990,
     orders_reject_fractional_subunits |-> ~a[7].ok,
     payment_links_reject_fractional_subunits |-> ~a[8].ok]
=============================================================================

------------------------------ MODULE Checkout ------------------------------
(***************************************************************************)
(* The quote and checkout path of razorproof-server for one tenant: the    *)
(* handlers create_quote, create_order, verify_payment and fulfill, the    *)
(* two SQLite tables they share (quotes and effects), the evidence they    *)
(* append, and Razorpay as the handlers use it.                            *)
(*                                                                         *)
(* A handler is an async function: everything between two awaits happens   *)
(* in one step, and at every await another handler may run, the client may *)
(* go away (the future is dropped), the process may crash, or the store    *)
(* may return an error.  One action is one await together with the code    *)
(* that runs when it returns.                                              *)
(***************************************************************************)
EXTENDS Naturals, FiniteSets

CONSTANTS
    Handlers,    \* the requests that can be in progress at the same time
    Quotes,      \* quote identifiers
    Intents,     \* values of the X-RazorProof-Intent header
    References,  \* fulfillment references
    Orders,      \* order identifiers Razorpay can hand out (bounds the orders)
    Payments,    \* payment identifiers (bounds the payments)
    Amounts,     \* money values
    Price,       \* the server-computed total of each quote
    None,        \* the absence of a value
    MaxAborts    \* bounds the requests cut short by a crash or a disconnect

Operations == {"create_quote", "create_order", "verify_payment", "fulfill"}

ASSUME PriceAssumption == Price \in [Quotes -> Amounts]
ASSUME NoneAssumption ==
    None \notin Orders \cup Payments \cup References \cup Intents \cup Quotes \cup Operations
ASSUME MaxAbortsAssumption == MaxAborts \in Nat

VARIABLES
    quotes,      \* the quotes table: row of each quote
    expired,     \* the quotes whose expires_at has passed
    effects,     \* the effects table: row of each intent
    evidence,    \* the evidence events appended so far
    wire,        \* the POST /orders sent for each intent and Razorpay's answer
    orders,      \* Razorpay's orders
    payments,    \* Razorpay's payments
    pc,          \* the await each handler is at
    req,         \* what each handler was asked to do
    copy,        \* the Quote value each handler holds
    answer,      \* the provider response each handler holds
    acks,        \* what the 2xx responses promised to clients
    aborts       \* how many requests were cut short

store == <<quotes, expired, effects, evidence>>
razorpay == <<wire, orders, payments>>
handler == <<pc, req, copy, answer>>
vars == <<quotes, expired, effects, evidence, wire, orders, payments,
          pc, req, copy, answer, acks, aborts>>

-----------------------------------------------------------------------------
(* Quotes.  Cancelled and Expired are states of the Rust enum that no      *)
(* handler ever stores: ensure_live changes only the handler's own copy    *)
(* and then returns an error.                                              *)

QuoteStates == {"Absent", "Issued", "OrderBound", "PaymentVerified", "Fulfilled"}

Row == [state     : QuoteStates,
        order     : Orders \cup {None},
        payment   : Payments \cup {None},
        reference : References \cup {None},
        version   : Nat]

AbsentRow == [state |-> "Absent", order |-> None, payment |-> None,
              reference |-> None, version |-> 0]

Issue == [state |-> "Issued", order |-> None, payment |-> None,
          reference |-> None, version |-> 1]

BindOrder(row, o) ==
    [state |-> "OrderBound", order |-> o, payment |-> None,
     reference |-> None, version |-> row.version + 1]

VerifyPayment(row, p) ==
    [state |-> "PaymentVerified", order |-> row.order, payment |-> p,
     reference |-> None, version |-> row.version + 1]

\* The Fulfilled variant keeps the payment and drops the order.
Fulfill(row, r) ==
    [state |-> "Fulfilled", order |-> None, payment |-> row.payment,
     reference |-> r, version |-> row.version + 1]

-----------------------------------------------------------------------------
(* The effect ledger and the answers of POST /orders.                      *)

Created(o) == [kind |-> "created", order |-> o]
Rejected == [kind |-> "rejected", order |-> None]        \* 4xx
ServerError == [kind |-> "server_error", order |-> None]  \* 5xx
NoAnswer == [kind |-> "none", order |-> None]

Answer == [kind : {"none", "created", "rejected", "server_error"},
           order : Orders \cup {None}]

\* One POST /orders: nothing sent yet, on its way, or answered.
NotSent == [state |-> "idle", quote |-> None, answer |-> NoAnswer]
Sent(q) == [state |-> "sent", quote |-> q, answer |-> NoAnswer]
Answered(q, a) == [state |-> "answered", quote |-> q, answer |-> a]

Wire == [state  : {"idle", "sent", "answered"},
         quote  : Quotes \cup {None},
         answer : Answer]

Request == [op        : Operations \cup {None},
            quote     : Quotes \cup {None},
            intent    : Intents \cup {None},
            reference : References \cup {None},
            payment   : Payments \cup {None}]

Ask(op, q, i, r, p) ==
    [op |-> op, quote |-> q, intent |-> i, reference |-> r, payment |-> p]

NoRequest == Ask(None, None, None, None, None)
AskQuote(q) == Ask("create_quote", q, None, None, None)
AskOrder(q, i) == Ask("create_order", q, i, None, None)
AskVerify(q, p) == Ask("verify_payment", q, None, None, p)
AskFulfill(q, i, r) == Ask("fulfill", q, i, r, None)

\* What the canonical body hash of a claim stands for.
Body(r) == [quote |-> r.quote, reference |-> r.reference]

Effect == [status   : {"absent", "pending", "completed", "failed"},
           op       : Operations \cup {None},
           body     : [quote : Quotes \cup {None}, reference : References \cup {None}],
           response : Answer]

NoEffect == [status |-> "absent", op |-> None,
             body |-> [quote |-> None, reference |-> None], response |-> NoAnswer]

PendingEffect(r) == [status |-> "pending", op |-> r.op, body |-> Body(r),
                     response |-> NoAnswer]

Same(r, e) == e.op = r.op /\ e.body = Body(r)

\* Mutants of the claim: a pending row is taken over; a failed row is claimed
\* again; a completed row is refused instead of replayed.
MutClaimTakesPending(e) == e.status \in {"absent", "pending"}
MutClaimTakesFailed(e) == e.status \in {"absent", "failed"}
MutClaimNeverReplays(r, e) == FALSE

\* The five outcomes of Store::claim_effect.
ClaimIsNew(e) == e.status = "absent"
ClaimIsReplay(r, e) == e.status = "completed" /\ Same(r, e)
ClaimIsRefused(r, e) == ~ClaimIsNew(e) /\ ~ClaimIsReplay(r, e)

-----------------------------------------------------------------------------
Transition(q, row) == [kind |-> "StateTransition", quote |-> q, version |-> row.version]
RequestEvent(kind, i) == [kind |-> kind, intent |-> i]

Ack(r, row) == [op |-> r.op, quote |-> r.quote, reference |-> r.reference,
                order |-> row.order, payment |-> row.payment, state |-> row.state]

PaymentRecord == [order : Orders, amount : Amounts, captured : BOOLEAN]
OrderRecord == [quote : Quotes, amount : Amounts, intent : Intents]

ASSUME NoRecordAssumption == None \notin PaymentRecord \cup OrderRecord

Init ==
    /\ quotes = [q \in Quotes |-> AbsentRow]
    /\ expired = {}
    /\ effects = [i \in Intents |-> NoEffect]
    /\ evidence = {}
    /\ wire = [i \in Intents |-> NotSent]
    /\ orders = [o \in Orders |-> None]
    /\ payments = [p \in Payments |-> None]
    /\ pc = [h \in Handlers |-> "idle"]
    /\ req = [h \in Handlers |-> NoRequest]
    /\ copy = [h \in Handlers |-> AbsentRow]
    /\ answer = [h \in Handlers |-> NoAnswer]
    /\ acks = {}
    /\ aborts = 0

-----------------------------------------------------------------------------
(* Steps of a handler.                                                     *)

Goto(h, next) == pc' = [pc EXCEPT ![h] = next]

\* The handler returns, with or without success; its locals are gone.
Finish(h) ==
    /\ Goto(h, "idle")
    /\ req' = [req EXCEPT ![h] = NoRequest]
    /\ copy' = [copy EXCEPT ![h] = AbsentRow]
    /\ answer' = [answer EXCEPT ![h] = NoAnswer]

Start(h, r, row, next) ==
    /\ Goto(h, next)
    /\ req' = [req EXCEPT ![h] = r]
    /\ copy' = [copy EXCEPT ![h] = row]
    /\ UNCHANGED answer

\* create_quote: insert_quote under a fresh identifier.
CreateQuote(h, q) ==
    /\ pc[h] = "idle"
    /\ quotes[q] = AbsentRow
    /\ quotes' = [quotes EXCEPT ![q] = Issue]
    /\ Start(h, AskQuote(q), Issue, "append")
    /\ UNCHANGED <<expired, effects, evidence, razorpay, acks, aborts>>

\* create_order: load_quote, then answer at once for a bound quote, refuse a
\* later state, or go on with the loaded copy.
CreateOrder(h, q, i) ==
    /\ pc[h] = "idle"
    /\ \/ /\ quotes[q].state = "OrderBound"
          /\ acks' = acks \cup {Ack(AskOrder(q, i), quotes[q])}
          /\ UNCHANGED handler
       \/ /\ quotes[q].state = "Issued"
          /\ Start(h, AskOrder(q, i), quotes[q], "claim_order")
          /\ UNCHANGED acks
    /\ UNCHANGED <<store, razorpay, aborts>>

\* execute_guarded: claim_effect for the order.
ClaimOrder(h) ==
    LET r == req[h]
        e == effects[r.intent]
    IN  /\ pc[h] = "claim_order"
        /\ \/ /\ ClaimIsNew(e)
              /\ effects' = [effects EXCEPT ![r.intent] = PendingEffect(r)]
              /\ Goto(h, "accept")
              /\ UNCHANGED <<req, copy, answer>>
           \/ /\ ClaimIsReplay(r, e)
              /\ answer' = [answer EXCEPT ![h] = e.response]
              /\ Goto(h, "bind")
              /\ UNCHANGED <<effects, req, copy>>
           \/ /\ ClaimIsRefused(r, e)
              /\ Finish(h)
              /\ UNCHANGED effects
        /\ UNCHANGED <<quotes, expired, evidence, razorpay, acks, aborts>>

\* execute_guarded: the RequestAccepted event, before anything is sent.
AppendAccepted(h) ==
    /\ pc[h] = "accept"
    /\ evidence' = evidence \cup {RequestEvent("RequestAccepted", req[h].intent)}
    /\ Goto(h, "send")
    /\ UNCHANGED <<quotes, expired, effects, razorpay, req, copy, answer, acks, aborts>>

\* RazorpayClient::execute: a gateway_required write is sent once.
SendOrder(h) ==
    /\ pc[h] = "send"
    /\ wire' = [wire EXCEPT ![req[h].intent] = Sent(req[h].quote)]
    /\ Goto(h, "await")
    /\ UNCHANGED <<store, orders, payments, req, copy, answer, acks, aborts>>

\* Mutant: the response is used before it is stored in the ledger.
MutReceiveAnswer(h) ==
    /\ pc[h] = "await"
    /\ wire[req[h].intent].state = "answered"
    /\ answer' = [answer EXCEPT ![h] = wire[req[h].intent].answer]
    /\ Goto(h, IF wire[req[h].intent].answer = ServerError THEN "fail" ELSE "respond")
    /\ UNCHANGED <<store, razorpay, req, copy, acks, aborts>>

\* The response arrives: 5xx is ambiguous, anything else is an answer.
ReceiveAnswer(h) ==
    /\ pc[h] = "await"
    /\ wire[req[h].intent].state = "answered"
    /\ answer' = [answer EXCEPT ![h] = wire[req[h].intent].answer]
    /\ Goto(h, IF wire[req[h].intent].answer = ServerError THEN "fail" ELSE "complete")
    /\ UNCHANGED <<store, razorpay, req, copy, acks, aborts>>

\* Connection failure or timeout, whatever Razorpay has done or will do.
LoseAnswer(h) ==
    /\ pc[h] = "await"
    /\ Goto(h, "fail")
    /\ UNCHANGED <<store, razorpay, req, copy, answer, acks, aborts>>

\* UPDATE effects SET status = ..., response_json = ...
Resolved(e, status, response) ==
    [status |-> status, op |-> e.op, body |-> e.body, response |-> response]

\* Mutant: a status string claim_effect does not know.
MutResolve(h, status, response) ==
    effects' = [effects EXCEPT ![req[h].intent] = Resolved(@, "complete", response)]

Resolve(h, status, response) ==
    effects' = [effects EXCEPT ![req[h].intent] = Resolved(@, status, response)]

\* fail_effect: only a pending row changes.
FailEffect(h) ==
    /\ pc[h] = "fail"
    /\ \/ /\ effects[req[h].intent].status = "pending"
          /\ Resolve(h, "failed", NoAnswer)
          /\ IF answer[h] = ServerError
               THEN Goto(h, "reject") /\ UNCHANGED <<req, copy, answer>>
               ELSE Finish(h)
       \/ /\ effects[req[h].intent].status # "pending"
          /\ Finish(h)
          /\ UNCHANGED effects
    /\ UNCHANGED <<quotes, expired, evidence, razorpay, acks, aborts>>

AppendRejected(h) ==
    /\ pc[h] = "reject"
    /\ evidence' = evidence \cup {RequestEvent("RequestRejected", req[h].intent)}
    /\ Finish(h)
    /\ UNCHANGED <<quotes, expired, effects, razorpay, acks, aborts>>

\* complete_effect with the response a replay will return.
CompleteEffect(h) ==
    /\ pc[h] = "complete"
    /\ \/ /\ effects[req[h].intent].status = "pending"
          /\ Resolve(h, "completed", answer[h])
          /\ Goto(h, "respond")
          /\ UNCHANGED <<req, copy, answer>>
       \/ /\ effects[req[h].intent].status # "pending"
          /\ Finish(h)
          /\ UNCHANGED effects
    /\ UNCHANGED <<quotes, expired, evidence, razorpay, acks, aborts>>

AppendResponse(h) ==
    /\ pc[h] = "respond"
    /\ evidence' = evidence \cup {RequestEvent("ProviderResponse", req[h].intent)}
    /\ Goto(h, "bind")
    /\ UNCHANGED <<quotes, expired, effects, razorpay, req, copy, answer, acks, aborts>>

\* ensure_provider_success and Quote::bind_order, on the handler's copy.
BindCopy(h) ==
    /\ pc[h] = "bind"
    /\ \/ /\ answer[h].kind = "created"
          /\ req[h].quote \notin expired
          /\ copy' = [copy EXCEPT ![h] = BindOrder(@, answer[h].order)]
          /\ Goto(h, "commit")
          /\ UNCHANGED <<req, answer>>
       \/ /\ \/ answer[h].kind # "created"
             \/ req[h].quote \in expired
          /\ Finish(h)
    /\ UNCHANGED <<store, razorpay, acks, aborts>>

\* verify_payment: load_quote, then the checkout signature Razorpay computed
\* for this payment must be over the order stored in the quote.
StartVerifyPayment(h, q, p) ==
    /\ pc[h] = "idle"
    /\ quotes[q].state = "OrderBound"
    /\ payments[p] # None
    /\ payments[p].order = quotes[q].order
    /\ Start(h, AskVerify(q, p), quotes[q], "fetch_order")
    /\ UNCHANGED <<store, razorpay, acks, aborts>>

FetchOrder(h) ==
    /\ pc[h] = "fetch_order"
    /\ answer' = [answer EXCEPT ![h] = Created(copy[h].order)]
    /\ Goto(h, "fetch_payment")
    /\ UNCHANGED <<store, razorpay, req, copy, acks, aborts>>

\* Mutants: an authorized payment is enough; a part payment is enough.
MutBindingUncaptured(q, order, payment) ==
    /\ payment.order = order
    /\ orders[order].amount = Price[q]
    /\ payment.amount = Price[q]
MutBindingAnyAmount(q, order, payment) ==
    /\ payment.order = order
    /\ orders[order].amount = Price[q]
    /\ payment.captured

\* verify_quote_binding on the fetched order and payment.
QuoteBinding(q, order, payment) ==
    /\ payment.order = order
    /\ orders[order].amount = Price[q]
    /\ payment.amount = Price[q]
    /\ payment.captured

\* fetch_payment returns; the binding check and Quote::verify_payment follow.
FetchPayment(h) ==
    LET binds == QuoteBinding(req[h].quote, answer[h].order, payments[req[h].payment])
    IN  /\ pc[h] = "fetch_payment"
        /\ \/ /\ binds
              /\ req[h].quote \notin expired
              /\ copy' = [copy EXCEPT ![h] = VerifyPayment(@, req[h].payment)]
              /\ Goto(h, "commit")
              /\ UNCHANGED <<req, answer>>
           \/ /\ ~binds \/ req[h].quote \in expired
              /\ Finish(h)
        /\ UNCHANGED <<store, razorpay, acks, aborts>>

\* fulfill: load_quote; a fulfilled quote answers at once (200 only for the
\* same reference), every other state goes on to the claim.
StartFulfill(h, q, i, r) ==
    /\ pc[h] = "idle"
    /\ \/ /\ quotes[q].state = "Fulfilled"
          /\ quotes[q].reference = r
          /\ acks' = acks \cup {Ack(AskFulfill(q, i, r), quotes[q])}
          /\ UNCHANGED handler
       \/ /\ quotes[q].state \notin {"Absent", "Fulfilled"}
          /\ Start(h, AskFulfill(q, i, r), quotes[q], "claim_fulfill")
          /\ UNCHANGED acks
    /\ UNCHANGED <<store, razorpay, aborts>>

\* claim_effect, then Quote::fulfill on the copy for a new claim.
ClaimFulfill(h) ==
    LET r == req[h]
        e == effects[r.intent]
    IN  /\ pc[h] = "claim_fulfill"
        /\ \/ /\ ClaimIsNew(e)
              /\ effects' = [effects EXCEPT ![r.intent] = PendingEffect(r)]
              /\ \/ /\ copy[h].state = "PaymentVerified"
                    /\ copy' = [copy EXCEPT ![h] = Fulfill(@, r.reference)]
                    /\ Goto(h, "commit")
                    /\ UNCHANGED <<req, answer>>
                 \/ /\ copy[h].state # "PaymentVerified"
                    /\ Finish(h)
              /\ UNCHANGED acks
           \/ /\ ClaimIsReplay(r, e)
              /\ acks' = acks \cup {Ack(r, copy[h])}
              /\ Finish(h)
              /\ UNCHANGED effects
           \/ /\ ClaimIsRefused(r, e)
              /\ Finish(h)
              /\ UNCHANGED <<effects, acks>>
        /\ UNCHANGED <<quotes, expired, evidence, razorpay, aborts>>

\* Mutant: UPDATE quotes without "AND version = ?".
MutCommitCopy(h) ==
    /\ pc[h] = "commit"
    /\ quotes' = [quotes EXCEPT ![req[h].quote] = copy[h]]
    /\ Goto(h, IF req[h].op = "fulfill" THEN "settle" ELSE "append")
    /\ UNCHANGED <<req, copy, answer, expired, effects, evidence, razorpay, acks, aborts>>

\* update_quote: compare and swap on the version the copy was loaded with.
CommitCopy(h) ==
    LET q == req[h].quote
    IN  /\ pc[h] = "commit"
        /\ \/ /\ quotes[q].version = copy[h].version - 1
              /\ quotes' = [quotes EXCEPT ![q] = copy[h]]
              /\ Goto(h, IF req[h].op = "fulfill" THEN "settle" ELSE "append")
              /\ UNCHANGED <<req, copy, answer>>
           \/ /\ quotes[q].version # copy[h].version - 1
              /\ Finish(h)
              /\ UNCHANGED quotes
        /\ UNCHANGED <<expired, effects, evidence, razorpay, acks, aborts>>

\* complete_effect of a fulfillment.
SettleFulfill(h) ==
    /\ pc[h] = "settle"
    /\ \/ /\ effects[req[h].intent].status = "pending"
          /\ Resolve(h, "completed", NoAnswer)
          /\ Goto(h, "append")
          /\ UNCHANGED <<req, copy, answer>>
       \/ /\ effects[req[h].intent].status # "pending"
          /\ Finish(h)
          /\ UNCHANGED effects
    /\ UNCHANGED <<quotes, expired, evidence, razorpay, acks, aborts>>

\* append_transition, then the 2xx response.
AppendTransition(h) ==
    /\ pc[h] = "append"
    /\ evidence' = evidence \cup {Transition(req[h].quote, copy[h])}
    /\ acks' = acks \cup {Ack(req[h], copy[h])}
    /\ Finish(h)
    /\ UNCHANGED <<quotes, expired, effects, razorpay, aborts>>

\* A store error, a client that disconnects, or a crash ends the request at
\* the await it is at; what it has committed stays.
Abort(h) ==
    /\ pc[h] # "idle"
    /\ aborts < MaxAborts
    /\ aborts' = aborts + 1
    /\ Finish(h)
    /\ UNCHANGED <<store, razorpay, acks>>

-----------------------------------------------------------------------------
(* The clock, the customer and Razorpay.                                   *)

Expire(q) ==
    /\ quotes[q].state # "Absent"
    /\ q \notin expired
    /\ expired' = expired \cup {q}
    /\ UNCHANGED <<quotes, effects, evidence, razorpay, handler, acks, aborts>>

\* Razorpay creates the order and answers 2xx, or 5xx after having done so.
RazorpayCreates(i, o) ==
    LET q == wire[i].quote
    IN  /\ wire[i].state = "sent"
        /\ orders[o] = None
        /\ orders' = [orders EXCEPT ![o] =
                         [quote |-> q, amount |-> Price[q], intent |-> i]]
        /\ \E a \in {Created(o), ServerError} :
              wire' = [wire EXCEPT ![i] = Answered(q, a)]
        /\ UNCHANGED <<store, payments, handler, acks, aborts>>

RazorpayRefuses(i) ==
    /\ wire[i].state = "sent"
    /\ \E a \in {Rejected, ServerError} :
          wire' = [wire EXCEPT ![i] = Answered(wire[i].quote, a)]
    /\ UNCHANGED <<store, orders, payments, handler, acks, aborts>>

\* The customer pays; Razorpay signs the order and payment identifiers.
Pay(p, o, a) ==
    /\ payments[p] = None
    /\ orders[o] # None
    /\ payments' = [payments EXCEPT ![p] = [order |-> o, amount |-> a, captured |-> FALSE]]
    /\ UNCHANGED <<store, wire, orders, handler, acks, aborts>>

Capture(p) ==
    /\ payments[p] # None
    /\ ~payments[p].captured
    /\ payments' = [payments EXCEPT ![p] = [@ EXCEPT !.captured = TRUE]]
    /\ UNCHANGED <<store, wire, orders, handler, acks, aborts>>

-----------------------------------------------------------------------------
\* The steps a handler takes by itself once it has started.
Progress(h) ==
    \/ ClaimOrder(h)
    \/ AppendAccepted(h)
    \/ SendOrder(h)
    \/ ReceiveAnswer(h)
    \/ LoseAnswer(h)
    \/ FailEffect(h)
    \/ AppendRejected(h)
    \/ CompleteEffect(h)
    \/ AppendResponse(h)
    \/ BindCopy(h)
    \/ FetchOrder(h)
    \/ FetchPayment(h)
    \/ ClaimFulfill(h)
    \/ CommitCopy(h)
    \/ SettleFulfill(h)
    \/ AppendTransition(h)

Arrive(h) ==
    \/ \E q \in Quotes : CreateQuote(h, q)
    \/ \E q \in Quotes, i \in Intents : CreateOrder(h, q, i)
    \/ \E q \in Quotes, p \in Payments : StartVerifyPayment(h, q, p)
    \/ \E q \in Quotes, i \in Intents, r \in References : StartFulfill(h, q, i, r)

Environment ==
    \/ \E q \in Quotes : Expire(q)
    \/ \E i \in Intents, o \in Orders : RazorpayCreates(i, o)
    \/ \E i \in Intents : RazorpayRefuses(i)
    \/ \E p \in Payments, o \in Orders, a \in Amounts : Pay(p, o, a)
    \/ \E p \in Payments : Capture(p)

Next ==
    \/ \E h \in Handlers : Arrive(h) \/ Progress(h) \/ Abort(h)
    \/ Environment

Spec == Init /\ [][Next]_vars

\* tokio keeps polling a handler that has not ended and the HTTP client gives
\* up after 20 seconds; a client that has no order yet repeats its request.
LiveSpec ==
    /\ Spec
    /\ \A h \in Handlers : WF_vars(Progress(h))
    /\ \A q \in Quotes, i \in Intents : SF_vars(\E h \in Handlers : CreateOrder(h, q, i))
-----------------------------------------------------------------------------
(* Correctness.                                                            *)

Points == {"idle", "claim_order", "accept", "send", "await", "fail", "reject",
           "complete", "respond", "bind", "fetch_order", "fetch_payment",
           "claim_fulfill", "commit", "settle", "append"}

EvidenceEvents ==
    [kind : {"StateTransition"}, quote : Quotes, version : Nat] \cup
    [kind : {"RequestAccepted", "RequestRejected", "ProviderResponse"}, intent : Intents]

Acks == [op : Operations, quote : Quotes, reference : References \cup {None},
         order : Orders \cup {None}, payment : Payments \cup {None},
         state : QuoteStates]

\* Every table, message and local variable holds a value of its Rust type.
TypeOK ==
    /\ quotes \in [Quotes -> Row]
    /\ expired \in SUBSET Quotes
    /\ effects \in [Intents -> Effect]
    /\ evidence \in SUBSET EvidenceEvents
    /\ wire \in [Intents -> Wire]
    /\ orders \in [Orders -> OrderRecord \cup {None}]
    /\ payments \in [Payments -> PaymentRecord \cup {None}]
    /\ pc \in [Handlers -> Points]
    /\ req \in [Handlers -> Request]
    /\ copy \in [Handlers -> Row]
    /\ answer \in [Handlers -> Answer]
    /\ acks \in SUBSET Acks
    /\ aborts \in 0..MaxAborts

\* The handler that owns an intent: it has claimed it and not yet resolved it.
Owning(point, r) ==
    \/ point \in {"accept", "send", "await", "fail", "complete", "settle"}
    \/ point = "commit" /\ r.op = "fulfill"

Owns(h, i) == req[h].intent = i /\ Owning(pc[h], req[h])

\* Two requests with the same intent never both execute the effect between
\* claim_effect and complete_effect or fail_effect, however they interleave.
OwnersExclude ==
    \A g, h \in Handlers, i \in Intents : Owns(g, i) /\ Owns(h, i) => g = h

\* One intent makes Razorpay create at most one order, whatever is lost,
\* retried or aborted (the gateway_required policy of create_order).
OneOrderPerIntent ==
    \A o, n \in Orders :
        orders[o] # None /\ orders[n] # None /\ orders[o].intent = orders[n].intent
            => o = n

\* A quote is bound to an order Razorpay created for that quote at its price,
\* so two quotes never share one; and the response that carries the order is
\* in the ledger before the quote is bound (a crash after it is recoverable).
BoundToItsOwnOrder ==
    \A q \in Quotes : quotes[q].order # None =>
        LET o == quotes[q].order
        IN  /\ orders[o] # None
            /\ orders[o].quote = q
            /\ orders[o].amount = Price[q]
            /\ effects[orders[o].intent].status = "completed"
            /\ effects[orders[o].intent].response = Created(o)

\* Goods are released only against money: a verified or fulfilled quote names
\* a captured payment of exactly its price on an order created for it.
PaidInFull ==
    \A q \in Quotes : quotes[q].payment # None =>
        LET p == payments[quotes[q].payment]
        IN  /\ p # None
            /\ p.captured
            /\ p.amount = Price[q]
            /\ orders[p.order] # None
            /\ orders[p.order].quote = q

\* What a 2xx response told a client stays true of the stored quote: the
\* order it was told to pay, the payment it was told was verified, and the
\* reference its goods were released under.
AcksAreKept ==
    \A a \in acks :
        /\ a.op = "fulfill" => /\ quotes[a.quote].state = "Fulfilled"
                               /\ quotes[a.quote].reference = a.reference
        /\ a.op = "verify_payment" => quotes[a.quote].payment = a.payment
        /\ a.op = "create_order" =>
               \/ quotes[a.quote].order = a.order
               \/ /\ quotes[a.quote].state = "Fulfilled"
                  /\ payments[quotes[a.quote].payment].order = a.order

\* A state transition is written to the evidence once, and only after the
\* quote row it reports is stored.
EvidenceIsTruthful ==
    /\ \A e \in evidence :
          e.kind = "StateTransition" => e.version \in 1..quotes[e.quote].version
    /\ \A h \in Handlers :
          pc[h] = "append" => Transition(req[h].quote, copy[h]) \notin evidence

\* A resolved intent is final: no later request, late response or retry
\* changes its status or response, and no intent ever changes its meaning.
KeepsIntents ==
    \A i \in Intents :
        /\ effects[i].status \in {"completed", "failed"} => effects'[i] = effects[i]
        /\ effects[i].status = "pending" =>
              effects'[i].op = effects[i].op /\ effects'[i].body = effects[i].body

IntentsAreFinal == [][KeepsIntents]_vars

\* Where each kind of request can be, and what it carries there.
OrderPoints == {"claim_order", "accept", "send", "await", "fail", "reject",
                "complete", "respond", "bind"}

Fits(point, r) ==
    /\ point # "idle" => r.quote \in Quotes /\ r.op \in Operations
    /\ point \in OrderPoints => r.op = "create_order"
    /\ point \in {"fetch_order", "fetch_payment"} => r.op = "verify_payment"
    /\ point \in {"claim_fulfill", "settle"} => r.op = "fulfill"
    /\ point = "commit" => r.op \in {"create_order", "verify_payment", "fulfill"}
    /\ point # "idle" /\ r.op \in {"create_order", "fulfill"} => r.intent \in Intents
    /\ r.op = "fulfill" => r.reference \in References
    /\ r.op = "verify_payment" => r.payment \in Payments

RequestsFit == \A h \in Handlers : Fits(pc[h], req[h])

\* The ledger, the requests on the wire and Razorpay's orders agree on every
\* intent: an owner's row is pending, nothing is on the wire before the claim
\* or before the owner sends it, and an order exists only once the one request
\* of its intent has been answered.
LedgerMatchesWire ==
    /\ \A h \in Handlers, i \in Intents : Owns(h, i) => effects[i].status = "pending"
    /\ \A i \in Intents : effects[i].status = "absent" => wire[i] = NotSent
    /\ \A h \in Handlers :
          pc[h] \in {"accept", "send"} => wire[req[h].intent] = NotSent
    /\ \A i \in Intents : wire[i].state = "sent" => wire[i].quote \in Quotes
    /\ \A o \in Orders :
          orders[o] # None => wire[orders[o].intent].state = "answered"

\* The inductive invariant behind OwnersExclude and OneOrderPerIntent.
LedgerInv == TypeOK /\ RequestsFit /\ LedgerMatchesWire /\ OwnersExclude /\ OneOrderPerIntent

\* An order that Razorpay created and the ledger recorded is not lost by the
\* requests cut short after that: repeating the same intent binds it, unless
\* another order was bound first or the quote expired.
RecordedOrdersAreBound ==
    \A i \in Intents, q \in Quotes :
        (/\ effects[i].op = "create_order"
         /\ effects[i].body.quote = q
         /\ effects[i].response.kind = "created")
        ~> (quotes[q].state # "Issued" \/ q \in expired)

-----------------------------------------------------------------------------
(* What the documents say and the code does not do.                        *)

\* openapi.yaml: "Create and bind exactly one Razorpay Test Mode order".
OneOrderPerQuote ==
    \A o, n \in Orders :
        orders[o] # None /\ orders[n] # None /\ orders[o].quote = orders[n].quote
            => o = n

\* The message of the refusal: "intent is already in flight".  A pending
\* effect has a request that is going to resolve it.
PendingIsInFlight ==
    \A i \in Intents : effects[i].status = "pending" => \E h \in Handlers : Owns(h, i)

\* openapi.yaml on the 200 of fulfill: "Fulfilled quote".
FulfillReturnsFulfilledQuote ==
    \A a \in acks : a.op = "fulfill" => a.state = "Fulfilled"

\* README.md: "Every state change emits a content hash and a chained event
\* hash".  When no request is in progress each version has its event.
EveryChangeHasEvidence ==
    (\A h \in Handlers : pc[h] = "idle") =>
        \A q \in Quotes : \A v \in 1..quotes[q].version :
            [kind |-> "StateTransition", quote |-> q, version |-> v] \in evidence

-----------------------------------------------------------------------------
(* The abstract specification.                                             *)

Promise == INSTANCE Settlement WITH
    book <- [q \in Quotes |->
               [state |-> quotes[q].state, order |-> quotes[q].order,
                payment |-> quotes[q].payment, reference |-> quotes[q].reference]],
    placed <- [o \in Orders |-> IF orders[o] = None THEN None ELSE orders[o].quote],
    captured <- {[payment |-> p, order |-> payments[p].order, amount |-> payments[p].amount] :
                   p \in {x \in Payments : payments[x] # None /\ payments[x].captured}}

\* The concurrent, crash-prone handlers implement the sequential promise: a
\* stored quote only ever takes the next stage, on the evidence that stage
\* requires, whatever copies of it other handlers hold.
ImplementsSettlement == Promise!SSpec
=============================================================================

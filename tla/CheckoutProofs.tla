--------------------------- MODULE CheckoutProofs ---------------------------
(***************************************************************************)
(* Theorems about Checkout, for any number of handlers, quotes, intents,   *)
(* references, orders, payments and aborted requests: first the types and  *)
(* the effect ledger, then the checkout as an implementation of            *)
(* Settlement.  It binds a quote to an order of its own, releases goods    *)
(* against money, keeps every 2xx true and lets evidence follow the change *)
(* it reports.                                                             *)
(*                                                                         *)
(* The argument of the second part is what a copy knows.  The version of a *)
(* row is its stage, so update_quote succeeds only on the row the copy was *)
(* made of (HandlerKnows), and what the copy adds to it is backed by an    *)
(* order in the ledger or a captured payment (Backed), which are final.    *)
(***************************************************************************)
EXTENDS Checkout, TLAPS

-----------------------------------------------------------------------------
(* The values the actions build have their types.                          *)

LEMMA RowTypes ==
    /\ AbsentRow \in Row
    /\ Issue \in Row
    /\ \A row \in Row, o \in Orders \cup {None} : BindOrder(row, o) \in Row
    /\ \A row \in Row, p \in Payments : VerifyPayment(row, p) \in Row
    /\ \A row \in Row, r \in References : Fulfill(row, r) \in Row
  BY DEF Row, AbsentRow, Issue, BindOrder, VerifyPayment, Fulfill, QuoteStates

LEMMA AnswerTypes ==
    /\ {NoAnswer, Rejected, ServerError} \subseteq Answer
    /\ \A o \in Orders \cup {None} : Created(o) \in Answer
  BY DEF Answer, NoAnswer, Rejected, ServerError, Created

LEMMA WireTypes ==
    /\ NotSent \in Wire
    /\ \A q \in Quotes \cup {None} : Sent(q) \in Wire
    /\ \A q \in Quotes \cup {None}, a \in Answer : Answered(q, a) \in Wire
  BY AnswerTypes DEF Wire, NotSent, Sent, Answered

LEMMA EffectTypes ==
    /\ NoEffect \in Effect
    /\ \A r \in Request :
          r.op \in Operations /\ r.quote \in Quotes => PendingEffect(r) \in Effect
    /\ \A e \in Effect, s \in {"completed", "failed"}, a \in Answer :
          Resolved(e, s, a) \in Effect
    /\ \A e \in Effect : e.response \in Answer
  BY AnswerTypes DEF Effect, NoEffect, PendingEffect, Body, Request, Resolved

LEMMA RequestTypes ==
    /\ NoRequest \in Request
    /\ \A q \in Quotes : AskQuote(q) \in Request
    /\ \A q \in Quotes, i \in Intents : AskOrder(q, i) \in Request
    /\ \A q \in Quotes, p \in Payments : AskVerify(q, p) \in Request
    /\ \A q \in Quotes, i \in Intents, r \in References : AskFulfill(q, i, r) \in Request
  BY DEF Request, NoRequest, Operations, Ask, AskQuote, AskOrder, AskVerify, AskFulfill

LEMMA EventTypes ==
    /\ \A q \in Quotes, row \in Row : Transition(q, row) \in EvidenceEvents
    /\ \A k \in {"RequestAccepted", "RequestRejected", "ProviderResponse"}, i \in Intents :
          RequestEvent(k, i) \in EvidenceEvents
    /\ \A r \in Request, row \in Row :
          r.op \in Operations /\ r.quote \in Quotes => Ack(r, row) \in Acks
  BY DEF EvidenceEvents, Transition, RequestEvent, Acks, Ack, Request, Row

-----------------------------------------------------------------------------
(* The local steps of a handler.                                           *)

LocalsOK ==
    /\ pc \in [Handlers -> Points]
    /\ req \in [Handlers -> Request]
    /\ copy \in [Handlers -> Row]
    /\ answer \in [Handlers -> Answer]

LEMMA FinishLocals ==
    ASSUME LocalsOK, RequestsFit, NEW h \in Handlers, Finish(h)
    PROVE  LocalsOK' /\ RequestsFit'
  <1>1. LocalsOK'
    BY RowTypes, AnswerTypes, RequestTypes DEF LocalsOK, Finish, Goto, Points
  <1>2. Fits("idle", NoRequest)
    BY NoneAssumption DEF Fits, NoRequest, Ask, OrderPoints, Operations
  <1>3. RequestsFit'
    BY <1>2 DEF RequestsFit, Finish, Goto, LocalsOK
  <1> QED BY <1>1, <1>3

LEMMA GotoLocals ==
    ASSUME LocalsOK, RequestsFit, NEW h \in Handlers, NEW next \in Points,
           Goto(h, next), req' = req, copy' = copy, answer' = answer,
           Fits(next, req[h])
    PROVE  LocalsOK' /\ RequestsFit'
  BY DEF LocalsOK, RequestsFit, Goto

LEMMA StartLocals ==
    ASSUME LocalsOK, RequestsFit, NEW h \in Handlers, NEW next \in Points,
           NEW r \in Request, NEW row \in Row, Start(h, r, row, next), Fits(next, r)
    PROVE  LocalsOK' /\ RequestsFit'
  BY DEF LocalsOK, RequestsFit, Start, Goto

LEMMA RequestFits ==
    /\ \A q \in Quotes : Fits("append", AskQuote(q))
    /\ \A q \in Quotes, i \in Intents : Fits("claim_order", AskOrder(q, i))
    /\ \A q \in Quotes, p \in Payments : Fits("fetch_order", AskVerify(q, p))
    /\ \A q \in Quotes, i \in Intents, r \in References :
          Fits("claim_fulfill", AskFulfill(q, i, r))
  BY DEF Fits, OrderPoints, Operations, Ask, AskQuote, AskOrder, AskVerify, AskFulfill

-----------------------------------------------------------------------------
(* Type correctness.  The tables and messages are well typed because the   *)
(* requests fit the await their handler is at.                             *)

SentFits == \A i \in Intents : wire[i].state = "sent" => wire[i].quote \in Quotes

TypeInv == TypeOK /\ RequestsFit /\ SentFits

LEMMA TypeInit == Init => TypeInv
  <1> SUFFICES ASSUME Init PROVE TypeInv
    OBVIOUS
  <1>1. TypeOK
    BY RowTypes, AnswerTypes, WireTypes, EffectTypes, RequestTypes, MaxAbortsAssumption
    DEF Init, TypeOK, Points
  <1>2. RequestsFit
    BY NoneAssumption DEF Init, RequestsFit, Fits, NoRequest, Ask, OrderPoints, Operations
  <1>3. SentFits
    BY DEF Init, SentFits, NotSent
  <1> QED BY <1>1, <1>2, <1>3 DEF TypeInv

LEMMA ArriveTypes ==
    ASSUME TypeInv, NEW h \in Handlers, Arrive(h)
    PROVE  TypeInv'
  <1> USE DEF TypeInv, store, razorpay, handler
  <1>0. LocalsOK
    BY DEF TypeOK, LocalsOK
  <1>1. ASSUME NEW q \in Quotes, CreateQuote(h, q) PROVE TypeInv'
    <2>1. LocalsOK' /\ RequestsFit'
      BY <1>0, <1>1, StartLocals, RowTypes, RequestTypes, RequestFits DEF CreateQuote, Points
    <2> QED BY <1>1, <2>1, RowTypes DEF CreateQuote, TypeOK, LocalsOK, SentFits
  <1>2. ASSUME NEW q \in Quotes, NEW i \in Intents, CreateOrder(h, q, i) PROVE TypeInv'
    <2>1. CASE quotes[q].state = "OrderBound" /\ UNCHANGED handler
      <3>1. Ack(AskOrder(q, i), quotes[q]) \in Acks
        BY EventTypes, RequestTypes DEF TypeOK, AskOrder, Ask, Operations
      <3> QED BY <1>2, <2>1, <3>1 DEF CreateOrder, TypeOK, SentFits, RequestsFit, Start
    <2>2. CASE Start(h, AskOrder(q, i), quotes[q], "claim_order") /\ UNCHANGED acks
      <3>1. LocalsOK' /\ RequestsFit'
        BY <1>0, <2>2, StartLocals, RequestTypes, RequestFits DEF TypeOK, Points
      <3> QED BY <1>2, <2>2, <3>1 DEF CreateOrder, TypeOK, LocalsOK, SentFits
    <2> QED BY <1>2, <2>1, <2>2 DEF CreateOrder
  <1>3. ASSUME NEW q \in Quotes, NEW p \in Payments, StartVerifyPayment(h, q, p) PROVE TypeInv'
    <2>1. LocalsOK' /\ RequestsFit'
      BY <1>0, <1>3, StartLocals, RequestTypes, RequestFits
      DEF StartVerifyPayment, TypeOK, Points
    <2> QED BY <1>3, <2>1 DEF StartVerifyPayment, TypeOK, LocalsOK, SentFits
  <1>4. ASSUME NEW q \in Quotes, NEW i \in Intents, NEW r \in References,
               StartFulfill(h, q, i, r)
        PROVE  TypeInv'
    <2>1. CASE UNCHANGED handler /\ acks' = acks \cup {Ack(AskFulfill(q, i, r), quotes[q])}
      <3>1. Ack(AskFulfill(q, i, r), quotes[q]) \in Acks
        BY EventTypes, RequestTypes DEF TypeOK, AskFulfill, Ask, Operations
      <3> QED BY <1>4, <2>1, <3>1 DEF StartFulfill, TypeOK, SentFits, RequestsFit
    <2>2. CASE Start(h, AskFulfill(q, i, r), quotes[q], "claim_fulfill") /\ UNCHANGED acks
      <3>1. LocalsOK' /\ RequestsFit'
        BY <1>0, <2>2, StartLocals, RequestTypes, RequestFits DEF TypeOK, Points
      <3> QED BY <1>4, <2>2, <3>1 DEF StartFulfill, TypeOK, LocalsOK, SentFits
    <2> QED BY <1>4, <2>1, <2>2 DEF StartFulfill
  <1> QED BY <1>1, <1>2, <1>3, <1>4 DEF Arrive

LEMMA ProgressTypes ==
    ASSUME TypeInv, NEW h \in Handlers, Progress(h)
    PROVE  TypeInv'
  <1> USE DEF TypeInv, store, razorpay, handler
  <1>0. LocalsOK
    BY DEF TypeOK, LocalsOK
  <1>1. Fits(pc[h], req[h])
    BY DEF RequestsFit
  <1> DEFINE Stay(next) == Goto(h, next) /\ UNCHANGED <<req, copy, answer>>
  <1>2. ASSUME NEW next \in Points, Stay(next), Fits(next, req[h])
        PROVE  LocalsOK' /\ RequestsFit'
    BY <1>0, <1>2, GotoLocals
  <1>3. ASSUME NEW next \in Points, NEW a \in Answer, Goto(h, next),
               answer' = [answer EXCEPT ![h] = a], UNCHANGED <<req, copy>>,
               Fits(next, req[h])
        PROVE  LocalsOK' /\ RequestsFit'
    BY <1>0, <1>3 DEF LocalsOK, RequestsFit, Goto
  <1>4. ASSUME NEW next \in Points, NEW row \in Row, Goto(h, next),
               copy' = [copy EXCEPT ![h] = row], UNCHANGED <<req, answer>>,
               Fits(next, req[h])
        PROVE  LocalsOK' /\ RequestsFit'
    BY <1>0, <1>4 DEF LocalsOK, RequestsFit, Goto
  <1>5. ASSUME NEW s \in {"completed", "failed"}, NEW a \in Answer, Resolve(h, s, a)
        PROVE  effects' \in [Intents -> Effect]
    BY <1>5, EffectTypes DEF TypeOK, Resolve
  <1>6. ASSUME pc[h] # "idle" PROVE Ack(req[h], copy[h]) \in Acks
    BY <1>1, <1>6, EventTypes DEF TypeOK, Fits
  <1>11. ASSUME ClaimOrder(h) PROVE TypeInv'
    <2>1. Fits("accept", req[h]) /\ Fits("bind", req[h]) /\ req[h].intent \in Intents
          /\ PendingEffect(req[h]) \in Effect
      BY <1>1, <1>11, EffectTypes DEF ClaimOrder, Fits, OrderPoints, TypeOK, Operations
    <2>2. LocalsOK' /\ RequestsFit'
      BY <1>0, <1>2, <1>3, <1>11, <2>1, FinishLocals, EffectTypes
      DEF ClaimOrder, Points, TypeOK
    <2>3. effects' \in [Intents -> Effect]
      BY <1>11, <2>1 DEF ClaimOrder, TypeOK
    <2> QED BY <1>11, <2>2, <2>3 DEF ClaimOrder, TypeOK, LocalsOK, SentFits
  <1>12. ASSUME AppendAccepted(h) PROVE TypeInv'
    <2>1. Fits("send", req[h]) /\ req[h].intent \in Intents
      BY <1>1, <1>12 DEF AppendAccepted, Fits, OrderPoints
    <2>2. LocalsOK' /\ RequestsFit'
      BY <1>2, <1>12, <2>1 DEF AppendAccepted, Points
    <2> QED BY <1>12, <2>1, <2>2, EventTypes DEF AppendAccepted, TypeOK, LocalsOK, SentFits
  <1>13. ASSUME SendOrder(h) PROVE TypeInv'
    <2>1. Fits("await", req[h]) /\ req[h].quote \in Quotes
      BY <1>1, <1>13 DEF SendOrder, Fits, OrderPoints
    <2>2. LocalsOK' /\ RequestsFit'
      BY <1>2, <1>13, <2>1 DEF SendOrder, Points
    <2>3. wire' \in [Intents -> Wire] /\ SentFits'
      BY <1>13, <2>1, WireTypes DEF SendOrder, TypeOK, SentFits, Sent
    <2> QED BY <1>13, <2>2, <2>3 DEF SendOrder, TypeOK, LocalsOK
  <1>14. ASSUME ReceiveAnswer(h) PROVE TypeInv'
    <2>1. Fits("fail", req[h]) /\ Fits("complete", req[h]) /\ req[h].intent \in Intents
      BY <1>1, <1>14 DEF ReceiveAnswer, Fits, OrderPoints, Operations
    <2>2. wire[req[h].intent].answer \in Answer
      BY <2>1 DEF TypeOK, Wire
    <2>3. LocalsOK' /\ RequestsFit'
      BY <1>3, <1>14, <2>1, <2>2 DEF ReceiveAnswer, Points
    <2> QED BY <1>14, <2>3 DEF ReceiveAnswer, TypeOK, LocalsOK, SentFits
  <1>15. ASSUME LoseAnswer(h) PROVE TypeInv'
    <2>1. Fits("fail", req[h])
      BY <1>1, <1>15 DEF LoseAnswer, Fits, OrderPoints
    <2>2. LocalsOK' /\ RequestsFit'
      BY <1>2, <1>15, <2>1 DEF LoseAnswer, Points
    <2> QED BY <1>15, <2>2 DEF LoseAnswer, TypeOK, LocalsOK, SentFits
  <1>16. ASSUME FailEffect(h) PROVE TypeInv'
    <2>1. Fits("reject", req[h])
      BY <1>1, <1>16 DEF FailEffect, Fits, OrderPoints
    <2>2. LocalsOK' /\ RequestsFit'
      BY <1>0, <1>2, <1>16, <2>1, FinishLocals DEF FailEffect, Points
    <2>3. effects' \in [Intents -> Effect]
      BY <1>5, <1>16, AnswerTypes DEF FailEffect, TypeOK
    <2> QED BY <1>16, <2>2, <2>3 DEF FailEffect, TypeOK, LocalsOK, SentFits
  <1>17. ASSUME AppendRejected(h) PROVE TypeInv'
    <2>1. req[h].intent \in Intents
      BY <1>1, <1>17 DEF AppendRejected, Fits, OrderPoints
    <2>2. LocalsOK' /\ RequestsFit'
      BY <1>0, <1>17, FinishLocals DEF AppendRejected
    <2> QED BY <1>17, <2>1, <2>2, EventTypes DEF AppendRejected, TypeOK, LocalsOK, SentFits
  <1>18. ASSUME CompleteEffect(h) PROVE TypeInv'
    <2>1. Fits("respond", req[h]) /\ answer[h] \in Answer
      BY <1>0, <1>1, <1>18 DEF CompleteEffect, Fits, OrderPoints, LocalsOK
    <2>2. LocalsOK' /\ RequestsFit'
      BY <1>0, <1>2, <1>18, <2>1, FinishLocals DEF CompleteEffect, Points
    <2>3. effects' \in [Intents -> Effect]
      BY <1>5, <1>18, <2>1 DEF CompleteEffect, TypeOK
    <2> QED BY <1>18, <2>2, <2>3 DEF CompleteEffect, TypeOK, LocalsOK, SentFits
  <1>19. ASSUME AppendResponse(h) PROVE TypeInv'
    <2>1. Fits("bind", req[h]) /\ req[h].intent \in Intents
      BY <1>1, <1>19 DEF AppendResponse, Fits, OrderPoints
    <2>2. LocalsOK' /\ RequestsFit'
      BY <1>2, <1>19, <2>1 DEF AppendResponse, Points
    <2> QED BY <1>19, <2>1, <2>2, EventTypes DEF AppendResponse, TypeOK, LocalsOK, SentFits
  <1>20. ASSUME BindCopy(h) PROVE TypeInv'
    <2>1. Fits("commit", req[h]) /\ BindOrder(copy[h], answer[h].order) \in Row
      BY <1>0, <1>1, <1>20, RowTypes DEF BindCopy, Fits, OrderPoints, LocalsOK, Answer
    <2>2. LocalsOK' /\ RequestsFit'
      BY <1>0, <1>4, <1>20, <2>1, FinishLocals DEF BindCopy, Points, LocalsOK
    <2> QED BY <1>20, <2>2 DEF BindCopy, TypeOK, LocalsOK, SentFits
  <1>21. ASSUME FetchOrder(h) PROVE TypeInv'
    <2>1. Fits("fetch_payment", req[h]) /\ Created(copy[h].order) \in Answer
      BY <1>0, <1>1, <1>21, AnswerTypes DEF FetchOrder, Fits, OrderPoints, LocalsOK, Row
    <2>2. LocalsOK' /\ RequestsFit'
      BY <1>3, <1>21, <2>1 DEF FetchOrder, Points
    <2> QED BY <1>21, <2>2 DEF FetchOrder, TypeOK, LocalsOK, SentFits
  <1>22. ASSUME FetchPayment(h) PROVE TypeInv'
    <2>1. Fits("commit", req[h]) /\ VerifyPayment(copy[h], req[h].payment) \in Row
      BY <1>0, <1>1, <1>22, RowTypes DEF FetchPayment, Fits, OrderPoints, LocalsOK
    <2>2. LocalsOK' /\ RequestsFit'
      BY <1>0, <1>4, <1>22, <2>1, FinishLocals DEF FetchPayment, Points, LocalsOK
    <2> QED BY <1>22, <2>2 DEF FetchPayment, TypeOK, LocalsOK, SentFits
  <1>23. ASSUME ClaimFulfill(h) PROVE TypeInv'
    <2>1. Fits("commit", req[h]) /\ Fulfill(copy[h], req[h].reference) \in Row
          /\ PendingEffect(req[h]) \in Effect
      BY <1>0, <1>1, <1>23, RowTypes, EffectTypes
      DEF ClaimFulfill, Fits, OrderPoints, LocalsOK, TypeOK
    <2>2. LocalsOK' /\ RequestsFit'
      BY <1>0, <1>4, <1>23, <2>1, FinishLocals DEF ClaimFulfill, Points, LocalsOK
    <2>3. effects' \in [Intents -> Effect] /\ acks' \in SUBSET Acks
      BY <1>6, <1>23, <2>1 DEF ClaimFulfill, TypeOK
    <2> QED BY <1>23, <2>2, <2>3 DEF ClaimFulfill, TypeOK, LocalsOK, SentFits
  <1>24. ASSUME CommitCopy(h) PROVE TypeInv'
    <2>1. Fits("append", req[h]) /\ (req[h].op = "fulfill" => Fits("settle", req[h]))
      BY <1>1, <1>24 DEF CommitCopy, Fits, OrderPoints
    <2>2. LocalsOK' /\ RequestsFit'
      BY <1>0, <1>2, <1>24, <2>1, FinishLocals DEF CommitCopy, Points
    <2>3. quotes' \in [Quotes -> Row]
      BY <1>24 DEF CommitCopy, TypeOK
    <2> QED BY <1>24, <2>2, <2>3 DEF CommitCopy, TypeOK, LocalsOK, SentFits
  <1>25. ASSUME SettleFulfill(h) PROVE TypeInv'
    <2>1. Fits("append", req[h])
      BY <1>1, <1>25 DEF SettleFulfill, Fits, OrderPoints
    <2>2. LocalsOK' /\ RequestsFit'
      BY <1>0, <1>2, <1>25, <2>1, FinishLocals DEF SettleFulfill, Points
    <2>3. effects' \in [Intents -> Effect]
      BY <1>5, <1>25, AnswerTypes DEF SettleFulfill, TypeOK
    <2> QED BY <1>25, <2>2, <2>3 DEF SettleFulfill, TypeOK, LocalsOK, SentFits
  <1>26. ASSUME AppendTransition(h) PROVE TypeInv'
    <2>1. req[h].quote \in Quotes
      BY <1>1, <1>26 DEF AppendTransition, Fits
    <2>2. LocalsOK' /\ RequestsFit'
      BY <1>0, <1>26, FinishLocals DEF AppendTransition
    <2>3. evidence' \in SUBSET EvidenceEvents /\ acks' \in SUBSET Acks
      BY <1>6, <1>26, <2>1, EventTypes DEF AppendTransition, TypeOK
    <2> QED BY <1>26, <2>2, <2>3 DEF AppendTransition, TypeOK, LocalsOK, SentFits
  <1> QED
    BY <1>11, <1>12, <1>13, <1>14, <1>15, <1>16, <1>17, <1>18, <1>19, <1>20, <1>21,
       <1>22, <1>23, <1>24, <1>25, <1>26 DEF Progress

LEMMA AbortTypes ==
    ASSUME TypeInv, NEW h \in Handlers, Abort(h)
    PROVE  TypeInv'
  <1>1. LocalsOK' /\ RequestsFit'
    BY FinishLocals DEF Abort, TypeInv, TypeOK, LocalsOK
  <1> QED
    BY <1>1, MaxAbortsAssumption
    DEF Abort, TypeInv, TypeOK, LocalsOK, SentFits, store, razorpay

LEMMA EnvironmentTypes ==
    ASSUME TypeInv, Environment
    PROVE  TypeInv'
  <1> USE DEF TypeInv, store, razorpay, handler
  <1>0. RequestsFit'
    BY DEF Environment, Expire, RazorpayCreates, RazorpayRefuses, Pay, Capture, RequestsFit
  <1>1. ASSUME NEW q \in Quotes, Expire(q) PROVE TypeInv'
    BY <1>0, <1>1 DEF Expire, TypeOK, SentFits
  <1>2. ASSUME NEW i \in Intents, NEW o \in Orders, RazorpayCreates(i, o) PROVE TypeInv'
    <2>1. wire[i].quote \in Quotes
      BY <1>2 DEF RazorpayCreates, SentFits
    <2>2. \A a \in {Created(o), ServerError} :
             /\ Answered(wire[i].quote, a) \in Wire
             /\ Answered(wire[i].quote, a).state # "sent"
      BY <2>1, AnswerTypes, WireTypes DEF Answered
    <2>3. wire' \in [Intents -> Wire] /\ SentFits'
      BY <1>2, <2>2 DEF RazorpayCreates, TypeOK, SentFits
    <2>4. orders' \in [Orders -> OrderRecord \cup {None}]
      BY <1>2, <2>1, PriceAssumption DEF RazorpayCreates, TypeOK, OrderRecord
    <2> QED BY <1>0, <1>2, <2>3, <2>4 DEF RazorpayCreates, TypeOK
  <1>3. ASSUME NEW i \in Intents, RazorpayRefuses(i) PROVE TypeInv'
    <2>1. wire[i].quote \in Quotes
      BY <1>3 DEF RazorpayRefuses, SentFits
    <2>2. \A a \in {Rejected, ServerError} :
             /\ Answered(wire[i].quote, a) \in Wire
             /\ Answered(wire[i].quote, a).state # "sent"
      BY <2>1, AnswerTypes, WireTypes DEF Answered
    <2>3. wire' \in [Intents -> Wire] /\ SentFits'
      BY <1>3, <2>2 DEF RazorpayRefuses, TypeOK, SentFits
    <2> QED BY <1>0, <1>3, <2>3 DEF RazorpayRefuses, TypeOK
  <1>4. ASSUME NEW p \in Payments, NEW o \in Orders, NEW a \in Amounts, Pay(p, o, a)
        PROVE  TypeInv'
    BY <1>0, <1>4 DEF Pay, TypeOK, SentFits, PaymentRecord
  <1>5. ASSUME NEW p \in Payments, Capture(p) PROVE TypeInv'
    <2>1. payments[p] \in PaymentRecord
      BY <1>5 DEF Capture, TypeOK
    <2>2. payments' \in [Payments -> PaymentRecord \cup {None}]
      BY <1>5, <2>1 DEF Capture, TypeOK, PaymentRecord
    <2> QED BY <1>0, <1>5, <2>2 DEF Capture, TypeOK, SentFits
  <1> QED BY <1>1, <1>2, <1>3, <1>4, <1>5 DEF Environment

LEMMA TypeStep == TypeInv /\ [Next]_vars => TypeInv'
  <1> SUFFICES ASSUME TypeInv, [Next]_vars PROVE TypeInv'
    OBVIOUS
  <1>1. CASE UNCHANGED vars
    BY <1>1 DEF TypeInv, TypeOK, RequestsFit, SentFits, vars
  <1>2. CASE Next
    BY <1>2, ArriveTypes, ProgressTypes, AbortTypes, EnvironmentTypes DEF Next
  <1> QED BY <1>1, <1>2

\* In every reachable state of the checkout, with any number of requests and
\* rows, the tables, messages and locals have their types.
THEOREM TypeCorrect == Spec => []TypeOK
  <1>1. TypeInv => TypeOK
    BY DEF TypeInv
  <1> QED BY TypeInit, TypeStep, <1>1, PTL DEF Spec

-----------------------------------------------------------------------------
(* At-most-once execution of an intent.                                    *)

LEMMA LedgerInit == Init => LedgerInv
  <1> SUFFICES ASSUME Init PROVE LedgerInv
    OBVIOUS
  <1>1. TypeInv
    BY TypeInit
  <1>2. LedgerMatchesWire /\ OwnersExclude /\ OneOrderPerIntent
    BY DEF Init, LedgerMatchesWire, OwnersExclude, OneOrderPerIntent, Owns, Owning,
           NotSent, NoRequest, Ask
  <1> QED BY <1>1, <1>2 DEF LedgerInv, TypeInv

\* A step that gives no handler a new claim and leaves the effects, the wire
\* and Razorpay's orders alone preserves the agreement between them.
LEMMA LedgerFrame ==
    ASSUME LedgerMatchesWire, OwnersExclude, OneOrderPerIntent,
           UNCHANGED <<effects, wire, orders>>,
           \A h \in Handlers, i \in Intents : Owns(h, i)' => Owns(h, i),
           \A h \in Handlers :
              pc'[h] \in {"accept", "send"} =>
                 pc[h] \in {"accept", "send"} /\ req'[h].intent = req[h].intent
    PROVE  LedgerMatchesWire' /\ OwnersExclude' /\ OneOrderPerIntent'
  BY DEF LedgerMatchesWire, OwnersExclude, OneOrderPerIntent

\* What moving one handler does to ownership.
LEMMA OwnsMoves ==
    ASSUME LocalsOK, NEW h \in Handlers, NEW next, req' = req, Goto(h, next)
    PROVE  /\ \A g \in Handlers, i \in Intents : g # h => (Owns(g, i)' <=> Owns(g, i))
           /\ \A i \in Intents :
                 Owns(h, i)' <=> (req[h].intent = i /\ Owning(next, req[h]))
           /\ \A g \in Handlers : pc'[g] = IF g = h THEN next ELSE pc[g]
  BY DEF LocalsOK, Goto, Owns, Owning

LEMMA OwnsEnds ==
    ASSUME LocalsOK, NEW h \in Handlers, Finish(h)
    PROVE  /\ \A g \in Handlers, i \in Intents : Owns(g, i)' => g # h /\ Owns(g, i)
           /\ \A g \in Handlers : pc'[g] = IF g = h THEN "idle" ELSE pc[g]
           /\ \A g \in Handlers : g # h => req'[g] = req[g]
  BY DEF LocalsOK, Finish, Goto, Owns, Owning

\* A step of handler h that writes the ledger row of intent i, after which
\* nobody but h may own i, and h only if the row is pending.
WritesRow(h, i) ==
    /\ \A j \in Intents : j # i => effects'[j] = effects[j]
    /\ effects'[i].status # "absent"
    /\ UNCHANGED <<wire, orders>>
    /\ \A g \in Handlers, j \in Intents :
          Owns(g, j)' => \/ Owns(g, j) /\ j # i
                         \/ j = i /\ g = h /\ effects'[i].status = "pending"
    /\ \A g \in Handlers :
          pc'[g] \in {"accept", "send"} => wire[req'[g].intent] = NotSent

LEMMA LedgerWrite ==
    ASSUME LedgerInv, NEW h \in Handlers, NEW i \in Intents, WritesRow(h, i)
    PROVE  LedgerMatchesWire' /\ OwnersExclude' /\ OneOrderPerIntent'
  <1> USE DEF WritesRow
  <1>1. OwnersExclude'
    BY DEF OwnersExclude, LedgerInv
  <1>2. OneOrderPerIntent'
    BY DEF OneOrderPerIntent, LedgerInv
  <1>3. effects \in [Intents -> Effect]
    BY DEF LedgerInv, TypeOK
  <1>4. LedgerMatchesWire'
    BY <1>3 DEF LedgerMatchesWire, LedgerInv
  <1> QED BY <1>1, <1>2, <1>4

LEMMA ArriveLedger ==
    ASSUME LedgerInv, NEW h \in Handlers, Arrive(h)
    PROVE  LedgerMatchesWire' /\ OwnersExclude' /\ OneOrderPerIntent'
  <1>0. LocalsOK
    BY DEF LedgerInv, TypeOK, LocalsOK
  <1>1. UNCHANGED <<effects, wire, orders>>
    BY DEF Arrive, CreateQuote, CreateOrder, StartVerifyPayment, StartFulfill, store, razorpay
  <1>2. ASSUME NEW r, NEW row, NEW next \in {"append", "claim_order", "fetch_order", "claim_fulfill"},
               Start(h, r, row, next)
        PROVE  /\ \A g \in Handlers, i \in Intents : Owns(g, i)' => Owns(g, i)
               /\ \A g \in Handlers :
                     pc'[g] \in {"accept", "send"} =>
                        pc[g] \in {"accept", "send"} /\ req'[g].intent = req[g].intent
    BY <1>0, <1>2 DEF LocalsOK, Start, Goto, Owns, Owning
  <1>3. ASSUME UNCHANGED handler
        PROVE  /\ \A g \in Handlers, i \in Intents : Owns(g, i)' => Owns(g, i)
               /\ \A g \in Handlers :
                     pc'[g] \in {"accept", "send"} =>
                        pc[g] \in {"accept", "send"} /\ req'[g].intent = req[g].intent
    BY <1>3 DEF handler, Owns, Owning
  <1>4. \/ UNCHANGED handler
        \/ \E r, row : \E next \in {"append", "claim_order", "fetch_order", "claim_fulfill"} :
              Start(h, r, row, next)
    BY DEF Arrive, CreateQuote, CreateOrder, StartVerifyPayment, StartFulfill
  <1> QED BY <1>1, <1>2, <1>3, <1>4, LedgerFrame DEF LedgerInv

LEMMA ProgressLedger ==
    ASSUME LedgerInv, NEW h \in Handlers, Progress(h)
    PROVE  LedgerMatchesWire' /\ OwnersExclude' /\ OneOrderPerIntent'
  <1> DEFINE Goal == LedgerMatchesWire' /\ OwnersExclude' /\ OneOrderPerIntent'
             i == req[h].intent
  <1> USE DEF LedgerInv, store, razorpay
  <1>0. LocalsOK /\ Fits(pc[h], req[h])
    BY DEF TypeOK, LocalsOK, RequestsFit
  <1>1. ASSUME Finish(h), UNCHANGED <<effects, wire, orders>> PROVE Goal
    BY <1>0, <1>1, OwnsEnds, LedgerFrame
  \* h moves on without touching the shared state and without a new claim.
  <1>2. ASSUME NEW next, Goto(h, next), UNCHANGED <<req, effects, wire, orders>>,
               Owning(next, req[h]) => Owning(pc[h], req[h]),
               next \in {"accept", "send"} => pc[h] \in {"accept", "send"}
        PROVE  Goal
    BY <1>0, <1>2, OwnsMoves, LedgerFrame DEF Owns
  \* h resolves the effect it owns.
  <1>3. ASSUME NEW s \in {"completed", "failed"}, NEW a, Resolve(h, s, a), i \in Intents,
               Owns(h, i), UNCHANGED <<wire, orders>>,
               \/ Finish(h)
               \/ \E next \in {"reject", "respond", "append"} :
                     Goto(h, next) /\ UNCHANGED req
        PROVE  Goal
    <2>1. Resolved(effects[i], s, a).status # "absent"
      BY <1>3 DEF Resolved
    <2>2. \A g \in Handlers, j \in Intents : Owns(g, j)' => Owns(g, j) /\ j # i
      BY <1>0, <1>3, OwnsEnds, OwnsMoves DEF OwnersExclude, Owns, Owning
    <2>3. \A g \in Handlers : pc'[g] \in {"accept", "send"} => wire[req'[g].intent] = NotSent
      BY <1>0, <1>3, OwnsEnds, OwnsMoves DEF LedgerMatchesWire
    <2>4. /\ \A j \in Intents : j # i => effects'[j] = effects[j]
          /\ effects'[i].status # "absent"
      BY <1>3, <2>1 DEF Resolve, TypeOK
    <2>5. WritesRow(h, i)
      BY <1>3, <2>2, <2>3, <2>4 DEF WritesRow
    <2> HIDE DEF LedgerInv, i
    <2> QED BY <1>3, <2>5, LedgerWrite
  \* h claims a new effect.
  <1>4. ASSUME ClaimIsNew(effects[i]), effects' = [effects EXCEPT ![i] = PendingEffect(req[h])],
               i \in Intents, UNCHANGED <<wire, orders>>,
               \/ Finish(h)
               \/ \E next \in {"accept", "commit"} : Goto(h, next) /\ UNCHANGED req
        PROVE  Goal
    <2>1. \A g \in Handlers : ~Owns(g, i)
      BY <1>4 DEF LedgerMatchesWire, ClaimIsNew
    <2>2. wire[i] = NotSent
      BY <1>4 DEF LedgerMatchesWire, ClaimIsNew
    <2>3. PendingEffect(req[h]).status = "pending"
      BY DEF PendingEffect
    <2>4. \A g \in Handlers, j \in Intents :
             Owns(g, j)' => (Owns(g, j) /\ j # i) \/ (j = i /\ g = h)
      BY <1>0, <1>4, <2>1, OwnsEnds, OwnsMoves DEF Owns
    <2>5. \A g \in Handlers : pc'[g] \in {"accept", "send"} => wire[req'[g].intent] = NotSent
      BY <1>0, <1>4, <2>2, OwnsEnds, OwnsMoves DEF LedgerMatchesWire
    <2>6. /\ \A j \in Intents : j # i => effects'[j] = effects[j]
          /\ effects'[i].status = "pending"
      BY <1>4, <2>3 DEF TypeOK
    <2>7. WritesRow(h, i)
      BY <1>4, <2>4, <2>5, <2>6 DEF WritesRow
    <2> HIDE DEF LedgerInv, i
    <2> QED BY <1>4, <2>7, LedgerWrite
  <1>11. ASSUME ClaimOrder(h) PROVE Goal
    <2>1. i \in Intents
      BY <1>0, <1>11 DEF ClaimOrder, Fits, OrderPoints
    <2> QED BY <1>1, <1>2, <1>4, <1>11, <2>1 DEF ClaimOrder, Owning
  <1>12. ASSUME AppendAccepted(h) PROVE Goal
    BY <1>2, <1>12 DEF AppendAccepted, Owning
  <1>13. ASSUME SendOrder(h) PROVE Goal
    <2>1. i \in Intents /\ Owns(h, i) /\ wire[i] = NotSent /\ req[h].quote \in Quotes
      BY <1>0, <1>13 DEF SendOrder, Fits, OrderPoints, LedgerMatchesWire, Owns, Owning
    <2>2. \A g \in Handlers, j \in Intents : Owns(g, j)' <=> Owns(g, j)
      BY <1>0, <1>13, OwnsMoves DEF SendOrder, Owns, Owning
    <2>3. \A g \in Handlers : pc'[g] \in {"accept", "send"} => g # h /\ pc'[g] = pc[g]
      BY <1>0, <1>13, OwnsMoves DEF SendOrder
    <2>4. \A g \in Handlers : g # h /\ pc[g] \in {"accept", "send"} => req[g].intent # i
      BY <2>1 DEF OwnersExclude, Owns, Owning
    <2>5. wire' = [wire EXCEPT ![i] = Sent(req[h].quote)] /\ wire \in [Intents -> Wire]
          /\ UNCHANGED <<effects, orders, req>>
      BY <1>13 DEF SendOrder, TypeOK
    <2>6. effects[i].status = "pending"
      BY <2>1 DEF LedgerMatchesWire
    <2>7. \A o \in Orders : orders[o] # None => orders[o].intent # i
      BY <2>1 DEF LedgerMatchesWire, NotSent
    <2>8. OwnersExclude' /\ OneOrderPerIntent'
      BY <2>2, <2>5 DEF OwnersExclude, OneOrderPerIntent
    <2>9. \A g \in Handlers, j \in Intents : Owns(g, j)' => effects'[j].status = "pending"
      BY <2>2, <2>5 DEF LedgerMatchesWire
    <2>10. \A j \in Intents : effects'[j].status = "absent" => wire'[j] = NotSent
      BY <2>5, <2>6 DEF LedgerMatchesWire
    <2>11. \A g \in Handlers : pc'[g] \in {"accept", "send"} => wire'[req'[g].intent] = NotSent
      BY <2>3, <2>4, <2>5 DEF LedgerMatchesWire
    <2>12. \A j \in Intents : wire'[j].state = "sent" => wire'[j].quote \in Quotes
      BY <2>1, <2>5 DEF LedgerMatchesWire, Sent
    <2>13. \A o \in Orders : orders'[o] # None => wire'[orders'[o].intent].state = "answered"
      BY <2>5, <2>7 DEF LedgerMatchesWire
    <2> QED BY <2>8, <2>9, <2>10, <2>11, <2>12, <2>13 DEF LedgerMatchesWire
  <1>14. ASSUME ReceiveAnswer(h) PROVE Goal
    BY <1>2, <1>14 DEF ReceiveAnswer, Owning
  <1>15. ASSUME LoseAnswer(h) PROVE Goal
    BY <1>2, <1>15 DEF LoseAnswer, Owning
  <1>16. ASSUME FailEffect(h) PROVE Goal
    <2>1. i \in Intents /\ Owns(h, i)
      BY <1>0, <1>16 DEF FailEffect, Fits, OrderPoints, Owns, Owning
    <2> QED BY <1>1, <1>3, <1>16, <2>1 DEF FailEffect
  <1>17. ASSUME AppendRejected(h) PROVE Goal
    BY <1>1, <1>17 DEF AppendRejected
  <1>18. ASSUME CompleteEffect(h) PROVE Goal
    <2>1. i \in Intents /\ Owns(h, i)
      BY <1>0, <1>18 DEF CompleteEffect, Fits, OrderPoints, Owns, Owning
    <2> QED BY <1>1, <1>3, <1>18, <2>1 DEF CompleteEffect
  <1>19. ASSUME AppendResponse(h) PROVE Goal
    BY <1>2, <1>19 DEF AppendResponse, Owning
  <1>20. ASSUME BindCopy(h) PROVE Goal
    <2>1. ~Owning("commit", req[h])
      BY <1>0, <1>20 DEF BindCopy, Fits, OrderPoints, Owning
    <2> QED BY <1>1, <1>2, <1>20, <2>1 DEF BindCopy
  <1>21. ASSUME FetchOrder(h) PROVE Goal
    BY <1>2, <1>21 DEF FetchOrder, Owning
  <1>22. ASSUME FetchPayment(h) PROVE Goal
    <2>1. ~Owning("commit", req[h])
      BY <1>0, <1>22 DEF FetchPayment, Fits, Owning
    <2> QED BY <1>1, <1>2, <1>22, <2>1 DEF FetchPayment
  <1>23. ASSUME ClaimFulfill(h) PROVE Goal
    <2>1. i \in Intents
      BY <1>0, <1>23 DEF ClaimFulfill, Fits
    <2> QED BY <1>1, <1>4, <1>23, <2>1 DEF ClaimFulfill
  <1>24. ASSUME CommitCopy(h) PROVE Goal
    BY <1>1, <1>2, <1>24 DEF CommitCopy, Owning
  <1>25. ASSUME SettleFulfill(h) PROVE Goal
    <2>1. i \in Intents /\ Owns(h, i)
      BY <1>0, <1>25 DEF SettleFulfill, Fits, Owns, Owning
    <2> QED BY <1>1, <1>3, <1>25, <2>1 DEF SettleFulfill
  <1>26. ASSUME AppendTransition(h) PROVE Goal
    BY <1>1, <1>26 DEF AppendTransition
  <1> QED
    BY <1>11, <1>12, <1>13, <1>14, <1>15, <1>16, <1>17, <1>18, <1>19, <1>20, <1>21,
       <1>22, <1>23, <1>24, <1>25, <1>26 DEF Progress

LEMMA EnvironmentLedger ==
    ASSUME LedgerInv, Environment
    PROVE  LedgerMatchesWire' /\ OwnersExclude' /\ OneOrderPerIntent'
  <1> DEFINE Goal == LedgerMatchesWire' /\ OwnersExclude' /\ OneOrderPerIntent'
  <1> USE DEF LedgerInv, store, razorpay, handler
  <1>0. UNCHANGED <<pc, req, effects>>
    BY DEF Environment, Expire, RazorpayCreates, RazorpayRefuses, Pay, Capture
  <1>1. \A g \in Handlers, j \in Intents : Owns(g, j)' <=> Owns(g, j)
    BY <1>0 DEF Owns
  <1>2. OwnersExclude'
    BY <1>1 DEF OwnersExclude
  <1>3. ASSUME UNCHANGED <<wire, orders>> PROVE Goal
    BY <1>0, <1>1, <1>3, LedgerFrame
  \* Razorpay answers a request: only the wire of that intent changes.
  <1>4. ASSUME NEW i \in Intents, wire[i].state = "sent", NEW a,
               wire' = [wire EXCEPT ![i] = Answered(wire[i].quote, a)]
        PROVE  /\ \A j \in Intents : effects'[j].status = "absent" => wire'[j] = NotSent
               /\ \A g \in Handlers : pc'[g] \in {"accept", "send"} => wire'[req'[g].intent] = NotSent
               /\ \A j \in Intents : wire'[j].state = "sent" => wire'[j].quote \in Quotes
               /\ \A j \in Intents : wire[j].state = "answered" => wire'[j].state = "answered"
               /\ wire'[i].state = "answered"
    BY <1>0, <1>4 DEF LedgerMatchesWire, NotSent, Answered, TypeOK
  <1>5. ASSUME NEW i \in Intents, NEW o \in Orders, RazorpayCreates(i, o) PROVE Goal
    <2>1. \A n \in Orders : orders[n] # None => orders[n].intent # i
      BY <1>5 DEF RazorpayCreates, LedgerMatchesWire
    <2>2. PICK a : wire' = [wire EXCEPT ![i] = Answered(wire[i].quote, a)]
      BY <1>5 DEF RazorpayCreates
    <2>3. \A n \in Orders : orders'[n] # None =>
             (n = o /\ orders'[n].intent = i) \/ (n # o /\ orders'[n] = orders[n])
      BY <1>5 DEF RazorpayCreates, TypeOK
    <2>4. OneOrderPerIntent'
      BY <2>1, <2>3 DEF OneOrderPerIntent
    <2>5. \A n \in Orders : orders[n] # None => orders[n].intent \in Intents
      BY NoneAssumption DEF TypeOK, OrderRecord
    <2>6. /\ \A j \in Intents : effects'[j].status = "absent" => wire'[j] = NotSent
          /\ \A g \in Handlers : pc'[g] \in {"accept", "send"} => wire'[req'[g].intent] = NotSent
          /\ \A j \in Intents : wire'[j].state = "sent" => wire'[j].quote \in Quotes
          /\ \A j \in Intents : wire[j].state = "answered" => wire'[j].state = "answered"
          /\ wire'[i].state = "answered"
      BY <1>4, <1>5, <2>2 DEF RazorpayCreates
    <2>7. \A n \in Orders : orders'[n] # None => wire'[orders'[n].intent].state = "answered"
      BY <2>3, <2>5, <2>6 DEF LedgerMatchesWire
    <2>8. \A g \in Handlers, j \in Intents : Owns(g, j)' => effects'[j].status = "pending"
      BY <1>0, <1>1 DEF LedgerMatchesWire
    <2>9. LedgerMatchesWire'
      BY <2>6, <2>7, <2>8 DEF LedgerMatchesWire
    <2> QED BY <1>2, <2>4, <2>9
  <1>6. ASSUME NEW i \in Intents, RazorpayRefuses(i) PROVE Goal
    <2>1. PICK a : wire' = [wire EXCEPT ![i] = Answered(wire[i].quote, a)]
      BY <1>6 DEF RazorpayRefuses
    <2>2. OneOrderPerIntent'
      BY <1>6 DEF RazorpayRefuses, OneOrderPerIntent
    <2>3. \A n \in Orders : orders[n] # None => orders[n].intent \in Intents
      BY NoneAssumption DEF TypeOK, OrderRecord
    <2>4. LedgerMatchesWire'
      BY ZenonT(30), <1>0, <1>1, <1>4, <1>6, <2>1, <2>3 DEF LedgerMatchesWire, RazorpayRefuses
    <2> QED BY <1>2, <2>2, <2>4
  <1> QED
    BY <1>3, <1>5, <1>6 DEF Environment, Expire, Pay, Capture

LEMMA LedgerStep == LedgerInv /\ [Next]_vars => LedgerInv'
  <1> SUFFICES ASSUME LedgerInv, [Next]_vars PROVE LedgerInv'
    OBVIOUS
  <1>1. TypeInv'
    BY TypeStep DEF LedgerInv, TypeInv, SentFits, LedgerMatchesWire
  <1>2. CASE UNCHANGED vars
    BY <1>1, <1>2
    DEF vars, LedgerInv, LedgerMatchesWire, OwnersExclude, OneOrderPerIntent, Owns, TypeInv
  <1>3. ASSUME NEW h \in Handlers, Abort(h)
        PROVE  LedgerMatchesWire' /\ OwnersExclude' /\ OneOrderPerIntent'
    <2>1. LocalsOK
      BY DEF LedgerInv, TypeOK, LocalsOK
    <2> QED BY <1>3, <2>1, OwnsEnds, LedgerFrame DEF LedgerInv, Abort, store, razorpay
  <1>4. CASE Next
    BY <1>1, <1>3, <1>4, ArriveLedger, ProgressLedger, EnvironmentLedger
    DEF Next, LedgerInv, TypeInv
  <1> QED BY <1>2, <1>4

\* The ledger row of an intent, its request on the wire and Razorpay's order for
\* it agree, whatever is lost or cut short.
THEOREM LedgerInvariant == Spec => []LedgerInv
  BY LedgerInit, LedgerStep, PTL DEF Spec

\* However requests interleave, time out and crash, two requests with the same
\* intent never both execute the effect between the claim and its resolution.
THEOREM ClaimsExclude == Spec => []OwnersExclude
  <1>1. LedgerInv => OwnersExclude
    BY DEF LedgerInv
  <1> QED BY LedgerInit, LedgerStep, <1>1, PTL DEF Spec

\* One intent makes Razorpay create at most one order.
THEOREM AtMostOneOrder == Spec => []OneOrderPerIntent
  <1>1. LedgerInv => OneOrderPerIntent
    BY DEF LedgerInv
  <1> QED BY LedgerInit, LedgerStep, <1>1, PTL DEF Spec

-----------------------------------------------------------------------------
(* Finality of the ledger.                                                 *)

LEMMA LedgerWritesKeep ==
    ASSUME TypeInv, NEW h \in Handlers, Progress(h)
    PROVE  KeepsIntents
  <1> USE DEF store, razorpay
  <1>1. ASSUME UNCHANGED effects PROVE KeepsIntents
    BY <1>1 DEF KeepsIntents
  <1>2. ASSUME NEW s, NEW a, Resolve(h, s, a), effects[req[h].intent].status = "pending"
        PROVE  KeepsIntents
    BY <1>2 DEF KeepsIntents, Resolve, Resolved, TypeInv, TypeOK
  <1>3. ASSUME ClaimIsNew(effects[req[h].intent]),
               effects' = [effects EXCEPT ![req[h].intent] = PendingEffect(req[h])]
        PROVE  KeepsIntents
    BY <1>3 DEF KeepsIntents, ClaimIsNew, TypeInv, TypeOK
  <1>4. CASE ClaimOrder(h) \/ ClaimFulfill(h)
    BY <1>1, <1>3, <1>4 DEF ClaimOrder, ClaimFulfill
  <1>5. CASE FailEffect(h) \/ CompleteEffect(h) \/ SettleFulfill(h)
    BY <1>1, <1>2, <1>5 DEF FailEffect, CompleteEffect, SettleFulfill
  <1>6. CASE \/ AppendAccepted(h) \/ SendOrder(h) \/ ReceiveAnswer(h) \/ LoseAnswer(h)
             \/ AppendRejected(h) \/ AppendResponse(h) \/ BindCopy(h) \/ FetchOrder(h)
             \/ FetchPayment(h) \/ CommitCopy(h) \/ AppendTransition(h)
    BY <1>1, <1>6
    DEF AppendAccepted, SendOrder, ReceiveAnswer, LoseAnswer, AppendRejected,
        AppendResponse, BindCopy, FetchOrder, FetchPayment, CommitCopy, AppendTransition
  <1> QED BY <1>4, <1>5, <1>6 DEF Progress

\* No later request, late response or retry changes an intent that has been
\* resolved, and no request changes what a pending intent stands for.
THEOREM FinalIntents == Spec => IntentsAreFinal
  <1>1. ASSUME TypeInv, [Next]_vars PROVE [KeepsIntents]_vars
    <2>1. ASSUME UNCHANGED effects PROVE KeepsIntents
      BY <2>1 DEF KeepsIntents
    <2>2. ASSUME NEW h \in Handlers, Arrive(h) \/ Abort(h) PROVE UNCHANGED effects
      BY <2>2 DEF Arrive, Abort, CreateQuote, CreateOrder, StartVerifyPayment,
                  StartFulfill, store, razorpay
    <2>3. ASSUME Environment PROVE UNCHANGED effects
      BY <2>3 DEF Environment, Expire, RazorpayCreates, RazorpayRefuses, Pay, Capture, store
    <2> QED BY <1>1, <2>1, <2>2, <2>3, LedgerWritesKeep DEF Next
  <1> QED BY <1>1, TypeInit, TypeStep, PTL DEF Spec, IntentsAreFinal

-----------------------------------------------------------------------------
(* What backs a row.                                                       *)

\* Order o was created for quote q at its price, and the ledger recorded it.
OrderBacks(q, o) ==
    /\ o \in Orders /\ orders[o] # None
    /\ orders[o].quote = q
    /\ orders[o].amount = Price[q]
    /\ effects[orders[o].intent].status = "completed"
    /\ effects[orders[o].intent].response = Created(o)

\* Payment p is money: captured, of the price of q, on an order of q.
PaymentBacks(q, p) ==
    /\ p \in Payments /\ payments[p] # None
    /\ payments[p].captured
    /\ payments[p].amount = Price[q]
    /\ orders[payments[p].order] # None
    /\ orders[payments[p].order].quote = q

\* The row is one of quote q, in a stage for which it has the evidence.  The
\* version counts the stages.
Backed(q, row) ==
    \/ row = AbsentRow
    \/ row = Issue
    \/ /\ row.state = "OrderBound" /\ row.version = 2
       /\ row.payment = None /\ row.reference = None
       /\ OrderBacks(q, row.order)
    \/ /\ row.state = "PaymentVerified" /\ row.version = 3
       /\ row.reference = None
       /\ OrderBacks(q, row.order) /\ PaymentBacks(q, row.payment)
       /\ payments[row.payment].order = row.order
    \/ /\ row.state = "Fulfilled" /\ row.version = 4
       /\ row.order = None /\ row.reference \in References
       /\ PaymentBacks(q, row.payment)

\* next is row, one stage later.
Follows(row, next) ==
    \/ row.state = "Issued" /\ \E o \in Orders : next = BindOrder(row, o)
    \/ row.state = "OrderBound" /\ \E p \in Payments : next = VerifyPayment(row, p)
    \/ row.state = "PaymentVerified" /\ \E r \in References : next = Fulfill(row, r)

\* What row said of a quote whose row is now.
KeptBy(row, now) ==
    /\ row.version <= now.version
    /\ row.version = now.version => now = row
    /\ row.state = "OrderBound" =>
          \/ now.order = row.order
          \/ now.state = "Fulfilled" /\ payments[now.payment].order = row.order
    /\ row.state = "PaymentVerified" => now.payment = row.payment

StageOf(op) ==
    CASE op = "create_quote"   -> "Issued"
      [] op = "create_order"   -> "OrderBound"
      [] op = "verify_payment" -> "PaymentVerified"
      [] op = "fulfill"        -> "Fulfilled"

Committed == {"settle", "append"}

\* The stage of the copy a handler has at each await.
StageFits(point, r, row, a) ==
    /\ point \in OrderPoints => row.state = "Issued"
    /\ point \in {"fetch_order", "fetch_payment"} => row.state = "OrderBound"
    /\ point = "fetch_payment" => a = Created(row.order)
    /\ point = "claim_fulfill" => row.state # "Fulfilled"
    /\ point \in Committed \cup {"commit"} =>
          /\ row.state = StageOf(r.op)
          /\ r.op = "fulfill" => row.reference = r.reference

\* What the copy of a handler knows of the stored quote: before the commit it
\* is that row or an earlier one, at the commit one that follows it or would
\* have followed an earlier one.
CopyKnows(point, r, row, a) ==
    /\ Backed(r.quote, row)
    /\ row.state # "Absent"
    /\ StageFits(point, r, row, a)
    /\ point \in {"fetch_order", "fetch_payment"} => payments[r.payment] # None
    /\ point # "commit" => KeptBy(row, quotes[r.quote])
    /\ point = "commit" =>
          /\ row.version <= quotes[r.quote].version + 1
          /\ row.version = quotes[r.quote].version + 1 => Follows(quotes[r.quote], row)

\* What a handler knows of the ledger row of its intent.
ClaimKnows(point, r, a) ==
    LET e == effects[r.intent]
        w == wire[r.intent]
    IN  /\ Owning(point, r) => Same(r, e)
        /\ point = "await" => w.state # "idle"
        /\ point = "complete" => w.state = "answered" /\ a = w.answer
        /\ point \in {"respond", "bind"} =>
              e.status = "completed" /\ Same(r, e) /\ e.response = a

HandlerKnows(h) ==
    pc[h] # "idle" => /\ CopyKnows(pc[h], req[h], copy[h], answer[h])
                      /\ ClaimKnows(pc[h], req[h], answer[h])

\* Order o is the one Razorpay made for intent i and quote q.
MadeFor(i, q, o) ==
    o \in Orders /\ orders[o] = [quote |-> q, amount |-> Price[q], intent |-> i]

\* What a row of the ledger and the request on the wire mean.
IntentKnows(i) ==
    LET e == effects[i]
        q == e.body.quote
    IN  /\ e.status # "absent" => q \in Quotes /\ quotes[q].state # "Absent"
        /\ wire[i].state # "idle" => wire[i].quote = q
        /\ wire[i].answer.kind = "created" =>
              wire[i].state = "answered" /\ MadeFor(i, q, wire[i].answer.order)
        /\ e.response.kind = "created" =>
              e.status = "completed" /\ MadeFor(i, q, e.response.order)
        /\ e.status = "completed" /\ e.op = "fulfill" =>
              quotes[q].state = "Fulfilled" /\ quotes[q].reference = e.body.reference

\* Only one handler has committed a version of a quote, and it has not
\* appended the transition before it is done.
OneCommitter ==
    \A h \in Handlers : pc[h] \in Committed =>
        /\ Transition(req[h].quote, copy[h]) \notin evidence
        /\ \A g \in Handlers :
              /\ pc[g] \in Committed
              /\ req[g].quote = req[h].quote
              /\ copy[g].version = copy[h].version
              => g = h

PaymentsHaveOrders ==
    \A p \in Payments : payments[p] # None => orders[payments[p].order] # None

\* What AcksAreKept needs of the responses themselves.
AcksNameThings ==
    \A a \in acks : /\ a.op = "verify_payment" => a.payment # None
                    /\ a.op = "create_order" => a.order # None

SettleInv ==
    /\ LedgerInv
    /\ \A q \in Quotes : Backed(q, quotes[q])
    /\ \A h \in Handlers : HandlerKnows(h)
    /\ \A i \in Intents : IntentKnows(i)
    /\ PaymentsHaveOrders
    /\ AcksAreKept /\ AcksNameThings
    /\ OneCommitter
    /\ EvidenceIsTruthful

-----------------------------------------------------------------------------
(* What no step takes back.                                                 *)

Grows ==
    /\ KeepsIntents
    /\ \A o \in Orders : orders[o] # None => orders'[o] = orders[o]
    /\ \A p \in Payments : payments[p] # None =>
          /\ payments'[p] # None
          /\ payments'[p].order = payments[p].order
          /\ payments'[p].amount = payments[p].amount
          /\ payments[p].captured => payments'[p].captured
    /\ \A i \in Intents :
          /\ wire[i].state # "idle" =>
                wire'[i].state # "idle" /\ wire'[i].quote = wire[i].quote
          /\ wire[i].state = "answered" => wire'[i] = wire[i]

\* A row becomes another row of its quote.
Advanced(row, now) ==
    \/ now = row
    \/ row = AbsentRow /\ now = Issue
    \/ Follows(row, now)

QuotesAdvance ==
    \A q \in Quotes : Advanced(quotes[q], quotes'[q]) /\ Backed(q, quotes[q])'

LEMMA InvTypes ==
    ASSUME LedgerInv
    PROVE  /\ quotes \in [Quotes -> Row]
           /\ effects \in [Intents -> Effect]
           /\ wire \in [Intents -> Wire]
           /\ \A o \in Orders : orders[o] # None => orders[o] \in OrderRecord
           /\ \A p \in Payments : payments[p] # None => payments[p] \in PaymentRecord
           /\ LocalsOK
           /\ \A h \in Handlers : Fits(pc[h], req[h])
BY DEF LedgerInv, TypeOK, LocalsOK, RequestsFit

LEMMA OrderBacksStays ==
    ASSUME LedgerInv, Grows, NEW q \in Quotes, NEW o, OrderBacks(q, o)
    PROVE  OrderBacks(q, o)'
<1>1. orders[o] # None /\ orders[o].intent \in Intents
  BY InvTypes DEF OrderBacks, OrderRecord
<1> QED BY <1>1 DEF OrderBacks, Grows, KeepsIntents

LEMMA PaymentBacksStays ==
    ASSUME LedgerInv, Grows, NEW q \in Quotes, NEW p, PaymentBacks(q, p)
    PROVE  PaymentBacks(q, p)' /\ payments'[p].order = payments[p].order
<1>1. payments[p] # None /\ payments[p].order \in Orders
  BY InvTypes DEF PaymentBacks, PaymentRecord
<1> QED BY <1>1 DEF PaymentBacks, Grows

LEMMA BackedStays ==
    ASSUME LedgerInv, Grows, NEW q \in Quotes, NEW row, Backed(q, row)
    PROVE  Backed(q, row)'
BY OrderBacksStays, PaymentBacksStays DEF Backed

\* What the stage of a row says of the row.
LEMMA StageFacts ==
    ASSUME NEW q, NEW row, Backed(q, row)
    PROVE  /\ row.version \in 0..4
           /\ row.version = 0 <=> row.state = "Absent"
           /\ row.version = 1 <=> row.state = "Issued"
           /\ row.version = 2 <=> row.state = "OrderBound"
           /\ row.version = 3 <=> row.state = "PaymentVerified"
           /\ row.version = 4 <=> row.state = "Fulfilled"
           /\ row.state = "Absent" => row = AbsentRow
           /\ row.state = "Issued" => row = Issue
BY DEF Backed, AbsentRow, Issue

LEMMA FollowFacts ==
    ASSUME NEW q, NEW row, NEW now, Backed(q, row), Follows(row, now)
    PROVE  /\ now.version = row.version + 1
           /\ row.state = "Issued" => now.state = "OrderBound"
           /\ row.state = "OrderBound" =>
                 now.state = "PaymentVerified" /\ now.order = row.order
           /\ row.state = "PaymentVerified" =>
                 now.state = "Fulfilled" /\ now.payment = row.payment
           /\ row.state \in {"Issued", "OrderBound", "PaymentVerified"}
BY DEF Follows, BindOrder, VerifyPayment, Fulfill

LEMMA KeptStays ==
    ASSUME LedgerInv, Grows, NEW q \in Quotes, NEW row, NEW now, NEW then,
           Backed(q, row), Backed(q, now), KeptBy(row, now), Advanced(now, then)
    PROVE  KeptBy(row, then)'
<1>1. /\ row.version \in 0..4 /\ now.version \in 0..4
      /\ row.version = 2 <=> row.state = "OrderBound"
      /\ row.version = 3 <=> row.state = "PaymentVerified"
      /\ now.version = 1 <=> now.state = "Issued"
      /\ now.version = 2 <=> now.state = "OrderBound"
      /\ now.version = 3 <=> now.state = "PaymentVerified"
  BY StageFacts
<1>2. CASE then = now
  <2>1. now.state = "Fulfilled" => payments'[now.payment].order = payments[now.payment].order
    BY PaymentBacksStays DEF Backed, AbsentRow, Issue
  <2> QED BY <1>2, <2>1 DEF KeptBy
<1>3. CASE now = AbsentRow /\ then = Issue
  BY <1>1, <1>3 DEF KeptBy, AbsentRow, Issue
<1>4. CASE Follows(now, then)
  <2>1. /\ then.version = now.version + 1
        /\ now.state = "OrderBound" => then.order = now.order
        /\ now.state = "PaymentVerified" => then.state = "Fulfilled" /\ then.payment = now.payment
        /\ now.state \in {"Issued", "OrderBound", "PaymentVerified"}
    BY <1>4, FollowFacts
  <2>2. now.state = "PaymentVerified" => payments'[now.payment].order = now.order
    BY PaymentBacksStays DEF Backed, AbsentRow, Issue
  <2>3. row.version < then.version
    BY <1>1, <2>1 DEF KeptBy
  <2>4. row.state = "OrderBound" =>
           then.order = row.order \/ (then.state = "Fulfilled" /\ payments'[then.payment].order = row.order)
    BY <1>1, <2>1, <2>2, <2>3 DEF KeptBy
  <2>5. row.state = "PaymentVerified" => then.payment = row.payment
    BY <1>1, <2>1, <2>3 DEF KeptBy
  <2> QED BY <1>1, <2>1, <2>3, <2>4, <2>5 DEF KeptBy
<1> QED BY <1>2, <1>3, <1>4 DEF Advanced

\* Fulfilled is the last stage, and no stage is undone.
LEMMA StagesStay ==
    ASSUME QuotesAdvance, \A q \in Quotes : Backed(q, quotes[q]), NEW q \in Quotes
    PROVE  /\ quotes[q].state # "Absent" => quotes'[q].state # "Absent"
           /\ quotes[q].state = "Fulfilled" => quotes'[q] = quotes[q]
           /\ quotes'[q] # quotes[q] => quotes'[q].version = quotes[q].version + 1
           /\ quotes[q].version \in 0..4
<1>1. Advanced(quotes[q], quotes'[q]) /\ Backed(q, quotes[q])
  BY DEF QuotesAdvance
<1>2. CASE quotes[q] = AbsentRow /\ quotes'[q] = Issue
  BY <1>2 DEF AbsentRow, Issue
<1>3. CASE Follows(quotes[q], quotes'[q])
  BY <1>1, <1>3, StageFacts, FollowFacts
<1> QED BY <1>1, <1>2, <1>3, StageFacts DEF Advanced

\* What a copy knows survives the steps of others.
LEMMA CopyFrame ==
    ASSUME LedgerInv, Grows, QuotesAdvance, \A q \in Quotes : Backed(q, quotes[q]),
           NEW point, NEW r \in Request, NEW row, NEW a,
           r.quote \in Quotes, r.op = "verify_payment" => r.payment \in Payments,
           point \in {"fetch_order", "fetch_payment"} => r.op = "verify_payment",
           CopyKnows(point, r, row, a)
    PROVE  CopyKnows(point, r, row, a)'
<1>1. PICK now : now = quotes[r.quote]
  OBVIOUS
<1>2. PICK then : then = quotes'[r.quote]
  OBVIOUS
<1>3. Backed(r.quote, row) /\ Backed(r.quote, now)
  BY <1>1 DEF CopyKnows
<1>4. Advanced(now, then)
  BY <1>1, <1>2 DEF QuotesAdvance
<1>5. Backed(r.quote, row)'
  BY <1>3, BackedStays
<1>6. ASSUME point # "commit" PROVE KeptBy(row, quotes[r.quote])'
  <2>1. KeptBy(row, now)
    BY <1>1, <1>6 DEF CopyKnows
  <2>2. KeptBy(row, then)'
    BY <1>3, <1>4, <2>1, KeptStays
  <2> QED BY <1>2, <2>2
<1>7. ASSUME point = "commit"
      PROVE  /\ row.version <= then.version + 1
             /\ row.version = then.version + 1 => Follows(then, row)
  <2>1. row.version \in 0..4 /\ now.version \in 0..4
    BY <1>3, StageFacts
  <2>2. /\ row.version <= now.version + 1
        /\ row.version = now.version + 1 => Follows(now, row)
    BY <1>1, <1>7 DEF CopyKnows
  <2>3. then # now => then.version = now.version + 1
    BY <1>1, <1>2, StagesStay
  <2> QED BY <2>1, <2>2, <2>3
<1>8. ASSUME point \in {"fetch_order", "fetch_payment"} PROVE payments'[r.payment] # None
  <2>1. r.payment \in Payments
    BY <1>8
  <2>2. payments[r.payment] # None
    BY <1>8 DEF CopyKnows
  <2> QED BY <2>1, <2>2 DEF Grows
<1>9. row.state # "Absent" /\ StageFits(point, r, row, a)
  BY DEF CopyKnows
<1>10. point = "commit" =>
          /\ row.version <= quotes'[r.quote].version + 1
          /\ row.version = quotes'[r.quote].version + 1 => Follows(quotes'[r.quote], row)
  BY <1>2, <1>7
<1> QED BY <1>5, <1>6, <1>8, <1>9, <1>10 DEF CopyKnows

\* What a handler knows of its claim survives the steps of others.
LEMMA ClaimFrame ==
    ASSUME LedgerInv, Grows, NEW h \in Handlers, NEW point, NEW r, NEW a,
           point = pc[h], r = req[h], Fits(point, r), ClaimKnows(point, r, a)
    PROVE  ClaimKnows(point, r, a)'
<1>1. ASSUME Owning(point, r) PROVE effects[r.intent].status = "pending" /\ r.intent \in Intents
  <2>1. r.intent \in Intents
    BY <1>1 DEF Owning, Fits, OrderPoints
  <2> QED BY <1>1, <2>1 DEF LedgerInv, LedgerMatchesWire, Owns
<1>2. ASSUME Owning(point, r) PROVE Same(r, effects[r.intent])'
  BY <1>1, <1>2 DEF ClaimKnows, Grows, KeepsIntents, Same
<1>3. point \in OrderPoints => r.intent \in Intents
  BY DEF Fits, OrderPoints
<1>4. point = "await" => wire'[r.intent].state # "idle"
  BY <1>3 DEF ClaimKnows, Grows, OrderPoints
<1>5. point = "complete" => wire'[r.intent].state = "answered" /\ a = wire'[r.intent].answer
  BY <1>3 DEF ClaimKnows, Grows, OrderPoints
<1>6. point \in {"respond", "bind"} => effects'[r.intent] = effects[r.intent]
  BY <1>3 DEF ClaimKnows, Grows, KeepsIntents, OrderPoints
<1> QED BY <1>2, <1>4, <1>5, <1>6 DEF ClaimKnows, Same

-----------------------------------------------------------------------------
(* Every step only adds.                                                    *)

LEMMA ArriveShared ==
    ASSUME NEW h \in Handlers, Arrive(h) \/ Abort(h)
    PROVE  UNCHANGED <<effects, evidence, orders, payments, wire>>
BY DEF Arrive, Abort, CreateQuote, CreateOrder, StartVerifyPayment, StartFulfill,
       store, razorpay

LEMMA ProgressShared ==
    ASSUME NEW h \in Handlers, Progress(h)
    PROVE  /\ UNCHANGED <<orders, payments>>
           /\ UNCHANGED wire \/ SendOrder(h)
           /\ UNCHANGED quotes \/ CommitCopy(h)
BY DEF Progress, ClaimOrder, AppendAccepted, SendOrder, ReceiveAnswer, LoseAnswer, FailEffect,
       AppendRejected, CompleteEffect, AppendResponse, BindCopy, FetchOrder, FetchPayment,
       ClaimFulfill, CommitCopy, SettleFulfill, AppendTransition, store, razorpay

LEMMA GrowsStep ==
    ASSUME LedgerInv, [Next]_vars
    PROVE  Grows
<1>0. TypeInv
  BY DEF LedgerInv, TypeInv, SentFits, LedgerMatchesWire
<1> DEFINE KeepsOrders == \A o \in Orders : orders[o] # None => orders'[o] = orders[o]
           KeepsPayments ==
             \A p \in Payments : payments[p] # None =>
                /\ payments'[p] # None
                /\ payments'[p].order = payments[p].order
                /\ payments'[p].amount = payments[p].amount
                /\ payments[p].captured => payments'[p].captured
           KeepsWire ==
             \A i \in Intents :
                /\ wire[i].state # "idle" =>
                      wire'[i].state # "idle" /\ wire'[i].quote = wire[i].quote
                /\ wire[i].state = "answered" => wire'[i] = wire[i]
<1>1. ASSUME UNCHANGED effects PROVE KeepsIntents
  BY <1>1 DEF KeepsIntents
<1>2. CASE UNCHANGED vars
  BY <1>1, <1>2 DEF vars, Grows
<1>3. ASSUME NEW h \in Handlers, Arrive(h) \/ Abort(h) PROVE Grows
  BY <1>1, <1>3, ArriveShared DEF Grows
<1>4. ASSUME NEW h \in Handlers, Progress(h) PROVE Grows
  <2>1. KeepsIntents /\ KeepsOrders /\ KeepsPayments
    BY <1>0, <1>4, LedgerWritesKeep, ProgressShared
  <2>2. KeepsWire
    <3>1. CASE UNCHANGED wire
      BY <3>1
    <3>2. CASE SendOrder(h)
      <4>1. wire[req[h].intent] = NotSent
        BY <3>2 DEF LedgerInv, LedgerMatchesWire, SendOrder
      <4>2. \A i \in Intents : i # req[h].intent => wire'[i] = wire[i]
        BY <3>2, InvTypes DEF SendOrder
      <4> QED BY <4>1, <4>2 DEF NotSent
    <3> QED BY <1>4, <3>1, <3>2, ProgressShared
  <2> QED BY <2>1, <2>2 DEF Grows
<1>5. CASE Environment
  <2>1. UNCHANGED effects
    BY <1>5 DEF Environment, Expire, RazorpayCreates, RazorpayRefuses, Pay, Capture, store
  <2>2. KeepsOrders
    <3>1. ASSUME NEW i \in Intents, NEW o \in Orders, RazorpayCreates(i, o) PROVE KeepsOrders
      BY <3>1 DEF RazorpayCreates, LedgerInv, TypeOK
    <3> QED BY <1>5, <3>1 DEF Environment, Expire, RazorpayRefuses, Pay, Capture, razorpay
  <2>3. KeepsPayments
    <3>1. ASSUME NEW p \in Payments, NEW o \in Orders, NEW a \in Amounts, Pay(p, o, a)
          PROVE  KeepsPayments
      BY <3>1 DEF Pay, LedgerInv, TypeOK
    <3>2. ASSUME NEW p \in Payments, Capture(p) PROVE KeepsPayments
      <4>1. payments[p] \in PaymentRecord /\ payments \in [Payments -> PaymentRecord \cup {None}]
        BY <3>2 DEF Capture, LedgerInv, TypeOK
      <4>2. payments' = [payments EXCEPT ![p] = [payments[p] EXCEPT !.captured = TRUE]]
        BY <3>2 DEF Capture
      <4>3. /\ payments'[p] \in PaymentRecord
            /\ payments'[p].order = payments[p].order
            /\ payments'[p].amount = payments[p].amount
            /\ payments'[p].captured
        BY <4>1, <4>2 DEF PaymentRecord
      <4>4. \A x \in Payments : x # p => payments'[x] = payments[x]
        BY <4>1, <4>2
      <4>5. payments'[p] # None
        BY <4>3, NoRecordAssumption
      <4> QED BY <4>3, <4>4, <4>5
    <3> QED BY <1>5, <3>1, <3>2 DEF Environment, Expire, RazorpayCreates, RazorpayRefuses, razorpay
  <2>4. KeepsWire
    <3>1. ASSUME NEW i \in Intents, NEW a, wire[i].state = "sent",
                 wire' = [wire EXCEPT ![i] = Answered(wire[i].quote, a)]
          PROVE  KeepsWire
      BY <3>1, InvTypes DEF Answered
    <3>2. ASSUME NEW i \in Intents, NEW o \in Orders, RazorpayCreates(i, o) PROVE KeepsWire
      BY <3>1, <3>2 DEF RazorpayCreates
    <3>3. ASSUME NEW i \in Intents, RazorpayRefuses(i) PROVE KeepsWire
      BY <3>1, <3>3 DEF RazorpayRefuses
    <3> QED BY <1>5, <3>2, <3>3 DEF Environment, Expire, Pay, Capture, razorpay
  <2> QED BY <1>1, <2>1, <2>2, <2>3, <2>4 DEF Grows
<1> QED BY <1>2, <1>3, <1>4, <1>5 DEF Next

-----------------------------------------------------------------------------
(* The stored quotes advance, one stage at a time.                          *)

LEMMA AdvanceStep ==
    ASSUME SettleInv, Grows, [Next]_vars
    PROVE  QuotesAdvance
<1>0. LedgerInv /\ \A q \in Quotes : Backed(q, quotes[q])
  BY DEF SettleInv
<1>1. ASSUME NEW q \in Quotes, quotes'[q] = quotes[q]
      PROVE  Advanced(quotes[q], quotes'[q]) /\ Backed(q, quotes[q])'
  <2>1. PICK row : row = quotes[q]
    OBVIOUS
  <2>2. Backed(q, row)'
    BY <1>0, <2>1, BackedStays
  <2> QED BY <1>1, <2>1, <2>2 DEF Advanced
<1>2. CASE UNCHANGED quotes
  BY <1>1, <1>2 DEF QuotesAdvance
<1>3. ASSUME NEW h \in Handlers, NEW q \in Quotes, CreateQuote(h, q) PROVE QuotesAdvance
  <2>1. quotes[q] = AbsentRow /\ quotes' = [quotes EXCEPT ![q] = Issue]
    BY <1>3 DEF CreateQuote
  <2>2. quotes'[q] = Issue /\ \A x \in Quotes : x # q => quotes'[x] = quotes[x]
    BY <1>0, <2>1, InvTypes
  <2>3. Advanced(quotes[q], quotes'[q]) /\ Backed(q, quotes[q])'
    BY <2>1, <2>2 DEF Advanced, Backed
  <2> QED BY <1>1, <2>2, <2>3 DEF QuotesAdvance
<1>4. ASSUME NEW h \in Handlers, CommitCopy(h) PROVE QuotesAdvance
  <2>1. CASE UNCHANGED quotes
    BY <1>2, <2>1
  <2>2. CASE ~UNCHANGED quotes
    <3>1. PICK r : r = req[h]
      OBVIOUS
    <3>2. PICK row : row = copy[h]
      OBVIOUS
    <3>3. /\ pc[h] = "commit" /\ quotes[r.quote].version = row.version - 1
          /\ quotes' = [quotes EXCEPT ![r.quote] = row]
      BY <1>4, <2>2, <3>1, <3>2 DEF CommitCopy
    <3>4. r.quote \in Quotes /\ row \in Row
      BY <1>0, <3>1, <3>2, <3>3, InvTypes DEF Fits, LocalsOK
    <3>5. CopyKnows("commit", r, row, answer[h])
      BY <3>1, <3>2, <3>3 DEF SettleInv, HandlerKnows
    <3>6. row.version = quotes[r.quote].version + 1
      BY <1>0, <3>3, <3>4 DEF Row
    <3>7. Follows(quotes[r.quote], row) /\ Backed(r.quote, row)
      BY <3>5, <3>6 DEF CopyKnows
    <3>8. quotes'[r.quote] = row /\ \A x \in Quotes : x # r.quote => quotes'[x] = quotes[x]
      BY <1>0, <3>3, <3>4, InvTypes
    <3>9. Backed(r.quote, row)'
      BY <1>0, <3>4, <3>7, BackedStays
    <3>10. Advanced(quotes[r.quote], quotes'[r.quote]) /\ Backed(r.quote, quotes[r.quote])'
      BY <3>7, <3>8, <3>9 DEF Advanced
    <3> QED BY <1>1, <3>8, <3>10 DEF QuotesAdvance
  <2> QED BY <2>1, <2>2
<1>5. ASSUME NEW h \in Handlers, Arrive(h) PROVE QuotesAdvance
  BY <1>2, <1>3, <1>5 DEF Arrive, CreateOrder, StartVerifyPayment, StartFulfill, store
<1>6. ASSUME NEW h \in Handlers, Progress(h) PROVE QuotesAdvance
  BY <1>2, <1>4, <1>6, ProgressShared
<1>7. ASSUME NEW h \in Handlers, Abort(h) PROVE QuotesAdvance
  BY <1>2, <1>7 DEF Abort, store
<1>8. CASE Environment
  BY <1>2, <1>8 DEF Environment, Expire, RazorpayCreates, RazorpayRefuses, Pay, Capture, store
<1> QED BY <1>2, <1>5, <1>6, <1>7, <1>8 DEF Next, vars

-----------------------------------------------------------------------------
(* What the handlers know.                                                  *)

\* A handler that another one, Razorpay or the clock left where it was.
LEMMA HandlerStays ==
    ASSUME SettleInv, Grows, QuotesAdvance, NEW h \in Handlers,
           pc'[h] = pc[h], req'[h] = req[h], copy'[h] = copy[h], answer'[h] = answer[h]
    PROVE  HandlerKnows(h)'
<1>0. LedgerInv /\ (\A q \in Quotes : Backed(q, quotes[q])) /\ HandlerKnows(h)
  BY DEF SettleInv
<1>1. PICK point : point = pc[h]
  OBVIOUS
<1>2. PICK r : r = req[h]
  OBVIOUS
<1>3. PICK row : row = copy[h]
  OBVIOUS
<1>4. PICK a : a = answer[h]
  OBVIOUS
<1>5. r \in Request /\ Fits(point, r)
  BY <1>0, <1>1, <1>2, InvTypes DEF LocalsOK
<1>6. CASE point = "idle"
  BY <1>1, <1>6 DEF HandlerKnows
<1>7. CASE point # "idle"
  <2>1. CopyKnows(point, r, row, a) /\ ClaimKnows(point, r, a)
    BY <1>0, <1>1, <1>2, <1>3, <1>4, <1>7 DEF HandlerKnows
  <2>2. /\ r.quote \in Quotes
        /\ r.op = "verify_payment" => r.payment \in Payments
        /\ point \in {"fetch_order", "fetch_payment"} => r.op = "verify_payment"
    BY <1>5, <1>7 DEF Fits
  <2>3. CopyKnows(point, r, row, a)'
    BY <1>0, <1>5, <2>1, <2>2, CopyFrame
  <2>4. ClaimKnows(point, r, a)'
    BY <1>0, <1>1, <1>2, <1>5, <2>1, ClaimFrame
  <2> QED BY <1>1, <1>2, <1>3, <1>4, <2>3, <2>4 DEF HandlerKnows
<1> QED BY <1>6, <1>7

\* A handler that goes on with the copy it has.
LEMMA HandlerMoves ==
    ASSUME SettleInv, Grows, QuotesAdvance, NEW h \in Handlers, NEW next, NEW b,
           pc[h] \notin {"idle", "commit"}, next # "commit",
           pc'[h] = next, req'[h] = req[h], copy'[h] = copy[h], answer'[h] = b,
           StageFits(next, req[h], copy[h], b),
           next \in {"fetch_order", "fetch_payment"} => pc[h] \in {"fetch_order", "fetch_payment"},
           ClaimKnows(next, req[h], b)'
    PROVE  HandlerKnows(h)'
<1>0. LedgerInv /\ (\A q \in Quotes : Backed(q, quotes[q])) /\ HandlerKnows(h)
  BY DEF SettleInv
<1>1. PICK point : point = pc[h]
  OBVIOUS
<1>2. PICK r : r = req[h]
  OBVIOUS
<1>3. PICK row : row = copy[h]
  OBVIOUS
<1>4. PICK a : a = answer[h]
  OBVIOUS
<1>5. r \in Request /\ Fits(point, r) /\ CopyKnows(point, r, row, a)
  BY <1>0, <1>1, <1>2, <1>3, <1>4, InvTypes DEF LocalsOK, HandlerKnows
<1>6. /\ r.quote \in Quotes
      /\ r.op = "verify_payment" => r.payment \in Payments
      /\ point \in {"fetch_order", "fetch_payment"} => r.op = "verify_payment"
  BY <1>1, <1>5 DEF Fits
<1>7. CopyKnows(point, r, row, a)'
  BY <1>0, <1>5, <1>6, CopyFrame
<1>8. CopyKnows(next, r, row, b)'
  BY <1>1, <1>2, <1>3, <1>7 DEF CopyKnows
<1> QED BY <1>2, <1>3, <1>8 DEF HandlerKnows

\* A handler that goes to "commit" with a copy one stage later.
LEMMA CommitReady ==
    ASSUME NEW r, NEW row, NEW next, NEW a, r.quote \in Quotes,
           quotes'[r.quote] = quotes[r.quote],
           Backed(r.quote, row), KeptBy(row, quotes[r.quote]),
           quotes[r.quote].version \in 0..4,
           Follows(row, next), Backed(r.quote, next)', StageFits("commit", r, next, a)
    PROVE  CopyKnows("commit", r, next, a)'
<1>1. /\ next.version = row.version + 1
      /\ row.version \in 0..4
      /\ next.state # "Absent"
  BY FollowFacts, StageFacts
<1>2. next.version <= quotes[r.quote].version + 1
  BY <1>1 DEF KeptBy
<1>3. next.version = quotes[r.quote].version + 1 => Follows(quotes[r.quote], next)
  BY <1>1 DEF KeptBy
<1> QED BY <1>1, <1>2, <1>3 DEF CopyKnows

\* A handler that has just loaded, inserted or updated the row it holds.
LEMMA FreshCopy ==
    ASSUME NEW next, NEW r, NEW row, NEW a, r.quote \in Quotes, next # "commit",
           Backed(r.quote, row)', row.version \in Nat, quotes'[r.quote] = row,
           row.state # "Absent", StageFits(next, r, row, a),
           next \in {"fetch_order", "fetch_payment"} => payments'[r.payment] # None
    PROVE  CopyKnows(next, r, row, a)'
<1>1. KeptBy(row, quotes[r.quote])'
  BY DEF KeptBy
<1> QED BY <1>1 DEF CopyKnows

LEMMA ArriveKnows ==
    ASSUME SettleInv, Grows, NEW h \in Handlers, Arrive(h)
    PROVE  HandlerKnows(h)'
<1>0. /\ LedgerInv /\ (\A q \in Quotes : Backed(q, quotes[q])) /\ LocalsOK
      /\ quotes \in [Quotes -> Row]
  BY InvTypes DEF SettleInv
<1>1. ASSUME NEW r, NEW row, NEW next, Start(h, r, row, next)
      PROVE  pc'[h] = next /\ req'[h] = r /\ copy'[h] = row /\ answer'[h] = answer[h]
  BY <1>0, <1>1 DEF Start, Goto, LocalsOK
<1>2. PICK a : a = answer[h]
  OBVIOUS
\* The handler loads the row and keeps it.
<1>3. ASSUME NEW r, NEW next \in {"claim_order", "fetch_order", "claim_fulfill"},
             r.quote \in Quotes, Start(h, r, quotes[r.quote], next),
             quotes' = quotes, quotes[r.quote].state # "Absent",
             StageFits(next, r, quotes[r.quote], a),
             next = "fetch_order" => payments'[r.payment] # None
      PROVE  HandlerKnows(h)'
  <2>1. PICK row : row = quotes[r.quote]
    OBVIOUS
  <2>2. Backed(r.quote, row) /\ row.version \in Nat
    BY <1>0, <1>3, <2>1 DEF Row
  <2>3. Backed(r.quote, row)'
    BY <1>0, <1>3, <2>2, BackedStays
  <2>4. CopyKnows(next, r, row, a)'
    BY <1>3, <2>1, <2>2, <2>3, FreshCopy
  <2>5. ClaimKnows(next, r, a)'
    BY DEF ClaimKnows, Owning
  <2> QED BY <1>1, <1>2, <1>3, <2>1, <2>4, <2>5 DEF HandlerKnows
<1>4. ASSUME NEW q \in Quotes, CreateQuote(h, q) PROVE HandlerKnows(h)'
  <2> DEFINE r == AskQuote(q)
  <2>1. r.quote = q /\ r.op = "create_quote"
    BY DEF AskQuote, Ask
  <2>2. Start(h, r, Issue, "append") /\ quotes'[q] = Issue
    BY <1>0, <1>4 DEF CreateQuote
  <2>3. StageFits("append", r, Issue, a)
    BY <2>1 DEF StageFits, StageOf, OrderPoints, Committed, Issue
  <2>4. Backed(q, Issue)' /\ Issue.version \in Nat /\ Issue.state # "Absent"
    BY DEF Backed, Issue
  <2>5. CopyKnows("append", r, Issue, a)'
    BY <2>1, <2>2, <2>3, <2>4, FreshCopy
  <2>6. ClaimKnows("append", r, a)'
    BY DEF ClaimKnows, Owning
  <2> QED BY <1>1, <1>2, <2>2, <2>5, <2>6 DEF HandlerKnows
<1>5. ASSUME NEW q \in Quotes, NEW i \in Intents, CreateOrder(h, q, i), ~UNCHANGED handler
      PROVE  HandlerKnows(h)'
  <2>1. AskOrder(q, i).quote = q
    BY DEF AskOrder, Ask
  <2>2. Start(h, AskOrder(q, i), quotes[q], "claim_order") /\ quotes[q].state = "Issued"
    BY <1>5 DEF CreateOrder
  <2>3. StageFits("claim_order", AskOrder(q, i), quotes[q], a)
    BY <2>2 DEF StageFits, Committed
  <2> QED BY <1>3, <1>5, <2>1, <2>2, <2>3 DEF CreateOrder, store
<1>6. ASSUME NEW q \in Quotes, NEW p \in Payments, StartVerifyPayment(h, q, p)
      PROVE  HandlerKnows(h)'
  <2>1. AskVerify(q, p).quote = q /\ AskVerify(q, p).payment = p
    BY DEF AskVerify, Ask
  <2>2. StageFits("fetch_order", AskVerify(q, p), quotes[q], a)
    BY <1>6 DEF StageFits, StartVerifyPayment, Committed, OrderPoints
  <2> QED BY <1>3, <1>6, <2>1, <2>2 DEF StartVerifyPayment, store, razorpay
<1>7. ASSUME NEW q \in Quotes, NEW i \in Intents, NEW f \in References,
             StartFulfill(h, q, i, f), ~UNCHANGED handler
      PROVE  HandlerKnows(h)'
  <2>1. AskFulfill(q, i, f).quote = q
    BY DEF AskFulfill, Ask
  <2>2. /\ Start(h, AskFulfill(q, i, f), quotes[q], "claim_fulfill")
        /\ quotes[q].state \notin {"Absent", "Fulfilled"}
    BY <1>7 DEF StartFulfill
  <2>3. StageFits("claim_fulfill", AskFulfill(q, i, f), quotes[q], a)
    BY <2>2 DEF StageFits, Committed, OrderPoints
  <2> QED BY <1>3, <1>7, <2>1, <2>2, <2>3 DEF StartFulfill, store
<1>8. CASE UNCHANGED handler /\ pc[h] = "idle"
  BY <1>8 DEF handler, HandlerKnows
<1>9. pc[h] = "idle"
  BY DEF Arrive, CreateQuote, CreateOrder, StartVerifyPayment, StartFulfill
<1> QED BY <1>4, <1>5, <1>6, <1>7, <1>8, <1>9 DEF Arrive

LEMMA ProgressKnows ==
    ASSUME SettleInv, Grows, QuotesAdvance, NEW h \in Handlers, Progress(h)
    PROVE  HandlerKnows(h)'
<1>0. /\ LedgerInv /\ (\A q \in Quotes : Backed(q, quotes[q])) /\ LocalsOK
      /\ quotes \in [Quotes -> Row] /\ effects \in [Intents -> Effect]
      /\ wire \in [Intents -> Wire]
  BY InvTypes DEF SettleInv
<1>1. PICK r : r = req[h]
  OBVIOUS
<1>2. PICK row : row = copy[h]
  OBVIOUS
<1>3. PICK a : a = answer[h]
  OBVIOUS
<1>4. PICK point : point = pc[h]
  OBVIOUS
<1>5. r \in Request /\ row \in Row /\ a \in Answer /\ Fits(point, r)
  BY <1>0, <1>1, <1>2, <1>3, <1>4, InvTypes DEF LocalsOK
<1>6. point # "idle"
  BY <1>4 DEF Progress, ClaimOrder, AppendAccepted, SendOrder, ReceiveAnswer, LoseAnswer,
       FailEffect, AppendRejected, CompleteEffect, AppendResponse, BindCopy, FetchOrder,
       FetchPayment, ClaimFulfill, CommitCopy, SettleFulfill, AppendTransition
<1>7. /\ CopyKnows(point, r, row, a) /\ ClaimKnows(point, r, a)
      /\ r.quote \in Quotes /\ Backed(r.quote, row) /\ StageFits(point, r, row, a)
      /\ quotes[r.quote].version \in 0..4
  BY <1>0, <1>1, <1>2, <1>3, <1>4, <1>5, <1>6, StageFacts
  DEF SettleInv, HandlerKnows, CopyKnows, Fits
<1>8. point \in OrderPoints \/ r.op = "fulfill" => r.intent \in Intents
  BY <1>5, <1>6 DEF Fits, OrderPoints
<1>9. ASSUME Finish(h) PROVE HandlerKnows(h)'
  BY <1>0, <1>9 DEF Finish, Goto, LocalsOK, HandlerKnows
<1>10. ASSUME NEW next, Goto(h, next), UNCHANGED <<req, copy, answer>>
       PROVE  pc'[h] = next /\ req'[h] = r /\ copy'[h] = row /\ answer'[h] = a
  BY <1>0, <1>1, <1>2, <1>3, <1>10 DEF Goto, LocalsOK
\* h goes on with its request, copy and answer.
<1>11. ASSUME NEW next, Goto(h, next), UNCHANGED <<req, copy, answer>>,
              point # "commit", next \notin {"commit", "fetch_order", "fetch_payment"},
              StageFits(next, r, row, a), ClaimKnows(next, r, a)'
       PROVE  HandlerKnows(h)'
  <2>1. ClaimKnows(next, req[h], a)'
    BY <1>10, <1>11 DEF ClaimKnows
  <2> QED BY <1>1, <1>2, <1>3, <1>4, <1>6, <1>10, <1>11, <2>1, HandlerMoves
\* h goes on with another answer.
<1>12. ASSUME NEW next, NEW b, Goto(h, next), answer' = [answer EXCEPT ![h] = b],
              UNCHANGED <<req, copy>>, point # "commit",
              next \notin {"commit", "fetch_order"},
              next = "fetch_payment" => point = "fetch_order",
              StageFits(next, r, row, b), ClaimKnows(next, r, b)'
       PROVE  HandlerKnows(h)'
  <2>1. pc'[h] = next /\ req'[h] = r /\ copy'[h] = row /\ answer'[h] = b
    BY <1>0, <1>1, <1>2, <1>12 DEF Goto, LocalsOK
  <2>2. ClaimKnows(next, req[h], b)'
    BY <1>12, <2>1 DEF ClaimKnows
  <2> QED BY <1>1, <1>2, <1>4, <1>6, <1>12, <2>1, <2>2, HandlerMoves
\* h changes its copy and goes to the commit.
<1>13. ASSUME NEW next, Goto(h, "commit"), copy' = [copy EXCEPT ![h] = next],
              UNCHANGED <<req, answer, quotes>>, point # "commit",
              Follows(row, next), Backed(r.quote, next)', StageFits("commit", r, next, a),
              ClaimKnows("commit", r, a)'
       PROVE  HandlerKnows(h)'
  <2>1. pc'[h] = "commit" /\ req'[h] = r /\ copy'[h] = next /\ answer'[h] = a
    BY <1>0, <1>1, <1>3, <1>13 DEF Goto, LocalsOK
  <2>2. KeptBy(row, quotes[r.quote]) /\ quotes'[r.quote] = quotes[r.quote]
    BY <1>7, <1>13 DEF CopyKnows
  <2>3. CopyKnows("commit", r, next, a)'
    BY <1>7, <1>13, <2>2, CommitReady
  <2> QED BY <1>13, <2>1, <2>3 DEF HandlerKnows
<1>14. \A next \in OrderPoints : point \in OrderPoints => StageFits(next, r, row, a)
  BY <1>7 DEF StageFits, OrderPoints, Committed
<1>21. ASSUME ClaimOrder(h) PROVE HandlerKnows(h)'
  <2>0. point = "claim_order" /\ r.intent \in Intents
    BY <1>4, <1>8, <1>21 DEF ClaimOrder, OrderPoints
  <2>1. CASE effects' = [effects EXCEPT ![r.intent] = PendingEffect(r)]
             /\ Goto(h, "accept") /\ UNCHANGED <<req, copy, answer>>
    <3>1. effects'[r.intent] = PendingEffect(r)
      BY <1>0, <2>0, <2>1
    <3>2. ClaimKnows("accept", r, a)'
      BY <3>1 DEF ClaimKnows, Same, PendingEffect
    <3> QED BY <1>11, <1>14, <2>0, <2>1, <3>2 DEF OrderPoints
  <2>2. CASE /\ ClaimIsReplay(r, effects[r.intent])
             /\ answer' = [answer EXCEPT ![h] = effects[r.intent].response]
             /\ Goto(h, "bind") /\ UNCHANGED <<effects, req, copy>>
    <3>1. PICK b : b = effects[r.intent].response
      OBVIOUS
    <3>2. ClaimKnows("bind", r, b)'
      BY <2>2, <3>1 DEF ClaimKnows, ClaimIsReplay, Owning
    <3>3. StageFits("bind", r, row, b)
      BY <1>7, <2>0 DEF StageFits, OrderPoints, Committed
    <3> QED BY <1>12, <2>0, <2>2, <3>1, <3>2, <3>3
  <2> QED BY <1>1, <1>9, <1>21, <2>1, <2>2 DEF ClaimOrder
<1>22. ASSUME AppendAccepted(h) PROVE HandlerKnows(h)'
  <2>1. point = "accept" /\ UNCHANGED <<effects, wire>>
    BY <1>4, <1>22 DEF AppendAccepted, razorpay
  <2>2. ClaimKnows("send", r, a)'
    BY <1>7, <2>1 DEF ClaimKnows, Owning
  <2> QED BY <1>11, <1>14, <1>22, <2>1, <2>2 DEF AppendAccepted, OrderPoints
<1>23. ASSUME SendOrder(h) PROVE HandlerKnows(h)'
  <2>1. point = "send" /\ UNCHANGED effects /\ r.intent \in Intents
    BY <1>4, <1>8, <1>23 DEF SendOrder, store, OrderPoints
  <2>2. wire'[r.intent].state # "idle"
    BY <1>0, <1>1, <1>23, <2>1 DEF SendOrder, Sent
  <2>3. ClaimKnows("await", r, a)'
    BY <1>7, <2>1, <2>2 DEF ClaimKnows, Owning
  <2> QED BY <1>11, <1>14, <1>23, <2>1, <2>3 DEF SendOrder, OrderPoints
<1>24. ASSUME ReceiveAnswer(h) PROVE HandlerKnows(h)'
  <2>1. point = "await" /\ UNCHANGED <<effects, wire>> /\ wire[r.intent].state = "answered"
    BY <1>1, <1>4, <1>24 DEF ReceiveAnswer, store, razorpay
  <2>2. PICK b : b = wire[r.intent].answer
    OBVIOUS
  <2>3. \A next \in {"fail", "complete"} : StageFits(next, r, row, b)
    BY <1>7, <2>1 DEF StageFits, OrderPoints, Committed
  <2>4. \A next \in {"fail", "complete"} : ClaimKnows(next, r, b)'
    BY <1>7, <2>1, <2>2 DEF ClaimKnows, Owning
  <2>5. PICK next \in {"fail", "complete"} : Goto(h, next)
    BY <1>24 DEF ReceiveAnswer
  <2>6. answer' = [answer EXCEPT ![h] = b] /\ UNCHANGED <<req, copy>>
    BY <1>1, <1>24, <2>2 DEF ReceiveAnswer
  <2> QED BY <1>12, <2>1, <2>3, <2>4, <2>5, <2>6
<1>25. ASSUME LoseAnswer(h) PROVE HandlerKnows(h)'
  <2>1. point = "await" /\ UNCHANGED <<effects, wire>>
    BY <1>4, <1>25 DEF LoseAnswer, store, razorpay
  <2>2. ClaimKnows("fail", r, a)'
    BY <1>7, <2>1 DEF ClaimKnows, Owning
  <2> QED BY <1>11, <1>14, <1>25, <2>1, <2>2 DEF LoseAnswer, OrderPoints
<1>26. ASSUME FailEffect(h) PROVE HandlerKnows(h)'
  <2>1. point = "fail"
    BY <1>4, <1>26 DEF FailEffect
  <2>2. ClaimKnows("reject", r, a)'
    BY DEF ClaimKnows, Owning
  <2> QED BY <1>9, <1>11, <1>14, <1>26, <2>1, <2>2 DEF FailEffect, OrderPoints
<1>27. ASSUME AppendRejected(h) PROVE HandlerKnows(h)'
  BY <1>9, <1>27 DEF AppendRejected
<1>28. ASSUME CompleteEffect(h) PROVE HandlerKnows(h)'
  <2>1. point = "complete" /\ r.intent \in Intents
    BY <1>4, <1>8, <1>28 DEF CompleteEffect, OrderPoints
  <2>2. CASE Resolve(h, "completed", answer[h]) /\ Goto(h, "respond")
             /\ UNCHANGED <<req, copy, answer>>
    <3>1. effects'[r.intent] = Resolved(effects[r.intent], "completed", a)
      BY <1>0, <1>1, <1>3, <2>1, <2>2 DEF Resolve
    <3>2. ClaimKnows("respond", r, a)'
      BY <1>7, <2>1, <3>1 DEF ClaimKnows, Owning, Same, Resolved
    <3> QED BY <1>11, <1>14, <2>1, <2>2, <3>2 DEF OrderPoints
  <2> QED BY <1>9, <1>28, <2>2 DEF CompleteEffect
<1>29. ASSUME AppendResponse(h) PROVE HandlerKnows(h)'
  <2>1. point = "respond" /\ UNCHANGED <<effects, wire>>
    BY <1>4, <1>29 DEF AppendResponse, razorpay
  <2>2. ClaimKnows("bind", r, a)'
    BY <1>7, <2>1 DEF ClaimKnows, Owning
  <2> QED BY <1>11, <1>14, <1>29, <2>1, <2>2 DEF AppendResponse, OrderPoints
<1>30. ASSUME BindCopy(h) PROVE HandlerKnows(h)'
  <2>1. /\ point = "bind" /\ r.intent \in Intents /\ row = Issue
        /\ UNCHANGED <<quotes, effects, orders>>
    BY <1>4, <1>7, <1>8, <1>30, StageFacts DEF BindCopy, OrderPoints, StageFits, store, razorpay
  <2>2. CASE /\ answer[h].kind = "created" /\ Goto(h, "commit")
             /\ copy' = [copy EXCEPT ![h] = BindOrder(copy[h], answer[h].order)]
             /\ UNCHANGED <<req, answer>>
    <3>1. /\ effects[r.intent].status = "completed" /\ Same(r, effects[r.intent])
          /\ effects[r.intent].response = a
      BY <1>7, <2>1 DEF ClaimKnows
    <3>2. PICK o : o = a.order
      OBVIOUS
    <3>3. r.op = "create_order" /\ effects[r.intent].body.quote = r.quote
      BY <1>5, <2>1, <3>1 DEF Fits, OrderPoints, Same, Body
    <3>4. MadeFor(r.intent, r.quote, o)
      BY <1>3, <2>1, <2>2, <3>1, <3>2, <3>3 DEF SettleInv, IntentKnows
    <3>5. /\ o \in Orders /\ orders[o].quote = r.quote /\ orders[o].amount = Price[r.quote]
          /\ orders[o].intent = r.intent /\ orders[o] # None
      <4>1. [quote |-> r.quote, amount |-> Price[r.quote], intent |-> r.intent] \in OrderRecord
        BY <1>7, <2>1, PriceAssumption DEF OrderRecord
      <4> QED BY <3>4, <4>1, NoRecordAssumption DEF MadeFor
    <3>6. a = Created(o)
      BY <1>3, <1>5, <2>2, <3>2 DEF Answer, Created
    <3>7. OrderBacks(r.quote, o)
      BY <3>1, <3>5, <3>6 DEF OrderBacks
    <3>8. OrderBacks(r.quote, o)'
      BY <1>0, <1>7, <3>7, OrderBacksStays
    <3>9. PICK next : next = BindOrder(row, o)
      OBVIOUS
    <3>10. /\ next.state = "OrderBound" /\ next.version = 2 /\ next.order = o
           /\ next.payment = None /\ next.reference = None
      BY <2>1, <3>9 DEF BindOrder, Issue
    <3>11. Backed(r.quote, next)'
      BY <3>8, <3>10 DEF Backed
    <3>12. Follows(row, next)
      BY <2>1, <3>5, <3>9 DEF Follows, Issue
    <3>13. StageFits("commit", r, next, a)
      BY <3>3, <3>10 DEF StageFits, StageOf, OrderPoints
    <3>14. ClaimKnows("commit", r, a)'
      BY <3>3 DEF ClaimKnows, Owning
    <3>15. copy' = [copy EXCEPT ![h] = next]
      BY <1>2, <1>3, <2>2, <3>2, <3>9
    <3> QED BY <1>13, <2>1, <2>2, <3>11, <3>12, <3>13, <3>14, <3>15
  <2> QED BY <1>9, <1>30, <2>2 DEF BindCopy
<1>31. ASSUME FetchOrder(h) PROVE HandlerKnows(h)'
  <2>1. point = "fetch_order"
    BY <1>4, <1>31 DEF FetchOrder
  <2>2. PICK b : b = Created(row.order)
    OBVIOUS
  <2>3. StageFits("fetch_payment", r, row, b)
    BY <1>7, <2>1, <2>2 DEF StageFits, OrderPoints, Committed
  <2>4. ClaimKnows("fetch_payment", r, b)'
    BY DEF ClaimKnows, Owning
  <2> QED BY <1>2, <1>12, <1>31, <2>1, <2>2, <2>3, <2>4 DEF FetchOrder
<1>32. ASSUME FetchPayment(h) PROVE HandlerKnows(h)'
  <2>1. /\ point = "fetch_payment" /\ row.state = "OrderBound" /\ a = Created(row.order)
        /\ UNCHANGED <<quotes, effects, orders, payments>>
    BY <1>4, <1>7, <1>32 DEF FetchPayment, StageFits, store, razorpay
  <2>2. PICK p : p = r.payment
    OBVIOUS
  <2>3. r.op = "verify_payment" /\ p \in Payments /\ payments[p] # None
    BY <1>5, <1>7, <2>1, <2>2 DEF Fits, CopyKnows
  <2>4. CASE /\ QuoteBinding(r.quote, row.order, payments[p])
             /\ Goto(h, "commit") /\ UNCHANGED <<req, answer>>
             /\ copy' = [copy EXCEPT ![h] = VerifyPayment(row, p)]
    <3>1. PICK next : next = VerifyPayment(row, p)
      OBVIOUS
    <3>2. OrderBacks(r.quote, row.order) /\ row.version = 2
      BY <1>7, <2>1 DEF Backed, AbsentRow, Issue
    <3>3. /\ payments[p].order = row.order /\ payments[p].amount = Price[r.quote]
          /\ payments[p].captured
      BY <2>4 DEF QuoteBinding
    <3>4. PaymentBacks(r.quote, p)
      BY <2>3, <3>2, <3>3 DEF PaymentBacks, OrderBacks
    <3>5. OrderBacks(r.quote, row.order)' /\ PaymentBacks(r.quote, p)'
          /\ payments'[p].order = row.order
      <4>1. PICK o : o = row.order
        OBVIOUS
      <4> QED BY <1>0, <1>7, <3>2, <3>3, <3>4, <4>1, OrderBacksStays, PaymentBacksStays
    <3>6. /\ next.state = "PaymentVerified" /\ next.version = 3 /\ next.order = row.order
          /\ next.payment = p /\ next.reference = None
      BY <3>1, <3>2 DEF VerifyPayment
    <3>7. Backed(r.quote, next)'
      BY <3>5, <3>6 DEF Backed
    <3>8. Follows(row, next)
      BY <2>1, <2>3, <3>1 DEF Follows
    <3>9. StageFits("commit", r, next, a)
      BY <2>3, <3>6 DEF StageFits, StageOf, OrderPoints
    <3>10. ClaimKnows("commit", r, a)'
      BY <2>3 DEF ClaimKnows, Owning
    <3> QED BY <1>13, <2>1, <2>4, <3>1, <3>7, <3>8, <3>9, <3>10
  <2>5. \/ Finish(h)
        \/ /\ QuoteBinding(r.quote, row.order, payments[p])
           /\ Goto(h, "commit") /\ UNCHANGED <<req, answer>>
           /\ copy' = [copy EXCEPT ![h] = VerifyPayment(row, p)]
    BY <1>1, <1>2, <1>3, <1>32, <2>1, <2>2 DEF FetchPayment, Created
  <2> QED BY <1>9, <2>4, <2>5
<1>33. ASSUME ClaimFulfill(h) PROVE HandlerKnows(h)'
  <2>1. /\ point = "claim_fulfill" /\ r.op = "fulfill" /\ r.intent \in Intents
        /\ r.reference \in References
    BY <1>4, <1>5, <1>33 DEF ClaimFulfill, Fits
  <2>2. CASE /\ effects' = [effects EXCEPT ![r.intent] = PendingEffect(r)]
             /\ row.state = "PaymentVerified"
             /\ copy' = [copy EXCEPT ![h] = Fulfill(row, r.reference)]
             /\ Goto(h, "commit") /\ UNCHANGED <<req, answer>>
    <3>1. PICK next : next = Fulfill(row, r.reference)
      OBVIOUS
    <3>2. PaymentBacks(r.quote, row.payment) /\ row.version = 3
      BY <1>7, <2>2 DEF Backed, AbsentRow, Issue
    <3>3. PaymentBacks(r.quote, row.payment)'
      <4>1. PICK p : p = row.payment
        OBVIOUS
      <4> QED BY <1>0, <1>7, <3>2, <4>1, PaymentBacksStays
    <3>4. /\ next.state = "Fulfilled" /\ next.version = 4 /\ next.order = None
          /\ next.payment = row.payment /\ next.reference = r.reference
      BY <3>1, <3>2 DEF Fulfill
    <3>5. Backed(r.quote, next)'
      BY <2>1, <3>3, <3>4 DEF Backed
    <3>6. Follows(row, next)
      BY <2>1, <2>2, <3>1 DEF Follows
    <3>7. StageFits("commit", r, next, a)
      BY <2>1, <3>4 DEF StageFits, StageOf, OrderPoints
    <3>8. effects'[r.intent] = PendingEffect(r)
      BY <1>0, <2>1, <2>2
    <3>9. ClaimKnows("commit", r, a)'
      BY <3>8 DEF ClaimKnows, Same, PendingEffect
    <3>10. UNCHANGED quotes
      BY <1>33 DEF ClaimFulfill
    <3> QED BY <1>13, <2>1, <2>2, <3>1, <3>5, <3>6, <3>7, <3>9, <3>10
  <2> QED BY <1>1, <1>2, <1>9, <1>33, <2>2 DEF ClaimFulfill
<1>34. ASSUME CommitCopy(h) PROVE HandlerKnows(h)'
  <2>1. point = "commit" /\ UNCHANGED <<effects, wire, payments>>
    BY <1>4, <1>34 DEF CommitCopy, razorpay
  <2>2. CASE /\ quotes' = [quotes EXCEPT ![r.quote] = row]
             /\ Goto(h, IF r.op = "fulfill" THEN "settle" ELSE "append")
             /\ UNCHANGED <<req, copy, answer>>
    <3>1. PICK next \in Committed : next = IF r.op = "fulfill" THEN "settle" ELSE "append"
      BY DEF Committed
    <3>2. StageFits(next, r, row, a)
      BY <1>7, <2>1, <3>1 DEF StageFits, OrderPoints, Committed
    <3>3. quotes'[r.quote] = row /\ Backed(r.quote, row)' /\ row.version \in Nat
      BY <1>0, <1>5, <1>7, <2>2, BackedStays DEF Row
    <3>4. row.state # "Absent" /\ next \notin {"commit", "fetch_order", "fetch_payment"}
      BY <1>7, <3>1 DEF CopyKnows, Committed
    <3>5. CopyKnows(next, r, row, a)'
      BY <1>7, <3>2, <3>3, <3>4, FreshCopy
    <3>6. ClaimKnows(next, r, a)'
      BY <1>7, <2>1, <3>1 DEF ClaimKnows, Owning, Committed
    <3> QED BY <1>10, <2>2, <3>1, <3>5, <3>6 DEF HandlerKnows
  <2> QED BY <1>1, <1>2, <1>9, <1>34, <2>2 DEF CommitCopy
<1>35. ASSUME SettleFulfill(h) PROVE HandlerKnows(h)'
  <2>1. point = "settle"
    BY <1>4, <1>35 DEF SettleFulfill
  <2>2. StageFits("append", r, row, a) /\ ClaimKnows("append", r, a)'
    BY <1>7, <2>1 DEF StageFits, OrderPoints, Committed, ClaimKnows, Owning
  <2> QED BY <1>9, <1>11, <1>35, <2>1, <2>2 DEF SettleFulfill
<1>36. ASSUME AppendTransition(h) PROVE HandlerKnows(h)'
  BY <1>9, <1>36 DEF AppendTransition
<1> QED BY <1>21, <1>22, <1>23, <1>24, <1>25, <1>26, <1>27, <1>28, <1>29, <1>30, <1>31, <1>32,
       <1>33, <1>34, <1>35, <1>36 DEF Progress

LEMMA OthersUnmoved ==
    ASSUME LocalsOK, NEW h \in Handlers, Arrive(h) \/ Progress(h) \/ Abort(h),
           NEW g \in Handlers, g # h
    PROVE  pc'[g] = pc[g] /\ req'[g] = req[g] /\ copy'[g] = copy[g] /\ answer'[g] = answer[g]
<1>1. CASE Arrive(h) \/ Abort(h)
  BY <1>1 DEF LocalsOK, Arrive, CreateQuote, CreateOrder, StartVerifyPayment, StartFulfill,
     Abort, Start, Finish, Goto, handler
<1>2. CASE Progress(h)
  <2>1. CASE ClaimOrder(h) \/ ClaimFulfill(h)
    BY <2>1 DEF LocalsOK, ClaimOrder, ClaimFulfill, Finish, Goto
  <2>2. CASE AppendAccepted(h) \/ SendOrder(h) \/ ReceiveAnswer(h) \/ LoseAnswer(h)
    BY <2>2 DEF LocalsOK, AppendAccepted, SendOrder, ReceiveAnswer, LoseAnswer, Goto
  <2>3. CASE FailEffect(h) \/ AppendRejected(h) \/ CompleteEffect(h) \/ AppendResponse(h)
    BY <2>3 DEF LocalsOK, FailEffect, AppendRejected, CompleteEffect, AppendResponse, Finish, Goto
  <2>4. CASE BindCopy(h) \/ FetchOrder(h) \/ FetchPayment(h)
    BY <2>4 DEF LocalsOK, BindCopy, FetchOrder, FetchPayment, Finish, Goto
  <2>5. CASE CommitCopy(h) \/ SettleFulfill(h) \/ AppendTransition(h)
    BY <2>5 DEF LocalsOK, CommitCopy, SettleFulfill, AppendTransition, Finish, Goto
  <2> QED BY <1>2, <2>1, <2>2, <2>3, <2>4, <2>5 DEF Progress
<1> QED BY <1>1, <1>2

LEMMA HandlerStep ==
    ASSUME SettleInv, Grows, QuotesAdvance, [Next]_vars, NEW g \in Handlers
    PROVE  HandlerKnows(g)'
<1>0. LocalsOK
  BY InvTypes DEF SettleInv
<1>1. ASSUME UNCHANGED handler PROVE HandlerKnows(g)'
  BY <1>1, HandlerStays DEF handler
<1>2. ASSUME NEW h \in Handlers, Arrive(h) \/ Progress(h) \/ Abort(h), g # h
      PROVE  HandlerKnows(g)'
  BY <1>0, <1>2, OthersUnmoved, HandlerStays
<1>3. ASSUME Arrive(g) \/ Progress(g) PROVE HandlerKnows(g)'
  BY <1>3, ArriveKnows, ProgressKnows
<1>4. ASSUME Abort(g) PROVE HandlerKnows(g)'
  BY <1>0, <1>4 DEF Abort, Finish, Goto, LocalsOK, HandlerKnows
<1>5. CASE Environment
  BY <1>1, <1>5 DEF Environment, Expire, RazorpayCreates, RazorpayRefuses, Pay, Capture
<1>6. CASE UNCHANGED vars
  BY <1>1, <1>6 DEF vars, handler
<1> QED BY <1>2, <1>3, <1>4, <1>5, <1>6 DEF Next

-----------------------------------------------------------------------------
(* What the rows of the ledger mean.                                        *)

LEMMA MadeForStays ==
    ASSUME LedgerInv, Grows, NEW i \in Intents, NEW q \in Quotes, NEW o, MadeFor(i, q, o)
    PROVE  MadeFor(i, q, o)'
<1>1. [quote |-> q, amount |-> Price[q], intent |-> i] \in OrderRecord
  BY PriceAssumption DEF OrderRecord
<1>2. orders[o] # None
  BY <1>1, NoRecordAssumption DEF MadeFor
<1> QED BY <1>2 DEF MadeFor, Grows

\* A row and a request that no one wrote.
LEMMA IntentStays ==
    ASSUME SettleInv, Grows, QuotesAdvance, NEW i \in Intents,
           effects'[i] = effects[i], wire'[i] = wire[i]
    PROVE  IntentKnows(i)'
<1>0. LedgerInv /\ (\A q \in Quotes : Backed(q, quotes[q])) /\ IntentKnows(i)
  BY DEF SettleInv
<1>1. PICK e : e = effects[i]
  OBVIOUS
<1>2. PICK w : w = wire[i]
  OBVIOUS
<1>3. PICK q : q = e.body.quote
  OBVIOUS
<1>4. CASE e.status = "absent"
  <2>1. w = NotSent
    BY <1>0, <1>1, <1>2, <1>4 DEF LedgerInv, LedgerMatchesWire
  <2>2. e.response.kind # "created"
    BY <1>0, <1>1, <1>4 DEF IntentKnows
  <2> QED BY <1>1, <1>2, <1>4, <2>1, <2>2 DEF IntentKnows, NotSent, NoAnswer
<1>5. CASE e.status # "absent"
  <2>1. q \in Quotes /\ quotes[q].state # "Absent"
    BY <1>0, <1>1, <1>3, <1>5 DEF IntentKnows
  <2>2. /\ quotes'[q].state # "Absent"
        /\ quotes[q].state = "Fulfilled" => quotes'[q] = quotes[q]
    BY <1>0, <2>1, StagesStay
  <2>3. ASSUME w.answer.kind = "created"
        PROVE  w.state = "answered" /\ MadeFor(i, q, w.answer.order)'
    <3>1. PICK o : o = w.answer.order
      OBVIOUS
    <3>2. w.state = "answered" /\ MadeFor(i, q, o)
      BY <1>0, <1>1, <1>2, <1>3, <2>3, <3>1 DEF IntentKnows
    <3> QED BY <1>0, <2>1, <3>1, <3>2, MadeForStays
  <2>4. ASSUME e.response.kind = "created"
        PROVE  e.status = "completed" /\ MadeFor(i, q, e.response.order)'
    <3>1. PICK o : o = e.response.order
      OBVIOUS
    <3>2. e.status = "completed" /\ MadeFor(i, q, o)
      BY <1>0, <1>1, <1>3, <2>4, <3>1 DEF IntentKnows
    <3> QED BY <1>0, <2>1, <3>1, <3>2, MadeForStays
  <2>5. w.state # "idle" => w.quote = q
    BY <1>0, <1>1, <1>2, <1>3 DEF IntentKnows
  <2>6. e.status = "completed" /\ e.op = "fulfill" =>
           quotes'[q].state = "Fulfilled" /\ quotes'[q].reference = e.body.reference
    BY <1>0, <1>1, <1>3, <2>2 DEF IntentKnows
  <2>7. effects'[i] = e /\ wire'[i] = w
    BY <1>1, <1>2
  <2> QED BY <1>3, <2>1, <2>2, <2>3, <2>4, <2>5, <2>6, <2>7 DEF IntentKnows
<1> QED BY <1>4, <1>5

\* A handler at work, as the steps that write a row or the wire need it.
LEMMA WorkFacts ==
    ASSUME SettleInv, NEW h \in Handlers, pc[h] # "idle"
    PROVE  /\ req[h].quote \in Quotes
           /\ pc[h] \in OrderPoints \/ req[h].op = "fulfill" => req[h].intent \in Intents
           /\ pc[h] \in OrderPoints => req[h].op = "create_order"
           /\ pc[h] \in {"claim_fulfill", "settle"} => req[h].op = "fulfill"
           /\ CopyKnows(pc[h], req[h], copy[h], answer[h])
           /\ ClaimKnows(pc[h], req[h], answer[h])
           /\ pc[h] # "commit" => quotes[req[h].quote].state # "Absent"
<1>1. LedgerInv /\ HandlerKnows(h) /\ \A q \in Quotes : Backed(q, quotes[q])
  BY DEF SettleInv
<1>2. Fits(pc[h], req[h])
  BY <1>1, InvTypes
<1>3. CopyKnows(pc[h], req[h], copy[h], answer[h]) /\ ClaimKnows(pc[h], req[h], answer[h])
  BY <1>1 DEF HandlerKnows
<1>4. req[h].quote \in Quotes
  BY <1>2 DEF Fits
<1>5. ASSUME pc[h] # "commit" PROVE quotes[req[h].quote].state # "Absent"
  <2>1. PICK q \in Quotes : q = req[h].quote
    BY <1>4
  <2>2. PICK row : row = copy[h]
    OBVIOUS
  <2>3. PICK now : now = quotes[q]
    OBVIOUS
  <2>4. Backed(q, row) /\ row.state # "Absent" /\ KeptBy(row, now) /\ Backed(q, now)
    BY <1>1, <1>3, <1>5, <2>1, <2>2, <2>3 DEF CopyKnows
  <2>5. row.version \in 1..4 /\ now.version \in 0..4 /\ (now.version = 0 <=> now.state = "Absent")
    BY <2>4, StageFacts
  <2> QED BY <2>1, <2>3, <2>4, <2>5 DEF KeptBy
<1> QED BY <1>2, <1>3, <1>4, <1>5 DEF Fits, OrderPoints

LEMMA IntentStep ==
    ASSUME SettleInv, Grows, QuotesAdvance, [Next]_vars, NEW j \in Intents
    PROVE  IntentKnows(j)'
<1>0. /\ LedgerInv /\ LocalsOK /\ effects \in [Intents -> Effect] /\ wire \in [Intents -> Wire]
      /\ IntentKnows(j) /\ \A q \in Quotes : Backed(q, quotes[q])
  BY InvTypes DEF SettleInv
<1>1. ASSUME effects'[j] = effects[j], wire'[j] = wire[j] PROVE IntentKnows(j)'
  BY <1>1, IntentStays
<1>2. CASE UNCHANGED vars
  BY <1>1, <1>2 DEF vars
<1>3. ASSUME NEW h \in Handlers, Arrive(h) \/ Abort(h) PROVE IntentKnows(j)'
  BY <1>1, <1>3, ArriveShared
<1>4. ASSUME NEW h \in Handlers, Progress(h) PROVE IntentKnows(j)'
  <2>1. PICK r : r = req[h]
    OBVIOUS
  <2>2. PICK q : q = r.quote
    OBVIOUS
  \* A new claim.
  <2>3. ASSUME r.intent \in Intents, ClaimIsNew(effects[r.intent]), UNCHANGED <<wire, quotes>>,
               effects' = [effects EXCEPT ![r.intent] = PendingEffect(r)],
               q \in Quotes, quotes[q].state # "Absent"
        PROVE  IntentKnows(j)'
    <3>1. CASE j # r.intent
      BY <1>0, <1>1, <2>3, <3>1
    <3>2. CASE j = r.intent
      <4>1. effects'[j] = PendingEffect(r) /\ wire'[j] = wire[j]
        BY <1>0, <2>3, <3>2
      <4>2. wire[j] = NotSent
        BY <1>0, <2>3, <3>2 DEF LedgerInv, LedgerMatchesWire, ClaimIsNew
      <4>3. /\ PendingEffect(r).status = "pending" /\ PendingEffect(r).body.quote = q
            /\ PendingEffect(r).response.kind = "none"
        BY <2>2 DEF PendingEffect, Body, NoAnswer
      <4> QED BY <2>3, <4>1, <4>2, <4>3 DEF IntentKnows, NotSent, NoAnswer
    <3> QED BY <3>1, <3>2
  \* A row is resolved.
  <2>4. ASSUME NEW s \in {"completed", "failed"}, NEW b, Resolve(h, s, b),
               UNCHANGED <<wire, quotes, orders>>, r.intent \in Intents,
               Same(r, effects[r.intent]), q \in Quotes, quotes[q].state # "Absent",
               b.kind = "created" => s = "completed" /\ MadeFor(r.intent, q, b.order),
               s = "completed" /\ r.op = "fulfill" =>
                  quotes[q].state = "Fulfilled" /\ quotes[q].reference = r.reference
        PROVE  IntentKnows(j)'
    <3>1. CASE j # r.intent
      BY <1>0, <1>1, <2>1, <2>4, <3>1 DEF Resolve
    <3>2. CASE j = r.intent
      <4>1. PICK e : e = effects[j]
        OBVIOUS
      <4>2. effects'[j] = Resolved(e, s, b) /\ wire'[j] = wire[j]
        BY <1>0, <2>1, <2>4, <3>2, <4>1 DEF Resolve
      <4>3. e.op = r.op /\ e.body.quote = q /\ e.body.reference = r.reference
        BY <2>2, <2>4, <3>2, <4>1 DEF Same, Body
      <4>4. PICK n : n = Resolved(e, s, b)
        OBVIOUS
      <4>5. /\ n.status = s /\ n.op = r.op /\ n.response = b
            /\ n.body.quote = q /\ n.body.reference = r.reference
        BY <4>3, <4>4 DEF Resolved
      <4>6. /\ wire[j].state # "idle" => wire[j].quote = q
            /\ wire[j].answer.kind = "created" =>
                  wire[j].state = "answered" /\ MadeFor(j, q, wire[j].answer.order)
        BY <1>0, <4>1, <4>3 DEF IntentKnows
      <4> QED BY <2>4, <3>2, <4>2, <4>4, <4>5, <4>6 DEF IntentKnows, MadeFor
    <3> QED BY <3>1, <3>2
  <2>5. CASE ClaimOrder(h)
    <3>1. pc[h] = "claim_order"
      BY <2>5 DEF ClaimOrder
    <3>2. r.intent \in Intents /\ q \in Quotes /\ quotes[q].state # "Absent"
      BY <2>1, <2>2, <3>1, WorkFacts DEF OrderPoints
    <3> QED BY <1>1, <2>1, <2>3, <2>5, <3>2 DEF ClaimOrder, razorpay
  <2>6. CASE ClaimFulfill(h)
    <3>1. pc[h] = "claim_fulfill"
      BY <2>6 DEF ClaimFulfill
    <3>2. r.intent \in Intents /\ q \in Quotes /\ quotes[q].state # "Absent"
      BY <2>1, <2>2, <3>1, WorkFacts DEF OrderPoints
    <3> QED BY <1>1, <2>1, <2>3, <2>6, <3>2 DEF ClaimFulfill, razorpay
  <2>7. CASE SendOrder(h)
    <3>1. pc[h] = "send" /\ UNCHANGED <<effects, quotes, orders>>
          /\ wire' = [wire EXCEPT ![r.intent] = Sent(q)]
      BY <2>1, <2>2, <2>7 DEF SendOrder, store
    <3>2. r.intent \in Intents /\ q \in Quotes /\ Same(r, effects[r.intent])
      BY <2>1, <2>2, <3>1, WorkFacts DEF OrderPoints, ClaimKnows, Owning
    <3>3. CASE j # r.intent
      BY <1>0, <1>1, <3>1, <3>2, <3>3
    <3>4. CASE j = r.intent
      <4>1. wire'[j] = Sent(q) /\ effects'[j] = effects[j]
        BY <1>0, <3>1, <3>2, <3>4
      <4>2. effects[j].body.quote = q
        BY <2>2, <3>2, <3>4 DEF Same, Body
      <4>3. Sent(q).state = "sent" /\ Sent(q).quote = q /\ Sent(q).answer.kind = "none"
        BY DEF Sent, NoAnswer
      <4> QED BY <1>0, <3>1, <4>1, <4>2, <4>3 DEF IntentKnows, MadeFor
    <3> QED BY <3>3, <3>4
  <2>8. CASE FailEffect(h)
    <3>1. pc[h] = "fail" /\ UNCHANGED <<wire, quotes, orders>>
      BY <2>8 DEF FailEffect, razorpay
    <3>2. /\ r.intent \in Intents /\ q \in Quotes /\ Same(r, effects[r.intent])
          /\ quotes[q].state # "Absent"
      BY <2>1, <2>2, <3>1, WorkFacts DEF OrderPoints, ClaimKnows, Owning
    <3>3. NoAnswer.kind = "none"
      BY DEF NoAnswer
    <3> QED BY <1>1, <2>4, <2>8, <3>1, <3>2, <3>3 DEF FailEffect
  <2>9. CASE CompleteEffect(h)
    <3>1. pc[h] = "complete" /\ UNCHANGED <<wire, quotes, orders>>
      BY <2>9 DEF CompleteEffect, razorpay
    <3>2. /\ r.intent \in Intents /\ q \in Quotes /\ Same(r, effects[r.intent])
          /\ quotes[q].state # "Absent" /\ r.op = "create_order"
          /\ answer[h] = wire[r.intent].answer
      BY <2>1, <2>2, <3>1, WorkFacts DEF OrderPoints, ClaimKnows, Owning
    <3>3. answer[h].kind = "created" => MadeFor(r.intent, q, answer[h].order)
      <4>1. IntentKnows(r.intent) /\ effects[r.intent].body.quote = q
        BY <2>2, <3>2 DEF SettleInv, Same, Body
      <4> QED BY <3>2, <4>1 DEF IntentKnows
    <3>4. PICK b : b = answer[h]
      OBVIOUS
    <3>5. Resolve(h, "completed", b) \/ UNCHANGED effects
      BY <2>9, <3>4 DEF CompleteEffect
    <3> QED BY <1>1, <2>4, <3>1, <3>2, <3>3, <3>4, <3>5
  <2>10. CASE SettleFulfill(h)
    <3>1. pc[h] = "settle" /\ UNCHANGED <<wire, quotes, orders>>
      BY <2>10 DEF SettleFulfill, razorpay
    <3>2. /\ r.intent \in Intents /\ q \in Quotes /\ Same(r, effects[r.intent])
          /\ quotes[q].state # "Absent" /\ r.op = "fulfill"
          /\ CopyKnows("settle", r, copy[h], answer[h])
      BY <2>1, <2>2, <3>1, WorkFacts DEF OrderPoints, ClaimKnows, Owning
    <3>3. quotes[q].state = "Fulfilled" /\ quotes[q].reference = r.reference
      <4>1. PICK row : row = copy[h]
        OBVIOUS
      <4>2. PICK now : now = quotes[q]
        OBVIOUS
      <4>3. /\ Backed(q, row) /\ Backed(q, now) /\ KeptBy(row, now)
            /\ row.state = "Fulfilled" /\ row.reference = r.reference
        BY <1>0, <2>2, <3>2, <4>1, <4>2 DEF CopyKnows, StageFits, StageOf, Committed
      <4>4. row.version = 4 /\ now.version \in 0..4
        BY <4>3, StageFacts
      <4> QED BY <4>2, <4>3, <4>4 DEF KeptBy
    <3>4. NoAnswer.kind = "none"
      BY DEF NoAnswer
    <3> QED BY <1>1, <2>4, <2>10, <3>1, <3>2, <3>3, <3>4 DEF SettleFulfill
  <2>11. CASE \/ AppendAccepted(h) \/ ReceiveAnswer(h) \/ LoseAnswer(h) \/ AppendRejected(h)
              \/ AppendResponse(h) \/ BindCopy(h) \/ FetchOrder(h) \/ FetchPayment(h)
              \/ CommitCopy(h) \/ AppendTransition(h)
    BY <1>1, <2>11
    DEF AppendAccepted, ReceiveAnswer, LoseAnswer, AppendRejected, AppendResponse, BindCopy,
        FetchOrder, FetchPayment, CommitCopy, AppendTransition, store, razorpay
  <2> QED BY <1>4, <2>5, <2>6, <2>7, <2>8, <2>9, <2>10, <2>11 DEF Progress
<1>5. CASE Environment
  <2>1. UNCHANGED <<effects, quotes>>
    BY <1>5 DEF Environment, Expire, RazorpayCreates, RazorpayRefuses, Pay, Capture, store
  <2>2. PICK e : e = effects[j]
    OBVIOUS
  <2>3. PICK q : q = e.body.quote
    OBVIOUS
  \* Razorpay answers the request of an intent.
  <2>4. ASSUME NEW i \in Intents, NEW b, wire[i].state = "sent",
               wire' = [wire EXCEPT ![i] = Answered(wire[i].quote, b)],
               b.kind = "created" => MadeFor(i, wire[i].quote, b.order)'
        PROVE  IntentKnows(j)'
    <3>1. CASE j # i
      BY <1>0, <1>1, <2>1, <2>4, <3>1
    <3>2. CASE j = i
      <4>1. wire[j].quote = q
        BY <1>0, <2>2, <2>3, <2>4, <3>2 DEF IntentKnows
      <4>2. wire'[j] = Answered(q, b) /\ effects'[j] = e
        BY <1>0, <2>1, <2>2, <2>4, <3>2, <4>1
      <4>3. Answered(q, b).state = "answered" /\ Answered(q, b).quote = q /\ Answered(q, b).answer = b
        BY DEF Answered
      <4>4. b.kind = "created" => MadeFor(j, q, b.order)'
        <5>1. wire'[i].quote = q
          BY <3>2, <4>2, <4>3
        <5> QED BY <2>4, <3>2, <5>1
      <4>5. e.status # "absent" => q \in Quotes /\ quotes'[q].state # "Absent"
        BY <1>0, <2>1, <2>2, <2>3 DEF IntentKnows
      <4>6. e.status # "absent"
        BY <1>0, <2>2, <2>4, <3>2 DEF LedgerInv, LedgerMatchesWire, NotSent
      <4>7. ASSUME e.response.kind = "created"
            PROVE  e.status = "completed" /\ MadeFor(j, q, e.response.order)'
        <5>1. PICK o : o = e.response.order
          OBVIOUS
        <5>2. e.status = "completed" /\ MadeFor(j, q, o)
          BY <1>0, <2>2, <2>3, <4>7, <5>1 DEF IntentKnows
        <5>3. q \in Quotes
          BY <4>5, <4>6
        <5> QED BY <1>0, <5>1, <5>2, <5>3, MadeForStays
      <4>8. e.status = "completed" /\ e.op = "fulfill" =>
               quotes'[q].state = "Fulfilled" /\ quotes'[q].reference = e.body.reference
        BY <1>0, <2>1, <2>2, <2>3 DEF IntentKnows
      <4> QED BY <2>3, <4>2, <4>3, <4>4, <4>5, <4>7, <4>8 DEF IntentKnows
    <3> QED BY <3>1, <3>2
  <2>5. ASSUME NEW i \in Intents, NEW o \in Orders, RazorpayCreates(i, o) PROVE IntentKnows(j)'
    <3>1. PICK x : x = wire[i].quote
      OBVIOUS
    <3>2. /\ wire[i].state = "sent"
          /\ orders'[o] = [quote |-> x, amount |-> Price[x], intent |-> i]
      BY <1>0, <2>5, <3>1 DEF RazorpayCreates, LedgerInv, TypeOK
    <3>3. PICK b \in {Created(o), ServerError} : wire' = [wire EXCEPT ![i] = Answered(wire[i].quote, b)]
      BY <2>5 DEF RazorpayCreates
    <3>4. b.kind = "created" => b.order = o
      BY <3>3 DEF Created, ServerError
    <3>5. MadeFor(i, x, o)'
      BY <3>2 DEF MadeFor
    <3>6. b.kind = "created" => MadeFor(i, wire[i].quote, b.order)'
      <4>1. wire'[i].quote = x
        BY <1>0, <3>1, <3>3 DEF Answered
      <4> QED BY <3>4, <3>5, <4>1
    <3> QED BY <2>4, <3>2, <3>3, <3>6
  <2>6. ASSUME NEW i \in Intents, RazorpayRefuses(i) PROVE IntentKnows(j)'
    <3>1. PICK b \in {Rejected, ServerError} : wire' = [wire EXCEPT ![i] = Answered(wire[i].quote, b)]
      BY <2>6 DEF RazorpayRefuses
    <3>2. b.kind # "created"
      BY <3>1 DEF Rejected, ServerError
    <3> QED BY <2>4, <2>6, <3>1, <3>2 DEF RazorpayRefuses
  <2> QED BY <1>1, <1>5, <2>1, <2>5, <2>6 DEF Environment, Expire, Pay, Capture, razorpay
<1> QED BY <1>2, <1>3, <1>4, <1>5 DEF Next

-----------------------------------------------------------------------------
(* What clients were told.                                                  *)

AckKept(a) ==
    /\ a.op = "fulfill" => /\ quotes[a.quote].state = "Fulfilled"
                           /\ quotes[a.quote].reference = a.reference
    /\ a.op = "verify_payment" => quotes[a.quote].payment = a.payment /\ a.payment # None
    /\ a.op = "create_order" =>
           /\ \/ quotes[a.quote].order = a.order
              \/ /\ quotes[a.quote].state = "Fulfilled"
                 /\ payments[quotes[a.quote].payment].order = a.order
           /\ a.order # None

LEMMA AllAcksKept == (\A a \in acks : AckKept(a)) <=> AcksAreKept /\ AcksNameThings
<1>1. ASSUME \A a \in acks : AckKept(a) PROVE AcksAreKept
  BY <1>1 DEF AckKept, AcksAreKept
<1>2. ASSUME \A a \in acks : AckKept(a) PROVE AcksNameThings
  BY <1>2 DEF AckKept, AcksNameThings
<1>3. ASSUME AcksAreKept, AcksNameThings, NEW a \in acks PROVE AckKept(a)
  <2>1. /\ a.op = "verify_payment" => a.payment # None
        /\ a.op = "create_order" => a.order # None
    BY <1>3 DEF AcksNameThings
  <2>2. /\ a.op = "fulfill" => /\ quotes[a.quote].state = "Fulfilled"
                               /\ quotes[a.quote].reference = a.reference
        /\ a.op = "verify_payment" => quotes[a.quote].payment = a.payment
        /\ a.op = "create_order" =>
               \/ quotes[a.quote].order = a.order
               \/ /\ quotes[a.quote].state = "Fulfilled"
                  /\ payments[quotes[a.quote].payment].order = a.order
    BY <1>3 DEF AcksAreKept
  <2> QED BY <2>1, <2>2 DEF AckKept
<1> QED BY <1>1, <1>2, <1>3

\* No later step takes back what a response said.
LEMMA AckStays ==
    ASSUME LedgerInv, Grows, QuotesAdvance, \A q \in Quotes : Backed(q, quotes[q]),
           NEW a, a.quote \in Quotes, AckKept(a)
    PROVE  AckKept(a)'
<1>1. PICK q \in Quotes : q = a.quote
  OBVIOUS
<1>2. PICK now : now = quotes[q]
  OBVIOUS
<1>3. PICK then : then = quotes'[q]
  OBVIOUS
<1>4. Backed(q, now) /\ Advanced(now, then)
  BY <1>2, <1>3 DEF QuotesAdvance
<1>5. now.state = "Fulfilled" => then = now
  BY <1>2, <1>3, StagesStay
<1>6. now.state \in {"PaymentVerified", "Fulfilled"} => payments'[now.payment].order = payments[now.payment].order
  BY <1>4, PaymentBacksStays DEF Backed, AbsentRow, Issue
<1>7. a.op = "verify_payment" => then.payment = a.payment /\ a.payment # None
  BY SMTT(20), <1>1, <1>2, <1>4, <1>5, FollowFacts
  DEF AckKept, Backed, Advanced, AbsentRow, Issue, Follows, BindOrder, VerifyPayment, Fulfill
<1>8. ASSUME a.op = "create_order"
      PROVE  /\ \/ then.order = a.order
                \/ then.state = "Fulfilled" /\ payments'[then.payment].order = a.order
             /\ a.order # None
  <2>1. /\ \/ now.order = a.order
           \/ now.state = "Fulfilled" /\ payments[now.payment].order = a.order
        /\ a.order # None
    BY <1>1, <1>2, <1>8 DEF AckKept
  <2>2. CASE now.state = "Fulfilled"
    BY <1>5, <1>6, <2>1, <2>2
  <2>3. CASE now.state # "Fulfilled"
    <3>1. now.order = a.order /\ now.state \in {"OrderBound", "PaymentVerified"}
      BY <1>4, <2>1, <2>3 DEF Backed, AbsentRow, Issue
    <3>2. then = now \/ Follows(now, then)
      BY <1>4, <3>1 DEF Advanced, AbsentRow
    <3>3. CASE then = now
      BY <2>1, <3>1, <3>3
    <3>4. CASE Follows(now, then) /\ now.state = "OrderBound"
      BY <1>4, <2>1, <3>1, <3>4, FollowFacts
    <3>5. CASE Follows(now, then) /\ now.state = "PaymentVerified"
      <4>1. then.state = "Fulfilled" /\ then.payment = now.payment
        BY <1>4, <3>5, FollowFacts
      <4>2. payments[now.payment].order = now.order
        BY <1>4, <3>5 DEF Backed, AbsentRow, Issue
      <4> QED BY <1>6, <2>1, <3>1, <3>5, <4>1, <4>2
    <3> QED BY <3>1, <3>2, <3>3, <3>4, <3>5
  <2> QED BY <2>2, <2>3
<1>9. a.op = "fulfill" => then.state = "Fulfilled" /\ then.reference = a.reference
  BY <1>1, <1>2, <1>5 DEF AckKept
<1> QED BY <1>1, <1>3, <1>7, <1>8, <1>9 DEF AckKept

\* A response made from a copy whose change is stored.
LEMMA AckOfCopy ==
    ASSUME LedgerInv, NEW r, NEW row, NEW now, NEW q \in Quotes,
           r.quote = q, now = quotes[q],
           Backed(q, row), Backed(q, now), KeptBy(row, now),
           row.state = StageOf(r.op), r.op \in Operations,
           r.op = "fulfill" => row.reference = r.reference
    PROVE  AckKept(Ack(r, row))
<1>1. PICK a : a = Ack(r, row)
  OBVIOUS
<1>2. /\ a.op = r.op /\ a.quote = q /\ a.reference = r.reference
      /\ a.order = row.order /\ a.payment = row.payment
  BY <1>1 DEF Ack
<1>3. ASSUME r.op = "fulfill" PROVE now.state = "Fulfilled" /\ now.reference = r.reference
  <2>1. row.state = "Fulfilled"
    BY <1>3 DEF StageOf
  <2>2. row.version = 4 /\ now.version \in 0..4
    BY <2>1, StageFacts
  <2> QED BY <1>3, <2>1, <2>2 DEF KeptBy
<1>4. ASSUME r.op = "verify_payment" PROVE now.payment = row.payment /\ row.payment # None
  <2>1. row.state = "PaymentVerified"
    BY <1>4 DEF StageOf
  <2>2. row.payment \in Payments
    BY <2>1 DEF Backed, PaymentBacks, AbsentRow, Issue
  <2> QED BY <2>1, <2>2, NoneAssumption DEF KeptBy
<1>5. ASSUME r.op = "create_order"
      PROVE  /\ \/ now.order = row.order
                \/ now.state = "Fulfilled" /\ payments[now.payment].order = row.order
             /\ row.order # None
  <2>1. row.state = "OrderBound"
    BY <1>5 DEF StageOf
  <2>2. row.order \in Orders
    BY <2>1 DEF Backed, OrderBacks, AbsentRow, Issue
  <2> QED BY <2>1, <2>2, NoneAssumption DEF KeptBy
<1> QED BY <1>1, <1>2, <1>3, <1>4, <1>5 DEF AckKept

LEMMA AckStep ==
    ASSUME SettleInv, Grows, QuotesAdvance, [Next]_vars
    PROVE  AcksAreKept' /\ AcksNameThings'
<1>0. /\ LedgerInv /\ (\A q \in Quotes : Backed(q, quotes[q])) /\ acks \in SUBSET Acks
      /\ \A a \in acks : AckKept(a)
  BY AllAcksKept DEF SettleInv, LedgerInv, TypeOK
<1>1. ASSUME NEW a \in acks PROVE AckKept(a)'
  BY <1>0, <1>1, AckStays DEF Acks
<1>2. ASSUME NEW a, a.quote \in Quotes, AckKept(a) PROVE AckKept(a)'
  BY <1>0, <1>2, AckStays
<1>3. SUFFICES ASSUME NEW a \in acks' PROVE AckKept(a)'
  <2>1. (\A a \in acks' : AckKept(a)') => AcksAreKept' /\ AcksNameThings'
    BY DEF AckKept, AcksAreKept, AcksNameThings
  <2> QED BY <2>1
<1>4. CASE a \in acks
  BY <1>1, <1>4
<1>5. CASE a \notin acks
  <2>1. PICK h \in Handlers : Arrive(h) \/ Progress(h) \/ Abort(h)
    BY <1>5 DEF Next, vars, Environment, Expire, RazorpayCreates, RazorpayRefuses, Pay, Capture
  <2>2. Fits(pc[h], req[h])
    BY <1>0, InvTypes
  <2>3. ASSUME NEW q \in Quotes, NEW i \in Intents, CreateOrder(h, q, i) PROVE AckKept(a)'
    <3>1. a = Ack(AskOrder(q, i), quotes[q]) /\ quotes[q].state = "OrderBound"
      BY <1>5, <2>3 DEF CreateOrder
    <3>2. a.op = "create_order" /\ a.quote = q /\ a.order = quotes[q].order
      BY <3>1 DEF Ack, AskOrder, Ask
    <3>3. Backed(q, quotes[q])
      BY <1>0
    <3>4. quotes[q].order # None
      BY <3>1, <3>3, NoneAssumption DEF Backed, OrderBacks, AbsentRow, Issue
    <3>5. AckKept(a)
      BY <3>2, <3>4 DEF AckKept
    <3> QED BY <1>2, <3>2, <3>5
  <2>4. ASSUME NEW q \in Quotes, NEW i \in Intents, NEW f \in References, StartFulfill(h, q, i, f)
        PROVE  AckKept(a)'
    <3>1. /\ a = Ack(AskFulfill(q, i, f), quotes[q])
          /\ quotes[q].state = "Fulfilled" /\ quotes[q].reference = f
      BY <1>5, <2>4 DEF StartFulfill
    <3>2. a.op = "fulfill" /\ a.quote = q /\ a.reference = f
      BY <3>1 DEF Ack, AskFulfill, Ask
    <3>3. AckKept(a)
      BY <3>1, <3>2 DEF AckKept
    <3> QED BY <1>2, <3>2, <3>3
  <2>5. CASE ClaimFulfill(h)
    <3>1. PICK r : r = req[h]
      OBVIOUS
    <3>2. /\ a = Ack(r, copy[h]) /\ pc[h] = "claim_fulfill"
          /\ ClaimIsReplay(r, effects[r.intent])
      BY <1>5, <2>5, <3>1 DEF ClaimFulfill
    <3>3. r.intent \in Intents /\ r.quote \in Quotes /\ r.op = "fulfill"
      BY <3>1, <3>2, WorkFacts
    <3>4. IntentKnows(r.intent)
      BY <3>3 DEF SettleInv
    <3>5. /\ effects[r.intent].status = "completed" /\ effects[r.intent].op = "fulfill"
          /\ effects[r.intent].body.quote = r.quote
          /\ effects[r.intent].body.reference = r.reference
      BY <3>2, <3>3 DEF ClaimIsReplay, Same, Body
    <3>6. quotes[r.quote].state = "Fulfilled" /\ quotes[r.quote].reference = r.reference
      BY <3>4, <3>5 DEF IntentKnows
    <3>7. a.op = "fulfill" /\ a.quote = r.quote /\ a.reference = r.reference
      BY <3>2, <3>3 DEF Ack
    <3>8. AckKept(a)
      BY <3>6, <3>7 DEF AckKept
    <3> QED BY <1>2, <3>3, <3>7, <3>8
  <2>6. CASE AppendTransition(h)
    <3>1. PICK r : r = req[h]
      OBVIOUS
    <3>2. PICK row : row = copy[h]
      OBVIOUS
    <3>3. PICK q \in Quotes : q = r.quote
      BY <2>6, <3>1, WorkFacts DEF AppendTransition
    <3>4. PICK now : now = quotes[q]
      OBVIOUS
    <3>5. a = Ack(r, row) /\ pc[h] = "append"
      BY <1>5, <2>6, <3>1, <3>2 DEF AppendTransition
    <3>6. /\ Backed(q, row) /\ KeptBy(row, now) /\ row.state = StageOf(r.op)
          /\ r.op = "fulfill" => row.reference = r.reference
      BY <3>1, <3>2, <3>3, <3>4, <3>5, WorkFacts DEF CopyKnows, StageFits, Committed
    <3>7. r.op \in Operations
      BY <2>2, <3>1, <3>5 DEF Fits
    <3>8. Backed(q, now)
      BY <1>0, <3>4
    <3>9. AckKept(Ack(r, row))
      BY <1>0, <3>3, <3>4, <3>6, <3>7, <3>8, AckOfCopy
    <3>10. a.quote = q
      BY <3>3, <3>5 DEF Ack
    <3> QED BY <1>2, <3>5, <3>9, <3>10
  <2>7. CASE Abort(h)
    BY <1>5, <2>7 DEF Abort
  <2>8. CASE Arrive(h)
    BY <1>5, <2>3, <2>4, <2>8 DEF Arrive, CreateQuote, StartVerifyPayment
  <2>9. CASE Progress(h)
    BY <1>5, <2>5, <2>6, <2>9
    DEF Progress, ClaimOrder, AppendAccepted, SendOrder, ReceiveAnswer, LoseAnswer, FailEffect,
        AppendRejected, CompleteEffect, AppendResponse, BindCopy, FetchOrder, FetchPayment,
        CommitCopy, SettleFulfill
  <2> QED BY <2>1, <2>7, <2>8, <2>9
<1> QED BY <1>4, <1>5

-----------------------------------------------------------------------------
(* Evidence.                                                                *)

\* A step with no new committer, that appends no transition.
LEMMA CommittersStay ==
    ASSUME OneCommitter,
           \A g \in Handlers : pc'[g] \in Committed =>
              pc[g] \in Committed /\ req'[g] = req[g] /\ copy'[g] = copy[g],
           \A e \in evidence' : e.kind = "StateTransition" => e \in evidence
    PROVE  OneCommitter'
<1>1. ASSUME NEW h \in Handlers, pc'[h] \in Committed
      PROVE  Transition(req[h].quote, copy[h])' \notin evidence'
  <2>1. Transition(req[h].quote, copy[h])' = Transition(req[h].quote, copy[h])
    BY <1>1 DEF Transition
  <2>2. Transition(req[h].quote, copy[h]).kind = "StateTransition"
    BY DEF Transition
  <2>3. Transition(req[h].quote, copy[h]) \notin evidence
    BY <1>1 DEF OneCommitter
  <2> QED BY <2>1, <2>2, <2>3
<1>2. ASSUME NEW h \in Handlers, pc'[h] \in Committed, NEW g \in Handlers,
             pc'[g] \in Committed, req'[g].quote = req'[h].quote,
             copy'[g].version = copy'[h].version
      PROVE  g = h
  BY <1>2 DEF OneCommitter
<1> QED BY <1>1, <1>2 DEF OneCommitter

\* A handler that has stored a version no one stored before.
LEMMA NewCommitter ==
    ASSUME SettleInv, NEW h \in Handlers, NEW q \in Quotes, NEW row,
           req'[h].quote = q, copy'[h] = row, row.version = quotes[q].version + 1,
           \A g \in Handlers : g # h =>
              pc'[g] = pc[g] /\ req'[g] = req[g] /\ copy'[g] = copy[g],
           evidence' = evidence
    PROVE  OneCommitter'
<1>0. /\ OneCommitter /\ EvidenceIsTruthful
      /\ quotes[q].version \in Nat /\ evidence \subseteq EvidenceEvents
  BY InvTypes DEF SettleInv, LedgerInv, TypeOK, Row
<1>1. ASSUME NEW g \in Handlers, g # h, pc[g] \in Committed, req[g].quote = q
      PROVE  copy[g].version # row.version
  <2>1. KeptBy(copy[g], quotes[q]) /\ copy[g].version \in Nat
    <3>1. LocalsOK
      BY InvTypes DEF SettleInv
    <3> QED BY <1>1, <3>1, WorkFacts DEF Committed, CopyKnows, LocalsOK, Row
  <2> QED BY <1>0, <2>1 DEF KeptBy
<1>2. Transition(q, row) \notin evidence
  <2>1. /\ Transition(q, row).kind = "StateTransition" /\ Transition(q, row).quote = q
        /\ Transition(q, row).version = row.version
    BY DEF Transition
  <2>2. ~(row.version \in 1..quotes[q].version)
    BY <1>0
  <2> QED BY <1>0, <2>1, <2>2 DEF EvidenceIsTruthful
<1>3. ASSUME NEW x \in Handlers, pc'[x] \in Committed
      PROVE  Transition(req[x].quote, copy[x])' \notin evidence'
  <2>1. CASE x = h
    BY <1>2, <2>1 DEF Transition
  <2>2. CASE x # h
    <3>1. Transition(req[x].quote, copy[x])' = Transition(req[x].quote, copy[x])
      BY <2>2 DEF Transition
    <3> QED BY <1>0, <1>3, <2>2, <3>1 DEF OneCommitter
  <2> QED BY <2>1, <2>2
<1>4. ASSUME NEW x \in Handlers, pc'[x] \in Committed, NEW g \in Handlers,
             pc'[g] \in Committed, req'[g].quote = req'[x].quote,
             copy'[g].version = copy'[x].version
      PROVE  g = x
  <2>1. CASE x # h /\ g # h
    BY <1>0, <1>4, <2>1 DEF OneCommitter
  <2>2. CASE x = h /\ g # h
    BY <1>1, <1>4, <2>2
  <2>3. CASE x # h /\ g = h
    BY <1>1, <1>4, <2>3
  <2> QED BY <2>1, <2>2, <2>3
<1> QED BY <1>3, <1>4 DEF OneCommitter

LEMMA CommitterStep ==
    ASSUME SettleInv, [Next]_vars
    PROVE  OneCommitter'
<1>0. /\ LocalsOK /\ OneCommitter /\ quotes \in [Quotes -> Row]
  BY InvTypes DEF SettleInv
<1>1. ASSUME UNCHANGED <<pc, req, copy, evidence>> PROVE OneCommitter'
  BY <1>0, <1>1, CommittersStay
<1>2. ASSUME NEW h \in Handlers, Arrive(h) \/ Progress(h) \/ Abort(h),
             pc'[h] \in Committed =>
                pc[h] \in Committed /\ req'[h] = req[h] /\ copy'[h] = copy[h],
             \A e \in evidence' : e.kind = "StateTransition" => e \in evidence
      PROVE  OneCommitter'
  <2>1. \A g \in Handlers : pc'[g] \in Committed =>
           pc[g] \in Committed /\ req'[g] = req[g] /\ copy'[g] = copy[g]
    BY <1>0, <1>2, OthersUnmoved
  <2> QED BY <1>0, <1>2, <2>1, CommittersStay
<1>3. ASSUME NEW h \in Handlers, NEW q \in Quotes, NEW row, Arrive(h) \/ Progress(h),
             req'[h].quote = q, copy'[h] = row, row.version = quotes[q].version + 1,
             evidence' = evidence
      PROVE  OneCommitter'
  <2>1. \A g \in Handlers : g # h => pc'[g] = pc[g] /\ req'[g] = req[g] /\ copy'[g] = copy[g]
    BY <1>0, <1>3, OthersUnmoved
  <2> QED BY <1>3, <2>1, NewCommitter
<1>4. ASSUME NEW h \in Handlers, Arrive(h) PROVE OneCommitter'
  <2>1. ASSUME NEW q \in Quotes, CreateQuote(h, q) PROVE OneCommitter'
    <3>1. /\ req'[h].quote = q /\ copy'[h] = Issue /\ evidence' = evidence
          /\ quotes[q] = AbsentRow
      BY <1>0, <2>1 DEF CreateQuote, Start, Goto, LocalsOK, AskQuote, Ask
    <3>2. Issue.version = quotes[q].version + 1
      BY <3>1 DEF Issue, AbsentRow
    <3> QED BY <1>3, <1>4, <3>1, <3>2
  <2>2. ASSUME NEW q \in Quotes, NEW i \in Intents, CreateOrder(h, q, i) PROVE OneCommitter'
    <3>1. (pc'[h] = pc[h] /\ req'[h] = req[h] /\ copy'[h] = copy[h]) \/ pc'[h] = "claim_order"
      BY <1>0, <2>2 DEF CreateOrder, Start, Goto, LocalsOK, handler
    <3>2. evidence' = evidence
      BY <2>2 DEF CreateOrder, store
    <3> QED BY <1>2, <1>4, <3>1, <3>2 DEF Committed
  <2>3. ASSUME NEW q \in Quotes, NEW p \in Payments, StartVerifyPayment(h, q, p)
        PROVE  OneCommitter'
    <3>1. pc'[h] = "fetch_order" /\ evidence' = evidence
      BY <1>0, <2>3 DEF StartVerifyPayment, Start, Goto, LocalsOK, store
    <3> QED BY <1>2, <1>4, <3>1 DEF Committed
  <2>4. ASSUME NEW q \in Quotes, NEW i \in Intents, NEW f \in References,
               StartFulfill(h, q, i, f)
        PROVE  OneCommitter'
    <3>1. (pc'[h] = pc[h] /\ req'[h] = req[h] /\ copy'[h] = copy[h]) \/ pc'[h] = "claim_fulfill"
      BY <1>0, <2>4 DEF StartFulfill, Start, Goto, LocalsOK, handler
    <3>2. evidence' = evidence
      BY <2>4 DEF StartFulfill, store
    <3> QED BY <1>2, <1>4, <3>1, <3>2 DEF Committed
  <2> QED BY <1>4, <2>1, <2>2, <2>3, <2>4 DEF Arrive
<1>5. ASSUME NEW h \in Handlers, Progress(h) PROVE OneCommitter'
  <2>1. ASSUME pc'[h] \notin Committed, evidence' = evidence PROVE OneCommitter'
    BY <1>2, <1>5, <2>1
  <2>2. CASE AppendAccepted(h) \/ AppendRejected(h) \/ AppendResponse(h)
    <3>1. pc'[h] \notin Committed
      BY <1>0, <2>2 DEF AppendAccepted, AppendRejected, AppendResponse, Finish, Goto, LocalsOK,
         Committed
    <3>2. \A e \in evidence' : e.kind = "StateTransition" => e \in evidence
      BY <2>2 DEF AppendAccepted, AppendRejected, AppendResponse, RequestEvent
    <3> QED BY <1>2, <1>5, <3>1, <3>2
  <2>3. CASE ClaimOrder(h) \/ SendOrder(h) \/ ReceiveAnswer(h) \/ LoseAnswer(h)
    BY <1>0, <2>1, <2>3 DEF ClaimOrder, SendOrder, ReceiveAnswer, LoseAnswer, Finish, Goto,
       LocalsOK, Committed, store
  <2>4. CASE FailEffect(h) \/ CompleteEffect(h) \/ BindCopy(h)
    BY <1>0, <2>1, <2>4 DEF FailEffect, CompleteEffect, BindCopy, Finish, Goto, LocalsOK,
       Committed, store
  <2>5. CASE FetchOrder(h) \/ FetchPayment(h) \/ ClaimFulfill(h)
    BY <1>0, <2>1, <2>5 DEF FetchOrder, FetchPayment, ClaimFulfill, Finish, Goto, LocalsOK,
       Committed, store
  <2>6. CASE CommitCopy(h)
    <3>1. PICK row : row = copy[h]
      OBVIOUS
    <3>2. PICK q \in Quotes : q = req[h].quote
      BY <2>6, WorkFacts DEF CommitCopy
    <3>3. evidence' = evidence
      BY <2>6 DEF CommitCopy
    <3>4. CASE quotes[q].version # row.version - 1
      BY <1>0, <2>1, <2>6, <3>1, <3>2, <3>3, <3>4 DEF CommitCopy, Finish, Goto, LocalsOK, Committed
    <3>5. CASE quotes[q].version = row.version - 1
      <4>1. row.version \in Nat
        BY <1>0, <3>1 DEF LocalsOK, Row
      <4>2. row.version = quotes[q].version + 1
        BY <3>5, <4>1
      <4>3. req'[h] = req[h] /\ copy'[h] = copy[h]
        BY <2>6, <3>1, <3>2, <3>5 DEF CommitCopy
      <4> QED BY <1>3, <1>5, <3>1, <3>2, <3>3, <4>2, <4>3
    <3> QED BY <3>4, <3>5
  <2>7. CASE SettleFulfill(h)
    <3>1. \/ pc'[h] = "idle"
          \/ pc[h] = "settle" /\ req'[h] = req[h] /\ copy'[h] = copy[h]
      BY <1>0, <2>7 DEF SettleFulfill, Finish, Goto, LocalsOK
    <3>2. evidence' = evidence
      BY <2>7 DEF SettleFulfill
    <3> QED BY <1>2, <1>5, <3>1, <3>2 DEF Committed
  <2>8. CASE AppendTransition(h)
    <3>1. PICK row : row = copy[h]
      OBVIOUS
    <3>2. PICK q \in Quotes : q = req[h].quote
      BY <2>8, WorkFacts DEF AppendTransition
    <3>3. /\ evidence' = evidence \cup {Transition(q, row)}
          /\ pc[h] = "append" /\ pc'[h] = "idle"
      BY <1>0, <2>8, <3>1, <3>2 DEF AppendTransition, Finish, Goto, LocalsOK
    <3>4. ASSUME NEW g \in Handlers, pc'[g] \in Committed
          PROVE  /\ g # h /\ pc[g] \in Committed /\ req'[g] = req[g] /\ copy'[g] = copy[g]
                 /\ Transition(req[g].quote, copy[g]) \notin evidence'
      <4>1. g # h
        BY <3>3, <3>4 DEF Committed
      <4>2. pc'[g] = pc[g] /\ req'[g] = req[g] /\ copy'[g] = copy[g]
        BY <1>0, <1>5, <4>1, OthersUnmoved
      <4>3. ~(req[g].quote = q /\ copy[g].version = row.version)
        BY <1>0, <3>1, <3>2, <3>3, <3>4, <4>1, <4>2 DEF OneCommitter, Committed
      <4>4. Transition(req[g].quote, copy[g]) # Transition(q, row)
        BY <4>3 DEF Transition
      <4>5. Transition(req[g].quote, copy[g]) \notin evidence
        BY <1>0, <3>4, <4>2 DEF OneCommitter
      <4> QED BY <3>3, <3>4, <4>1, <4>2, <4>4, <4>5
    <3>5. ASSUME NEW x \in Handlers, pc'[x] \in Committed
          PROVE  Transition(req[x].quote, copy[x])' \notin evidence'
      <4>1. Transition(req[x].quote, copy[x])' = Transition(req[x].quote, copy[x])
        BY <3>4, <3>5 DEF Transition
      <4> QED BY <3>4, <3>5, <4>1
    <3>6. ASSUME NEW x \in Handlers, pc'[x] \in Committed, NEW g \in Handlers,
                 pc'[g] \in Committed, req'[g].quote = req'[x].quote,
                 copy'[g].version = copy'[x].version
          PROVE  g = x
      BY <1>0, <3>4, <3>6 DEF OneCommitter
    <3> QED BY <3>5, <3>6 DEF OneCommitter
  <2> QED BY <1>5, <2>2, <2>3, <2>4, <2>5, <2>6, <2>7, <2>8 DEF Progress
<1>6. ASSUME NEW h \in Handlers, Abort(h) PROVE OneCommitter'
  <2>1. pc'[h] \notin Committed /\ evidence' = evidence
    BY <1>0, <1>6 DEF Abort, Finish, Goto, LocalsOK, Committed, store
  <2> QED BY <1>2, <1>6, <2>1
<1>7. CASE Environment
  BY <1>1, <1>7 DEF Environment, Expire, RazorpayCreates, RazorpayRefuses, Pay, Capture, store,
     handler
<1>8. CASE UNCHANGED vars
  BY <1>1, <1>8 DEF vars
<1> QED BY <1>4, <1>5, <1>6, <1>7, <1>8 DEF Next

LEMMA EvidenceStep ==
    ASSUME SettleInv, QuotesAdvance, OneCommitter', [Next]_vars
    PROVE  EvidenceIsTruthful'
<1>0. /\ LocalsOK /\ EvidenceIsTruthful /\ (\A q \in Quotes : Backed(q, quotes[q]))
      /\ evidence \subseteq EvidenceEvents /\ quotes \in [Quotes -> Row]
      /\ LedgerInv
  BY InvTypes DEF SettleInv, LedgerInv, TypeOK
<1>1. ASSUME NEW q \in Quotes, NEW v \in 1..quotes[q].version PROVE v \in 1..quotes'[q].version
  <2>1. /\ quotes[q].version \in 0..4
        /\ quotes'[q] # quotes[q] => quotes'[q].version = quotes[q].version + 1
    BY <1>0, StagesStay
  <2> QED BY <1>1, <2>1
<1>2. ASSUME NEW e \in evidence, e.kind = "StateTransition"
      PROVE  e.version \in 1..quotes'[e.quote].version
  <2>1. e.quote \in Quotes
    BY <1>0, <1>2 DEF EvidenceEvents
  <2>2. e.version \in 1..quotes[e.quote].version
    BY <1>0, <1>2 DEF EvidenceIsTruthful
  <2> QED BY <1>1, <2>1, <2>2
<1>3. ASSUME NEW h \in Handlers, AppendTransition(h)
      PROVE  LET e == Transition(req[h].quote, copy[h])
             IN  e.version \in 1..quotes'[e.quote].version
  <2>1. PICK row : row = copy[h]
    OBVIOUS
  <2>2. PICK q \in Quotes : q = req[h].quote
    BY <1>3, WorkFacts DEF AppendTransition
  <2>3. Backed(q, row) /\ KeptBy(row, quotes[q]) /\ row.state # "Absent"
    BY <1>3, <2>1, <2>2, WorkFacts DEF AppendTransition, CopyKnows
  <2>4. row.version \in 1..4
    BY <2>3, StageFacts
  <2>5. row.version \in 1..quotes[q].version
    <3>1. quotes[q].version \in Nat
      BY <1>0 DEF Row
    <3> QED BY <2>3, <2>4, <3>1 DEF KeptBy
  <2>6. quotes' = quotes
    BY <1>3 DEF AppendTransition
  <2> QED BY <2>1, <2>2, <2>5, <2>6 DEF Transition
<1>4. \A e \in evidence' \ evidence : e.kind = "StateTransition" =>
         \E h \in Handlers : AppendTransition(h) /\ e = Transition(req[h].quote, copy[h])
  <2>1. ASSUME NEW h \in Handlers, Arrive(h) \/ Abort(h) PROVE evidence' = evidence
    BY <2>1 DEF Arrive, Abort, CreateQuote, CreateOrder, StartVerifyPayment, StartFulfill, store
  <2>2. ASSUME NEW h \in Handlers, Progress(h), ~AppendTransition(h),
               NEW e \in evidence' \ evidence
        PROVE  e.kind # "StateTransition"
    <3>1. CASE AppendAccepted(h) \/ AppendRejected(h) \/ AppendResponse(h)
      BY <2>2, <3>1 DEF AppendAccepted, AppendRejected, AppendResponse, RequestEvent
    <3>2. CASE ~(AppendAccepted(h) \/ AppendRejected(h) \/ AppendResponse(h))
      BY <2>2, <3>2 DEF Progress, ClaimOrder, SendOrder, ReceiveAnswer, LoseAnswer, FailEffect,
         CompleteEffect, BindCopy, FetchOrder, FetchPayment, ClaimFulfill, CommitCopy,
         SettleFulfill, store
    <3> QED BY <3>1, <3>2
  <2>3. ASSUME NEW h \in Handlers, AppendTransition(h)
        PROVE  \A e \in evidence' \ evidence : e = Transition(req[h].quote, copy[h])
    BY <2>3 DEF AppendTransition
  <2>4. CASE Environment \/ UNCHANGED vars
    BY <2>4 DEF Environment, Expire, RazorpayCreates, RazorpayRefuses, Pay, Capture, store, vars
  <2> QED BY <2>1, <2>2, <2>3, <2>4 DEF Next
<1>5. ASSUME NEW e \in evidence', e.kind = "StateTransition"
      PROVE  e.version \in 1..quotes'[e.quote].version
  BY <1>2, <1>3, <1>4, <1>5
<1>6. \A h \in Handlers : pc'[h] = "append" => Transition(req[h].quote, copy[h])' \notin evidence'
  BY DEF OneCommitter, Committed
<1> QED BY <1>5, <1>6 DEF EvidenceIsTruthful

LEMMA PaymentOrdersStep ==
    ASSUME LedgerInv, PaymentsHaveOrders, Grows, [Next]_vars
    PROVE  PaymentsHaveOrders'
<1>1. SUFFICES ASSUME NEW p \in Payments, payments'[p] # None
               PROVE  orders'[payments'[p].order] # None
  BY DEF PaymentsHaveOrders
<1>2. CASE payments[p] # None
  <2>1. payments[p].order \in Orders /\ orders[payments[p].order] # None
    BY <1>2, InvTypes DEF PaymentRecord, PaymentsHaveOrders
  <2> QED BY <1>2, <2>1 DEF Grows
<1>3. CASE payments[p] = None
  <2>1. payments \in [Payments -> PaymentRecord \cup {None}]
    BY DEF LedgerInv, TypeOK
  <2>2. payments' # payments
    BY <1>1, <1>3
  <2>3. Environment
    BY <2>2, ArriveShared, ProgressShared DEF Next, vars, razorpay
  <2>4. \/ \E x \in Payments, o \in Orders, a \in Amounts : Pay(x, o, a)
        \/ \E x \in Payments : Capture(x)
    BY <2>2, <2>3 DEF Environment, Expire, RazorpayCreates, RazorpayRefuses, razorpay
  <2>5. ASSUME NEW x \in Payments, NEW o \in Orders, NEW a \in Amounts, Pay(x, o, a)
        PROVE  orders'[payments'[p].order] # None
    <3>1. x = p
      BY <1>1, <1>3, <2>1, <2>5 DEF Pay
    <3>2. payments'[p].order = o /\ orders[o] # None /\ orders' = orders
      BY <2>1, <2>5, <3>1 DEF Pay
    <3> QED BY <3>2
  <2>6. ASSUME NEW x \in Payments, Capture(x) PROVE FALSE
    BY <1>1, <1>3, <2>1, <2>6 DEF Capture
  <2> QED BY <2>4, <2>5, <2>6
<1> QED BY <1>2, <1>3

-----------------------------------------------------------------------------
(* The invariant and what it says.                                          *)

LEMMA SettleInit == Init => SettleInv
<1> SUFFICES ASSUME Init PROVE SettleInv
  OBVIOUS
<1>1. \A q \in Quotes : Backed(q, quotes[q])
  BY DEF Init, Backed
<1>2. \A h \in Handlers : HandlerKnows(h)
  BY DEF Init, HandlerKnows
<1>3. \A i \in Intents : IntentKnows(i)
  BY DEF Init, IntentKnows, NoEffect, NotSent, NoAnswer
<1>4. PaymentsHaveOrders /\ AcksAreKept /\ AcksNameThings /\ OneCommitter /\ EvidenceIsTruthful
  BY DEF Init, PaymentsHaveOrders, AcksAreKept, AcksNameThings, OneCommitter, EvidenceIsTruthful,
     Committed
<1> QED BY <1>1, <1>2, <1>3, <1>4, LedgerInit DEF SettleInv

LEMMA SettleStep == SettleInv /\ [Next]_vars => SettleInv'
<1> SUFFICES ASSUME SettleInv, [Next]_vars PROVE SettleInv'
  OBVIOUS
<1>0. LedgerInv /\ PaymentsHaveOrders
  BY DEF SettleInv
<1>1. Grows
  BY <1>0, GrowsStep
<1>2. QuotesAdvance
  BY <1>1, AdvanceStep
<1>3. LedgerInv'
  BY <1>0, LedgerStep
<1>4. \A q \in Quotes : Backed(q, quotes[q])'
  BY <1>2 DEF QuotesAdvance
<1>5. \A h \in Handlers : HandlerKnows(h)'
  BY <1>1, <1>2, HandlerStep
<1>6. \A i \in Intents : IntentKnows(i)'
  BY <1>1, <1>2, IntentStep
<1>7. PaymentsHaveOrders'
  BY <1>0, <1>1, PaymentOrdersStep
<1>8. AcksAreKept' /\ AcksNameThings'
  BY <1>1, <1>2, AckStep
<1>9. OneCommitter' /\ EvidenceIsTruthful'
  BY <1>2, CommitterStep, EvidenceStep
<1> QED BY <1>3, <1>4, <1>5, <1>6, <1>7, <1>8, <1>9 DEF SettleInv

\* What every handler knows of the quote its copy was made of, and every row
\* of the evidence it stands on, holds in every reachable state.
THEOREM SettleInvariant == Spec => []SettleInv
  BY SettleInit, SettleStep, PTL DEF Spec

\* bind_order stores only an order that Razorpay created for this quote at its
\* price and that the ledger has recorded: no quote shares an order.
THEOREM OwnOrders == Spec => []BoundToItsOwnOrder
<1>1. SettleInv => BoundToItsOwnOrder
  <2> SUFFICES ASSUME SettleInv, NEW q \in Quotes, quotes[q].order # None
               PROVE  OrderBacks(q, quotes[q].order)
    BY DEF BoundToItsOwnOrder, OrderBacks
  <2> QED BY DEF SettleInv, Backed, AbsentRow, Issue
<1> QED BY SettleInvariant, <1>1, PTL

\* verify_payment and fulfill store a payment only if it is captured money of
\* the price of the quote, on an order of the quote.
THEOREM OnlyAgainstMoney == Spec => []PaidInFull
<1>1. SettleInv => PaidInFull
  <2> SUFFICES ASSUME SettleInv, NEW q \in Quotes, quotes[q].payment # None
               PROVE  PaymentBacks(q, quotes[q].payment)
    BY DEF PaidInFull, PaymentBacks
  <2> QED BY DEF SettleInv, Backed, AbsentRow, Issue
<1> QED BY SettleInvariant, <1>1, PTL

\* No later request, race or crash takes back what a 2xx of the four handlers
\* told a client.
THEOREM KeptAcks == Spec => []AcksAreKept
<1>1. SettleInv => AcksAreKept
  BY DEF SettleInv
<1> QED BY SettleInvariant, <1>1, PTL

\* append_transition reports only versions that are stored, each once.
THEOREM TruthfulEvidence == Spec => []EvidenceIsTruthful
<1>1. SettleInv => EvidenceIsTruthful
  BY DEF SettleInv
<1> QED BY SettleInvariant, <1>1, PTL

-----------------------------------------------------------------------------
(* The refinement.                                                          *)

View(row) == [state |-> row.state, order |-> row.order,
              payment |-> row.payment, reference |-> row.reference]

\* The abstract state, as the instance in Checkout writes it.
Book == [q \in Quotes |-> View(quotes[q])]

Placed == [o \in Orders |-> IF orders[o] = None THEN None ELSE orders[o].quote]

Captures == {[payment |-> p, order |-> payments[p].order, amount |-> payments[p].amount] :
               p \in {x \in Payments : payments[x] # None /\ payments[x].captured}}

LEMMA BookMoves ==
    ASSUME NEW q \in Quotes, NEW row, quotes \in [Quotes -> Row],
           quotes' = [quotes EXCEPT ![q] = row]
    PROVE  Book' = [Book EXCEPT ![q] = View(row)]
<1>1. \A x \in Quotes : View(quotes[x])' = IF x = q THEN View(row) ELSE View(quotes[x])
  BY DEF View
<1> QED BY <1>1 DEF Book

\* Placing an order for a quote that exists.
LEMMA CreatesPlaces ==
    ASSUME SettleInv, NEW i \in Intents, NEW o \in Orders, RazorpayCreates(i, o)
    PROVE  Promise!Place(wire[i].quote, o) /\ wire[i].quote \in Quotes
<1>1. PICK q : q = wire[i].quote
  OBVIOUS
<1>2. /\ LedgerInv /\ IntentKnows(i)
      /\ wire[i].state = "sent" /\ orders[o] = None
      /\ orders' = [orders EXCEPT ![o] = [quote |-> q, amount |-> Price[q], intent |-> i]]
      /\ UNCHANGED <<quotes, payments>>
  BY <1>1 DEF SettleInv, RazorpayCreates, store
<1>3. q \in Quotes
  BY <1>1, <1>2 DEF LedgerInv, LedgerMatchesWire
<1>4. quotes[q].state # "Absent"
  <2>1. effects[i].status # "absent"
    BY <1>2 DEF LedgerInv, LedgerMatchesWire, NotSent
  <2> QED BY <1>1, <1>2, <2>1 DEF IntentKnows
<1>5. [quote |-> q, amount |-> Price[q], intent |-> i] # None
  <2>1. [quote |-> q, amount |-> Price[q], intent |-> i] \in OrderRecord
    BY <1>3, PriceAssumption DEF OrderRecord
  <2> QED BY <2>1, NoRecordAssumption
<1>6. Placed' = [Placed EXCEPT ![o] = q]
  <2>1. orders \in [Orders -> OrderRecord \cup {None}]
    BY <1>2 DEF LedgerInv, TypeOK
  <2>2. \A x \in Orders :
           (IF orders'[x] = None THEN None ELSE orders'[x].quote)
             = IF x = o THEN q ELSE IF orders[x] = None THEN None ELSE orders[x].quote
    BY <1>2, <1>5, <2>1
  <2> QED BY <2>2 DEF Placed
<1>7. Book' = Book /\ Captures' = Captures
  BY <1>2 DEF Book, View, Captures
<1>8. Book[q].state # "Absent" /\ Placed[o] = None
  BY <1>2, <1>3, <1>4 DEF Book, View, Placed
<1> QED BY <1>1, <1>3, <1>6, <1>7, <1>8 DEF Promise!Place, Book, View, Placed, Captures

LEMMA CaptureCaptures ==
    ASSUME SettleInv, NEW p \in Payments, Capture(p)
    PROVE  \E o \in Orders, a \in Amounts : Promise!CapturePayment(p, o, a)
<1>1. /\ payments \in [Payments -> PaymentRecord \cup {None}] /\ PaymentsHaveOrders
      /\ payments[p] # None /\ ~payments[p].captured
      /\ UNCHANGED <<quotes, orders>>
      /\ payments' = [payments EXCEPT ![p] = [@ EXCEPT !.captured = TRUE]]
  BY DEF SettleInv, LedgerInv, TypeOK, Capture, store
<1>2. payments[p] \in PaymentRecord
  BY <1>1
<1>3. PICK o \in Orders, a \in Amounts : payments[p].order = o /\ payments[p].amount = a
  BY <1>2 DEF PaymentRecord
<1>4. /\ payments'[p] # None /\ payments'[p].captured
      /\ payments'[p].order = o /\ payments'[p].amount = a
      /\ \A x \in Payments : x # p => payments'[x] = payments[x]
  <2>1. payments' = [payments EXCEPT ![p] = [payments[p] EXCEPT !.captured = TRUE]]
    BY <1>1
  <2>2. /\ payments'[p] \in PaymentRecord /\ payments'[p].captured
        /\ payments'[p].order = payments[p].order
        /\ payments'[p].amount = payments[p].amount
    BY <1>1, <1>2, <2>1 DEF PaymentRecord
  <2>3. payments'[p] # None
    BY <2>2, NoRecordAssumption
  <2>4. \A x \in Payments : x # p => payments'[x] = payments[x]
    BY <1>1, <2>1
  <2> QED BY <1>3, <2>2, <2>3, <2>4
<1>5. \A c : c \in Captures' <=> c \in Captures \/ c = [payment |-> p, order |-> o, amount |-> a]
  BY <1>1, <1>4 DEF Captures
<1>6. \A c \in Captures : c.payment # p
  BY <1>1 DEF Captures
<1>7. Book' = Book /\ Placed' = Placed
  BY <1>1 DEF Book, View, Placed
<1>8. Placed[o] # None
  <2>1. orders[o] # None
    BY <1>1, <1>3 DEF PaymentsHaveOrders
  <2>2. orders[o].quote # None
    BY <2>1, NoneAssumption, InvTypes DEF SettleInv, OrderRecord
  <2> QED BY <2>1, <2>2 DEF Placed
<1>9. Captures' = Captures \cup {[payment |-> p, order |-> o, amount |-> a]}
  BY <1>5
<1>10. Promise!CapturePayment(p, o, a)
  BY <1>6, <1>7, <1>8, <1>9 DEF Promise!CapturePayment, Book, View, Placed, Captures
<1> QED BY <1>10

LEMMA PayStutters ==
    ASSUME SettleInv, NEW p \in Payments, NEW o \in Orders, NEW a \in Amounts, Pay(p, o, a)
    PROVE  Captures' = Captures
<1>1. /\ payments \in [Payments -> PaymentRecord \cup {None}] /\ payments[p] = None
      /\ payments' = [payments EXCEPT ![p] = [order |-> o, amount |-> a, captured |-> FALSE]]
  BY DEF SettleInv, LedgerInv, TypeOK, Pay
<1>2. \A x \in Payments : x # p => payments'[x] = payments[x]
  BY <1>1
<1>3. ~payments'[p].captured
  BY <1>1
<1>4. \A c : c \in Captures' <=> c \in Captures
  BY <1>1, <1>2, <1>3 DEF Captures
<1> QED BY <1>4

\* The compare-and-swap of update_quote takes the abstract quote one stage on.
LEMMA CommitAdvances ==
    ASSUME SettleInv, NEW h \in Handlers, CommitCopy(h), [Next]_vars, quotes' # quotes
    PROVE  Promise!SNext
<1>1. PICK row : row = copy[h]
  OBVIOUS
<1>2. PICK q \in Quotes : q = req[h].quote
  BY WorkFacts DEF CommitCopy
<1>3. PICK now : now = quotes[q]
  OBVIOUS
<1>4. /\ LedgerInv /\ quotes \in [Quotes -> Row] /\ Backed(q, now)
  BY <1>3, InvTypes DEF SettleInv
<1>5. /\ now.version = row.version - 1 /\ pc[h] = "commit"
      /\ quotes' = [quotes EXCEPT ![q] = row]
      /\ UNCHANGED <<orders, payments, effects>>
  BY <1>1, <1>2, <1>3 DEF CommitCopy, razorpay
<1>6. CopyKnows("commit", req[h], row, answer[h])
  BY <1>1, <1>5, WorkFacts
<1>7. Follows(now, row)
  <2>1. row.version \in Nat
    BY <1>1, InvTypes DEF SettleInv, LocalsOK, Row
  <2>2. row.version = now.version + 1
    BY <1>5, <2>1
  <2> QED BY <1>2, <1>3, <1>6, <2>2 DEF CopyKnows
<1>8. Backed(q, row)
  BY <1>2, <1>6 DEF CopyKnows
<1>9. Book' = [Book EXCEPT ![q] = View(row)] /\ Placed' = Placed /\ Captures' = Captures
  BY <1>4, <1>5, BookMoves DEF Placed, Captures
<1>10. Book[q] = View(now)
  BY <1>3 DEF Book
<1>11. ASSUME now.state = "Issued", NEW o \in Orders, row = BindOrder(now, o) PROVE Promise!Bind(q, o)
  <2>1. View(row) = Promise!Page("OrderBound", o, None, None)
    BY <1>11 DEF View, BindOrder, Promise!Page
  <2>2. OrderBacks(q, o)
    BY <1>8, <1>11 DEF Backed, BindOrder, AbsentRow, Issue
  <2>3. Placed[o] = q
    BY <2>2 DEF OrderBacks, Placed
  <2>4. Book[q].state = "Issued"
    BY <1>10, <1>11 DEF View
  <2> QED BY <1>9, <2>1, <2>3, <2>4 DEF Promise!Bind, Book, View, Placed, Captures
<1>12. ASSUME now.state = "OrderBound", NEW p \in Payments, row = VerifyPayment(now, p)
       PROVE  Promise!Verify(q, p)
  <2>1. Book[q].state = "OrderBound" /\ Book[q].order = now.order
    BY <1>10, <1>12 DEF View
  <2>2. View(row) = Promise!Page("PaymentVerified", Book[q].order, p, None)
    BY <1>12, <2>1 DEF View, VerifyPayment, Promise!Page
  <2>3. PaymentBacks(q, p) /\ payments[p].order = now.order
    BY <1>8, <1>12 DEF Backed, VerifyPayment, AbsentRow, Issue
  <2>4. [payment |-> p, order |-> Book[q].order, amount |-> Price[q]] \in Captures
    BY <2>1, <2>3 DEF PaymentBacks, Captures
  <2> QED BY <1>9, <2>1, <2>2, <2>4 DEF Promise!Verify, Book, View, Placed, Captures
<1>13. ASSUME now.state = "PaymentVerified", NEW r \in References, row = Fulfill(now, r)
       PROVE  Promise!Release(q, r)
  <2>1. Book[q].state = "PaymentVerified" /\ Book[q].payment = now.payment
    BY <1>10, <1>13 DEF View
  <2>2. View(row) = Promise!Page("Fulfilled", None, Book[q].payment, r)
    BY <1>13, <2>1 DEF View, Fulfill, Promise!Page
  <2> QED BY <1>9, <2>1, <2>2 DEF Promise!Release, Book, View, Placed, Captures
<1> QED BY <1>7, <1>11, <1>12, <1>13 DEF Follows, Promise!SNext

LEMMA StepMaps == SettleInv /\ [Next]_vars => [Promise!SNext]_(Promise!sVars)
<1> SUFFICES ASSUME SettleInv, [Next]_vars PROVE [Promise!SNext]_(Promise!sVars)
  OBVIOUS
<1>1. ASSUME UNCHANGED <<quotes, orders>>, Captures' = Captures PROVE UNCHANGED Promise!sVars
  BY <1>1 DEF Promise!sVars, Captures
<1>2. ASSUME UNCHANGED <<quotes, orders, payments>> PROVE UNCHANGED Promise!sVars
  BY <1>2 DEF Promise!sVars
<1>3. ASSUME NEW h \in Handlers, NEW q \in Quotes, CreateQuote(h, q) PROVE Promise!Open(q)
  <2>1. /\ quotes[q] = AbsentRow /\ quotes' = [quotes EXCEPT ![q] = Issue]
        /\ UNCHANGED <<orders, payments>> /\ quotes \in [Quotes -> Row]
    BY <1>3, InvTypes DEF SettleInv, CreateQuote, razorpay
  <2>2. Book' = [Book EXCEPT ![q] = View(Issue)] /\ Placed' = Placed /\ Captures' = Captures
    BY <2>1, BookMoves DEF Placed, Captures
  <2>3. View(Issue) = Promise!Page("Issued", None, None, None)
    BY DEF View, Issue, Promise!Page
  <2>4. Book[q].state = "Absent"
    BY <2>1 DEF Book, View, AbsentRow
  <2> QED BY <2>2, <2>3, <2>4 DEF Promise!Open, Book, View, Placed, Captures
<1>4. ASSUME NEW h \in Handlers, Arrive(h) PROVE Promise!SNext \/ UNCHANGED Promise!sVars
  <2>1. CASE \E q \in Quotes : CreateQuote(h, q)
    BY <1>3, <2>1 DEF Promise!SNext
  <2>2. CASE ~\E q \in Quotes : CreateQuote(h, q)
    BY <1>2, <1>4, <2>2 DEF Arrive, CreateOrder, StartVerifyPayment, StartFulfill, store, razorpay
  <2> QED BY <2>1, <2>2
<1>5. ASSUME NEW h \in Handlers, Progress(h) PROVE Promise!SNext \/ UNCHANGED Promise!sVars
  <2>1. UNCHANGED <<orders, payments>>
    BY <1>5 DEF Progress, ClaimOrder, AppendAccepted, SendOrder, ReceiveAnswer, LoseAnswer,
       FailEffect, AppendRejected, CompleteEffect, AppendResponse, BindCopy, FetchOrder,
       FetchPayment, ClaimFulfill, CommitCopy, SettleFulfill, AppendTransition, razorpay
  <2>2. CASE quotes' = quotes
    BY <1>2, <2>1, <2>2
  <2>3. CASE quotes' # quotes
    <3>1. CommitCopy(h)
      BY <1>5, <2>3 DEF Progress, ClaimOrder, AppendAccepted, SendOrder, ReceiveAnswer, LoseAnswer,
         FailEffect, AppendRejected, CompleteEffect, AppendResponse, BindCopy, FetchOrder,
         FetchPayment, ClaimFulfill, SettleFulfill, AppendTransition, store
    <3> QED BY <2>3, <3>1, CommitAdvances
  <2> QED BY <2>2, <2>3
<1>6. ASSUME NEW h \in Handlers, Abort(h) PROVE UNCHANGED Promise!sVars
  BY <1>2, <1>6 DEF Abort, store, razorpay
<1>7. ASSUME Environment PROVE Promise!SNext \/ UNCHANGED Promise!sVars
  <2>1. ASSUME NEW i \in Intents, NEW o \in Orders, RazorpayCreates(i, o) PROVE Promise!SNext
    BY <2>1, CreatesPlaces DEF Promise!SNext
  <2>2. ASSUME NEW p \in Payments, NEW o \in Orders, NEW a \in Amounts, Pay(p, o, a)
        PROVE  UNCHANGED Promise!sVars
    <3>1. UNCHANGED <<quotes, orders>>
      BY <2>2 DEF Pay, store
    <3> QED BY <1>1, <2>2, <3>1, PayStutters
  <2>3. ASSUME NEW p \in Payments, Capture(p) PROVE Promise!SNext
    BY <2>3, CaptureCaptures DEF Promise!SNext
  <2>4. CASE (\E q \in Quotes : Expire(q)) \/ \E i \in Intents : RazorpayRefuses(i)
    BY <1>2, <2>4 DEF Expire, RazorpayRefuses, store, razorpay
  <2> QED BY <1>7, <2>1, <2>2, <2>3, <2>4 DEF Environment
<1>8. CASE UNCHANGED vars
  BY <1>2, <1>8 DEF vars
<1> QED BY <1>4, <1>5, <1>6, <1>7, <1>8 DEF Next

\* However many requests race, lose their answers or are cut short, what is
\* stored behaves as the sequential Settlement: one stage at a time, each on
\* the evidence it requires.
THEOREM CheckoutSettles == Spec => ImplementsSettlement
<1>1. Init => Promise!SInit
  BY DEF Init, Promise!SInit, Promise!Blank, Promise!Page, AbsentRow
<1> QED BY SettleInvariant, <1>1, StepMaps, PTL DEF Spec, ImplementsSettlement, Promise!SSpec
=============================================================================

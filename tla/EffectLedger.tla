---------------------------- MODULE EffectLedger ----------------------------
(***************************************************************************)
(* Generic writes of razorproof-server: execute_operation and              *)
(* execute_guarded, upload_document, the effects table they share, and     *)
(* RazorpayClient::execute with its retries.  One tenant.                  *)
(*                                                                         *)
(* A request that authenticate, validate_request, load_quote or            *)
(* enforce_quote_binding refuses changes nothing: it is a Claim that is    *)
(* not taken.  Reads keep no effect row and are left out.                  *)
(***************************************************************************)
EXTENDS Naturals, Sequences, FiniteSets

CONSTANTS
    Handlers,    \* the requests that can be in progress at the same time
    Intents,     \* values of the X-RazorProof-Intent header
    Targets,     \* path and query parameters: the resource addressed
    Bodies,      \* request bodies (what body_hash identifies)
    Unsendable,  \* targets render_path and bodies DocumentUpload refuses
    Requests,    \* the requests clients may make
    None,        \* the absence of a value
    MaxAborts    \* bounds the requests cut short by a crash or a disconnect

Kinds == {"gateway_required", "refund_header", "document"}
Answers == {"ok", "rejected", "throttled", "server_error"}  \* 2xx, 4xx, 429, 5xx

\* body_hash covers the body (or the summary of a document), not the target.
Request == [intent : Intents, kind : Kinds, target : Targets, body : Bodies]

ASSUME RequestsAssumption == Requests \subseteq Request
ASSUME NoneAssumption == None \notin Answers \cup Kinds \cup Requests \cup Bodies
ASSUME MaxAbortsAssumption == MaxAborts \in Nat

VARIABLES
    effects,   \* the effects table: row of each intent
    evidence,  \* the evidence events about intents
    wire,      \* every HTTP call made for each intent, and what became of it
    pc,        \* the await each handler is at
    req,       \* the request of each handler
    tries,     \* the attempts each handler has made
    call,      \* the position in wire of the call each handler waits for
    answer,    \* the provider response each handler holds
    told,      \* the provider responses returned to clients
    aborts     \* how many requests were cut short

ledger == <<effects, evidence>>
handler == <<pc, req, tries, call, answer>>
vars == <<effects, evidence, wire, pc, req, tries, call, answer, told, aborts>>

-----------------------------------------------------------------------------
NoEffect == [status |-> "absent", kind |-> None, body |-> None, answer |-> None]
PendingEffect(r) ==
    [status |-> "pending", kind |-> r.kind, body |-> r.body, answer |-> None]
Resolved(e, status, a) ==
    [status |-> status, kind |-> e.kind, body |-> e.body, answer |-> a]

Effect == [status : {"absent", "pending", "completed", "failed"},
           kind   : Kinds \cup {None},
           body   : Bodies \cup {None},
           answer : Answers \cup {None}]

\* A call on its way has no answer; applied tells whether the provider acted.
NewCall(r) == [kind |-> r.kind, target |-> r.target, answer |-> None, applied |-> FALSE]

Call == [kind : Kinds, target : Targets, answer : Answers \cup {None}, applied : BOOLEAN]

Event(kind, i, a) == [kind |-> kind, intent |-> i, answer |-> a]

Reply(r, a) == [request |-> r, answer |-> a]

\* Mutant: the stored body hash is not compared.
MutSame(r, e) == e.kind = r.kind

Same(r, e) == e.kind = r.kind /\ e.body = r.body

\* Mutant: every write is retried like a refund.
MutAttempts(kind) == 3

\* Only reads and refunds may be sent more than once.
Attempts(kind) == IF kind = "refund_header" THEN 3 ELSE 1

Retryable(a) == a \in {"throttled", "server_error"}

\* Mutant: a 5xx is stored as the answer, as upload_document does.
MutAmbiguous(r, a) == FALSE

\* execute_guarded freezes a 5xx; upload_document stores every response.
Ambiguous(r, a) == a = "server_error" /\ r.kind # "document"

Sendable(r) == {r.target, r.body} \cap Unsendable = {}

Init ==
    /\ effects = [i \in Intents |-> NoEffect]
    /\ evidence = {}
    /\ wire = [i \in Intents |-> <<>>]
    /\ pc = [h \in Handlers |-> "idle"]
    /\ req = [h \in Handlers |-> None]
    /\ tries = [h \in Handlers |-> 0]
    /\ call = [h \in Handlers |-> 0]
    /\ answer = [h \in Handlers |-> None]
    /\ told = {}
    /\ aborts = 0

-----------------------------------------------------------------------------
(* Steps of a handler.                                                     *)

Goto(h, next) == pc' = [pc EXCEPT ![h] = next]

\* The handler returns; its locals are gone.
Finish(h) ==
    /\ Goto(h, "idle")
    /\ req' = [req EXCEPT ![h] = None]
    /\ tries' = [tries EXCEPT ![h] = 0]
    /\ call' = [call EXCEPT ![h] = 0]
    /\ answer' = [answer EXCEPT ![h] = None]

Tell(r, a) == told' = told \cup {Reply(r, a)}

\* Mutant: a frozen intent is claimed again by a retry of the same request.
MutClaim(h, r) ==
    /\ pc[h] = "idle"
    /\ effects[r.intent].status \in {"absent", "failed"}
    /\ effects' = [effects EXCEPT ![r.intent] = PendingEffect(r)]
    /\ req' = [req EXCEPT ![h] = r]
    /\ Goto(h, IF r.kind = "document" THEN "send" ELSE "accept")
    /\ UNCHANGED <<evidence, wire, tries, call, answer, told, aborts>>

\* claim_effect inserts a pending row; a document skips RequestAccepted.
Claim(h, r) ==
    /\ pc[h] = "idle"
    /\ effects[r.intent].status = "absent"
    /\ effects' = [effects EXCEPT ![r.intent] = PendingEffect(r)]
    /\ req' = [req EXCEPT ![h] = r]
    /\ Goto(h, IF r.kind = "document" THEN "send" ELSE "accept")
    /\ UNCHANGED <<evidence, wire, tries, call, answer, told, aborts>>

\* claim_effect finds the completed row of the same operation and body.
Replay(h, r) ==
    /\ pc[h] = "idle"
    /\ effects[r.intent].status = "completed"
    /\ Same(r, effects[r.intent])
    /\ Tell(r, effects[r.intent].answer)
    /\ UNCHANGED <<ledger, wire, handler, aborts>>

\* EffectClaim::Conflict, InFlight and PriorFailure: 409, nothing changes.
Refuse(h, r) ==
    /\ pc[h] = "idle"
    /\ \/ effects[r.intent].status \in {"pending", "failed"}
       \/ effects[r.intent].status = "completed" /\ ~Same(r, effects[r.intent])
    /\ UNCHANGED vars

AppendAccepted(h) ==
    /\ pc[h] = "accept"
    /\ evidence' = evidence \cup {Event("RequestAccepted", req[h].intent, None)}
    /\ Goto(h, "send")
    /\ UNCHANGED <<effects, wire, req, tries, call, answer, told, aborts>>

Post(h) ==
    LET i == req[h].intent
    IN  /\ wire' = [wire EXCEPT ![i] = Append(@, NewCall(req[h]))]
        /\ tries' = [tries EXCEPT ![h] = @ + 1]
        /\ call' = [call EXCEPT ![h] = Len(wire[i]) + 1]
        /\ Goto(h, "await")
        /\ UNCHANGED <<ledger, req, answer, told, aborts>>

\* RazorpayClient::send_once
Send(h) ==
    /\ pc[h] = "send"
    /\ req[h].kind # "document"
    /\ Sendable(req[h])
    /\ Post(h)

\* RazorpayClient::upload_document
SendDocument(h) ==
    /\ pc[h] = "send"
    /\ req[h].kind = "document"
    /\ Sendable(req[h])
    /\ Post(h)

\* render_path or DocumentUpload::validate fails after the claim.
RefuseToSend(h) ==
    /\ pc[h] = "send"
    /\ ~Sendable(req[h])
    /\ Goto(h, "fail")
    /\ UNCHANGED <<ledger, wire, req, tries, call, answer, told, aborts>>

\* Mutant: the response is reported before it is stored.
MutReceiveAnswer(h) ==
    LET a == wire[req[h].intent][call[h]].answer
    IN  /\ pc[h] = "await"
        /\ a # None
        /\ answer' = [answer EXCEPT ![h] = a]
        /\ Goto(h, IF Ambiguous(req[h], a) THEN "fail" ELSE "respond")
        /\ UNCHANGED <<ledger, wire, req, tries, call, told, aborts>>

\* A response: tried again while it is retryable and attempts are left.
ReceiveAnswer(h) ==
    LET a == wire[req[h].intent][call[h]].answer
        again == Retryable(a) /\ tries[h] < Attempts(req[h].kind)
    IN  /\ pc[h] = "await"
        /\ a # None
        /\ \/ /\ again
              /\ Goto(h, "send")
              /\ UNCHANGED answer
           \/ /\ ~again
              /\ answer' = [answer EXCEPT ![h] = a]
              /\ Goto(h, IF Ambiguous(req[h], a) THEN "fail" ELSE "complete")
        /\ UNCHANGED <<ledger, wire, req, tries, call, told, aborts>>

\* Mutant: the HTTP client has no timeout.
MutLoseAnswer(h) == pc[h] = "await" /\ FALSE /\ UNCHANGED vars

\* Mutant: off by one, a lost answer is retried after the last attempt.
MutLoseAnswerAgain(h) ==
    /\ pc[h] = "await"
    /\ \/ /\ tries[h] <= Attempts(req[h].kind)
          /\ Goto(h, "send")
       \/ Goto(h, "fail")
    /\ UNCHANGED <<ledger, wire, req, tries, call, answer, told, aborts>>

\* A connection failure or a timeout (retryable) or any other transport
\* error (not), whatever the provider has done or will do with the call.
LoseAnswer(h) ==
    /\ pc[h] = "await"
    /\ \/ /\ tries[h] < Attempts(req[h].kind)
          /\ Goto(h, "send")
       \/ Goto(h, "fail")
    /\ UNCHANGED <<ledger, wire, req, tries, call, answer, told, aborts>>

\* fail_effect: an error when the row is no longer pending.
FailEffect(h) ==
    LET i == req[h].intent
    IN  /\ pc[h] = "fail"
        /\ \/ /\ effects[i].status = "pending"
              /\ effects' = [effects EXCEPT ![i] = Resolved(@, "failed", None)]
              /\ IF answer[h] = None
                   THEN Finish(h)
                   ELSE Goto(h, "reject") /\ UNCHANGED <<req, tries, call, answer>>
           \/ /\ effects[i].status # "pending"
              /\ Finish(h)
              /\ UNCHANGED effects
        /\ UNCHANGED <<evidence, wire, told, aborts>>

AppendRejected(h) ==
    /\ pc[h] = "reject"
    /\ evidence' = evidence \cup {Event("RequestRejected", req[h].intent, answer[h])}
    /\ Finish(h)
    /\ UNCHANGED <<effects, wire, told, aborts>>

\* complete_effect: an error when the row is no longer pending.
CompleteEffect(h) ==
    LET i == req[h].intent
    IN  /\ pc[h] = "complete"
        /\ \/ /\ effects[i].status = "pending"
              /\ effects' = [effects EXCEPT ![i] = Resolved(@, "completed", answer[h])]
              /\ Goto(h, "respond")
              /\ UNCHANGED <<req, tries, call, answer>>
           \/ /\ effects[i].status # "pending"
              /\ Finish(h)
              /\ UNCHANGED effects
        /\ UNCHANGED <<evidence, wire, told, aborts>>

\* The ProviderResponse event, then the response to the client.
AppendResponse(h) ==
    /\ pc[h] = "respond"
    /\ evidence' = evidence \cup {Event("ProviderResponse", req[h].intent, answer[h])}
    /\ Tell(req[h], answer[h])
    /\ Finish(h)
    /\ UNCHANGED <<effects, wire, aborts>>

\* A store error, a client that disconnects, or a crash.
Abort(h) ==
    /\ pc[h] # "idle"
    /\ aborts < MaxAborts
    /\ aborts' = aborts + 1
    /\ Finish(h)
    /\ UNCHANGED <<ledger, wire, told>>

-----------------------------------------------------------------------------
(* Razorpay.  A call may be processed at any time after it was sent.       *)

\* X-Refund-Idempotency carries the intent: a refund is carried out once.
Refunded(i) ==
    \E n \in DOMAIN wire[i] : wire[i][n].kind = "refund_header" /\ wire[i][n].applied

Settled(c, a, acted) ==
    [kind |-> c.kind, target |-> c.target, answer |-> a, applied |-> acted]

Processed(i, n, a, acted) ==
    /\ wire[i][n].answer = None
    /\ wire' = [wire EXCEPT ![i][n] = Settled(@, a, acted)]
    /\ UNCHANGED <<ledger, handler, told, aborts>>

\* It acts, and says so or answers 5xx.
ProviderApplies(i, n) ==
    /\ ~(wire[i][n].kind = "refund_header" /\ Refunded(i))
    /\ \E a \in {"ok", "server_error"} : Processed(i, n, a, TRUE)

\* It has carried out this refund before.
ProviderRepeats(i, n) ==
    /\ wire[i][n].kind = "refund_header"
    /\ Refunded(i)
    /\ Processed(i, n, "ok", FALSE)

ProviderRefuses(i, n) ==
    \E a \in Answers \ {"ok"} : Processed(i, n, a, FALSE)

-----------------------------------------------------------------------------
HandlerStep(h) ==
    \/ AppendAccepted(h)
    \/ Send(h) \/ SendDocument(h) \/ RefuseToSend(h)
    \/ ReceiveAnswer(h) \/ LoseAnswer(h)
    \/ FailEffect(h) \/ AppendRejected(h)
    \/ CompleteEffect(h) \/ AppendResponse(h)

Next ==
    \/ \E h \in Handlers :
          \/ \E r \in Requests : Claim(h, r) \/ Replay(h, r) \/ Refuse(h, r)
          \/ HandlerStep(h)
          \/ Abort(h)
    \/ \E i \in Intents : \E n \in DOMAIN wire[i] :
          ProviderApplies(i, n) \/ ProviderRepeats(i, n) \/ ProviderRefuses(i, n)

Spec == Init /\ [][Next]_vars

\* tokio polls every handler; the HTTP client has a 20 s timeout and three
\* attempts at most, so a handler that waits for Razorpay goes on too.
LiveSpec == Spec /\ \A h \in Handlers : WF_vars(HandlerStep(h))

-----------------------------------------------------------------------------
(* Properties.                                                             *)

PCs == {"idle", "accept", "send", "await", "fail", "reject", "complete", "respond"}

\* The type of every variable; attempts stay within the bound of the policy.
TypeOK ==
    /\ effects \in [Intents -> Effect]
    /\ \A e \in evidence : e.intent \in Intents /\ e.answer \in Answers \cup {None}
    /\ wire \in [Intents -> Seq(Call)]
    /\ pc \in [Handlers -> PCs]
    /\ req \in [Handlers -> Requests \cup {None}]
    /\ tries \in [Handlers -> 0..3]
    /\ call \in [Handlers -> Nat]
    /\ answer \in [Handlers -> Answers \cup {None}]
    /\ \A t \in told : t.request \in Requests /\ t.answer \in Answers
    /\ aborts \in 0..MaxAborts

\* The number of times the provider carried out an intent.
Applied(i) == Cardinality({n \in DOMAIN wire[i] : wire[i][n].applied})

\* A completed row of a gateway-owned write tells exactly what happened: no
\* call of it is still on its way, and the provider acted if and only if the
\* stored answer is a success.  (execute_guarded, the 5xx and transport arms)
CompletedIsDeterminate ==
    \A i \in Intents :
        effects[i].status = "completed" /\ effects[i].kind = "gateway_required" =>
            /\ \A n \in DOMAIN wire[i] : wire[i][n].answer # None
            /\ effects[i].answer = "ok" <=> Applied(i) = 1

\* All clients that present one intent get one and the same provider answer,
\* for one operation and one body.  (claim_effect, Replay)
OneAnswerPerIntent ==
    \A s, t \in told :
        s.request.intent = t.request.intent =>
            /\ s.answer = t.answer
            /\ s.request.kind = t.request.kind
            /\ s.request.body = t.request.body

\* The evidence of an intent agrees with its row: a response event with the
\* stored answer, a rejection only for a frozen row, and nothing is sent for
\* a guarded write before its RequestAccepted event.  (execute_guarded)
EvidenceMatchesLedger ==
    /\ \A e \in evidence :
          /\ e.kind = "ProviderResponse" =>
                /\ effects[e.intent].status = "completed"
                /\ effects[e.intent].answer = e.answer
          /\ e.kind = "RequestRejected" => effects[e.intent].status = "failed"
    /\ \A i \in Intents : \A n \in DOMAIN wire[i] :
          wire[i][n].kind # "document" => Event("RequestAccepted", i, None) \in evidence

Abstract == INSTANCE AtMostOnce WITH
    phase   <- [i \in Intents |-> effects[i].status],
    applied <- [i \in Intents |-> Applied(i)],
    outcome <- [i \in Intents |-> effects[i].answer]

\* With retries, timeouts, late executions, replays and aborts the ledger
\* still implements AtMostOnce.  (execute_guarded, RazorpayClient::execute)
ImplementsAtMostOnce == Abstract!Spec

\* A claimed intent is settled unless its request is cut short, although
\* Razorpay may never answer.  (RazorpayClient::new, the timeouts)
PendingIsSettled ==
    \A i \in Intents :
        effects[i].status = "pending" ~>
            effects[i].status \in {"completed", "failed"} \/ aborts > 0

\* razorproof-rs/docs/ARCHITECTURE.md: "A 4xx response is determinate and can be replayed."
RejectedIsDeterminate ==
    \A i \in Intents :
        effects[i].status = "completed" /\ effects[i].answer \in {"rejected", "throttled"}
            => Applied(i) = 0

\* razorproof-rs/docs/ARCHITECTURE.md: "A transport failure or 5xx after a write is not
\* proof that the provider did nothing, so the effect is frozen".
ServerErrorFreezes ==
    \A i \in Intents :
        effects[i].status = "completed" => effects[i].answer # "server_error"

\* razorproof-rs/README.md: a replay is of the same effect, and reuse of an
\* identity with different input is told apart from it.
RepliesFitTheRequest ==
    \A t \in told :
        \A n \in DOMAIN wire[t.request.intent] :
            wire[t.request.intent][n].target = t.request.target
=============================================================================

-------------------------- MODULE EffectLedgerProofs --------------------------
(***************************************************************************)
(* For any number of handlers, intents and aborts: the generic effect      *)
(* ledger implements AtMostOnce, a completed gateway-owned row tells what  *)
(* happened, every client of an intent gets one answer, and the evidence   *)
(* agrees with the row.                                                    *)
(*                                                                         *)
(* The argument is ownership: claim_effect lets one handler in per intent  *)
(* (OwnersExclude), so the row, the calls on the wire and the evidence of  *)
(* an intent move only with that handler (HandlerOK) and with Razorpay,    *)
(* and what they say of each other (IntentOK) outlives the handler.        *)
(***************************************************************************)
EXTENDS EffectLedger, FiniteSetTheorems, TLAPS

Busy(h) == pc[h] # "idle"

OwnersExclude ==
    \A g, h \in Handlers : Busy(g) /\ Busy(h) /\ g # h => req[g].intent # req[h].intent

\* Some call of intent i was answered a.
Answered(i, a) == \E n \in DOMAIN wire[i] : wire[i][n].answer = a

\* What handler h knows of row and wire of the intent it owns.
HandlerOK(h) ==
    /\ ~Busy(h) => tries[h] = 0
    /\ Busy(h) =>
        /\ req[h] \in Requests
        /\ effects[req[h].intent].kind = req[h].kind
        /\ effects[req[h].intent].body = req[h].body
        /\ Len(wire[req[h].intent]) = tries[h]
        /\ tries[h] <= Attempts(req[h].kind)
        /\ pc[h] \in {"accept", "send"} => tries[h] < Attempts(req[h].kind)
        /\ pc[h] \in {"accept", "send", "await", "fail", "complete"} =>
              effects[req[h].intent].status = "pending"
        /\ pc[h] = "await" => call[h] \in DOMAIN wire[req[h].intent]
        /\ pc[h] = "complete" => /\ answer[h] \in Answers
                                 /\ ~Ambiguous(req[h], answer[h])
                                 /\ Answered(req[h].intent, answer[h])
        /\ pc[h] = "respond" => /\ effects[req[h].intent].status = "completed"
                                /\ effects[req[h].intent].answer = answer[h]
        /\ pc[h] = "reject" => /\ effects[req[h].intent].status = "failed"
                               /\ answer[h] \in Answers
        /\ pc[h] # "accept" /\ req[h].kind # "document" =>
              Event("RequestAccepted", req[h].intent, None) \in evidence

\* What row and wire of intent i say of each other, owner or no owner.
IntentOK(i) ==
    /\ effects[i].status = "absent" => wire[i] = <<>>
    /\ effects[i].status # "completed" => effects[i].answer = None
    /\ effects[i].kind # "refund_header" => Len(wire[i]) <= 1
    /\ \A n \in DOMAIN wire[i] :
          /\ wire[i][n].kind = effects[i].kind
          /\ wire[i][n].applied => wire[i][n].answer \in {"ok", "server_error"}
          /\ wire[i][n].answer = "ok" => \E m \in DOMAIN wire[i] : wire[i][m].applied
    /\ \A m, n \in DOMAIN wire[i] : wire[i][m].applied /\ wire[i][n].applied => m = n
    /\ effects[i].status = "completed" =>
          /\ effects[i].answer \in Answers
          /\ effects[i].answer = "server_error" => effects[i].kind = "document"
          /\ Answered(i, effects[i].answer)

\* What a client was told is the answer in the row.
ToldOK ==
    \A t \in told :
        /\ effects[t.request.intent].status = "completed"
        /\ Same(t.request, effects[t.request.intent])
        /\ effects[t.request.intent].answer = t.answer

EffectInv ==
    /\ TypeOK
    /\ OwnersExclude
    /\ \A h \in Handlers : HandlerOK(h)
    /\ \A i \in Intents : IntentOK(i)
    /\ ToldOK
    /\ EvidenceMatchesLedger

-----------------------------------------------------------------------------
(* What the helpers do.                                                     *)

LEMMA RequestType ==
    ASSUME NEW r \in Requests
    PROVE  /\ r \in Request /\ r.intent \in Intents /\ r.kind \in Kinds /\ r.body \in Bodies
           /\ r # None
           /\ Attempts(r.kind) \in 1..3
           /\ r.kind # "refund_header" => Attempts(r.kind) = 1
BY RequestsAssumption, NoneAssumption DEF Request, Attempts

LEMMA GotoFacts ==
    ASSUME TypeOK, NEW h \in Handlers, NEW next \in PCs, Goto(h, next)
    PROVE  /\ pc' \in [Handlers -> PCs]
           /\ \A g \in Handlers : pc'[g] = IF g = h THEN next ELSE pc[g]
BY DEF TypeOK, Goto

LEMMA FinishFacts ==
    ASSUME TypeOK, NEW h \in Handlers, Finish(h)
    PROVE  /\ pc' \in [Handlers -> PCs]
           /\ req' \in [Handlers -> Requests \cup {None}]
           /\ tries' \in [Handlers -> 0..3]
           /\ call' \in [Handlers -> Nat]
           /\ answer' \in [Handlers -> Answers \cup {None}]
           /\ ~Busy(h)' /\ tries'[h] = 0
           /\ \A g \in Handlers : g # h =>
                 /\ pc'[g] = pc[g] /\ req'[g] = req[g] /\ tries'[g] = tries[g]
                 /\ call'[g] = call[g] /\ answer'[g] = answer[g]
<1>1. pc' \in [Handlers -> PCs] /\ \A g \in Handlers : pc'[g] = IF g = h THEN "idle" ELSE pc[g]
  BY GotoFacts DEF Finish, PCs
<1>2. /\ req' \in [Handlers -> Requests \cup {None}]
      /\ \A g \in Handlers : g # h => req'[g] = req[g]
  BY DEF Finish, TypeOK
<1>3. /\ tries' \in [Handlers -> 0..3] /\ tries'[h] = 0
      /\ \A g \in Handlers : g # h => tries'[g] = tries[g]
  BY DEF Finish, TypeOK
<1>4. /\ call' \in [Handlers -> Nat]
      /\ \A g \in Handlers : g # h => call'[g] = call[g]
  BY DEF Finish, TypeOK
<1>5. /\ answer' \in [Handlers -> Answers \cup {None}]
      /\ \A g \in Handlers : g # h => answer'[g] = answer[g]
  BY DEF Finish, TypeOK
<1> QED BY <1>1, <1>2, <1>3, <1>4, <1>5 DEF Busy

\* A busy handler owns an intent that has a row.
LEMMA BusyFacts ==
    ASSUME EffectInv, NEW h \in Handlers, Busy(h)
    PROVE  /\ req[h] \in Requests /\ req[h].intent \in Intents
           /\ effects[req[h].intent].status # "absent"
<1>1. req[h] \in Requests
  BY DEF EffectInv, HandlerOK
<1>2. pc[h] \in PCs \ {"idle"}
  BY DEF EffectInv, TypeOK, Busy
<1> QED BY <1>1, <1>2, RequestType DEF EffectInv, HandlerOK, PCs

-----------------------------------------------------------------------------
(* What a step about one intent leaves of the others.                       *)

LEMMA Frame ==
    ASSUME EffectInv, NEW h \in Handlers, NEW i \in Intents,
           \A g \in Handlers : g # h /\ Busy(g) => req[g].intent # i,
           \A g \in Handlers : g # h =>
               /\ pc'[g] = pc[g] /\ req'[g] = req[g] /\ tries'[g] = tries[g]
               /\ call'[g] = call[g] /\ answer'[g] = answer[g],
           \A j \in Intents : j # i => effects'[j] = effects[j] /\ wire'[j] = wire[j],
           evidence \subseteq evidence'
    PROVE  /\ \A g \in Handlers : g # h => HandlerOK(g)'
           /\ \A j \in Intents : j # i => IntentOK(j)'
<1>1. ASSUME NEW g \in Handlers, g # h
      PROVE  HandlerOK(g)'
  <2>1. HandlerOK(g)
    BY DEF EffectInv
  <2>2. CASE ~Busy(g)
    BY <1>1, <2>1, <2>2 DEF HandlerOK, Busy
  <2>3. CASE Busy(g)
    <3>1. req[g].intent \in Intents /\ req[g].intent # i
      BY <1>1, <2>3, BusyFacts
    <3>2. effects'[req[g].intent] = effects[req[g].intent]
          /\ wire'[req[g].intent] = wire[req[g].intent]
      BY <3>1
    <3> QED BY <1>1, <2>1, <3>2 DEF HandlerOK, Busy, Answered
  <2> QED BY <2>2, <2>3
<1>2. ASSUME NEW j \in Intents, j # i
      PROVE  IntentOK(j)'
  BY <1>2 DEF EffectInv, IntentOK, Answered
<1> QED BY <1>1, <1>2

LEMMA OwnersFrame ==
    ASSUME EffectInv,
           \A g \in Handlers : Busy(g)' => Busy(g) /\ req'[g] = req[g]
    PROVE  OwnersExclude'
BY DEF EffectInv, OwnersExclude, Busy

LEMMA ToldFrame ==
    ASSUME EffectInv, told' = told,
           \A j \in Intents : effects[j].status = "completed" => effects'[j] = effects[j]
    PROVE  ToldOK'
<1>1. \A t \in told : t.request.intent \in Intents
  BY RequestType DEF EffectInv, TypeOK
<1> QED BY <1>1 DEF EffectInv, ToldOK, Same

LEMMA EvidenceFrame ==
    ASSUME EffectInv, evidence' = evidence,
           \A j \in Intents :
               /\ effects[j].status \in {"completed", "failed"} => effects'[j] = effects[j]
               /\ DOMAIN wire'[j] = DOMAIN wire[j]
               /\ \A n \in DOMAIN wire[j] : wire'[j][n].kind = wire[j][n].kind
    PROVE  EvidenceMatchesLedger'
<1>1. \A e \in evidence : e.intent \in Intents
  BY DEF EffectInv, TypeOK
<1>2. ASSUME NEW e \in evidence
      PROVE  /\ e.kind = "ProviderResponse" =>
                   /\ effects'[e.intent].status = "completed"
                   /\ effects'[e.intent].answer = e.answer
             /\ e.kind = "RequestRejected" => effects'[e.intent].status = "failed"
  <2>1. e.intent \in Intents
    BY <1>1
  <2> QED BY <2>1 DEF EffectInv, EvidenceMatchesLedger
<1>3. ASSUME NEW i \in Intents, NEW n \in DOMAIN wire'[i], wire'[i][n].kind # "document"
      PROVE  Event("RequestAccepted", i, None) \in evidence
  BY <1>3 DEF EffectInv, EvidenceMatchesLedger
<1> QED BY <1>2, <1>3 DEF EvidenceMatchesLedger, Event

\* A step of one handler that only moves it on.
LEMMA MoveStep ==
    ASSUME EffectInv, NEW h \in Handlers, Busy(h), NEW next \in PCs, Goto(h, next),
           UNCHANGED <<ledger, wire, req, tries, call, told>>,
           answer' \in [Handlers -> Answers \cup {None}],
           \A g \in Handlers : g # h => answer'[g] = answer[g],
           aborts' \in 0..MaxAborts,
           HandlerOK(h)'
    PROVE  EffectInv'
<1>0. /\ pc' \in [Handlers -> PCs]
      /\ \A g \in Handlers : pc'[g] = IF g = h THEN next ELSE pc[g]
  BY GotoFacts DEF EffectInv
<1>1. TypeOK'
  BY <1>0 DEF EffectInv, TypeOK, ledger
<1>2. req[h].intent \in Intents
  BY BusyFacts
<1>3. \A g \in Handlers : g # h /\ Busy(g) => req[g].intent # req[h].intent
  BY DEF EffectInv, OwnersExclude
<1>4. /\ \A g \in Handlers : g # h => HandlerOK(g)'
      /\ \A j \in Intents : j # req[h].intent => IntentOK(j)'
  BY <1>0, <1>2, <1>3, Frame DEF ledger
<1>5. IntentOK(req[h].intent)'
  BY SMTT(20), <1>2 DEF EffectInv, IntentOK, Answered, ledger
<1>6. OwnersExclude'
  BY <1>0, OwnersFrame DEF Busy
<1>7. ToldOK' /\ EvidenceMatchesLedger'
  BY ToldFrame, EvidenceFrame DEF ledger
<1>8. \A j \in Intents : IntentOK(j)'
  <2> TAKE j \in Intents
  <2> QED BY <1>4, <1>5
<1> QED BY <1>1, <1>4, <1>6, <1>7, <1>8 DEF EffectInv

-----------------------------------------------------------------------------
(* claim_effect.                                                            *)

LEMMA ClaimStep ==
    ASSUME EffectInv, NEW h \in Handlers, NEW r \in Requests, Claim(h, r)
    PROVE  EffectInv'
<1> DEFINE i == r.intent
           next == IF r.kind = "document" THEN "send" ELSE "accept"
<1>0. /\ ~Busy(h) /\ effects[i].status = "absent"
      /\ effects' = [effects EXCEPT ![i] = PendingEffect(r)]
      /\ req' = [req EXCEPT ![h] = r]
      /\ Goto(h, next)
      /\ UNCHANGED <<evidence, wire, tries, call, answer, told, aborts>>
  BY DEF Claim, Busy
<1>1. i \in Intents /\ r.kind \in Kinds /\ r.body \in Bodies /\ next \in PCs
  BY RequestType DEF PCs
<1> HIDE DEF next
<1>2. pc' \in [Handlers -> PCs] /\ \A g \in Handlers : pc'[g] = IF g = h THEN next ELSE pc[g]
  BY <1>0, <1>1, GotoFacts DEF EffectInv
<1>3. PendingEffect(r) \in Effect
  BY <1>1 DEF PendingEffect, Effect
<1>4. /\ effects' \in [Intents -> Effect]
      /\ \A j \in Intents : effects'[j] = IF j = i THEN PendingEffect(r) ELSE effects[j]
  BY <1>0, <1>1, <1>3 DEF EffectInv, TypeOK
<1>5. /\ req' \in [Handlers -> Requests \cup {None}]
      /\ \A g \in Handlers : req'[g] = IF g = h THEN r ELSE req[g]
  BY <1>0 DEF EffectInv, TypeOK
<1>6. TypeOK'
  BY <1>0, <1>2, <1>4, <1>5 DEF EffectInv, TypeOK
<1>7. \A g \in Handlers : g # h /\ Busy(g) => req[g].intent # i
  BY <1>0, BusyFacts
<1>8. /\ \A g \in Handlers : g # h => HandlerOK(g)'
      /\ \A j \in Intents : j # i => IntentOK(j)'
  BY <1>0, <1>1, <1>2, <1>4, <1>5, <1>7, Frame
<1>9. wire[i] = <<>>
  BY <1>0, <1>1 DEF EffectInv, IntentOK
<1>10. HandlerOK(h)'
  <2>1. tries[h] = 0
    BY <1>0 DEF EffectInv, HandlerOK
  <2>2. next \in {"accept", "send"} /\ (r.kind # "document" => next = "accept")
    BY DEF next
  <2>3. effects'[i] = PendingEffect(r) /\ req'[h] = r /\ pc'[h] = next
    BY <1>1, <1>2, <1>4, <1>5
  <2>4. Len(wire'[i]) = 0 /\ tries'[h] = 0
    BY <1>0, <1>9, <2>1
  <2> QED BY <2>2, <2>3, <2>4, RequestType DEF HandlerOK, Busy, PendingEffect
<1>11. IntentOK(i)'
  <2>1. wire'[i] = <<>> /\ effects'[i].status = "pending" /\ effects'[i].answer = None
    BY <1>0, <1>1, <1>4, <1>9 DEF PendingEffect
  <2>2. Len(wire'[i]) = 0 /\ DOMAIN wire'[i] = {}
    BY <2>1
  <2> QED BY <2>1, <2>2 DEF IntentOK
<1>12. OwnersExclude'
  BY <1>2, <1>5, <1>7 DEF EffectInv, OwnersExclude, Busy
<1>13. ToldOK' /\ EvidenceMatchesLedger'
  BY <1>0, <1>4, ToldFrame, EvidenceFrame
<1> QED BY <1>6, <1>8, <1>10, <1>11, <1>12, <1>13 DEF EffectInv

LEMMA ReplayStep ==
    ASSUME EffectInv, NEW h \in Handlers, NEW r \in Requests, Replay(h, r)
    PROVE  EffectInv'
<1> DEFINE e == effects[r.intent]
<1>0. /\ e.status = "completed" /\ Same(r, e)
      /\ told' = told \cup {Reply(r, e.answer)}
      /\ UNCHANGED <<ledger, wire, handler, aborts>>
  BY DEF Replay, Tell
<1>1. r.intent \in Intents /\ e.answer \in Answers
  BY <1>0, RequestType DEF EffectInv, IntentOK
<1>2. TypeOK'
  BY <1>0, <1>1 DEF EffectInv, TypeOK, ledger, handler, Reply
<1>3. ToldOK'
  BY <1>0, <1>1 DEF EffectInv, ToldOK, ledger, Reply, Same
<1>4. OwnersExclude' /\ EvidenceMatchesLedger'
  BY <1>0 DEF EffectInv, OwnersExclude, Busy, EvidenceMatchesLedger, ledger, handler
<1>5. \A g \in Handlers : HandlerOK(g)'
  BY <1>0 DEF EffectInv, HandlerOK, Busy, Answered, ledger, handler
<1>6. \A i \in Intents : IntentOK(i)'
  BY <1>0 DEF EffectInv, IntentOK, Answered, ledger
<1> QED BY <1>2, <1>3, <1>4, <1>5, <1>6 DEF EffectInv

LEMMA StutterStep ==
    ASSUME EffectInv, UNCHANGED vars
    PROVE  EffectInv'
BY DEF EffectInv, TypeOK, OwnersExclude, Busy, HandlerOK, IntentOK, Answered, ToldOK,
       EvidenceMatchesLedger, vars

-----------------------------------------------------------------------------
(* The steps of a handler.                                                  *)

LEMMA AcceptStep ==
    ASSUME EffectInv, NEW h \in Handlers, AppendAccepted(h)
    PROVE  EffectInv'
<1> PICK i \in Intents : i = req[h].intent
  BY BusyFacts DEF AppendAccepted, Busy
<1>0. /\ pc[h] = "accept" /\ Busy(h) /\ Goto(h, "send")
      /\ evidence' = evidence \cup {Event("RequestAccepted", i, None)}
      /\ UNCHANGED <<effects, wire, req, tries, call, answer, told, aborts>>
  BY DEF AppendAccepted, Busy
<1>1. i \in Intents
  BY <1>0, BusyFacts
<1>2. pc' \in [Handlers -> PCs] /\ \A g \in Handlers : pc'[g] = IF g = h THEN "send" ELSE pc[g]
  BY <1>0, GotoFacts DEF EffectInv, PCs
<1>3. TypeOK'
  BY <1>0, <1>1, <1>2 DEF EffectInv, TypeOK, Event
<1>4. \A g \in Handlers : g # h /\ Busy(g) => req[g].intent # i
  BY <1>0 DEF EffectInv, OwnersExclude
<1>5. /\ \A g \in Handlers : g # h => HandlerOK(g)'
      /\ \A j \in Intents : j # i => IntentOK(j)'
  BY <1>0, <1>1, <1>2, <1>4, Frame
<1>6. HandlerOK(h)'
  BY <1>0, <1>2 DEF EffectInv, HandlerOK, Busy
<1>7. IntentOK(i)'
  BY <1>0, <1>1 DEF EffectInv, IntentOK, Answered
<1>8. OwnersExclude' /\ ToldOK'
  BY <1>0, <1>2, OwnersFrame, ToldFrame DEF Busy
<1>9. EvidenceMatchesLedger'
  BY <1>0 DEF EffectInv, EvidenceMatchesLedger, Event
<1>10. \A g \in Handlers : HandlerOK(g)'
  BY <1>5, <1>6
<1>11. \A j \in Intents : IntentOK(j)'
  BY <1>5, <1>7
<1> QED BY <1>3, <1>8, <1>9, <1>10, <1>11 DEF EffectInv

LEMMA RefuseToSendStep ==
    ASSUME EffectInv, NEW h \in Handlers, RefuseToSend(h)
    PROVE  EffectInv'
<1>0. /\ pc[h] = "send" /\ Busy(h) /\ Goto(h, "fail") /\ "fail" \in PCs
      /\ UNCHANGED <<ledger, wire, req, tries, call, answer, told, aborts>>
  BY DEF RefuseToSend, Busy, PCs
<1>1. pc'[h] = "fail"
  BY <1>0, GotoFacts DEF EffectInv
<1>2. HandlerOK(h)'
  BY <1>0, <1>1 DEF EffectInv, HandlerOK, Busy, ledger
<1> QED BY <1>0, <1>2, MoveStep DEF EffectInv, TypeOK

\* The call is on the wire: the last of the intent, not answered and not
\* carried out.
LEMMA PostFacts ==
    ASSUME EffectInv, NEW h \in Handlers, pc[h] = "send", Post(h)
    PROVE  LET i == req[h].intent
               new == Len(wire[i]) + 1
           IN  /\ req[h] \in Requests /\ i \in Intents /\ Len(wire[i]) = tries[h]
               /\ wire' \in [Intents -> Seq(Call)]
               /\ \A j \in Intents : j # i => wire'[j] = wire[j]
               /\ Len(wire'[i]) = new /\ DOMAIN wire'[i] = DOMAIN wire[i] \cup {new}
               /\ new \notin DOMAIN wire[i]
               /\ wire'[i][new] = NewCall(req[h])
               /\ \A n \in DOMAIN wire[i] : wire'[i][n] = wire[i][n]
<1> DEFINE i == req[h].intent
           c == NewCall(req[h])
<1>1. req[h] \in Requests /\ i \in Intents /\ Len(wire[i]) = tries[h]
  BY BusyFacts DEF Busy, EffectInv, HandlerOK
<1>2. wire \in [Intents -> Seq(Call)] /\ wire[i] \in Seq(Call)
  BY <1>1 DEF EffectInv, TypeOK
<1>3. c \in Call
  BY <1>1, RequestsAssumption DEF NewCall, Call, Request
<1>4. wire' = [wire EXCEPT ![i] = Append(wire[i], c)]
  BY DEF Post
<1> HIDE DEF c
<1>5. /\ wire' \in [Intents -> Seq(Call)] /\ wire'[i] = Append(wire[i], c)
      /\ \A j \in Intents : j # i => wire'[j] = wire[j]
  BY <1>1, <1>2, <1>3, <1>4
<1>6. /\ Len(wire'[i]) = Len(wire[i]) + 1 /\ wire'[i][Len(wire[i]) + 1] = c
      /\ DOMAIN wire'[i] = DOMAIN wire[i] \cup {Len(wire[i]) + 1}
      /\ Len(wire[i]) + 1 \notin DOMAIN wire[i]
      /\ \A n \in DOMAIN wire[i] : wire'[i][n] = wire[i][n]
  BY SMTT(20), <1>2, <1>3, <1>5
<1> QED BY <1>1, <1>5, <1>6 DEF c

LEMMA SendStep ==
    ASSUME EffectInv, NEW h \in Handlers, Send(h) \/ SendDocument(h)
    PROVE  EffectInv'
<1> PICK i \in Intents : i = req[h].intent
  BY BusyFacts DEF Send, SendDocument, Busy
<1> PICK new : new = Len(wire[i]) + 1
  OBVIOUS
<1>0. /\ pc[h] = "send" /\ Busy(h) /\ Post(h)
      /\ tries' = [tries EXCEPT ![h] = @ + 1] /\ call' = [call EXCEPT ![h] = new]
      /\ Goto(h, "await") /\ UNCHANGED <<ledger, req, answer, told, aborts>>
  BY DEF Send, SendDocument, Post, Busy
<1>1. /\ req[h] \in Requests /\ i \in Intents /\ Len(wire[i]) = tries[h]
      /\ wire' \in [Intents -> Seq(Call)]
      /\ \A j \in Intents : j # i => wire'[j] = wire[j]
      /\ Len(wire'[i]) = new /\ DOMAIN wire'[i] = DOMAIN wire[i] \cup {new}
      /\ new \notin DOMAIN wire[i]
      /\ wire'[i][new] = NewCall(req[h])
      /\ \A n \in DOMAIN wire[i] : wire'[i][n] = wire[i][n]
  BY <1>0, PostFacts
<1>2. /\ tries[h] \in 0..3 /\ tries[h] < Attempts(req[h].kind) /\ Attempts(req[h].kind) \in 1..3
      /\ effects[i].kind = req[h].kind /\ effects[i].status = "pending"
      /\ (req[h].kind # "document" => Event("RequestAccepted", i, None) \in evidence)
  BY <1>0, <1>1, RequestType DEF EffectInv, TypeOK, HandlerOK
<1>3. new = tries[h] + 1 /\ new \in 1..3 /\ new <= Attempts(req[h].kind)
  BY <1>1, <1>2
<1>4. pc' \in [Handlers -> PCs] /\ \A g \in Handlers : pc'[g] = IF g = h THEN "await" ELSE pc[g]
  BY <1>0, GotoFacts DEF EffectInv, PCs
<1>5. /\ tries' \in [Handlers -> 0..3] /\ tries'[h] = new
      /\ \A g \in Handlers : g # h => tries'[g] = tries[g]
  BY <1>0, <1>3 DEF EffectInv, TypeOK
<1>6. /\ call' \in [Handlers -> Nat] /\ call'[h] = new
      /\ \A g \in Handlers : g # h => call'[g] = call[g]
  BY <1>0, <1>3 DEF EffectInv, TypeOK
<1>7. TypeOK'
  BY <1>0, <1>1, <1>4, <1>5, <1>6 DEF EffectInv, TypeOK, ledger
<1>8. \A g \in Handlers : g # h /\ Busy(g) => req[g].intent # i
  BY <1>0 DEF EffectInv, OwnersExclude
<1>9. /\ \A g \in Handlers : g # h => HandlerOK(g)'
      /\ \A j \in Intents : j # i => IntentOK(j)'
  BY SMTT(20), <1>0, <1>1, <1>4, <1>5, <1>6, <1>8, Frame DEF ledger
<1>10. HandlerOK(h)'
  <2>1. /\ pc'[h] = "await" /\ req'[h] = req[h] /\ effects' = effects /\ evidence' = evidence
        /\ Len(wire'[i]) = tries'[h] /\ call'[h] \in DOMAIN wire'[i]
        /\ tries'[h] <= Attempts(req[h].kind)
    BY <1>0, <1>1, <1>3, <1>4, <1>5, <1>6 DEF ledger
  <2>2. effects[i].kind = req[h].kind /\ effects[i].body = req[h].body
    BY <1>0 DEF EffectInv, HandlerOK
  <2> QED BY <1>1, <1>2, <2>1, <2>2 DEF HandlerOK, Busy
<1>11. IntentOK(i)'
  <2>1. IntentOK(i)
    BY <1>1 DEF EffectInv
  <2>2. NewCall(req[h]).kind = effects[i].kind /\ ~NewCall(req[h]).applied
        /\ NewCall(req[h]).answer = None /\ None # "ok"
    BY <1>2, NoneAssumption DEF NewCall, Answers
  <2>3. effects'[i] = effects[i] /\ effects[i].status = "pending" /\ effects[i].answer = None
        /\ (effects[i].kind # "refund_header" => Len(wire'[i]) <= 1)
    BY <1>0, <1>1, <1>2, <1>3, <2>1, RequestType DEF ledger, IntentOK
  <2>4. \A n \in DOMAIN wire'[i] :
          /\ wire'[i][n].kind = effects[i].kind
          /\ wire'[i][n].applied => wire'[i][n].answer \in {"ok", "server_error"}
          /\ wire'[i][n].answer = "ok" => \E m \in DOMAIN wire'[i] : wire'[i][m].applied
    <3> TAKE n \in DOMAIN wire'[i]
    <3>1. CASE n = new
      BY <1>1, <2>2, <3>1
    <3>2. CASE n \in DOMAIN wire[i]
      <4>1. /\ wire[i][n].kind = effects[i].kind
            /\ wire[i][n].applied => wire[i][n].answer \in {"ok", "server_error"}
            /\ wire[i][n].answer = "ok" => \E m \in DOMAIN wire[i] : wire[i][m].applied
        BY <2>1, <3>2 DEF IntentOK
      <4>2. (\E m \in DOMAIN wire[i] : wire[i][m].applied)
               => \E m \in DOMAIN wire'[i] : wire'[i][m].applied
        BY <1>1
      <4> QED BY <1>1, <3>2, <4>1, <4>2
    <3> QED BY <1>1, <3>1, <3>2
  <2>5. \A m, n \in DOMAIN wire'[i] : wire'[i][m].applied /\ wire'[i][n].applied => m = n
    BY SMTT(20), <1>1, <2>1, <2>2 DEF IntentOK
  <2> QED BY <2>3, <2>4, <2>5 DEF IntentOK
<1>12. OwnersExclude' /\ ToldOK'
  BY <1>0, <1>4, OwnersFrame, ToldFrame DEF Busy, ledger
<1>13. EvidenceMatchesLedger'
  <2>1. ASSUME NEW j \in Intents, NEW n \in DOMAIN wire'[j], wire'[j][n].kind # "document"
        PROVE  Event("RequestAccepted", j, None) \in evidence
    <3>1. CASE j = i /\ n = new
      BY <1>1, <1>2, <2>1, <3>1 DEF NewCall
    <3>2. CASE ~(j = i /\ n = new)
      <4>1. n \in DOMAIN wire[j] /\ wire[j][n].kind # "document"
        BY <1>1, <2>1, <3>2
      <4> QED BY <4>1 DEF EffectInv, EvidenceMatchesLedger
    <3> QED BY <3>1, <3>2
  <2>2. evidence' = evidence /\ effects' = effects
    BY <1>0 DEF ledger
  <2>3. \A e \in evidence :
          /\ e.kind = "ProviderResponse" =>
                /\ effects[e.intent].status = "completed"
                /\ effects[e.intent].answer = e.answer
          /\ e.kind = "RequestRejected" => effects[e.intent].status = "failed"
    BY DEF EffectInv, EvidenceMatchesLedger
  <2> QED BY <2>1, <2>2, <2>3 DEF EvidenceMatchesLedger, Event
<1>14. \A g \in Handlers : HandlerOK(g)'
  BY <1>9, <1>10
<1>15. \A j \in Intents : IntentOK(j)'
  BY <1>9, <1>11
<1> QED BY <1>7, <1>12, <1>13, <1>14, <1>15 DEF EffectInv

LEMMA ReceiveStep ==
    ASSUME EffectInv, NEW h \in Handlers, ReceiveAnswer(h)
    PROVE  EffectInv'
<1> DEFINE i == req[h].intent
           a == wire[i][call[h]].answer
<1>0. /\ pc[h] = "await" /\ Busy(h) /\ a # None
      /\ UNCHANGED <<ledger, wire, req, tries, call, told, aborts>>
      /\ \/ tries[h] < Attempts(req[h].kind) /\ Goto(h, "send") /\ UNCHANGED answer
         \/ /\ answer' = [answer EXCEPT ![h] = a]
            /\ Goto(h, IF Ambiguous(req[h], a) THEN "fail" ELSE "complete")
  BY DEF ReceiveAnswer, Busy
<1>1. i \in Intents /\ call[h] \in DOMAIN wire[i]
  BY <1>0, BusyFacts DEF EffectInv, HandlerOK
<1>2. a \in Answers /\ Answered(i, a)
  <2>1. wire[i] \in Seq(Call)
    BY <1>1 DEF EffectInv, TypeOK
  <2>2. wire[i][call[h]] \in Call
    BY <1>1, <2>1
  <2> QED BY <1>0, <1>1, <2>2 DEF Call, Answered
<1>3. aborts' \in 0..MaxAborts
  BY <1>0 DEF EffectInv, TypeOK
<1>4. CASE tries[h] < Attempts(req[h].kind) /\ Goto(h, "send") /\ UNCHANGED answer
  <2>1. pc'[h] = "send" /\ "send" \in PCs
    BY <1>4, GotoFacts DEF EffectInv, PCs
  <2>2. HandlerOK(h)'
    BY <1>0, <1>4, <2>1 DEF EffectInv, HandlerOK, Busy, ledger
  <2> QED BY <1>0, <1>3, <1>4, <2>1, <2>2, MoveStep DEF EffectInv, TypeOK
<1>5. CASE /\ answer' = [answer EXCEPT ![h] = a]
           /\ Goto(h, IF Ambiguous(req[h], a) THEN "fail" ELSE "complete")
  <2> DEFINE next == IF Ambiguous(req[h], a) THEN "fail" ELSE "complete"
  <2>1. pc'[h] = next /\ next \in PCs
    BY <1>5, GotoFacts DEF EffectInv, PCs
  <2>2. /\ answer' \in [Handlers -> Answers \cup {None}] /\ answer'[h] = a
        /\ \A g \in Handlers : g # h => answer'[g] = answer[g]
    BY <1>2, <1>5 DEF EffectInv, TypeOK
  <2>3. next \in {"fail", "complete"} /\ (next = "complete" => ~Ambiguous(req[h], a))
    OBVIOUS
  <2> HIDE DEF next, a
  <2>4. HandlerOK(h)'
    BY <1>0, <1>2, <2>1, <2>2, <2>3 DEF EffectInv, HandlerOK, Busy, Answered, ledger, Ambiguous
  <2>5. Goto(h, next)
    BY <1>5 DEF next, a
  <2> QED BY <1>0, <1>3, <2>1, <2>2, <2>4, <2>5, MoveStep
<1> QED BY <1>0, <1>4, <1>5

LEMMA LoseStep ==
    ASSUME EffectInv, NEW h \in Handlers, LoseAnswer(h)
    PROVE  EffectInv'
<1>0. /\ pc[h] = "await" /\ Busy(h)
      /\ UNCHANGED <<ledger, wire, req, tries, call, answer, told, aborts>>
  BY DEF LoseAnswer, Busy
<1>1. PICK next \in {"send", "fail"} :
         Goto(h, next) /\ (next = "send" => tries[h] < Attempts(req[h].kind))
  BY DEF LoseAnswer
<1>2. pc'[h] = next /\ next \in PCs
  BY <1>1, GotoFacts DEF EffectInv, PCs
<1>3. HandlerOK(h)'
  BY <1>0, <1>1, <1>2 DEF EffectInv, HandlerOK, Busy, ledger
<1> QED BY <1>0, <1>1, <1>2, <1>3, MoveStep DEF EffectInv, TypeOK

\* The handler ends; what it leaves behind stays as it is.
LEMMA FinishStep ==
    ASSUME EffectInv, NEW h \in Handlers, Busy(h), Finish(h),
           UNCHANGED <<effects, wire>>,
           evidence \subseteq evidence',
           TypeOK', ToldOK', EvidenceMatchesLedger'
    PROVE  EffectInv'
<1>0. /\ ~Busy(h)' /\ tries'[h] = 0
      /\ \A g \in Handlers : g # h =>
            /\ pc'[g] = pc[g] /\ req'[g] = req[g] /\ tries'[g] = tries[g]
            /\ call'[g] = call[g] /\ answer'[g] = answer[g]
  BY FinishFacts DEF EffectInv
<1>1. req[h].intent \in Intents /\ \A g \in Handlers : g # h /\ Busy(g) => req[g].intent # req[h].intent
  BY BusyFacts DEF EffectInv, OwnersExclude
<1>2. \A g \in Handlers : g # h => HandlerOK(g)'
  BY <1>0, <1>1, Frame
<1>3. HandlerOK(h)'
  BY <1>0 DEF HandlerOK
<1>4. \A i \in Intents : IntentOK(i)'
  BY DEF EffectInv, IntentOK, Answered
<1>5. OwnersExclude'
  BY <1>0, OwnersFrame DEF Busy
<1> QED BY <1>2, <1>3, <1>4, <1>5 DEF EffectInv

LEMMA AbortStep ==
    ASSUME EffectInv, NEW h \in Handlers, Abort(h)
    PROVE  EffectInv'
<1>0. /\ Busy(h) /\ Finish(h) /\ UNCHANGED <<ledger, wire, told>> /\ aborts' \in 0..MaxAborts
  BY MaxAbortsAssumption DEF Abort, Busy, EffectInv, TypeOK
<1>1. TypeOK'
  BY <1>0, FinishFacts DEF EffectInv, TypeOK, ledger
<1>2. ToldOK' /\ EvidenceMatchesLedger'
  BY <1>0, ToldFrame, EvidenceFrame DEF ledger
<1> QED BY <1>0, <1>1, <1>2, FinishStep DEF ledger

-----------------------------------------------------------------------------
(* The steps that settle the row, and what the handler does after.          *)

\* The row of the intent is resolved: to completed with an answer of the
\* wire, or to failed.
LEMMA ResolveFacts ==
    ASSUME EffectInv, NEW i \in Intents, effects[i].status = "pending",
           NEW status \in {"completed", "failed"}, NEW a \in Answers \cup {None},
           effects' = [effects EXCEPT ![i] = Resolved(@, status, a)],
           wire' = wire,
           status = "failed" => a = None,
           status = "completed" =>
               /\ a \in Answers /\ Answered(i, a)
               /\ a = "server_error" => effects[i].kind = "document"
    PROVE  /\ effects' \in [Intents -> Effect]
           /\ \A j \in Intents : j # i => effects'[j] = effects[j]
           /\ effects'[i].status = status /\ effects'[i].answer = a
           /\ effects'[i].kind = effects[i].kind /\ effects'[i].body = effects[i].body
           /\ IntentOK(i)'
           /\ \A j \in Intents : effects[j].status \in {"completed", "failed"} =>
                  effects'[j] = effects[j]
<1>1. effects[i] \in Effect /\ effects \in [Intents -> Effect]
  BY DEF EffectInv, TypeOK
<1>2. /\ Resolved(effects[i], status, a) \in Effect
      /\ effects'[i] = Resolved(effects[i], status, a)
      /\ \A j \in Intents : j # i => effects'[j] = effects[j]
  BY <1>1 DEF Effect, Resolved
<1>3. effects' \in [Intents -> Effect]
  BY <1>1, <1>2
<1>4. /\ effects'[i].status = status /\ effects'[i].answer = a
      /\ effects'[i].kind = effects[i].kind /\ effects'[i].body = effects[i].body
  BY <1>2 DEF Resolved
<1>5. IntentOK(i)'
  BY <1>4 DEF EffectInv, IntentOK, Answered
<1> QED BY <1>2, <1>3, <1>4, <1>5

LEMMA FailStep ==
    ASSUME EffectInv, NEW h \in Handlers, FailEffect(h)
    PROVE  EffectInv'
<1> PICK i \in Intents : i = req[h].intent
  BY BusyFacts DEF FailEffect, Busy
<1>0. /\ pc[h] = "fail" /\ Busy(h) /\ effects[i].status = "pending"
      /\ effects[i].kind = req[h].kind /\ effects[i].body = req[h].body
      /\ \A g \in Handlers : g # h /\ Busy(g) => req[g].intent # i
  BY DEF FailEffect, Busy, EffectInv, HandlerOK, OwnersExclude
<1>1. /\ effects' = [effects EXCEPT ![i] = Resolved(@, "failed", None)]
      /\ UNCHANGED <<evidence, wire, told, aborts>>
      /\ \/ Finish(h)
         \/ answer[h] # None /\ Goto(h, "reject") /\ UNCHANGED <<req, tries, call, answer>>
  BY <1>0 DEF FailEffect
<1>2. /\ effects' \in [Intents -> Effect]
      /\ \A j \in Intents : j # i => effects'[j] = effects[j]
      /\ effects'[i].status = "failed"
      /\ effects'[i].kind = effects[i].kind /\ effects'[i].body = effects[i].body
      /\ IntentOK(i)'
      /\ \A j \in Intents : effects[j].status \in {"completed", "failed"} =>
             effects'[j] = effects[j]
  BY <1>0, <1>1, ResolveFacts
<1>3. ToldOK' /\ EvidenceMatchesLedger'
  BY <1>1, <1>2, ToldFrame, EvidenceFrame
<1>4. CASE Finish(h)
  <2>1. /\ ~Busy(h)' /\ tries'[h] = 0
        /\ \A g \in Handlers : g # h =>
              /\ pc'[g] = pc[g] /\ req'[g] = req[g] /\ tries'[g] = tries[g]
              /\ call'[g] = call[g] /\ answer'[g] = answer[g]
    BY <1>4, FinishFacts DEF EffectInv
  <2>2. TypeOK'
    BY <1>1, <1>2, <1>4, FinishFacts DEF EffectInv, TypeOK
  <2>3. /\ \A g \in Handlers : g # h => HandlerOK(g)'
        /\ \A j \in Intents : j # i => IntentOK(j)'
    BY <1>0, <1>1, <1>2, <2>1, Frame
  <2>4. HandlerOK(h)'
    BY <2>1 DEF HandlerOK
  <2>5. OwnersExclude'
    BY <2>1, OwnersFrame DEF Busy
  <2>6. (\A g \in Handlers : HandlerOK(g)') /\ \A j \in Intents : IntentOK(j)'
    BY <1>2, <2>3, <2>4
  <2> QED BY <1>3, <2>2, <2>5, <2>6 DEF EffectInv
<1>5. CASE answer[h] # None /\ Goto(h, "reject") /\ UNCHANGED <<req, tries, call, answer>>
  <2>1. pc' \in [Handlers -> PCs] /\ \A g \in Handlers : pc'[g] = IF g = h THEN "reject" ELSE pc[g]
    BY <1>5, GotoFacts DEF EffectInv, PCs
  <2>2. TypeOK'
    BY <1>1, <1>2, <1>5, <2>1 DEF EffectInv, TypeOK
  <2>3. /\ \A g \in Handlers : g # h => HandlerOK(g)'
        /\ \A j \in Intents : j # i => IntentOK(j)'
    BY <1>0, <1>1, <1>2, <1>5, <2>1, Frame
  <2>4. HandlerOK(h)'
    <3>1. answer[h] \in Answers
      BY <1>5 DEF EffectInv, TypeOK
    <3> QED BY <1>0, <1>1, <1>2, <1>5, <2>1, <3>1 DEF EffectInv, HandlerOK, Busy
  <2>5. OwnersExclude'
    BY <1>5, <2>1, OwnersFrame, <1>0 DEF Busy
  <2>6. (\A g \in Handlers : HandlerOK(g)') /\ \A j \in Intents : IntentOK(j)'
    BY <1>2, <2>3, <2>4
  <2> QED BY <1>3, <2>2, <2>5, <2>6 DEF EffectInv
<1> QED BY <1>1, <1>4, <1>5

LEMMA CompleteStep ==
    ASSUME EffectInv, NEW h \in Handlers, CompleteEffect(h)
    PROVE  EffectInv'
<1> PICK i \in Intents : i = req[h].intent
  BY BusyFacts DEF CompleteEffect, Busy
<1>0. /\ pc[h] = "complete" /\ Busy(h) /\ effects[i].status = "pending"
      /\ effects[i].kind = req[h].kind /\ effects[i].body = req[h].body
      /\ answer[h] \in Answers /\ Answered(i, answer[h])
      /\ answer[h] = "server_error" => req[h].kind = "document"
      /\ \A g \in Handlers : g # h /\ Busy(g) => req[g].intent # i
  BY DEF CompleteEffect, Busy, EffectInv, HandlerOK, OwnersExclude, Ambiguous
<1>1. /\ effects' = [effects EXCEPT ![i] = Resolved(@, "completed", answer[h])]
      /\ Goto(h, "respond")
      /\ UNCHANGED <<evidence, wire, req, tries, call, answer, told, aborts>>
  BY <1>0 DEF CompleteEffect
<1>2. /\ effects' \in [Intents -> Effect]
      /\ \A j \in Intents : j # i => effects'[j] = effects[j]
      /\ effects'[i].status = "completed" /\ effects'[i].answer = answer[h]
      /\ effects'[i].kind = effects[i].kind /\ effects'[i].body = effects[i].body
      /\ IntentOK(i)'
      /\ \A j \in Intents : effects[j].status \in {"completed", "failed"} =>
             effects'[j] = effects[j]
  BY ZenonT(30), <1>0, <1>1, ResolveFacts
<1>3. ToldOK' /\ EvidenceMatchesLedger'
  BY <1>1, <1>2, ToldFrame, EvidenceFrame
<1>4. pc' \in [Handlers -> PCs] /\ \A g \in Handlers : pc'[g] = IF g = h THEN "respond" ELSE pc[g]
  BY <1>1, GotoFacts DEF EffectInv, PCs
<1>5. TypeOK'
  BY <1>1, <1>2, <1>4 DEF EffectInv, TypeOK
<1>6. /\ \A g \in Handlers : g # h => HandlerOK(g)'
      /\ \A j \in Intents : j # i => IntentOK(j)'
  BY <1>0, <1>1, <1>2, <1>4, Frame
<1>7. HandlerOK(h)'
  BY <1>0, <1>1, <1>2, <1>4 DEF EffectInv, HandlerOK, Busy
<1>8. OwnersExclude'
  BY <1>0, <1>1, <1>4, OwnersFrame DEF Busy
<1>9. (\A g \in Handlers : HandlerOK(g)') /\ \A j \in Intents : IntentOK(j)'
  BY <1>2, <1>6, <1>7
<1> QED BY <1>3, <1>5, <1>8, <1>9 DEF EffectInv

LEMMA RejectStep ==
    ASSUME EffectInv, NEW h \in Handlers, AppendRejected(h)
    PROVE  EffectInv'
<1>0. /\ Busy(h) /\ Finish(h) /\ UNCHANGED <<effects, wire, told, aborts>>
      /\ evidence' = evidence \cup {Event("RequestRejected", req[h].intent, answer[h])}
      /\ effects[req[h].intent].status = "failed" /\ answer[h] \in Answers
  BY DEF AppendRejected, Busy, EffectInv, HandlerOK
<1>1. req[h].intent \in Intents
  BY <1>0, BusyFacts
<1>2. TypeOK'
  BY <1>0, <1>1, FinishFacts DEF EffectInv, TypeOK, Event
<1>3. ToldOK'
  BY <1>0, ToldFrame
<1>4. EvidenceMatchesLedger'
  BY <1>0 DEF EffectInv, EvidenceMatchesLedger, Event
<1> QED BY <1>0, <1>2, <1>3, <1>4, FinishStep

LEMMA RespondStep ==
    ASSUME EffectInv, NEW h \in Handlers, AppendResponse(h)
    PROVE  EffectInv'
<1> DEFINE i == req[h].intent
<1>0. /\ Busy(h) /\ Finish(h) /\ UNCHANGED <<effects, wire, aborts>>
      /\ evidence' = evidence \cup {Event("ProviderResponse", i, answer[h])}
      /\ told' = told \cup {Reply(req[h], answer[h])}
      /\ effects[i].status = "completed" /\ effects[i].answer = answer[h]
      /\ effects[i].kind = req[h].kind /\ effects[i].body = req[h].body
  BY DEF AppendResponse, Tell, Busy, EffectInv, HandlerOK
<1>1. req[h] \in Requests /\ i \in Intents /\ answer[h] \in Answers
  BY <1>0, BusyFacts DEF EffectInv, IntentOK
<1>2. TypeOK'
  BY <1>0, <1>1, FinishFacts DEF EffectInv, TypeOK, Event, Reply
<1>3. ToldOK'
  BY <1>0 DEF EffectInv, ToldOK, Reply, Same
<1>4. EvidenceMatchesLedger'
  BY <1>0 DEF EffectInv, EvidenceMatchesLedger, Event
<1> QED BY <1>0, <1>2, <1>3, <1>4, FinishStep

-----------------------------------------------------------------------------
(* The steps of Razorpay.                                                   *)

LEMMA ProcessedFacts ==
    ASSUME EffectInv, NEW i \in Intents, NEW n \in DOMAIN wire[i], NEW a \in Answers,
           NEW acted \in BOOLEAN, Processed(i, n, a, acted)
    PROVE  /\ wire' \in [Intents -> Seq(Call)]
           /\ \A j \in Intents : /\ Len(wire'[j]) = Len(wire[j])
                                 /\ DOMAIN wire'[j] = DOMAIN wire[j]
                                 /\ j # i => wire'[j] = wire[j]
           /\ \A m \in DOMAIN wire[i] : m # n => wire'[i][m] = wire[i][m]
           /\ wire'[i][n].kind = wire[i][n].kind
           /\ wire'[i][n].answer = a /\ wire'[i][n].applied = acted
           /\ wire[i][n].answer = None /\ ~wire[i][n].applied
<1> DEFINE c == Settled(wire[i][n], a, acted)
<1>1. wire \in [Intents -> Seq(Call)] /\ wire[i] \in Seq(Call) /\ wire[i][n] \in Call
  BY DEF EffectInv, TypeOK
<1>2. c \in Call /\ c.kind = wire[i][n].kind /\ c.answer = a /\ c.applied = acted
  BY <1>1 DEF Call, Settled
<1>3. wire' = [wire EXCEPT ![i] = [wire[i] EXCEPT ![n] = c]]
  BY <1>1 DEF Processed
<1> HIDE DEF c
<1>4. /\ [wire[i] EXCEPT ![n] = c] \in Seq(Call)
      /\ Len([wire[i] EXCEPT ![n] = c]) = Len(wire[i])
      /\ DOMAIN [wire[i] EXCEPT ![n] = c] = DOMAIN wire[i]
  BY <1>1, <1>2
<1>5. wire[i][n].answer = None
  BY DEF Processed
<1>6. wire[i][n].applied => wire[i][n].answer \in {"ok", "server_error"}
  BY DEF EffectInv, IntentOK
<1>7. ~wire[i][n].applied
  BY <1>5, <1>6, NoneAssumption DEF Answers
<1> QED BY <1>1, <1>2, <1>3, <1>4, <1>5, <1>7

LEMMA ProcessedStep ==
    ASSUME EffectInv, NEW i \in Intents, NEW n \in DOMAIN wire[i], NEW a \in Answers,
           NEW acted \in BOOLEAN, Processed(i, n, a, acted),
           acted => /\ a \in {"ok", "server_error"}
                    /\ ~(wire[i][n].kind = "refund_header" /\ Refunded(i)),
           ~acted /\ a = "ok" => Refunded(i)
    PROVE  EffectInv'
<1>0. UNCHANGED <<ledger, handler, told, aborts>>
  BY DEF Processed
<1>1. /\ wire' \in [Intents -> Seq(Call)]
      /\ \A j \in Intents : /\ Len(wire'[j]) = Len(wire[j])
                            /\ DOMAIN wire'[j] = DOMAIN wire[j]
                            /\ j # i => wire'[j] = wire[j]
      /\ \A m \in DOMAIN wire[i] : m # n => wire'[i][m] = wire[i][m]
      /\ wire'[i][n].kind = wire[i][n].kind
      /\ wire'[i][n].answer = a /\ wire'[i][n].applied = acted
      /\ wire[i][n].answer = None /\ ~wire[i][n].applied
  BY ProcessedFacts
<1>2. TypeOK'
  BY <1>0, <1>1 DEF EffectInv, TypeOK, ledger, handler
<1>3. \A j \in Intents, b \in Answers : Answered(j, b) => Answered(j, b)'
  BY <1>1, NoneAssumption DEF Answered
<1>4. \A g \in Handlers : HandlerOK(g)'
  <2> TAKE g \in Handlers
  <2>1. HandlerOK(g)
    BY DEF EffectInv
  <2>2. CASE ~Busy(g)
    BY <1>0, <2>1, <2>2 DEF HandlerOK, Busy, handler
  <2>3. CASE Busy(g)
    <3>1. PICK j \in Intents : j = req[g].intent
      BY <2>3, BusyFacts
    <3>2. Len(wire'[j]) = Len(wire[j]) /\ DOMAIN wire'[j] = DOMAIN wire[j]
          /\ (answer[g] \in Answers /\ Answered(j, answer[g]) => Answered(j, answer[g])')
      <4>1. \A b \in Answers : Answered(j, b) => \E m \in DOMAIN wire'[j] : wire'[j][m].answer = b
        BY <1>3 DEF Answered
      <4> QED BY <1>0, <1>1, <4>1 DEF Answered, handler
    <3> QED BY <1>0, <2>1, <2>3, <3>1, <3>2 DEF HandlerOK, Busy, Answered, ledger, handler
  <2> QED BY <2>2, <2>3
<1>5. IntentOK(i)'
  <2>0. IntentOK(i) /\ effects'[i] = effects[i]
    BY <1>0 DEF EffectInv, ledger
  <2>1. effects[i].status # "absent" /\ DOMAIN wire'[i] = DOMAIN wire[i]
    BY <1>1, <2>0 DEF IntentOK
  <2>2. effects[i].kind # "refund_header" => Len(wire'[i]) <= 1
    BY <1>1, <2>0 DEF IntentOK
  <2>3. \A m \in DOMAIN wire[i] :
          /\ wire'[i][m].kind = effects[i].kind
          /\ wire'[i][m].applied => wire'[i][m].answer \in {"ok", "server_error"}
    BY <1>1, <2>0 DEF IntentOK
  <2>4. \A m \in DOMAIN wire[i] : wire[i][m].applied => wire'[i][m].applied
    BY <1>1
  <2>5. ASSUME NEW m \in DOMAIN wire[i], wire'[i][m].answer = "ok"
        PROVE  \E k \in DOMAIN wire[i] : wire'[i][k].applied
    <3>1. CASE m = n /\ acted
      BY <1>1, <3>1
    <3>2. CASE m = n /\ ~acted
      BY <1>1, <2>4, <2>5, <3>2 DEF Refunded
    <3>3. CASE m # n
      BY <1>1, <2>0, <2>4, <2>5, <3>3 DEF IntentOK
    <3> QED BY <3>1, <3>2, <3>3
  <2>6. ASSUME NEW m \in DOMAIN wire[i], NEW k \in DOMAIN wire[i],
               wire'[i][m].applied, wire'[i][k].applied
        PROVE  m = k
    <3>1. CASE effects[i].kind # "refund_header"
      <4>1. wire[i] \in Seq(Call) /\ Len(wire[i]) <= 1
        BY <2>0, <3>1 DEF IntentOK, EffectInv, TypeOK
      <4> QED BY <4>1
    <3>2. CASE effects[i].kind = "refund_header"
      <4>1. acted => \A l \in DOMAIN wire[i] : ~wire[i][l].applied
        BY <2>0, <3>2 DEF IntentOK, Refunded
      <4>2. CASE acted
        BY <1>1, <2>6, <4>1, <4>2
      <4>3. CASE ~acted
        BY <1>1, <2>0, <2>6, <4>3 DEF IntentOK
      <4> QED BY <4>2, <4>3
    <3> QED BY <3>1, <3>2
  <2>8. \A m \in DOMAIN wire'[i] :
          /\ wire'[i][m].kind = effects[i].kind
          /\ wire'[i][m].applied => wire'[i][m].answer \in {"ok", "server_error"}
          /\ wire'[i][m].answer = "ok" => \E k \in DOMAIN wire'[i] : wire'[i][k].applied
    BY <2>1, <2>3, <2>5
  <2>9. \A m, k \in DOMAIN wire'[i] : wire'[i][m].applied /\ wire'[i][k].applied => m = k
    BY <2>1, <2>6
  <2>7. effects[i].status = "completed" =>
          /\ effects[i].answer \in Answers
          /\ effects[i].answer = "server_error" => effects[i].kind = "document"
          /\ \E m \in DOMAIN wire'[i] : wire'[i][m].answer = effects[i].answer
    BY <1>3, <2>0 DEF IntentOK, Answered
  <2>10. effects[i].status # "completed" => effects[i].answer = None
    BY <2>0 DEF IntentOK
  <2> QED BY <2>0, <2>1, <2>2, <2>7, <2>8, <2>9, <2>10 DEF IntentOK, Answered
<1>6. \A j \in Intents : IntentOK(j)'
  <2> TAKE j \in Intents
  <2>1. CASE j = i
    BY <1>5, <2>1
  <2>2. CASE j # i
    <3>1. wire'[j] = wire[j] /\ effects'[j] = effects[j] /\ IntentOK(j)
      BY <1>0, <1>1, <2>2 DEF EffectInv, ledger
    <3> QED BY <3>1 DEF IntentOK, Answered
  <2> QED BY <2>1, <2>2
<1>7. OwnersExclude' /\ ToldOK'
  BY <1>0, OwnersFrame, ToldFrame DEF Busy, ledger, handler
<1>8. EvidenceMatchesLedger'
  <2>1. \A j \in Intents : \A m \in DOMAIN wire[j] : wire'[j][m].kind = wire[j][m].kind
    BY <1>1
  <2> QED BY <1>0, <1>1, <2>1, EvidenceFrame DEF ledger
<1> QED BY <1>2, <1>4, <1>6, <1>7, <1>8 DEF EffectInv

LEMMA ProviderSteps ==
    ASSUME EffectInv, NEW i \in Intents, NEW n \in DOMAIN wire[i],
           ProviderApplies(i, n) \/ ProviderRepeats(i, n) \/ ProviderRefuses(i, n)
    PROVE  EffectInv'
<1>1. CASE ProviderApplies(i, n)
  <2>1. PICK a \in {"ok", "server_error"} : Processed(i, n, a, TRUE)
    BY <1>1 DEF ProviderApplies
  <2> QED BY <1>1, <2>1, ProcessedStep DEF ProviderApplies, Answers
<1>2. CASE ProviderRepeats(i, n)
  BY <1>2, ProcessedStep DEF ProviderRepeats, Answers
<1>3. CASE ProviderRefuses(i, n)
  BY <1>3, ProcessedStep DEF ProviderRefuses
<1> QED BY <1>1, <1>2, <1>3

-----------------------------------------------------------------------------
LEMMA InitEffectInv == Init => EffectInv
<1> SUFFICES ASSUME Init PROVE EffectInv
  OBVIOUS
<1>1. TypeOK
  BY MaxAbortsAssumption DEF Init, TypeOK, Effect, NoEffect, PCs
<1>2. OwnersExclude /\ \A h \in Handlers : HandlerOK(h)
  BY DEF Init, OwnersExclude, HandlerOK, Busy
<1>3. \A i \in Intents : IntentOK(i)
  <2> TAKE i \in Intents
  <2>1. /\ wire[i] = <<>> /\ effects[i].status = "absent" /\ effects[i].answer = None
        /\ Len(wire[i]) = 0 /\ DOMAIN wire[i] = {}
    BY DEF Init, NoEffect
  <2> QED BY <2>1 DEF IntentOK
<1>4. ToldOK
  BY DEF Init, ToldOK
<1>5. EvidenceMatchesLedger
  <2>1. evidence = {} /\ \A i \in Intents : DOMAIN wire[i] = {}
    BY DEF Init
  <2> QED BY <2>1 DEF EvidenceMatchesLedger
<1> QED BY <1>1, <1>2, <1>3, <1>4, <1>5 DEF EffectInv

\* The strengthening is an invariant of the specification.
THEOREM EffectInvariant == Spec => []EffectInv
<1>1. EffectInv /\ [Next]_vars => EffectInv'
  <2> SUFFICES ASSUME EffectInv, [Next]_vars PROVE EffectInv'
    OBVIOUS
  <2>1. ASSUME NEW h \in Handlers, NEW r \in Requests,
               Claim(h, r) \/ Replay(h, r) \/ Refuse(h, r)
        PROVE  EffectInv'
    BY <2>1, ClaimStep, ReplayStep, StutterStep DEF Refuse
  <2>2. ASSUME NEW h \in Handlers, HandlerStep(h)
        PROVE  EffectInv'
    BY <2>2, AcceptStep, SendStep, RefuseToSendStep, ReceiveStep, LoseStep, FailStep,
       RejectStep, CompleteStep, RespondStep DEF HandlerStep
  <2>3. ASSUME NEW h \in Handlers, Abort(h)
        PROVE  EffectInv'
    BY <2>3, AbortStep
  <2>4. ASSUME NEW i \in Intents, NEW n \in DOMAIN wire[i],
               ProviderApplies(i, n) \/ ProviderRepeats(i, n) \/ ProviderRefuses(i, n)
        PROVE  EffectInv'
    BY <2>4, ProviderSteps
  <2>5. CASE UNCHANGED vars
    BY <2>5, StutterStep
  <2> QED BY <2>1, <2>2, <2>3, <2>4, <2>5 DEF Next
<1> QED BY <1>1, InitEffectInv, PTL DEF Spec

-----------------------------------------------------------------------------
(* What follows of each row.                                                *)

AppliedCalls(i) == {n \in DOMAIN wire[i] : wire[i][n].applied}

\* The provider carried an intent out once or not at all.
LEMMA AppliedCount ==
    ASSUME EffectInv, NEW i \in Intents
    PROVE  /\ AppliedCalls(i) = {} => Applied(i) = 0
           /\ AppliedCalls(i) # {} => Applied(i) = 1
<1>1. Applied(i) = Cardinality(AppliedCalls(i))
  BY DEF Applied, AppliedCalls
<1>2. CASE AppliedCalls(i) = {}
  BY <1>1, <1>2, FS_EmptySet
<1>3. CASE AppliedCalls(i) # {}
  <2>1. PICK n : n \in AppliedCalls(i)
    BY <1>3
  <2>2. AppliedCalls(i) = {n}
    BY <2>1 DEF EffectInv, IntentOK, AppliedCalls
  <2>3. Cardinality({n}) = 1
    BY FS_Singleton
  <2> QED BY <1>1, <1>3, <2>2, <2>3
<1> QED BY <1>2, <1>3

\* An intent without a row has no call on the wire.
LEMMA NotApplied ==
    ASSUME EffectInv, NEW i \in Intents, effects[i].status = "absent"
    PROVE  Applied(i) = 0
<1>1. wire[i] = <<>>
  BY DEF EffectInv, IntentOK
<1>2. AppliedCalls(i) = {}
  BY <1>1 DEF AppliedCalls
<1> QED BY <1>2, AppliedCount

\* Every table, message and local variable of the ledger keeps its type, and
\* a handler never makes more attempts than RazorpayClient::execute allows.
THEOREM LedgerTypeCorrect == Spec => []TypeOK
<1>1. EffectInv => TypeOK
  BY DEF EffectInv
<1> QED BY <1>1, EffectInvariant, PTL

\* claim_effect: all clients of one intent are told one answer, for one
\* operation and one body.
THEOREM OneAnswer == Spec => []OneAnswerPerIntent
<1>1. EffectInv => OneAnswerPerIntent
  BY DEF EffectInv, ToldOK, OneAnswerPerIntent, Same
<1> QED BY <1>1, EffectInvariant, PTL

\* execute_guarded: the events of an intent agree with its effect row, and
\* nothing guarded is sent before RequestAccepted.
THEOREM EvidenceAgrees == Spec => []EvidenceMatchesLedger
<1>1. EffectInv => EvidenceMatchesLedger
  BY DEF EffectInv
<1> QED BY <1>1, EffectInvariant, PTL

\* execute_guarded: a completed gateway-owned row tells what Razorpay did.
THEOREM DeterminateWhenCompleted == Spec => []CompletedIsDeterminate
<1>1. EffectInv => CompletedIsDeterminate
  <2> SUFFICES ASSUME EffectInv, NEW i \in Intents,
                      effects[i].status = "completed", effects[i].kind = "gateway_required"
               PROVE  /\ \A n \in DOMAIN wire[i] : wire[i][n].answer # None
                      /\ effects[i].answer = "ok" <=> Applied(i) = 1
    BY DEF CompletedIsDeterminate
  <2>1. IntentOK(i)
    BY DEF EffectInv
  <2>2. PICK m \in DOMAIN wire[i] : wire[i][m].answer = effects[i].answer
    BY <2>1 DEF IntentOK, Answered
  <2>3. \A n \in DOMAIN wire[i] : n = m
    <3>1. wire[i] \in Seq(Call) /\ Len(wire[i]) <= 1
      BY <2>1 DEF IntentOK, EffectInv, TypeOK
    <3> QED BY <2>2, <3>1
  <2>4. effects[i].answer \in Answers /\ effects[i].answer # "server_error"
    BY <2>1 DEF IntentOK
  <2>5. effects[i].answer = "ok" <=> wire[i][m].applied
    BY <2>1, <2>2, <2>3, <2>4 DEF IntentOK
  <2>6. AppliedCalls(i) # {} <=> wire[i][m].applied
    BY <2>2, <2>3 DEF AppliedCalls
  <2>7. Applied(i) = 1 <=> wire[i][m].applied
    BY <2>6, AppliedCount
  <2>8. \A n \in DOMAIN wire[i] : wire[i][n].answer # None
    BY <2>2, <2>3, <2>4, NoneAssumption
  <2> QED BY <2>5, <2>7, <2>8
<1> QED BY <1>1, EffectInvariant, PTL

-----------------------------------------------------------------------------
(* The refinement.                                                          *)

Phase == [i \in Intents |-> effects[i].status]
AppliedTimes == [i \in Intents |-> Applied(i)]
Outcome == [i \in Intents |-> effects[i].answer]

LEMMA AbstractInit == Init => Abstract!Init
<1> SUFFICES ASSUME Init PROVE Abstract!Init
  OBVIOUS
<1>1. EffectInv
  BY InitEffectInv
<1>2. \A i \in Intents : effects[i].status = "absent" /\ effects[i].answer = None
  BY DEF Init, NoEffect
<1>3. \A i \in Intents : Applied(i) = 0
  BY <1>1, <1>2, NotApplied
<1> QED BY <1>2, <1>3 DEF Abstract!Init

\* A step that keeps the rows and what was carried out is a stutter.
LEMMA AbstractStutter ==
    ASSUME effects' = effects,
           \A i \in Intents : AppliedCalls(i)' = AppliedCalls(i)
    PROVE  UNCHANGED Abstract!vars
<1>1. \A i \in Intents : Applied(i)' = Applied(i)
  BY DEF Applied, AppliedCalls
<1> QED BY <1>1 DEF Abstract!vars

\* A step that changes the row of one intent only.
LEMMA AbstractRow ==
    ASSUME EffectInv, NEW i \in Intents, NEW e \in Effect,
           effects' = [effects EXCEPT ![i] = e], wire' = wire
    PROVE  /\ Phase' = [Phase EXCEPT ![i] = e.status]
           /\ Outcome' = [Outcome EXCEPT ![i] = e.answer]
           /\ AppliedTimes' = AppliedTimes
<1>1. \A j \in Intents : effects'[j] = IF j = i THEN e ELSE effects[j]
  BY DEF EffectInv, TypeOK
<1>2. \A j \in Intents : Applied(j)' = Applied(j)
  BY DEF Applied
<1>3. Phase' = [Phase EXCEPT ![i] = e.status]
  <2>1. /\ effects'[i].status = e.status
        /\ \A j \in Intents \ {i} : effects'[j].status = effects[j].status
    BY <1>1
  <2> QED BY <2>1, Zenon DEF Phase
<1>4. Outcome' = [Outcome EXCEPT ![i] = e.answer]
  <2>1. /\ effects'[i].answer = e.answer
        /\ \A j \in Intents \ {i} : effects'[j].answer = effects[j].answer
    BY <1>1
  <2> QED BY <2>1 DEF Outcome
<1>5. AppliedTimes' = AppliedTimes
  BY <1>2 DEF AppliedTimes
<1> QED BY <1>3, <1>4, <1>5

LEMMA AbstractStep ==
    ASSUME EffectInv, [Next]_vars
    PROVE  [Abstract!Next]_(Abstract!vars)
<1>1. ASSUME effects' = effects, wire' = wire
      PROVE  [Abstract!Next]_(Abstract!vars)
  BY <1>1, AbstractStutter DEF AppliedCalls
<1>2. ASSUME NEW h \in Handlers, NEW r \in Requests, Claim(h, r)
      PROVE  Abstract!Next
  <2> PICK i \in Intents : i = r.intent
    BY RequestType
  <2>1. /\ effects[i].status = "absent" /\ effects' = [effects EXCEPT ![i] = PendingEffect(r)]
        /\ wire' = wire
    BY <1>2 DEF Claim
  <2>2. PendingEffect(r) \in Effect /\ PendingEffect(r).status = "pending"
        /\ PendingEffect(r).answer = effects[i].answer
    <3>1. PendingEffect(r) \in Effect /\ PendingEffect(r).status = "pending"
          /\ PendingEffect(r).answer = None
      BY RequestType DEF PendingEffect, Effect
    <3>2. effects[i].answer = None
      BY <2>1 DEF EffectInv, IntentOK
    <3> QED BY <3>1, <3>2
  <2>3. Phase' = [Phase EXCEPT ![i] = "pending"] /\ AppliedTimes' = AppliedTimes
        /\ Outcome' = [Outcome EXCEPT ![i] = effects[i].answer]
    <3> PICK e : e = PendingEffect(r)
      OBVIOUS
    <3>1. /\ Phase' = [Phase EXCEPT ![i] = e.status]
          /\ Outcome' = [Outcome EXCEPT ![i] = e.answer]
          /\ AppliedTimes' = AppliedTimes
      BY <2>1, <2>2, AbstractRow, Zenon
    <3> QED BY <2>2, <3>1
  <2>4. Abstract!Claim(i)
    BY <2>1, <2>3 DEF Abstract!Claim, Phase, AppliedTimes, Outcome
  <2> QED BY <2>4 DEF Abstract!Next
<1>3. ASSUME NEW h \in Handlers, FailEffect(h)
      PROVE  Abstract!Next
  <2> PICK i \in Intents : i = req[h].intent
    BY <1>3, BusyFacts DEF FailEffect, Busy
  <2>1. effects[i].status = "pending"
    BY <1>3 DEF FailEffect, Busy, EffectInv, HandlerOK
  <2> PICK e : e = Resolved(effects[i], "failed", None)
    OBVIOUS
  <2>2. effects' = [effects EXCEPT ![i] = e] /\ wire' = wire
    BY <1>3, <2>1 DEF FailEffect
  <2>3. e \in Effect /\ e.status = "failed" /\ e.answer = effects[i].answer
    BY <2>1 DEF EffectInv, TypeOK, Effect, Resolved, IntentOK
  <2>4. Phase' = [Phase EXCEPT ![i] = "failed"] /\ AppliedTimes' = AppliedTimes
        /\ Outcome' = [Outcome EXCEPT ![i] = effects[i].answer]
    <3>1. /\ Phase' = [Phase EXCEPT ![i] = e.status]
          /\ Outcome' = [Outcome EXCEPT ![i] = e.answer]
          /\ AppliedTimes' = AppliedTimes
      BY <2>2, <2>3, AbstractRow, Zenon
    <3> QED BY <2>3, <3>1
  <2>5. Abstract!Freeze(i)
    BY <2>1, <2>4 DEF Abstract!Freeze, Phase, AppliedTimes, Outcome
  <2> QED BY <2>5 DEF Abstract!Next
<1>4. ASSUME NEW h \in Handlers, CompleteEffect(h)
      PROVE  Abstract!Next
  <2> PICK i \in Intents : i = req[h].intent
    BY <1>4, BusyFacts DEF CompleteEffect, Busy
  <2> PICK a : a = answer[h]
    OBVIOUS
  <2>1. /\ effects[i].status = "pending" /\ a \in Answers /\ Answered(i, a)
        /\ IntentOK(i)
    BY <1>4 DEF CompleteEffect, Busy, EffectInv, HandlerOK
  <2> PICK e : e = Resolved(effects[i], "completed", a)
    OBVIOUS
  <2>2. effects' = [effects EXCEPT ![i] = e] /\ wire' = wire
    BY <1>4, <2>1 DEF CompleteEffect
  <2>3. e \in Effect /\ e.status = "completed" /\ e.answer = a
    BY <2>1 DEF EffectInv, TypeOK, Effect, Resolved
  <2>4. Phase' = [Phase EXCEPT ![i] = "completed"] /\ AppliedTimes' = AppliedTimes
        /\ Outcome' = [Outcome EXCEPT ![i] = a]
    <3>1. /\ Phase' = [Phase EXCEPT ![i] = e.status]
          /\ Outcome' = [Outcome EXCEPT ![i] = e.answer]
          /\ AppliedTimes' = AppliedTimes
      BY <2>2, <2>3, AbstractRow, Zenon
    <3> QED BY <2>3, <3>1
  <2>5. a = "ok" => Applied(i) = 1
    <3>1. a = "ok" => AppliedCalls(i) # {}
      BY <2>1 DEF IntentOK, Answered, AppliedCalls
    <3> QED BY <3>1, AppliedCount
  <2>6. Abstract!Answer(i, a)
    BY <2>1, <2>4, <2>5 DEF Abstract!Answer, Phase, AppliedTimes, Outcome
  <2> QED BY <2>1, <2>6 DEF Abstract!Next
<1>5. ASSUME NEW h \in Handlers, Send(h) \/ SendDocument(h)
      PROVE  [Abstract!Next]_(Abstract!vars)
  <2> PICK i \in Intents : i = req[h].intent
    BY <1>5, BusyFacts DEF Send, SendDocument, Busy
  <2> PICK new : new = Len(wire[i]) + 1
    OBVIOUS
  <2>1. /\ \A j \in Intents : j # i => wire'[j] = wire[j]
        /\ DOMAIN wire'[i] = DOMAIN wire[i] \cup {new}
        /\ wire'[i][new] = NewCall(req[h])
        /\ \A n \in DOMAIN wire[i] : wire'[i][n] = wire[i][n]
        /\ new \notin DOMAIN wire[i]
    BY <1>5, PostFacts DEF Send, SendDocument
  <2>2. ~wire'[i][new].applied
    BY <2>1 DEF NewCall
  <2>3. \A j \in Intents : AppliedCalls(j)' = AppliedCalls(j)
    BY <2>1, <2>2 DEF AppliedCalls
  <2>4. effects' = effects
    BY <1>5 DEF Send, SendDocument, Post, ledger
  <2> QED BY <2>3, <2>4, AbstractStutter
<1>6. ASSUME NEW i \in Intents, NEW n \in DOMAIN wire[i], NEW a \in Answers,
             NEW acted \in BOOLEAN, Processed(i, n, a, acted),
             acted => ~(wire[i][n].kind = "refund_header" /\ Refunded(i))
      PROVE  [Abstract!Next]_(Abstract!vars)
  <2>0. effects' = effects
    BY <1>6 DEF Processed, ledger
  <2>1. /\ \A j \in Intents : DOMAIN wire'[j] = DOMAIN wire[j] /\ (j # i => wire'[j] = wire[j])
        /\ \A m \in DOMAIN wire[i] : m # n => wire'[i][m] = wire[i][m]
        /\ wire'[i][n].applied = acted /\ ~wire[i][n].applied
    BY <1>6, ProcessedFacts
  <2>2. CASE ~acted
    <3>1. \A j \in Intents : AppliedCalls(j)' = AppliedCalls(j)
      BY <2>1, <2>2 DEF AppliedCalls
    <3> QED BY <2>0, <3>1, AbstractStutter
  <2>3. CASE acted
    <3>1. AppliedCalls(i) = {}
      <4>1. IntentOK(i)
        BY DEF EffectInv
      <4>2. CASE effects[i].kind = "refund_header"
        BY <1>6, <2>3, <4>1, <4>2 DEF IntentOK, Refunded, AppliedCalls
      <4>3. CASE effects[i].kind # "refund_header"
        <5>1. wire[i] \in Seq(Call) /\ Len(wire[i]) <= 1
          BY <4>1, <4>3 DEF IntentOK, EffectInv, TypeOK
        <5>2. \A m \in DOMAIN wire[i] : m = n
          BY <1>6, <5>1
        <5> QED BY <2>1, <5>2 DEF AppliedCalls
      <4> QED BY <4>2, <4>3
    <3>2. AppliedCalls(i)' = {n}
      BY <1>6, <2>1, <2>3, <3>1 DEF AppliedCalls
    <3>3. \A j \in Intents : j # i => Applied(j)' = Applied(j)
      BY <2>1 DEF Applied
    <3>4. Applied(i) = 0 /\ Applied(i)' = 1
      <4>1. Applied(i)' = Cardinality({n})
        BY <3>2 DEF Applied, AppliedCalls
      <4>2. Cardinality({n}) = 1
        BY FS_Singleton
      <4> QED BY <3>1, <4>1, <4>2, AppliedCount
    <3>5. effects[i].status # "absent"
      <4>1. wire[i] # <<>>
        BY <1>6
      <4> QED BY <4>1 DEF EffectInv, IntentOK
    <3>6. AppliedTimes' = [AppliedTimes EXCEPT ![i] = 1]
      BY <3>3, <3>4 DEF AppliedTimes
    <3>7. Abstract!Apply(i)
      BY <2>0, <3>4, <3>5, <3>6 DEF Abstract!Apply, AppliedTimes
    <3> QED BY <3>7 DEF Abstract!Next
  <2> QED BY <2>2, <2>3
<1>7. ASSUME NEW i \in Intents, NEW n \in DOMAIN wire[i],
             ProviderApplies(i, n) \/ ProviderRepeats(i, n) \/ ProviderRefuses(i, n)
      PROVE  [Abstract!Next]_(Abstract!vars)
  <2>1. CASE ProviderApplies(i, n)
    <3>1. PICK a \in {"ok", "server_error"} : Processed(i, n, a, TRUE)
      BY <2>1 DEF ProviderApplies
    <3> QED BY <1>6, <2>1, <3>1 DEF ProviderApplies, Answers
  <2>2. CASE ProviderRepeats(i, n)
    BY <1>6, <2>2 DEF ProviderRepeats, Answers
  <2>3. CASE ProviderRefuses(i, n)
    BY <1>6, <2>3 DEF ProviderRefuses
  <2> QED BY <1>7, <2>1, <2>2, <2>3
<1>8. ASSUME NEW h \in Handlers, NEW r \in Requests, Replay(h, r) \/ Refuse(h, r)
      PROVE  [Abstract!Next]_(Abstract!vars)
  BY <1>1, <1>8 DEF Replay, Refuse, vars, ledger
<1>9. ASSUME NEW h \in Handlers,
             \/ AppendAccepted(h) \/ RefuseToSend(h) \/ ReceiveAnswer(h) \/ LoseAnswer(h)
             \/ AppendRejected(h) \/ AppendResponse(h) \/ Abort(h)
      PROVE  [Abstract!Next]_(Abstract!vars)
  <2>1. effects' = effects /\ wire' = wire
    BY <1>9 DEF AppendAccepted, RefuseToSend, ReceiveAnswer, LoseAnswer, AppendRejected,
                AppendResponse, Abort, ledger
  <2> QED BY <1>1, <2>1
<1>10. CASE UNCHANGED vars
  BY <1>1, <1>10 DEF vars
<1> QED BY <1>2, <1>3, <1>4, <1>5, <1>7, <1>8, <1>9, <1>10 DEF Next, HandlerStep

\* execute_guarded and RazorpayClient::execute, with retries, timeouts, late
\* executions, replays and aborts, implement the abstract ledger: an intent is
\* claimed once, carried out at most once and settled once.
THEOREM LedgerIsAtMostOnce == Spec => ImplementsAtMostOnce
<1>1. Init => Abstract!Init
  BY AbstractInit
<1>2. EffectInv /\ [Next]_vars => [Abstract!Next]_(Abstract!vars)
  BY AbstractStep
<1> QED BY <1>1, <1>2, EffectInvariant, PTL DEF Spec, ImplementsAtMostOnce, Abstract!Spec
=============================================================================

------------------------ MODULE WebhookCaptureProofs ------------------------
(***************************************************************************)
(* For any number of servers, handler threads, deliveries and crashes: an  *)
(* acknowledged webhook is on the disk, a finished report counts every     *)
(* delivery acknowledged when it began, and it never calls a forged one    *)
(* valid.                                                                  *)
(*                                                                         *)
(* The argument is who may write a file.  A thread only truncates and      *)
(* fills the file of its own delivery, and while it does that delivery is  *)
(* not acknowledged (OwnDelivery); so what an acknowledged delivery wrote  *)
(* is lost only to another of the same microsecond, which Shared allows    *)
(* and which stays so because the log only grows.                          *)
(***************************************************************************)
EXTENDS WebhookCapture, TLAPS

Build == [at : {"off", "reading", "done", "failed"}, secret : Servers \cup {None},
          todo : SUBSET Stamps, counted : SUBSET Nat, promised : SUBSET Nat]

\* TypeOK, but for what a thread has written: the types alone are inductive.
FullTypeOK ==
    /\ secretFile \in Servers \cup {None, Torn}
    /\ servers \in [Servers -> [at : {"off", "create", "fill", "read", "serving", "dead"},
                                secret : Servers \cup {None}]]
    /\ provider \in Servers \cup {None}
    /\ clock \in Stamps
    /\ threads \in [Threads -> [at : {"idle", "open", "write", "latest", "answer"},
                                delivery : 0..Len(log)]]
    /\ \A t1, t2 \in Threads : t1 # t2 /\ threads[t1].at # "idle"
                                 => threads[t1].delivery # threads[t2].delivery
    /\ \A s \in Stamps : files[s] \in {None, Torn} \cup DOMAIN log
    /\ build.counted \subseteq DOMAIN log
    /\ crashes \in 0..MaxCrashes
    /\ log \in Seq(Delivery)
    /\ files \in [Stamps -> {None, Torn} \cup Nat]
    /\ build \in Build

\* The secret file never empties again once a server has found or filled it.
SecretStays ==
    /\ \A s \in Servers : /\ servers[s].at = "read" => secretFile # None
                          /\ servers[s].at = "serving" => servers[s].secret \in Servers

\* A delivery that a thread handles is its own, and not acknowledged yet.
OwnDelivery ==
    \A t \in Threads : threads[t].at # "idle" =>
        /\ threads[t].delivery \in DOMAIN log
        /\ ~log[threads[t].delivery].acked
        /\ threads[t].at \in {"latest", "answer"} => Kept(threads[t].delivery)

\* Whoever does not hold a secret cannot make a valid signature.
ForgedIsInvalid == \A n \in DOMAIN log : log[n].signer = "forged" => ~log[n].valid

\* What the builder still has to read is there to be read.
TodoIsWritten == \A stamp \in build.todo : files[stamp] # None

\* The builder has counted each promised delivery, or will come to its file.
PromisesInSight ==
    \A n \in build.promised :
        /\ n \in DOMAIN log /\ log[n].acked
        /\ Shared(n) \/ n \in build.counted \/ log[n].stamp \in build.todo

DoneIsDone == build.at = "done" => build.todo = {}

CaptureInv ==
    /\ FullTypeOK
    /\ SecretStays
    /\ OwnDelivery
    /\ AcknowledgedIsCaptured
    /\ ForgedIsInvalid
    /\ TodoIsWritten
    /\ PromisesInSight
    /\ DoneIsDone

-----------------------------------------------------------------------------
LEMMA InitCaptureInv == Init => CaptureInv
<1> SUFFICES ASSUME Init PROVE CaptureInv
  OBVIOUS
<1> USE BoundsAssumption, SecretsAssumption
<1>1. FullTypeOK
  BY DEF Init, FullTypeOK, Build, Stamps
<1>2. SecretStays /\ OwnDelivery
  BY DEF Init, SecretStays, OwnDelivery
<1>3. AcknowledgedIsCaptured /\ ForgedIsInvalid
  BY DEF Init, AcknowledgedIsCaptured, Acknowledged, ForgedIsInvalid
<1>4. TodoIsWritten /\ PromisesInSight /\ DoneIsDone
  BY DEF Init, TodoIsWritten, PromisesInSight, DoneIsDone
<1> QED BY <1>1, <1>2, <1>3, <1>4 DEF CaptureInv

\* A delivery that shares its microsecond goes on sharing it: the log keeps
\* the stamps it has.
LEMMA SharedStays ==
    ASSUME DOMAIN log \subseteq DOMAIN log',
           \A k \in DOMAIN log : log'[k].stamp = log[k].stamp,
           NEW n \in DOMAIN log, Shared(n)
    PROVE  Shared(n)'
BY DEF Shared

LEMMA LogEntry ==
    ASSUME FullTypeOK
    PROVE  /\ Len(log) \in Nat /\ DOMAIN log = 1..Len(log)
           /\ \A n \in DOMAIN log : n \in Nat /\ log[n] \in Delivery /\ log[n].stamp \in Stamps
<1>1. log \in Seq(Delivery)
  BY DEF FullTypeOK
<1>2. Len(log) \in Nat /\ DOMAIN log = 1..Len(log)
  BY <1>1
<1>3. \A n \in DOMAIN log : n \in Nat /\ log[n] \in Delivery
  BY <1>1, <1>2
<1>4. \A d \in Delivery : d.stamp \in Stamps
  BY DEF Delivery
<1> QED BY <1>2, <1>3, <1>4

-----------------------------------------------------------------------------
(* The steps of serve, the operator and the clock.                          *)

LEMMA SecretSteps ==
    ASSUME CaptureInv, NEW s \in Servers,
           CheckSecret(s) \/ CreateSecret(s) \/ FillSecret(s) \/ ReadSecret(s)
    PROVE  CaptureInv'
<1> USE SecretsAssumption DEF CaptureInv
<1>0. UNCHANGED <<provider, clock, threads, log, files, build, crashes>>
  BY DEF CheckSecret, CreateSecret, FillSecret, ReadSecret, SecretUnchanged
<1>1. servers \in [Servers -> [at : {"off", "create", "fill", "read", "serving", "dead"},
                               secret : Servers \cup {None}]]
      /\ secretFile \in Servers \cup {None, Torn}
  BY DEF FullTypeOK
<1>2. SecretStays'
  <2>1. CASE CheckSecret(s)
    BY <2>1, <1>1 DEF CheckSecret, SecretStays
  <2>2. CASE CreateSecret(s)
    BY <2>2, <1>1 DEF CreateSecret, SecretStays
  <2>3. CASE FillSecret(s)
    BY <2>3, <1>1 DEF FillSecret, SecretStays
  <2>4. CASE ReadSecret(s)
    BY <2>4, <1>1 DEF ReadSecret, SecretStays
  <2> QED BY <2>1, <2>2, <2>3, <2>4
<1>3. /\ secretFile' \in Servers \cup {None, Torn}
      /\ servers' \in [Servers -> [at : {"off", "create", "fill", "read", "serving", "dead"},
                                   secret : Servers \cup {None}]]
  <2>1. CASE CheckSecret(s)
    BY <2>1, <1>1 DEF CheckSecret
  <2>2. CASE CreateSecret(s)
    BY <2>2, <1>1 DEF CreateSecret
  <2>3. CASE FillSecret(s)
    BY <2>3, <1>1 DEF FillSecret
  <2>4. CASE ReadSecret(s)
    BY <2>4, <1>1 DEF ReadSecret, SecretStays
  <2> QED BY <2>1, <2>2, <2>3, <2>4
<1>4. FullTypeOK'
  BY <1>0, <1>3 DEF FullTypeOK, Stamps, Build, Delivery
<1>5. OwnDelivery' /\ AcknowledgedIsCaptured' /\ ForgedIsInvalid'
  BY <1>0 DEF OwnDelivery, Kept, AcknowledgedIsCaptured, Acknowledged, Shared, ForgedIsInvalid
<1>6. TodoIsWritten' /\ PromisesInSight' /\ DoneIsDone'
  BY <1>0 DEF TodoIsWritten, PromisesInSight, Shared, DoneIsDone
<1> QED BY <1>2, <1>4, <1>5, <1>6

LEMMA QuietSteps ==
    ASSUME CaptureInv, Configure \/ Tick \/ UNCHANGED vars
    PROVE  CaptureInv'
<1> USE SecretsAssumption, BoundsAssumption DEF CaptureInv
<1>0. UNCHANGED <<secretFile, servers, threads, log, files, build, crashes>>
  BY DEF Configure, Tick, ServerUnchanged, vars
<1>1. provider' \in Servers \cup {None} /\ clock' \in Stamps
  BY DEF Configure, Tick, ServerUnchanged, vars, FullTypeOK, Stamps
<1>2. FullTypeOK'
  BY <1>0, <1>1 DEF FullTypeOK, Stamps, Build, Delivery
<1>3. SecretStays'
  BY <1>0 DEF SecretStays
<1>5. OwnDelivery' /\ AcknowledgedIsCaptured' /\ ForgedIsInvalid'
  BY <1>0 DEF OwnDelivery, Kept, AcknowledgedIsCaptured, Acknowledged, Shared, ForgedIsInvalid
<1>6. TodoIsWritten' /\ PromisesInSight' /\ DoneIsDone'
  BY <1>0 DEF TodoIsWritten, PromisesInSight, Shared, DoneIsDone
<1> QED BY <1>2, <1>3, <1>5, <1>6

-----------------------------------------------------------------------------
(* The steps of a handler thread.                                           *)

\* What the thread's steps leave alone, and what follows from it.
LEMMA HandlerFrame ==
    ASSUME CaptureInv, ServerUnchanged,
           FullTypeOK',
           DOMAIN log \subseteq DOMAIN log',
           \A k \in DOMAIN log : /\ log'[k].stamp = log[k].stamp
                                 /\ log[k].acked => log'[k].acked,
           \A stamp \in Stamps : files[stamp] # None => files'[stamp] # None
    PROVE  SecretStays' /\ TodoIsWritten' /\ PromisesInSight' /\ DoneIsDone'
<1> USE DEF CaptureInv, ServerUnchanged
<1>1. SecretStays' /\ DoneIsDone'
  BY DEF SecretStays, DoneIsDone
<1>2. TodoIsWritten'
  BY DEF TodoIsWritten, FullTypeOK, Build
<1>3. ASSUME NEW n \in build.promised
      PROVE  /\ n \in DOMAIN log' /\ log'[n].acked
             /\ Shared(n)' \/ n \in build.counted \/ log'[n].stamp \in build.todo
  <2>1. n \in DOMAIN log /\ log[n].acked
        /\ (Shared(n) \/ n \in build.counted \/ log[n].stamp \in build.todo)
    BY <1>3 DEF PromisesInSight
  <2>2. CASE Shared(n)
    BY <2>1, <2>2, SharedStays
  <2>3. CASE n \in build.counted \/ log[n].stamp \in build.todo
    BY <2>1, <2>3
  <2> QED BY <2>1, <2>2, <2>3
<1>4. PromisesInSight'
  BY <1>3 DEF PromisesInSight
<1> QED BY <1>1, <1>2, <1>4

LEMMA ReceiveStep ==
    ASSUME CaptureInv, NEW t \in Threads, NEW s \in Servers, NEW body \in Bodies,
           NEW signer \in {provider, "forged"} \ {None}, Receive(t, s, body, signer)
    PROVE  CaptureInv'
<1> USE SecretsAssumption, BoundsAssumption DEF CaptureInv
<1> DEFINE d == [body |-> body, signer |-> signer, valid |-> signer = servers[s].secret,
                 stamp |-> clock, acked |-> FALSE]
           m == Len(log) + 1
<1>0. /\ threads[t].at = "idle" /\ servers[s].at = "serving"
      /\ log' = Append(log, d)
      /\ threads' = [threads EXCEPT ![t] = [at |-> "open", delivery |-> m]]
      /\ UNCHANGED <<clock, files, crashes>> /\ ServerUnchanged
  BY DEF Receive
<1>1. log \in Seq(Delivery) /\ Len(log) \in Nat /\ DOMAIN log = 1..Len(log) /\ d \in Delivery
  BY DEF FullTypeOK, Delivery
<1>2. /\ log' \in Seq(Delivery) /\ Len(log') = m /\ DOMAIN log' = 1..m
      /\ log'[m] = d /\ \A k \in DOMAIN log : log'[k] = log[k]
  <2> HIDE DEF d
  <2> QED BY <1>0, <1>1
<1>3. DOMAIN log' = DOMAIN log \cup {m} /\ m \notin DOMAIN log /\ m \in Nat
  BY <1>1, <1>2
<1>entry. d.acked = FALSE /\ d.signer = signer /\ (d.valid <=> signer = servers[s].secret)
  OBVIOUS
<1> HIDE DEF m, d
<1>4. FullTypeOK'
  <2>1. threads' \in [Threads -> [at : {"idle", "open", "write", "latest", "answer"},
                                  delivery : 0..Len(log')]]
    <3>1. threads \in [Threads -> [at : {"idle", "open", "write", "latest", "answer"},
                                   delivery : 0..Len(log)]]
      BY DEF FullTypeOK
    <3>2. 0..Len(log) \subseteq 0..Len(log') /\ m \in 0..Len(log')
      BY <1>1, <1>2 DEF m
    <3> QED BY <1>0, <3>1, <3>2
  <2>2. \A t1, t2 \in Threads : t1 # t2 /\ threads'[t1].at # "idle"
                                  => threads'[t1].delivery # threads'[t2].delivery
    <3>1. \A u \in Threads : threads[u].delivery \in 0..Len(log) /\ threads[u].delivery # m
      BY <1>1 DEF FullTypeOK, m
    <3>2. \A u \in Threads : threads'[u] = IF u = t THEN [at |-> "open", delivery |-> m]
                                           ELSE threads[u]
      BY <1>0 DEF FullTypeOK
    <3> QED BY <3>1, <3>2 DEF FullTypeOK
  <2> QED BY <1>0, <1>2, <1>3, <2>1, <2>2 DEF FullTypeOK, ServerUnchanged
<1>5. SecretStays' /\ TodoIsWritten' /\ PromisesInSight' /\ DoneIsDone'
  BY <1>0, <1>2, <1>3, <1>4, HandlerFrame
<1>6. OwnDelivery'
  <2> SUFFICES ASSUME NEW u \in Threads, threads'[u].at # "idle",
                      NEW n, n = threads'[u].delivery
               PROVE  /\ n \in DOMAIN log' /\ ~log'[n].acked
                      /\ threads'[u].at \in {"latest", "answer"} => Kept(n)'
    BY DEF OwnDelivery, Kept, Shared
  <2>1. CASE u = t
    <3>1. threads'[u] = [at |-> "open", delivery |-> m]
      BY <1>0, <2>1 DEF FullTypeOK
    <3> QED BY <3>1, <1>2, <1>3, <1>entry
  <2>2. CASE u # t
    <3>1. threads'[u] = threads[u]
      BY <1>0, <2>2 DEF FullTypeOK
    <3>2. n \in DOMAIN log /\ ~log[n].acked
          /\ (threads[u].at \in {"latest", "answer"} => Kept(n))
      BY <3>1 DEF OwnDelivery
    <3>3. Shared(n) => Shared(n)'
      BY <3>2, <1>2, <1>3, SharedStays
    <3>4. Kept(n) => Kept(n)'
      BY <3>2, <3>3, <1>0, <1>2 DEF Kept
    <3> QED BY <3>1, <3>2, <3>4, <1>2, <1>3
  <2> QED BY <2>1, <2>2
<1>7. AcknowledgedIsCaptured'
  <2> SUFFICES ASSUME NEW n \in DOMAIN log', log'[n].acked
               PROVE  files'[log'[n].stamp] = n \/ Shared(n)'
    BY DEF AcknowledgedIsCaptured, Acknowledged
  <2>1. n \in DOMAIN log /\ log[n].acked
    BY <1>2, <1>3, <1>entry
  <2>2. Shared(n) => Shared(n)'
    BY <2>1, <1>2, <1>3, SharedStays
  <2> QED BY <2>1, <2>2, <1>0, <1>2 DEF AcknowledgedIsCaptured, Acknowledged
<1>8. ForgedIsInvalid'
  <2>1. servers[s].secret # "forged"
    BY <1>0 DEF SecretStays
  <2> QED BY <2>1, <1>2, <1>3, <1>entry DEF ForgedIsInvalid
<1> QED BY <1>4, <1>5, <1>6, <1>7, <1>8

\* A thread moves on and the log and the files stay: WriteLatest and Crash.
\* A thread writes its file: OpenCapture and WriteCapture.
LEMMA FileSteps ==
    ASSUME CaptureInv, NEW t \in Threads,
           OpenCapture(t) \/ WriteCapture(t) \/ WriteLatest(t) \/ Crash(t)
    PROVE  CaptureInv'
<1> USE SecretsAssumption, BoundsAssumption DEF CaptureInv
<1> DEFINE m == threads[t].delivery
           stamp == log[m].stamp
<1>0. threads[t].at # "idle" /\ m \in DOMAIN log /\ ~log[m].acked
      /\ DOMAIN log \subseteq Nat /\ stamp \in Stamps
  <2>1. threads[t].at # "idle"
    BY DEF OpenCapture, WriteCapture, WriteLatest, Crash
  <2>2. m \in DOMAIN log /\ ~log[m].acked
    BY <2>1 DEF OwnDelivery
  <2> QED BY <2>1, <2>2, LogEntry
<1>1. /\ UNCHANGED <<clock, log>> /\ ServerUnchanged
      /\ \E next \in {"idle", "write", "latest", "answer"} :
           /\ threads' = [threads EXCEPT ![t].at = next]
           /\ next = "latest" => files' = [files EXCEPT ![stamp] = m]
           /\ next = "answer" => threads[t].at = "latest" /\ files' = files
      /\ files' = files \/ \E c \in {Torn, m} : files' = [files EXCEPT ![stamp] = c]
      /\ crashes' = crashes \/ (crashes < MaxCrashes /\ crashes' = crashes + 1)
  BY DEF OpenCapture, WriteCapture, WriteLatest, Crash, Goto, StampOf
<1> HIDE DEF m, stamp
<1>2. PICK next \in {"idle", "write", "latest", "answer"} :
           /\ threads' = [threads EXCEPT ![t].at = next]
           /\ next = "latest" => files' = [files EXCEPT ![stamp] = m]
           /\ next = "answer" => threads[t].at = "latest" /\ files' = files
  BY <1>1
<1>3. \A u \in Threads : /\ threads'[u].delivery = threads[u].delivery
                         /\ threads'[u].at = IF u = t THEN next ELSE threads[u].at
  BY <1>2 DEF FullTypeOK
<1>4. FullTypeOK'
  <2>1. threads' \in [Threads -> [at : {"idle", "open", "write", "latest", "answer"},
                                  delivery : 0..Len(log)]]
    BY <1>2 DEF FullTypeOK
  <2>2. /\ files' \in [Stamps -> {None, Torn} \cup Nat]
        /\ \A k \in Stamps : files'[k] \in {None, Torn} \cup DOMAIN log
    <3>1. CASE files' = files
      BY <3>1 DEF FullTypeOK
    <3>2. ASSUME NEW c \in {Torn, m}, files' = [files EXCEPT ![stamp] = c]
          PROVE  /\ files' \in [Stamps -> {None, Torn} \cup Nat]
                 /\ \A k \in Stamps : files'[k] \in {None, Torn} \cup DOMAIN log
      <4>1. files \in [Stamps -> {None, Torn} \cup Nat] /\ c \in {None, Torn} \cup Nat
            /\ c \in {None, Torn} \cup DOMAIN log
        BY <1>0 DEF FullTypeOK
      <4>2. \A k \in Stamps : files[k] \in {None, Torn} \cup DOMAIN log
        BY DEF FullTypeOK
      <4>3. \A k \in Stamps : files'[k] = IF k = stamp THEN c ELSE files[k]
        BY <3>2, <4>1
      <4> QED BY <3>2, <4>1, <4>2, <4>3
    <3> QED BY <1>1, <3>1, <3>2
  <2>3. crashes' \in 0..MaxCrashes
    BY <1>1 DEF FullTypeOK
  <2>4. \A t1, t2 \in Threads : t1 # t2 /\ threads'[t1].at # "idle"
                                  => threads'[t1].delivery # threads'[t2].delivery
    BY <1>0, <1>3 DEF FullTypeOK
  <2> QED BY <1>1, <2>1, <2>2, <2>3, <2>4 DEF FullTypeOK, ServerUnchanged
\* Whose file it is not is not touched, but by one of the same microsecond.
<1>5. ASSUME NEW n \in DOMAIN log, n # m, files[log[n].stamp] = n
      PROVE  files'[log[n].stamp] = n \/ Shared(n)
  <2>1. CASE log[n].stamp = stamp
    BY <1>0, <1>5, <2>1 DEF Shared, stamp
  <2>2. CASE log[n].stamp # stamp
    BY <1>1, <1>5, <2>2, LogEntry DEF FullTypeOK
  <2> QED BY <2>1, <2>2
<1>6. \A n \in DOMAIN log : Shared(n)' <=> Shared(n)
  BY <1>1 DEF Shared
<1>7. AcknowledgedIsCaptured'
  <2> SUFFICES ASSUME NEW n \in DOMAIN log, log[n].acked
               PROVE  files'[log[n].stamp] = n \/ Shared(n)
    BY <1>1, <1>6 DEF AcknowledgedIsCaptured, Acknowledged
  <2>1. n # m
    BY <1>0
  <2> QED BY <2>1, <1>5 DEF AcknowledgedIsCaptured, Acknowledged
<1>8. OwnDelivery'
  <2> SUFFICES ASSUME NEW u \in Threads, threads'[u].at # "idle"
               PROVE  /\ threads[u].delivery \in DOMAIN log
                      /\ ~log[threads[u].delivery].acked
                      /\ threads'[u].at \in {"latest", "answer"}
                           => files'[log[threads[u].delivery].stamp] = threads[u].delivery
                              \/ Shared(threads[u].delivery)
    BY <1>1, <1>3, <1>6 DEF OwnDelivery, Kept, FullTypeOK, Shared
  <2>0. threads[u].at # "idle"
    BY <1>0, <1>3
  <2>1. threads[u].delivery \in DOMAIN log /\ ~log[threads[u].delivery].acked
        /\ (threads[u].at \in {"latest", "answer"} => Kept(threads[u].delivery))
    BY <2>0 DEF OwnDelivery
  <2>2. CASE u = t
    <3>1. CASE next = "latest"
      BY <1>0, <1>2, <2>1, <2>2, <3>1 DEF FullTypeOK, m, stamp
    <3>2. CASE next = "answer"
      BY <1>2, <2>1, <2>2, <3>2 DEF Kept
    <3>3. CASE next \notin {"latest", "answer"}
      BY <1>3, <2>1, <2>2, <3>3
    <3> QED BY <2>1, <3>1, <3>2, <3>3
  <2>3. CASE u # t
    <3>1. threads[u].delivery # m
      BY <2>0, <2>3 DEF FullTypeOK, m
    <3> QED BY <1>3, <1>5, <2>1, <2>3, <3>1 DEF Kept
  <2> QED BY <2>2, <2>3
<1>9. ForgedIsInvalid'
  BY <1>1 DEF ForgedIsInvalid
<1>10. \A k \in Stamps : files[k] # None => files'[k] # None
  BY <1>0, <1>1 DEF FullTypeOK
<1>11. SecretStays' /\ TodoIsWritten' /\ PromisesInSight' /\ DoneIsDone'
  BY <1>1, <1>4, <1>10, HandlerFrame
<1> QED BY <1>4, <1>7, <1>8, <1>9, <1>11

LEMMA AnswerStep ==
    ASSUME CaptureInv, NEW t \in Threads, Answer(t)
    PROVE  CaptureInv'
<1> USE SecretsAssumption, BoundsAssumption DEF CaptureInv
<1> DEFINE m == threads[t].delivery
<1>0. /\ threads[t].at = "answer"
      /\ log' = [log EXCEPT ![m].acked = TRUE]
      /\ threads' = [threads EXCEPT ![t].at = "idle"]
      /\ UNCHANGED <<clock, files, crashes>> /\ ServerUnchanged
  BY DEF Answer, Goto
<1>1. m \in DOMAIN log /\ Kept(m)
  BY <1>0 DEF OwnDelivery
<1> HIDE DEF m
<1>2. /\ log' \in Seq(Delivery) /\ DOMAIN log' = DOMAIN log /\ Len(log') = Len(log)
      /\ \A k \in DOMAIN log : /\ log'[k].stamp = log[k].stamp
                               /\ log'[k].signer = log[k].signer
                               /\ log'[k].valid = log[k].valid
                               /\ log[k].acked => log'[k].acked
                               /\ k # m => log'[k].acked = log[k].acked
  <2> DEFINE e == [log[m] EXCEPT !.acked = TRUE]
  <2>1. log \in Seq(Delivery) /\ log[m] \in Delivery
    BY <1>1, LogEntry DEF FullTypeOK
  <2>2. e \in Delivery /\ e.stamp = log[m].stamp /\ e.signer = log[m].signer
        /\ e.valid = log[m].valid /\ e.acked
    BY <2>1 DEF Delivery
  <2>3. log' = [log EXCEPT ![m] = e]
    BY <1>0, <2>1
  <2> HIDE DEF e
  <2> QED BY <1>1, <2>1, <2>2, <2>3
<1>3. \A u \in Threads : /\ threads'[u].delivery = threads[u].delivery
                         /\ threads'[u].at = IF u = t THEN "idle" ELSE threads[u].at
  BY <1>0 DEF FullTypeOK
<1>4. FullTypeOK'
  <2>1. threads' \in [Threads -> [at : {"idle", "open", "write", "latest", "answer"},
                                  delivery : 0..Len(log)]]
    BY <1>0 DEF FullTypeOK
  <2>2. \A t1, t2 \in Threads : t1 # t2 /\ threads'[t1].at # "idle"
                                  => threads'[t1].delivery # threads'[t2].delivery
    BY <1>3 DEF FullTypeOK
  <2> QED BY <1>0, <1>2, <2>1, <2>2 DEF FullTypeOK, ServerUnchanged
<1>5. SecretStays' /\ TodoIsWritten' /\ PromisesInSight' /\ DoneIsDone'
  BY <1>0, <1>2, <1>4, HandlerFrame
<1>6. \A n \in DOMAIN log : Kept(n) => files'[log'[n].stamp] = n \/ Shared(n)'
  BY <1>0, <1>2, SharedStays DEF Kept
<1>7. AcknowledgedIsCaptured'
  <2> SUFFICES ASSUME NEW n \in DOMAIN log, log'[n].acked
               PROVE  files'[log'[n].stamp] = n \/ Shared(n)'
    BY <1>2 DEF AcknowledgedIsCaptured, Acknowledged
  <2>1. Kept(n)
    BY <1>1, <1>2 DEF AcknowledgedIsCaptured, Acknowledged, Kept
  <2> QED BY <2>1, <1>6
<1>8. OwnDelivery'
  <2> SUFFICES ASSUME NEW u \in Threads, threads'[u].at # "idle",
                      NEW n, n = threads'[u].delivery
               PROVE  /\ n \in DOMAIN log' /\ ~log'[n].acked
                      /\ threads'[u].at \in {"latest", "answer"} => Kept(n)'
    BY DEF OwnDelivery, Kept, Shared
  <2>1. u # t /\ threads[u].at # "idle" /\ threads'[u] = threads[u]
    BY <1>0, <1>3 DEF FullTypeOK
  <2>2. n \in DOMAIN log /\ ~log[n].acked /\ n # m
        /\ (threads[u].at \in {"latest", "answer"} => Kept(n))
    BY <1>0, <2>1 DEF OwnDelivery, FullTypeOK, m
  <2> QED BY <1>2, <1>6, <2>1, <2>2 DEF Kept
<1>9. ForgedIsInvalid'
  BY <1>2 DEF ForgedIsInvalid
<1> QED BY <1>4, <1>5, <1>7, <1>8, <1>9

-----------------------------------------------------------------------------
(* The steps of the builder.                                                *)

LEMMA BuildFrame ==
    ASSUME CaptureInv, BuildUnchanged, build' \in Build, build'.counted \subseteq DOMAIN log
    PROVE  /\ FullTypeOK' /\ SecretStays' /\ OwnDelivery'
           /\ AcknowledgedIsCaptured' /\ ForgedIsInvalid'
<1> USE DEF CaptureInv, BuildUnchanged
<1>1. FullTypeOK'
  BY DEF FullTypeOK
<1>2. SecretStays' /\ ForgedIsInvalid'
  BY DEF SecretStays, ForgedIsInvalid
<1>3. OwnDelivery' /\ AcknowledgedIsCaptured'
  BY DEF OwnDelivery, Kept, Shared, AcknowledgedIsCaptured, Acknowledged
<1> QED BY <1>1, <1>2, <1>3

LEMMA StartBuildStep ==
    ASSUME CaptureInv, StartBuild
    PROVE  CaptureInv'
<1> USE SecretsAssumption DEF CaptureInv
<1>0. /\ secretFile \in Servers
      /\ build' = [at |-> "reading", secret |-> secretFile,
                   todo |-> {stamp \in Stamps : files[stamp] # None},
                   counted |-> {}, promised |-> Acknowledged]
      /\ BuildUnchanged
  BY DEF StartBuild
<1>1. log \in Seq(Delivery) /\ DOMAIN log \subseteq Nat
  BY DEF FullTypeOK
<1>2. build' \in Build /\ build'.counted \subseteq DOMAIN log
  BY <1>0, <1>1 DEF Build, Acknowledged
<1>3. TodoIsWritten' /\ DoneIsDone'
  BY <1>0 DEF TodoIsWritten, DoneIsDone, BuildUnchanged
<1>4. PromisesInSight'
  <2> SUFFICES ASSUME NEW n \in DOMAIN log, log[n].acked
               PROVE  Shared(n) \/ log[n].stamp \in {stamp \in Stamps : files[stamp] # None}
    BY <1>0 DEF PromisesInSight, BuildUnchanged, Shared, Acknowledged
  <2>1. log[n].stamp \in Stamps
    BY LogEntry
  <2>2. files[log[n].stamp] = n \/ Shared(n)
    BY DEF AcknowledgedIsCaptured, Acknowledged
  <2> QED BY <2>1, <2>2, <1>1
<1> QED BY <1>0, <1>2, <1>3, <1>4, BuildFrame

LEMMA ReadCaptureStep ==
    ASSUME CaptureInv, NEW stamp \in Stamps, ReadCapture(stamp)
    PROVE  CaptureInv'
<1> USE SecretsAssumption DEF CaptureInv
<1>0. build.at = "reading" /\ stamp \in build.todo /\ BuildUnchanged
  BY DEF ReadCapture, IsNext
<1>1. build \in Build /\ log \in Seq(Delivery)
      /\ files[stamp] \in {Torn} \cup DOMAIN log
  BY <1>0 DEF FullTypeOK, TodoIsWritten
<1>2. CASE Unreadable(files[stamp])
  <2>1. build' = [build EXCEPT !.at = "failed"]
    BY <1>2 DEF ReadCapture
  <2>2. build' \in Build /\ build'.counted \subseteq DOMAIN log
        /\ build'.todo = build.todo /\ build'.promised = build.promised
        /\ build'.counted = build.counted /\ build'.at = "failed"
    BY <2>1, <1>1 DEF Build, FullTypeOK
  <2>3. TodoIsWritten' /\ PromisesInSight' /\ DoneIsDone'
    BY <1>0, <2>2 DEF TodoIsWritten, PromisesInSight, DoneIsDone, BuildUnchanged, Shared
  <2> QED BY <1>0, <2>2, <2>3, BuildFrame
<1>3. CASE ~Unreadable(files[stamp])
  <2>1. build' = [build EXCEPT !.todo = @ \ {stamp}, !.counted = @ \cup {files[stamp]}]
    BY <1>3 DEF ReadCapture
  <2>2. files[stamp] \in DOMAIN log
    BY <1>1, <1>3 DEF Unreadable
  <2>fields. build'.todo = build.todo \ {stamp} /\ build'.promised = build.promised
        /\ build'.counted = build.counted \cup {files[stamp]} /\ build'.at = "reading"
        /\ build'.secret = build.secret
    BY <1>0, <1>1, <2>1 DEF Build
  <2>numbers. build.counted \subseteq DOMAIN log /\ files[stamp] \in Nat
    BY <2>2, LogEntry DEF FullTypeOK
  <2>3. build' \in Build /\ build'.counted \subseteq DOMAIN log
    BY <1>1, <2>1, <2>2, <2>fields, <2>numbers DEF Build
  <2>4. TodoIsWritten' /\ DoneIsDone'
    BY <1>0, <2>fields DEF TodoIsWritten, DoneIsDone, BuildUnchanged
  <2>5. PromisesInSight'
    <3> SUFFICES ASSUME NEW n \in build.promised
                 PROVE  /\ n \in DOMAIN log /\ log[n].acked
                        /\ \/ Shared(n) \/ n \in build.counted \cup {files[stamp]}
                           \/ log[n].stamp \in build.todo \ {stamp}
      BY <1>0, <2>fields DEF PromisesInSight, BuildUnchanged, Shared
    <3>1. n \in DOMAIN log /\ log[n].acked
          /\ (Shared(n) \/ n \in build.counted \/ log[n].stamp \in build.todo)
      BY DEF PromisesInSight
    <3>2. files[log[n].stamp] = n \/ Shared(n)
      BY <3>1 DEF AcknowledgedIsCaptured, Acknowledged
    <3> QED BY <3>1, <3>2
  <2> QED BY <1>0, <2>3, <2>4, <2>5, BuildFrame
<1> QED BY <1>2, <1>3

LEMMA FinishBuildStep ==
    ASSUME CaptureInv, FinishBuild
    PROVE  CaptureInv'
<1> USE DEF CaptureInv
<1>0. build.todo = {} /\ build' = [build EXCEPT !.at = "done"] /\ BuildUnchanged
  BY DEF FinishBuild
<1>1. build' \in Build /\ build'.counted \subseteq DOMAIN log
      /\ build'.todo = {} /\ build'.promised = build.promised /\ build'.counted = build.counted
  BY <1>0 DEF Build, FullTypeOK
<1>2. TodoIsWritten' /\ PromisesInSight' /\ DoneIsDone'
  BY <1>0, <1>1 DEF TodoIsWritten, PromisesInSight, DoneIsDone, BuildUnchanged, Shared
<1> QED BY <1>0, <1>1, <1>2, BuildFrame

-----------------------------------------------------------------------------
\* The strengthening is an invariant of the specification.
THEOREM CaptureInvariant == Spec => []CaptureInv
<1>1. CaptureInv /\ [Next]_vars => CaptureInv'
  <2> SUFFICES ASSUME CaptureInv, [Next]_vars PROVE CaptureInv'
    OBVIOUS
  <2>1. ASSUME NEW s \in Servers,
               CheckSecret(s) \/ CreateSecret(s) \/ FillSecret(s) \/ ReadSecret(s)
        PROVE  CaptureInv'
    BY <2>1, SecretSteps
  <2>2. CASE Configure \/ Tick \/ UNCHANGED vars
    BY <2>2, QuietSteps
  <2>3. ASSUME NEW t \in Threads, NEW s \in Servers, NEW body \in Bodies,
               NEW signer \in {provider, "forged"} \ {None}, Receive(t, s, body, signer)
        PROVE  CaptureInv'
    BY <2>3, ReceiveStep
  <2>4. ASSUME NEW t \in Threads,
               OpenCapture(t) \/ WriteCapture(t) \/ WriteLatest(t) \/ Crash(t)
        PROVE  CaptureInv'
    BY <2>4, FileSteps
  <2>5. ASSUME NEW t \in Threads, Answer(t)
        PROVE  CaptureInv'
    BY <2>5, AnswerStep
  <2>6. CASE StartBuild \/ FinishBuild
    BY <2>6, StartBuildStep, FinishBuildStep
  <2>7. ASSUME NEW stamp \in Stamps, ReadCapture(stamp)
        PROVE  CaptureInv'
    BY <2>7, ReadCaptureStep
  <2> QED BY <2>1, <2>2, <2>3, <2>4, <2>5, <2>6, <2>7 DEF Next
<1> QED BY <1>1, InitCaptureInv, PTL DEF Spec

\* Every variable keeps its type, and no two threads handle one delivery.
THEOREM CaptureTypeCorrect == Spec => []TypeOK
<1>1. CaptureInv => TypeOK
  <2> SUFFICES ASSUME CaptureInv PROVE TypeOK
    OBVIOUS
  <2>1. files \in [Stamps -> {None, Torn} \cup DOMAIN log]
    BY DEF CaptureInv, FullTypeOK
  <2>2. build.counted \subseteq DOMAIN log /\ build.promised \subseteq DOMAIN log
    BY DEF CaptureInv, FullTypeOK, PromisesInSight
  <2>3. build \in [at : {"off", "reading", "done", "failed"}, secret : Servers \cup {None},
                   todo : SUBSET Stamps, counted : SUBSET DOMAIN log, promised : SUBSET DOMAIN log]
    BY <2>2 DEF CaptureInv, FullTypeOK, Build
  <2>4. \A t \in Threads : threads[t].at \in {"latest", "answer"} => Kept(threads[t].delivery)
    BY DEF CaptureInv, OwnDelivery
  <2> QED BY <2>1, <2>3, <2>4 DEF CaptureInv, FullTypeOK, TypeOK
<1> QED BY <1>1, CaptureInvariant, PTL

\* do_POST writes the capture before it answers: what Razorpay has seen a 200
\* for is on the disk, but for another delivery of the same microsecond.
THEOREM AcknowledgedStaysCaptured == Spec => []AcknowledgedIsCaptured
<1>1. CaptureInv => AcknowledgedIsCaptured
  BY DEF CaptureInv
<1> QED BY <1>1, CaptureInvariant, PTL

\* build_webhook_byte_evidence counts every delivery acknowledged when it
\* listed the directory, whatever is delivered while it reads.
THEOREM FinishedReportIsComplete == Spec => []ReportIsComplete
<1>1. CaptureInv => ReportIsComplete
  BY DEF CaptureInv, ReportIsComplete, DoneIsDone, PromisesInSight
<1> QED BY <1>1, CaptureInvariant, PTL

\* all_capture_signatures_valid is true of a report only if none of the
\* deliveries it counts is forged.
THEOREM ValidReportIsHonest == Spec => []ReportIsHonest
<1>1. CaptureInv => ReportIsHonest
  BY DEF CaptureInv, ReportIsHonest, Checks, ForgedIsInvalid, FullTypeOK
<1> QED BY <1>1, CaptureInvariant, PTL
=============================================================================

--------------------------- MODULE WebhookCapture ---------------------------
(***************************************************************************)
(* The raw capture of signed Test webhooks (webhook_capture.py) and the     *)
(* evidence built from it (webhook_evidence.py): server processes that      *)
(* share a secret file, handler threads that write each delivery to a file  *)
(* named by the time, and a builder that reads the files while deliveries   *)
(* go on.  write_text truncates a file and then fills it, so a reader or a  *)
(* crash can come in between.                                              *)
(***************************************************************************)
EXTENDS Integers, Sequences

CONSTANTS
    Servers,        \* processes running serve()
    Threads,        \* handler threads
    None,
    Torn,           \* the content of a file truncated and not yet filled
    MaxDeliveries,  \* bounds the deliveries
    MaxTime,        \* bounds the clock
    MaxCrashes      \* bounds the threads that end half-way

ASSUME BoundsAssumption == MaxDeliveries \in Nat /\ MaxTime \in Nat /\ MaxCrashes \in Nat

\* No secret is the wrong one, and the contents of a file can be told apart.
ASSUME SecretsAssumption ==
    /\ None \notin Servers /\ Torn \notin Servers /\ "forged" \notin Servers
    /\ None \notin Nat /\ Torn \notin Nat /\ None # Torn

VARIABLES
    secretFile,  \* None, Torn or the server whose secret it holds
    servers,     \* the processes: where they are, the secret they serve with
    provider,    \* the secret the operator has entered at Razorpay
    clock,       \* the time in microseconds
    threads,     \* the threads: where they are, the delivery they handle
    log,         \* the deliveries so far
    files,       \* capture-<stamp>.json: None, Torn or a delivery
    build,       \* the builder
    crashes      \* how many threads ended half-way

vars == <<secretFile, servers, provider, clock, threads, log, files, build, crashes>>

Stamps == 0..MaxTime

\* literal bodies hold non-ASCII characters; a broken one is not JSON.
Bodies == {"plain", "literal", "broken"}

Init ==
    /\ secretFile = None
    /\ servers = [s \in Servers |-> [at |-> "off", secret |-> None]]
    /\ provider = None
    /\ clock = 0
    /\ threads = [t \in Threads |-> [at |-> "idle", delivery |-> 0]]
    /\ log = <<>>
    /\ files = [stamp \in Stamps |-> None]
    /\ build = [at |-> "off", secret |-> None, todo |-> {}, counted |-> {}, promised |-> {}]
    /\ crashes = 0

(***************************************************************************)
(* serve: ensure_secret, then read the file.                               *)
(***************************************************************************)
SecretUnchanged == UNCHANGED <<provider, clock, threads, log, files, build, crashes>>

CheckSecret(s) ==
    /\ servers[s].at = "off"
    /\ servers' = [servers EXCEPT ![s].at = IF secretFile = None THEN "create" ELSE "read"]
    /\ UNCHANGED secretFile /\ SecretUnchanged

CreateSecret(s) ==
    /\ servers[s].at = "create"
    /\ secretFile' = Torn
    /\ servers' = [servers EXCEPT ![s].at = "fill"]
    /\ SecretUnchanged

\* token_urlsafe: a secret of its own for each server that writes one.
FillSecret(s) ==
    /\ servers[s].at = "fill"
    /\ secretFile' = s
    /\ servers' = [servers EXCEPT ![s].at = "read"]
    /\ SecretUnchanged

\* Mutant: an empty secret is not refused.
MutReadSecret(s) ==
    /\ servers[s].at = "read"
    /\ servers' = [servers EXCEPT ![s] = [at |-> "serving", secret |-> secretFile]]
    /\ UNCHANGED secretFile /\ SecretUnchanged

ReadSecret(s) ==
    /\ servers[s].at = "read"
    /\ servers' = [servers EXCEPT
                     ![s] = IF secretFile = Torn THEN [at |-> "dead", secret |-> None]
                            ELSE [at |-> "serving", secret |-> secretFile]]
    /\ UNCHANGED secretFile /\ SecretUnchanged

\* The operator copies the secret to Razorpay's dashboard.
Configure ==
    /\ secretFile \in Servers
    /\ provider' = secretFile
    /\ UNCHANGED <<secretFile, servers, clock, threads, log, files, build, crashes>>

(***************************************************************************)
(* do_POST.                                                                *)
(***************************************************************************)
ServerUnchanged == UNCHANGED <<secretFile, servers, provider, build>>

\* Mutant: the answer is sent before the capture is written.
MutReceive(t, s, body, signer) ==
    /\ threads[t].at = "idle" /\ servers[s].at = "serving"
    /\ Len(log) < MaxDeliveries
    /\ log' = Append(log, [body |-> body, signer |-> signer,
                           valid |-> signer = servers[s].secret,
                           stamp |-> clock, acked |-> TRUE])
    /\ threads' = [threads EXCEPT ![t] = [at |-> "open", delivery |-> Len(log) + 1]]
    /\ UNCHANGED <<clock, files, crashes>> /\ ServerUnchanged

\* A delivery by Razorpay, or by somebody without the secret, is read,
\* verified and stamped.
Receive(t, s, body, signer) ==
    /\ threads[t].at = "idle" /\ servers[s].at = "serving"
    /\ Len(log) < MaxDeliveries
    /\ log' = Append(log, [body |-> body, signer |-> signer,
                           valid |-> signer = servers[s].secret,
                           stamp |-> clock, acked |-> FALSE])
    /\ threads' = [threads EXCEPT ![t] = [at |-> "open", delivery |-> Len(log) + 1]]
    /\ UNCHANGED <<clock, files, crashes>> /\ ServerUnchanged

Goto(t, next) == threads' = [threads EXCEPT ![t].at = next]
StampOf(t) == log[threads[t].delivery].stamp

OpenCapture(t) ==
    /\ threads[t].at = "open"
    /\ files' = [files EXCEPT ![StampOf(t)] = Torn]
    /\ Goto(t, "write")
    /\ UNCHANGED <<clock, log, crashes>> /\ ServerUnchanged

WriteCapture(t) ==
    /\ threads[t].at = "write"
    /\ files' = [files EXCEPT ![StampOf(t)] = threads[t].delivery]
    /\ Goto(t, "latest")
    /\ UNCHANGED <<clock, log, crashes>> /\ ServerUnchanged

\* latest.json gets the same text; nothing reads it.
WriteLatest(t) ==
    /\ threads[t].at = "latest"
    /\ Goto(t, "answer")
    /\ UNCHANGED <<clock, log, files, crashes>> /\ ServerUnchanged

Answer(t) ==
    /\ threads[t].at = "answer"
    /\ log' = [log EXCEPT ![threads[t].delivery].acked = TRUE]
    /\ Goto(t, "idle")
    /\ UNCHANGED <<clock, files, crashes>> /\ ServerUnchanged

\* A full disk, an interrupt, a connection closed by Razorpay.
Crash(t) ==
    /\ threads[t].at # "idle"
    /\ crashes < MaxCrashes
    /\ crashes' = crashes + 1
    /\ Goto(t, "idle")
    /\ UNCHANGED <<clock, log, files>> /\ ServerUnchanged

Tick ==
    /\ clock < MaxTime
    /\ clock' = clock + 1
    /\ UNCHANGED <<threads, log, files, crashes>> /\ ServerUnchanged

(***************************************************************************)
(* build_webhook_byte_evidence.                                            *)
(***************************************************************************)
BuildUnchanged ==
    UNCHANGED <<secretFile, servers, provider, clock, threads, log, files, crashes>>

Acknowledged == {n \in DOMAIN log : log[n].acked}
Shared(n) == \E k \in DOMAIN log : k # n /\ log[k].stamp = log[n].stamp

\* The secret is read and the directory listed, in the order of the names.
\* promised is a history variable: the deliveries acknowledged by then.  One
\* build is enough: another starts from the same files and keeps nothing.
StartBuild ==
    /\ build.at = "off"
    /\ secretFile \in Servers
    /\ build' = [at |-> "reading", secret |-> secretFile,
                 todo |-> {stamp \in Stamps : files[stamp] # None},
                 counted |-> {}, promised |-> Acknowledged]
    /\ BuildUnchanged

\* The capture whose name comes first among those still to be read.
IsNext(stamp) == stamp \in build.todo /\ \A other \in build.todo : stamp <= other

Unreadable(n) == n = Torn \/ log[n].body = "broken"

\* Mutant: the first capture that cannot be parsed ends the loop.
MutReadCapture(stamp) ==
    /\ build.at = "reading" /\ IsNext(stamp)
    /\ build' = IF Unreadable(files[stamp]) THEN [build EXCEPT !.at = "done"]
                ELSE [build EXCEPT !.todo = @ \ {stamp}, !.counted = @ \cup {files[stamp]}]
    /\ BuildUnchanged

\* One capture is parsed, and its body when it is a literal one: a torn file
\* and a literal body that is not JSON raise.
ReadCapture(stamp) ==
    /\ build.at = "reading" /\ IsNext(stamp)
    /\ build' = IF Unreadable(files[stamp]) THEN [build EXCEPT !.at = "failed"]
                ELSE [build EXCEPT !.todo = @ \ {stamp}, !.counted = @ \cup {files[stamp]}]
    /\ BuildUnchanged

FinishBuild ==
    /\ build.at = "reading" /\ build.todo = {}
    /\ build' = [build EXCEPT !.at = "done"]
    /\ BuildUnchanged

Literals == {n \in build.counted : log[n].body # "plain"}

\* Mutant: the signatures of captures without literal characters are skipped.
MutChecks ==
    [captures_present |-> build.counted # {},
     all_capture_signatures_valid |-> \A n \in Literals : log[n].valid,
     exact_utf8_verifies_all_literal_non_ascii_deliveries |->
        Literals # {} /\ \A n \in Literals : log[n].signer = build.secret]

Checks ==
    [captures_present |-> build.counted # {},
     all_capture_signatures_valid |-> \A n \in build.counted : log[n].valid,
     exact_utf8_verifies_all_literal_non_ascii_deliveries |->
        Literals # {} /\ \A n \in Literals : log[n].signer = build.secret]

Next ==
    \/ \E s \in Servers :
         CheckSecret(s) \/ CreateSecret(s) \/ FillSecret(s) \/ ReadSecret(s)
    \/ Configure
    \/ \E t \in Threads :
         \/ \E s \in Servers, body \in Bodies, signer \in {provider, "forged"} \ {None} :
              Receive(t, s, body, signer)
         \/ OpenCapture(t) \/ WriteCapture(t) \/ WriteLatest(t) \/ Answer(t) \/ Crash(t)
    \/ Tick
    \/ StartBuild \/ FinishBuild \/ \E stamp \in Stamps : ReadCapture(stamp)

Spec == Init /\ [][Next]_vars

(***************************************************************************)
(* Properties.                                                             *)
(***************************************************************************)
Delivery == [body : Bodies, signer : Servers \cup {"forged"}, valid : BOOLEAN,
             stamp : Stamps, acked : BOOLEAN]

\* The capture of delivery n is on the disk, or was written over by another of
\* the same microsecond.
Kept(n) == files[log[n].stamp] = n \/ Shared(n)

\* Every variable keeps its type; no two threads handle one delivery, and one
\* that is past its capture has written it.
TypeOK ==
    /\ secretFile \in Servers \cup {None, Torn}
    /\ servers \in [Servers -> [at : {"off", "create", "fill", "read", "serving", "dead"},
                                secret : Servers \cup {None}]]
    /\ provider \in Servers \cup {None}
    /\ clock \in Stamps
    /\ log \in Seq(Delivery)
    /\ threads \in [Threads -> [at : {"idle", "open", "write", "latest", "answer"},
                                delivery : 0..Len(log)]]
    /\ \A t1, t2 \in Threads : t1 # t2 /\ threads[t1].at # "idle"
                                 => threads[t1].delivery # threads[t2].delivery
    /\ \A t \in Threads : threads[t].at \in {"latest", "answer"} => Kept(threads[t].delivery)
    /\ files \in [Stamps -> {None, Torn} \cup DOMAIN log]
    /\ build \in [at : {"off", "reading", "done", "failed"}, secret : Servers \cup {None},
                  todo : SUBSET Stamps, counted : SUBSET DOMAIN log, promised : SUBSET DOMAIN log]
    /\ crashes \in 0..MaxCrashes

\* A delivery Razorpay has seen a 200 for is on the disk, in full, unless
\* another came in the same microsecond: Razorpay will not send it again.
AcknowledgedIsCaptured ==
    \A n \in Acknowledged : files[log[n].stamp] = n \/ Shared(n)

\* A finished report counts every delivery that was acknowledged when it began,
\* unless another overwrote it: no capture that cannot be read is passed over.
ReportIsComplete ==
    build.at = "done" => {n \in build.promised : ~Shared(n)} \subseteq build.counted

\* A report that calls all signatures valid counts only what Razorpay signed,
\* whoever else posted to the server, whichever file a delivery overwrote and
\* however many servers made a secret.
ReportIsHonest ==
    build.at = "done" /\ Checks.all_capture_signatures_valid =>
        \A n \in build.counted : log[n].signer # "forged"
=============================================================================

# RazorProof in TLA+

RazorProof (`razorproof-rs/`) is a service that stands between an application and Razorpay. It
issues quotes, creates and verifies payments for them, forwards other writes under a durable
identity, receives webhooks, and keeps a hash-chained record of what it did. The Python package
(`src/razorproof/`) gathers the evidence the service is built on: it scans Razorpay's official SDKs,
executes probes of them, runs refund and order experiments on a Test Mode account, captures signed
webhooks, and composes the results into chains of defects and proofs of fixes. A second compiler
(`razorproof-engine`, in Rust) and a web site complete the repository.

What goes wrong in such a service is seldom in one function: it is in two requests that meet
between a read and a write, a response that is lost after the provider acted, a crash between two
commits. What goes wrong in an evidence tool is a report that claims what did not happen: another
run acted on the same payment, an artifact was stale or half written, a probe died. This directory
models those parts, checks them with TLC on small instances and proves the central facts with TLAPS
for instances of every size.

## 1. The system

### Components, their state and their operations

| Component | State | Operations | Correct when |
|---|---|---|---|
| Quote (`core/quote.rs`) | stage, order, payment, reference, version, expiry | issue, bind_order, verify_payment, fulfill, ensure_live | stages are taken in order, each on its evidence |
| Checkout handlers (`server/lib.rs`) | the local variables of each request | create_quote, create_order, verify_payment, fulfill | no interleaving loses an update, releases goods without money or breaks a 2xx |
| Effect ledger (`store/lib.rs`, `execute_guarded`) | one row per intent: absent, pending, completed, failed | claim, complete, fail | an intent is carried out at most once; its row is final and true |
| Generic operations, documents (`server/lib.rs`) | - | execute_operation, upload_document | as the ledger; one answer per intent |
| Provider client (`provider/lib.rs`) | - | execute with its retry loop, upload_document, verify_quote_binding | retries only what Razorpay can recognise |
| Evidence (`core/evidence.rs`, `store/lib.rs`) | one chain of events per tenant | append, list, verify | one chain, no fork, no gap; edits are noticed |
| Webhooks (`server/lib.rs`, `store/lib.rs`) | the set of event identities | receive_webhook | accepted once, never acknowledged unrecorded |
| Money (`core/money.rs`) | none | exact conversion, checked arithmetic | exact or refused |
| Policy (`policy/lib.rs`) | the catalog | validate, validate_request | refuses inexact money and unknown operations |
| Signatures, identities (`core/`) | none | HMAC, parsing | - |
| Server boundary, CLI, assets | none | authentication, routing, commands | - |
| Test Mode runner (`live_e2e.py`, `live.py`) | a session file; the account at Razorpay | ten commands that send refunds and orders and report on them | reports are true of the account; a run makes the refunds it meant to make |
| Fault lab (`faultlab.py`) | the effects of a loopback server | one retry with and without an identity | counts what was committed |
| Webhook capture (`webhook_capture.py`, `webhook_evidence.py`) | a secret file, a file for each delivery | serve, POST, build the evidence | acknowledged means kept; nothing forged counts as valid |
| Probes (`probes/`) | none | three static and eight dynamic probes | a claim at the level it was gathered at |
| Conformance compiler (Python) | clones, artifacts | repos, scan, mobile-registry-evidence, build-chains, prove-fixes | verdicts rest on what was executed |
| Conformance engine (Rust) | none | scan, chains | - |
| Site | browser state | presentation | - |

### How they interact

A handler is an async function on a tokio runtime. Everything between two awaits is one step; at
each await other handlers run. The handlers share only SQLite: four tables, each changed by single
statements or by short deferred transactions. There is no transaction over two tables, so a request
is a sequence of commits (claim, evidence, complete, quote, evidence) with calls to Razorpay in
between, and it can be cut short at any of them: the client disconnects and the future is dropped,
a statement fails, the process dies. Nothing runs after a restart by itself; recovery is a client
repeating its request. Two mechanisms hold it together: the version of the quote
(`UPDATE ... AND version = ?`) and the claim of the intent (primary key of `effects`).

The Python commands are processes without a lock. They share files, written with `write_text`
(truncate, then fill): the session file of the experiments, the capture files, the clones and the
artifacts, where one command's output is another's input (`scan` and the Test Mode reports feed
`build-chains`). The experiments also share the payment they refund, whose state is at Razorpay.

### Hard behaviours

Concurrent requests on one quote with the same or with different intents; stale copies; lost, late
and ambiguous answers from Razorpay; retries of refunds; crashes between the commits of one request;
snapshots of SQLite that other commits make obsolete; repeated and concurrent webhook deliveries;
edits of the evidence table between export and verification; two experiments on one payment; a lost
or failed answer to a refund that Razorpay executes all the same; captures, clones and artifacts read while they are
being written, or left half-made by a kill; probes that raise. `PROJECT.json` lists each at its line,
with the property that watches it or the reason why none does yet.

## 2. Modules

| Module | Models | Abstract specification | Instance | Proofs |
|---|---|---|---|---|
| `Checkout` | quotes, checkout handlers, the two tables they use, Razorpay orders and payments | `Settlement` | `MCCheckout` | `CheckoutProofs` |
| `EffectLedger` | execute_guarded, upload_document, the retry loop of the client | `AtMostOnce` | `MCEffectLedger` | `EffectLedgerProofs` |
| `EvidenceChain` | append_evidence inside SQLite snapshots, the hash chain | `AppendOnlyLog` | through `MCWebhookInbox` and `MCEvidenceAudit` | `EvidenceChainProofs` |
| `EvidenceAudit` | EvidenceChain, exported heads, edits of the file, verify-evidence | - | `MCEvidenceAudit` | `EvidenceAuditProofs` |
| `WebhookInbox` | EvidenceChain, receive_webhook, record_webhook, Razorpay's deliveries | `AppendOnlyLog` | `MCWebhookInbox` | `WebhookInboxProofs` |
| `TestProvider` | Razorpay's answers to refunds and orders, from the recorded reports (external) | - | - | - |
| `TestModeScripts` | the requests of each Python command and the checks of its report | - | - | - |
| `TestModeRuns` | the commands as processes on one account and one session file | - | `MCTestModeRuns` | `TestModeRunsProofs` |
| `WebhookCapture` | the capture server, its secret and files, the evidence builder | - | `MCWebhookCapture` | `WebhookCaptureProofs` |
| `Probes` | what each probe claims of which source, and merge_findings | - | - | - |
| `Conformance` | the commands of the conformance compiler over clones and artifacts | - | `MCConformance` | `ConformanceProofs` |

`TestModeRuns` EXTENDS `TestModeScripts`, which EXTENDS `TestProvider`; `Conformance` EXTENDS `Probes`;
`EvidenceAudit` and `WebhookInbox` EXTEND `EvidenceChain`.

Operators named `Mut...` are plausible bugs (a dropped guard, a swapped order); each property of a
passing run is violated when the named definition is replaced by one of them. `PROJECT.json` lists
the pairs and maps every definition to the source lines it stands for.

### Checkout

`pc[h]` is the await request `h` is at, `req[h]` its parameters, `copy[h]` its local `Quote`,
`answer[h]` the provider response it holds. Each action is one await with the code up to the next:

| Action | Code |
|---|---|
| `CreateQuote` | `Quote::issue`, `insert_quote` |
| `CreateOrder` | `load_quote`; an `OrderBound` quote is answered at once, a later one refused |
| `ClaimOrder`, `AppendAccepted`, `SendOrder`, `ReceiveAnswer`/`LoseAnswer`, `FailEffect`, `AppendRejected`, `CompleteEffect`, `AppendResponse` | `execute_guarded` for `create_order` |
| `BindCopy`, `CommitCopy`, `AppendTransition` | `bind_order`, `update_quote`, `append_transition` |
| `StartVerifyPayment`, `FetchOrder`, `FetchPayment` | `verify_payment`; the signature is over the stored order |
| `StartFulfill`, `ClaimFulfill`, `CommitCopy`, `SettleFulfill` | `fulfill`, in the order of the code: claim, change the copy, update_quote, complete_effect |
| `Abort` | a disconnect, a store error or a crash at an await |
| `Expire`, `RazorpayCreates`, `RazorpayRefuses`, `Pay`, `Capture` | the clock, Razorpay and the customer |

Razorpay may answer 5xx after creating an order, and may create an order after the caller has given
up. The claim is one step: two deferred transactions that both read "no row" end with one insert and
one error, which is the same as one claim before an `Abort` of the other. The identifiers, the cart
and the currency are abstracted: `Price` is the total of a quote and amounts are compared only for
equality. `Cancelled` and `Expired` are never stored by any handler and have no state here.
`acks` records what 2xx responses said; it is a history variable, read by properties only.

### EffectLedger

Requests have a kind (the retry policy: `gateway_required` once, `refund_header` up to three times
under `X-Refund-Idempotency`, `document` once with its own code), a target (path and query) and a
body. `wire[i]` is every HTTP call made for intent `i` with its fate, so the provider may act on a
call nobody waits for any more. `ProviderRepeats` is Razorpay's promise about the refund header: it is
an assumption about Razorpay, as are its status codes. Requests refused before the claim change
nothing. The completion of a document differs from that of other writes, as in the code.

### EvidenceChain, EvidenceAudit, WebhookInbox

A deferred transaction of SQLite takes its snapshot at its first read. `tx[h]` is the snapshot of
appender `h`; `current` becomes false as soon as another commit happens, to any table, after which an
insert is refused (`SQLITE_BUSY_SNAPSHOT`). The unique index on `(tenant_id, previous_hash)` is
`HasSuccessor`; it says nothing of two first events, whose `previous_hash` is NULL, which SQLite
treats as distinct. A hash is the sequence of events it stands for, hence injective; collisions are
out of scope. `EvidenceAudit` adds three edits of the file: another event under the old hashes, a
deleted row, and a suffix recomputed with correct hashes. `WebhookInbox` puts `receive_webhook` on
top: `RecordWebhook` (INSERT OR IGNORE), `StartAppend`, `Acknowledge` or `Fail`.

### TestProvider, TestModeScripts, TestModeRuns

A command is a sequence of HTTP requests that does not branch on the answers but for its guards
("at least 500 refundable subunits", "exactly 101"), so it is data: `Script(r, c, rest, price)` is the
sequence for run `r`, and the `...Checks` operators are the `report["checks"]` of the code as
functions of the answers. `TestModeRuns` interprets the scripts. `runs[r]` is a command: where it is
(`at`), the answers it has, its copy of the session file and the rest it computed from a reading;
`ledgers[p]` is what Razorpay holds of the refunds of payment `p`, `late` what it may still execute, and
`labs[r]` the server a fault lab started:

| Action | Code |
|---|---|
| `Launch`, `LaunchFails` | `main`: the dispatch, the session file, the checks before the first request |
| `PostRefund`, `PostOrder`, `ListRefunds`, `FetchPayment`, `CreateLink`, `FetchLink`, `ListPayments` | one exchange with Razorpay and what the command makes of it |
| `PostLab` | one exchange with the fault lab's server: `EffectStore.commit`, then the answer or the dropped connection |
| `FailedAnswer`, `LoseAnswer` | an error status, which the refund and order probes record as "not accepted" and go on; a timeout or broken connection, which no command catches |
| `Truncate`, `Save` | the rewrite of the session file from the copy read at the start, emptied first |
| `ExecuteLate`, `Pay`, `Capture` | Razorpay executes what nobody waits for; customers |

Neither an error status nor a lost answer says that Razorpay did not act: `Unsettled` leaves the request
among those Razorpay may execute, at once or at any later time, while the run goes on, ends or reports
(`ExecuteLate`); a link may have been made. This is the same behaviour of Razorpay as in `Checkout` and
`EffectLedger`. A session file is None while it is empty, and may stay so: a crash between the two steps, or
another writer's longer text behind the new one, leaves a file that `Launch` cannot read.

The answers of Razorpay are those of `artifacts/razorpay-test`: at least 100 subunits, the same key
and body give the same refund, the same key with another body or the same receipt is refused, a
fractional amount is executed as 100 or refused. Where the recorded reports differ, both answers are
possible. A refusal carries every reason that applies, which the code does not see and
`RejectionsHaveOneCause` needs. A `list` whose total leaves too little stops the command; the matrix's second
look at its refunds (`relist`) tolerates an error, as the code does. Currencies and the Markdown reports are left out, as are the checks
that compare an amount with the one just sent.

### WebhookCapture

`servers[s]` runs `ensure_secret` and `serve` call by call, so two servers can both find no secret
file; `threads[t]` is one thread of `ThreadingHTTPServer` in `do_POST`, whose `write_text` is two steps
(`OpenCapture` truncates, `WriteCapture` fills). A capture is named by its microsecond: two deliveries
may share one. `build` is `build_webhook_byte_evidence`: it lists the directory (`StartBuild`), then reads
the files in the order of their names (`ReadCapture`: `todo` is what is left of the list, `IsNext` the
first of it) while deliveries go on; a torn file, or a literal body that is not JSON, raises. Bodies are
plain, literal (non-ASCII) or broken; a signature is the secret it was made with. `TypeOK` also says that a
thread past `WriteCapture` has its delivery on the disk (`Kept`).

### Probes, Conformance

A version of a repository is known by two sets of claims: those whose pattern its text has
(`Patterns[v]`, what the static probes read) and those whose defect shows when it is executed (`Defects[v]`,
what the dynamic probes run); a guard elsewhere may leave the text and heal the behaviour. It may lack files
the probes open (`Readable`). `git clone` sets HEAD before it has checked the files out, so a clone may be at a
commit with a part of its files: such a tree is a version of its own, not readable, and `Whole[v]` is the
version its commit stands for. Which files it lacks is not told apart, and no file is half-written.

Each static probe is the set of claims it makes; three of them differ from "the pattern is there": two
claims about the checkout generator are made wherever the truncation is found (`Inferred`), and one is
looked for only there (`Nested`). A dynamic probe yields its claims at level "dynamic" if its tool is there
and the source shows the defect; `GeneratedMoney` and `NodeSignature` execute expressions written in the probe,
and the probes in containers work on a fresh clone of the commit, hence on `Whole[v]`. What happens to each
probe in a scan is chosen from `Lucks`: it works, raises, or raises after its first observation.

`Conformance` runs the commands as processes:

| Action | Code |
|---|---|
| `Start`, `Kill` | `main` with a command line; a signal at any step |
| `CloneBegin`, `CloneEnd`, `CloneCheckout` | `git clone` in `clone_missing`: a `.git` without commit; HEAD set and the files on their way; the files there, or the checkout failed and what is there left behind |
| `ListRepositories`, `Inspect` | `inspect_repositories`: the commit of each clone, whatever files it has |
| `StaticProbes` (one step for each of the three), `DynamicProbes`, `Merge` | `scan`; the files are those of the moment, the commits those of the inspection |
| `Open`, `Write` | `write_text`: truncate, fill; then the exit code (`Gate`) |
| `LookUp`, `LoadScan`, `LoadRegistry` | `mobile-registry-evidence`; `build-chains`, one artifact after the other |
| `ProveFixes` | `prove-fixes`: for each SDK the counterexample, the replacement of text, the counterexample again |

The Python and Ruby proofs are `RedGreen`: the first run is on the clone as it is, the second on a new clone
of its commit with the text replaced. Each run prints what it saw, fails without output or does not end
(`FixRuns`); `Anchors[v]` are the claims whose text to replace is in the source, `Cures[v]` those that the
replacement heals. The proof says "fixed" when the first run showed the defect and the second did not, "not
fixed" when both ran and that is not so, and raises otherwise; Ruby without a `ruby` is "not fixed". The Go
proof takes any failure of its first run for red and does not look whether the text was there; the .NET
proof has no first run.

What git does (the order of fetch, HEAD and checkout, what it removes on failure) is external. The dynamic
probes are one step: each clone is read by at most one of them that does not clone it again. The evidence of
a finding is reduced to its level and commit, the position of a finding in the report is dropped (nothing
reads it), and the three Test Mode artifacts `build-chains` loads are one value: missing, with a failed check,
passed.

## 3. Runs

State counts are of the distinct states TLC finds.

| Run | Configuration | States | Shows |
|---|---|---|---|
| `checkout_crash` | 2 requests, 2 intents, 2 references, full and part payments, 2 aborts at any await | 482 000 | `LedgerInv`, `OwnersExclude`, `OneOrderPerIntent`, `EvidenceIsTruthful`, `PaidInFull`, `AcksAreKept`, `IntentsAreFinal`, refinement of `Settlement` |
| `checkout_two` | 2 quotes, 2 orders, 2 payments, shared intents | 542 000 | nothing of one quote reaches the other: `BoundToItsOwnOrder` |
| `checkout_recover` | 2 requests, 1 abort, fairness | 96 000 | an order recorded in the ledger is bound by repeating the request |
| `ledger_claim` | 2 requests of every kind, 2 bodies, a refused target, 2 aborts, fairness | 8 600 | `CompletedIsDeterminate`, `OneAnswerPerIntent`, `EvidenceMatchesLedger`, refinement of `AtMostOnce`, `PendingIsSettled` |
| `audit_edit` | 3 events, 3 edits | 342 000 | `VerifiedIsWhatWasExported` |
| `webhook_deliver` | 2 handlers, 2 events delivered 3 times each, 1 abort, 1 other commit | 2 480 000 | `AcceptedOnce`, `AcknowledgedIsRecorded`, `ChainVerifies`, refinement of `AppendOnlyLog` |
| `refund_rivals` | 12 plans: pairs of commands on one payment at the amounts their guards ask for, and a session that moves between payments; 2 faults (1 in two plans) | 975 000 | `OneEffectPerRun`, `ReportsAreTrue`, `ReportsAreComplete`, `CloseCloses`, `RejectionsHaveOneCause`, `OnlyFixturesAreRefunded` |
| `capture_serve` | 2 servers, 2 threads, 2 deliveries, 2 microseconds, 1 crash, one build | 3 970 000 | `AcknowledgedIsCaptured`, `ReportIsComplete`, `ReportIsHonest` |
| `conformance_commands` | 2 processes, 3 commands of 8, 13 worlds, 3 courses of the probes, 4 of the fixes, 1 kill | 760 000 | `ReportKeepsAllEvidence`, `PassingChainsWereExecuted`, `CleanGateMeansClean`, `RedToGreen` |
| `checkout_stuck`, `ledger_targets`, `webhook_lost` | small | - | violations, section 5 |

**Bounds.** Two requests suffice for every race on one row, since a row is changed only by compare
and swap or by a claim: a third would meet a row some other one changed. Two intents let two requests
compete for one or come with one each; two orders and two amounts let a wrong order and a wrong
payment exist; two aborts let both requests of a race be cut short, and one request and its
repetition. Two handlers and another commit let every appender's snapshot be outdated by the other
or by a commit to another table. Three edits can change, cut and
recompute one table. The bounded actions are `Abort` (`MaxAborts`), deliveries (`MaxDeliveries`),
commits to other tables (`MaxCommits`), edits (`MaxEdits`) and the identifiers Razorpay hands out
(`Orders`, `Payments`).

Of the experiments, two at a time on one payment let every reading be outdated by a rival between it
and the refund computed from it, and two faults let both the first request and its repetition be
lost; the prices are those at which the guards let a command through with nothing to spare. Two
deliveries and two threads let one be written while the other is read, and share a microsecond. Three
commands let a scan, another writer of its inputs or outputs, and the reader of the result overlap; the
worlds are those in which one tool, one clone, one pattern or one artifact is missing, one clone is a cut
checkout, keeps the text of a defect but not the defect (`guarded`), or is not healed by its fix (`stubborn`);
what is cloned during a run is a cut checkout first and the whole one next. The `faults` and `customers` of a
plan, `MaxTime`, `MaxCrashes`, `MaxCommands` and `MaxKills` are the bounds of these models.

**Deadlock** is checked in Checkout and EffectLedger. It is not in the runs on the chain: an appender,
auditor or inbox with no events left to append is at rest, which is not an error. Nor is it for the
Python commands, which end; the capture server is at rest when the bounded deliveries have come.

**Symmetry** is used for safety runs only; the requests, quotes, intents, references, orders, payments,
events, capture threads and servers and compiler processes are interchangeable there; the runs of
`TestModeRuns` are not, their commands differ. Runs with a liveness property use none.

**Fairness.** `WF` on the steps of a started handler: tokio polls a ready future, and reqwest's
timeouts (5 s to connect, 20 s in all) make `LoseAnswer` happen when Razorpay does not answer, so
`PendingIsSettled` needs nothing of Razorpay. `checkout_recover` also assumes that a client without an
order repeats its request (`SF` on `CreateOrder`). That is an assumption on the client: the service
has no worker that would do it. Aborts, expiry, customers and Razorpay are not fair.

## 4. Properties

- `OwnersExclude`: two requests with one intent are never both between the claim and its end.
- `OneOrderPerIntent`: an intent makes Razorpay create at most one order, also when it is retried after
  a lost answer or a crash.
- `IntentsAreFinal`: a completed or failed row never changes; a pending row keeps its meaning.
- `BoundToItsOwnOrder`: the order of a quote was created for it at its price, and its response is in the
  ledger before the quote is bound, which is what makes a crash in between recoverable.
- `PaidInFull`: a verified or fulfilled quote has a captured payment of its price on its order.
- `AcksAreKept`: what a 2xx told a client stays true of the stored quote.
- `EvidenceIsTruthful`: a transition is in evidence only after it is stored, and once.
- `ImplementsSettlement`: the handlers with their stale copies implement a sequential settlement.
- `CompletedIsDeterminate`: a completed gateway write succeeded if and only if Razorpay acted.
- `OneAnswerPerIntent`, `EvidenceMatchesLedger`, `ImplementsAtMostOnce`, `PendingIsSettled`: the same for
  the generic ledger with its retries.
- `ChainVerifies`, `ImplementsLog`: no fork, no gap, events only ever appended.
- `VerifiedIsWhatWasExported`: under an exported head, an accepted table is what was exported.
- `AcceptedOnce`, `AcknowledgedIsRecorded`: webhooks.

- `OneEffectPerRun`: an experiment that sends a refund twice makes one at most, with a rival on the same
  payment, failed and lost answers and late executions.
- `ReportsAreTrue`, `ReportsAreComplete`: each check a finished report calls true holds of the account,
  whoever else used it and whatever Razorpay executed behind an error status, and its refunds are all the
  refunds its run made. An error status is where this ends, and the properties say exactly how far: a report
  may miss a refund that stands behind one of its own error answers, and a fractional refund rejected with
  an error status may have been made (`ReportsMissNothing`, `RejectionsAreFinal` in section 5). Every other
  claim survives: an effect called one is one because both attempts carry one identity.
- `CloseCloses`: a refund meant to close a payment, computed from a reading that may be outdated, either
  closes it or is not made.
- `RejectionsHaveOneCause`: on a captured payment an undisturbed matrix credits no rejection to an identity
  that has another cause: the room it demands is enough for its conclusions.
- `OnlyFixturesAreRefunded`: however the session moves, the experiments refund only payments of links made
  for them.
- `AcknowledgedIsCaptured`, `ReportIsComplete`, `ReportIsHonest`: a delivery answered 200 is on the disk and in
  the next report (unless another shares its microsecond), and a report that calls all signatures valid
  counts none that Razorpay did not sign.
- `ReportKeepsAllEvidence`: a merged report has each claim once, with all evidence of all probes and the
  strongest level, from the versions it names.
- `PassingChainsWereExecuted`: when build-chains says that all nodes pass, the scan it read ran the SDKs in
  containers with every tool over sources that show the defects the executed nodes name, and have the
  patterns of the others.
- `CleanGateMeansClean`: a scan without probe errors that passes `--fail-on` met no defect of that severity.
- `RedToGreen`: when a fix report says that all are fixed, the Python and Ruby clones it names showed the
  defect before the fix and not after it, and no scan without probe errors passed the same clone over: scan
  and fix report agree although one read the text and the other ran the code, at different moments, of
  clones that other processes were making.

One type invariant per component (`TypeOK`, `ChainTypeOK`) fixes the values of tables and locals, and where a
local means something on the disk (a written capture, a script's end), that it does.

## 5. Where the code and its documents disagree

Runs that find a violation, with the quoted line in `PROJECT.json`:

- `checkout_stuck`: fulfill claims its intent before it knows that the quote can be fulfilled and does not
  release it on failure. A client that asks too early is told "already in flight" for ever.
- `ledger_targets`: an intent is identified by operation and body. The path is not included, so the
  capture of another payment with an equal body replays the answer of the first.
- `webhook_lost`: the event identity is recorded in one transaction and accepted in another; if the
  second fails, the redelivery is acknowledged as a duplicate of an event that was never accepted.

Stated in the modules and false in the model, without a run of their own (put the name as INVARIANT
into the configuration given to see the counterexample):

- `OneOrderPerQuote` (`Checkout_crash.cfg`; `openapi.yaml`: "Create and bind exactly one Razorpay Test Mode
  order"): two create_order requests with different intents create two orders for one quote; the second
  is found out only when it cannot be bound, and stays payable at Razorpay.
- `FulfillReturnsFulfilledQuote` (`Checkout_crash.cfg`): a replayed fulfill answers 200 with the copy
  it loaded before the first one committed.
- `EveryChangeHasEvidence` (`Checkout_crash.cfg`): a request cut short between a commit and
  `append_transition` leaves a change without an event.
- `RejectedIsDeterminate` (`EffectLedger_claim.cfg`): a refund applied on an attempt whose answer was
  lost may be stored as rejected when the last attempt is answered 429.
- `ServerErrorFreezes` (`EffectLedger_claim.cfg`): upload_document completes an intent with a 5xx.
- `ChainIsVerifiable` (`EvidenceAudit_edit.cfg` with `Window = 2`): verify-evidence reads the newest 500
  events and expects the first of them to have no predecessor.
- `ReportsMissNothing`, `RejectionsAreFinal` (`TestModeRuns_rivals.cfg`): the commands record any status that is
  not 2xx as "not accepted" and finish their report, and Razorpay may have executed the request, or execute it
  later. The report then misses a refund of its own run, and the matrix may report
  `fractional_subunit_rejected` of a fractional refund that was made. The reports do not tell a refusal from
  an error.
- `CommandIsWhatWasAsked` (`TestModeRuns_rivals.cfg`): `live-refund-close --identity receipt` runs with the
  header, because `main` does not pass the option on. `live-refund-matrix` does not run at all from the
  command line: `main` reads `args.identity`, which its parser does not define, and passes `mechanism`,
  which `run_refund_identity_matrix` does not take. (In the model the plans with via "main".)
- `RoomIsEnough` (`TestModeRuns_rivals.cfg` with a price between 500 and 599): "identity matrix requires at
  least 500 refundable subunits", but when Razorpay executes the fractional probe as 100 the final
  refund would be below the minimum, and the matrix stops in the middle, with no report.
- `OnlyCapturedAreProbed` (`TestModeRuns_rivals.cfg`): the guards of `live-refund-matrix`, `-close`, `-ledger` and
  `-dust` say "private session has no captured Test payment" but ask only for a payment id, which
  `live-refresh` also writes for an authorized payment. Razorpay then refuses every refund, and the report
  of the matrix counts three of these refusals as rejections by a boundary (`over_refund_rejected` and
  others). `RejectionsHaveOneCause` therefore asks for a captured payment.
- `ConfirmedIsPresent` (`Conformance_commands.cfg`): report.py says that "confirmed_static" means "the violation
  is directly present in pinned official source" and "confirmed_dynamic" that the run executed the SDK
  "or the exact emitted expression". Two static claims are made of any generator that truncates, and two
  dynamic probes execute expressions of their own, so a claim can be confirmed of a source that no
  longer has it.

Two more observations that no document contradicts: a gate (`--fail-on`) passes a scan whose probes died,
and the .NET fix proof quotes its "before" from an earlier scan (`RedToGreen` leaves it out, as it does the
Go proof, where any failure of docker counts as red). Two servers started together may overwrite each other's
secret, after which the report checks genuine deliveries against the wrong one and calls them invalid.

## 6. Proofs

Checked by TLAPS for every value of the constants; the only assumptions are the named ASSUMEs of the
modules: types of the constants, `None` and the other marks distinct from every value, record and identity
they stand beside; of the plans of `TestModeRuns` (`PlansAssumption`) that prices and customers are positive and
every command is one the parser knows; of the versions of `Probes` (`WholeAssumption`) that a cut checkout has
the patterns and defects of the commit it is a checkout of; and of `Conformance` that the text a fix replaces
holds the pattern its static probe reads (`AnchorsAssumption`), as the two string constants in the code do.
TLC evaluates them on every run. Nothing is assumed of Razorpay's error answers; what is assumed of Razorpay is
in the definitions: its promise about the refund header and receipts (`ProviderRepeats` in `EffectLedger`,
`TestProvider`), also for requests it executes late.

- **TypeCorrect** (`Spec => []TypeOK`). `TypeOK` alone is not inductive: a handler at `fetch_payment` must
  be known to carry a payment. `TypeInv` adds `RequestsFit`, which says what a request carries at each
  await. Lemmas `FinishLocals`, `GotoLocals` and `StartLocals` deal with the locals once for all actions.
- **ClaimsExclude**, **AtMostOneOrder** (`OwnersExclude`, `OneOrderPerIntent`). The invariant is
  `LedgerInv`: types, `LedgerMatchesWire` and the two properties. That one order exists per intent does not
  follow from itself: it needs that an order exists only once its request was answered, that nothing is
  on the wire before the owner sends it, and that a row with an owner is pending, so that no second claim
  can be made. `WritesRow` collects the actions that change a row; each of them owns it.
- **FinalIntents** (`IntentsAreFinal`): from the same invariant, as an action property: an action that
  writes a row finds it absent or pending, and `Resolved` keeps operation and body.
- **SettleInvariant**, **OwnOrders**, **OnlyAgainstMoney**, **KeptAcks**, **TruthfulEvidence**,
  **CheckoutSettles** (`Checkout` against `Settlement`). The invariant is `SettleInv`, `LedgerInv` with what a
  handler knows. None of these properties is inductive: a handler commits a row it computed several awaits
  ago, so the invariant must say why that copy is still right. The version of a row counts its stages
  (`Backed`); a copy is the stored row, an earlier one or, at "commit", one that follows an earlier one
  (`KeptBy`, `Follows`), so the compare-and-swap succeeds only on the row the copy was made of. What a stage
  rests on, an order in the ledger or a captured payment, is final (`Grows`), so a copy does not lose its
  backing while it waits; that the ledger replays the right order is `IntentKnows`. `OneCommitter` (one handler
  per committed version, which has not appended it yet) carries the evidence. One lemma per conjunct and
  kind of step: `HandlerStep`, `IntentStep`, `AckStep`, `CommitterStep`, `EvidenceStep`. In the refinement
  (`StepMaps`) `CreateQuote`, a successful `CommitCopy`, `RazorpayCreates` and `Capture` are abstract steps.
- **ChainTypeCorrect**, **NoForksNoGaps** (`ChainTypeOK`, `ChainVerifies`). The invariant is `ChainInv`: types,
  `SnapshotIsNewest` (a snapshot that is still current holds the newest hash) and `ChainVerifies`. The middle
  part carries the argument: an insert is possible only under a current snapshot, hence links to
  the newest event.
- **ChainIsALog** (`ImplementsLog`): a refinement; an insert is one `Record`, other steps stutter.
- **LedgerTypeCorrect**, **OneAnswer**, **EvidenceAgrees**, **DeterminateWhenCompleted**,
  **LedgerIsAtMostOnce** (`EffectLedger`). The invariant is `EffectInv`. Its argument is ownership: the claim
  lets in one handler per intent (`OwnersExclude`), so row, calls and evidence of an intent move only with
  that handler (`HandlerOK`) and with Razorpay, and what they say of each other (`IntentOK`) survives the
  handler: there is one call per intent unless the intent is a refund with a header, at most one call was
  applied, an answer in the row is an answer Razorpay gave. `LedgerIsAtMostOnce` is a refinement
  (`AbstractStep`): a call that is applied, in time or late, raises the number of applied calls from zero to
  one (`AppliedCount`, `NotApplied`), a write of the row is one abstract step, everything else stutters. The refund case rests on `ProviderRepeats`, Razorpay's promise.
- **InboxTypeCorrect**, **AcceptedAtMostOnce**, **AcknowledgedStaysRecorded**, **InboxChainVerifies**,
  **InboxIsALog** (`WebhookInbox`). The invariant is `InboxInv`: `ChainInv`, whose lemmas are used again, and
  `OneAccepts`: the handler whose INSERT changed a row is alone in the right to accept the event, and has it
  only while no acceptance is in evidence. Uniqueness cannot be shown of the evidence alone, because a
  second handler could already be between its INSERT and its append.
- **CaptureTypeCorrect**, **AcknowledgedStaysCaptured**, **FinishedReportIsComplete**, **ValidReportIsHonest**
  (`WebhookCapture`). The invariant is `CaptureInv`. Its argument is who may write a file: a thread writes only
  the file of its own delivery, which is not acknowledged while it does (`OwnDelivery`); a promised delivery is
  counted already or its file is still to be read (`PromisesInSight`); who has no secret makes no valid
  signature (`ForgedIsInvalid`). That two deliveries may share a microsecond is an exception in the
  statement (`Shared`), not an assumption.

- **AuditTypeCorrect**, **AuditIsSound**, **WindowDecides** (`EvidenceAudit`). That a table verifies under an
  exported head only if it is what was exported needs no history: in any table that verifies, the hash of a
  row is the sequence of events up to it (`LinksStandForEvents`: a first row for which it is not would break
  its own link), so an equal head means equal events, whatever edits made the table. `WindowDecides` is
  the other direction: an unedited chain, which `ChainInv` describes (`AuditInv`), is accepted exactly as
  long as it fits into the events read. Without that hypothesis it is false: see `ChainIsVerifiable`.
- **CompilerInvariant**, **ConformanceTypeCorrect**, **EveryReportKeepsAllEvidence**,
  **ChainsThatPassWereExecuted**, **CleanScansAreClean**, **FixesAreRedToGreen** (`Conformance`). The properties
  speak of reports, which are written several steps after what they rest on was read, and possibly by
  another process. `CompilerInv` therefore says of every process what its results were gathered from
  (`Gathered`), of its report that it is what those results merge to (`ScanReport`), and of every artifact
  on the disk what was true when it was made (`FilesFit`, `ReportSound`). A clone somebody has inspected keeps its
  commit, and its files come with that commit (`Settled`, `Onward`, `CloneUnseen`, `ClonesApart`): each probe may
  meet another tree of it (`Trees`), cut or whole. A probe without an error met the whole one
  (`Untroubled`, `StaticProbesSeeAll`), so a clean scan tells what the commit has, and `RedFollows` sets it
  against what the fix report was made of (`WasRed`): the proof of `FixesAreRedToGreen` is that the two commands
  agree about one commit although neither has seen the other's files. About the probes: each claims only what it read or ran (`StaticProbesRead`,
  `DynamicProbesRan`), and `MergeFindings` shows of `merge_findings`, for any number of results, that every claim
  is kept once, with all its evidence and its strongest level.
- **AccountInvariant**, **TestModeTypeCorrect**, **RefundersMakeOneEffect**, **ClosingRefundsClose**,
  **SessionsNameFixtures**, **ReportsTellTheTruth**, **ReportsTellAll**, **MatrixIsolatesCauses** (`TestModeRuns`), for
  any number of commands, plans and faults. The invariant is `AccountInv`:
  - `LedgerFits`: no ledger has two refunds of one key or one receipt or more than the price, and a closing
    refund leaves nothing; this is Razorpay's side of the promise and follows from `TestProvider`.
  - `EntriesFit`, `LateFits`, `MadeBy`: every refund made, and every request that may still be executed, names its
    process, was made for that process's payment and with the identity its command uses throughout. A late
    request is one its maker was not told of: the maker has stopped, or was answered with an error status
    (`Errored`). A late fractional refund is the only one of its maker (`Single`).
  - `Accounted`: every refund a process was told of is its own, and every one it made is one it was told of or
    stands behind one of its error answers. This is what makes reports true and as complete as they are. That
    a claim such as "one effect" survives an error status needs the identities in addition: a second attempt
    that was accepted and a first one executed late carry the same key, so they are one entry (`LedgerFits`).
  - `Read`, `ClosesAll`: what was read as refunded can only have grown, so the rest a closing refund asks for is
    at least what is left: either it closes the payment or Razorpay refuses it (`CloseCloses`).
  - `Placed`, `Found`, `SessionFits`: a session, however stale the copy that was saved, names a payment of a
    link the program made; `Ordered` and `Served` do the same for orders and the fault lab.
  - `Roomy` with `Bounded`, `Weight`, `Held` and `Explained`: how much of the room of 500 an undisturbed matrix can have
    used at each of its 14 requests, also through requests it believes rejected, hence why no refusal is for
    lack of balance.

  One lemma per action shows that it keeps the invariant (`PostRefundStep` is the longest); `AnswerStep` and
  `AccountStep` reduce the others to the process that acts and the account it acts on. That a property
  follows from the invariant is a lemma of its own (`...Follows`, `...Report`). The search for the invariant
  showed that `RejectionsHaveOneCause` had to speak of a captured payment (section 5, `OnlyCapturedAreProbed`).

**Sums and loops.** Three results are about what a loop computes: the total of a ledger (`TotalAppend`), the
hashes of a chain and the merge of the findings. They are proved without an induction schema: the turns
for which the claim fails are a set of naturals, which has a least element if it has one at all
(`LeastNatural`, from `NatLessThanWellFounded` and `WFMin`), and the turn before it refutes that. The functions themselves
are shown to exist in the same way (`LoopRuns`). `TestProvider` and `Probes` therefore define their loops as
functions on `0..n`, and the scripts of `TestModeScripts` are explicit sequences.

**Only model-checked:** liveness (`PendingIsSettled`, `RecordedOrdersAreBound`), which is beyond the prover. Every
other property of a passing run is a theorem. The violated properties of section 5 are TLC's
counterexamples, and so are the statements listed there without a run. A theorem speaks of the model: that
`TestProvider` answers as Razorpay does, and that `Patterns`, `Defects`, `Anchors` and `Cures` are what the sources
have and the fixes do, is given.

## 7. Not modelled, and why

HMAC and hashing (cryptography is assumed: a signature verifies or the request changes nothing, a hash is
injective); URLs, headers, document sniffing, JSON shape (no state); authentication and routing (a
refused request changes nothing); tenants other than in the chain (every statement is keyed by tenant);
reads of the generic surface (they append evidence only). Money arithmetic and the policy catalog (Rust)
are pure functions and are planned. Refunds and disputes of a payment after verify_payment are outside
Checkout: `fulfill` does not look at Razorpay again. Expiry after the money was captured is modelled
(`Expire`), and it leaves the payment unfulfillable; no document says what should happen then.

Of the Python package: the Markdown renderings, the titles and positions of findings, and the regular
expressions that recognise a pattern in an SDK's source (which patterns a version has is given by the
instance); the third-party runtimes (a tool is there or not, works or not); currencies of the experiments;
`snapshot_local`, which no command calls; `money.py` other than as the exact conversion the .NET fix proof
compares with. The Rust engine repeats the Python compiler's detectors over source text. The site, the
artifacts, the research notes and the build files have no behaviour of their own.

## 8. Plan

Done: `Checkout` with `Settlement` and all their safety theorems; `EffectLedger` with `AtMostOnce` and
`EvidenceChain` with `AppendOnlyLog`; `EvidenceAudit`, `WebhookInbox`, `WebhookCapture`; the fault lab and the
Test Mode experiments (`TestModeRuns`); the probes and the conformance compiler (`Conformance`); each with
theorems for all its safety properties.

Next, in this order:

1. `AppendOnlyLog` and `Settlement` by themselves: what their clients may rely on (a log's prefix is kept, a
   quote's stages are taken in order), as theorems that the refinements then carry to the detailed models.
2. Composition of the generic operations with Checkout: a quoted write sent for a quote that has moved on,
   a refund between verify_payment and fulfill.
3. `Money` (conversion, quantum, checked arithmetic of a quote at width 2^w) against exact arithmetic, and
   `PolicyCatalog` (validate, validate_request, enforce_quote_binding); `resend_otp` and `submit_otp`
   require a quote but have no money field, so enforce_quote_binding refuses them always.
4. The Rust engine's chain compilation against the definition of the Python one.

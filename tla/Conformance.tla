---------------------------- MODULE Conformance ----------------------------
(***************************************************************************)
(* The conformance compiler of razorproof: processes that run its commands  *)
(* repos, scan, mobile-registry-evidence, build-chains and prove-fixes over *)
(* one directory of clones and one directory of artifacts.  There is no     *)
(* lock: a scan meets clones that are being made, a build meets artifacts   *)
(* that are being written, and any process may be killed.                   *)
(***************************************************************************)
EXTENDS Probes

CONSTANTS
    Processes,
    None,
    Torn,        \* the content of a file truncated and not yet filled
    Partial,     \* a clone in the making: a .git directory and no commit
    Upstream,    \* the versions a fetch may bring, files checked out or not yet
    Anchors,     \* Anchors[v]: the claims whose fix finds the text it replaces in v
    Cures,       \* Cures[v]: the claims that the fix of v heals
    FixRuns,     \* how the runs before and after the fixes may go
    Worlds,      \* the places a run starts from: disk, tools, provider
    Commands,    \* command lines the processes may be given
    Lucks,       \* what may happen to the dynamic probes of a scan
    Answers,     \* what npm may say of the three packages
    MaxCommands, \* bounds the commands
    MaxKills     \* bounds the processes killed

ASSUME BoundsAssumption == MaxCommands \in Nat /\ MaxKills \in Nat

ASSUME MarksAssumption ==
    /\ None # Partial
    /\ {None, Partial} \cap Versions = {}
    /\ None \notin {0, 1, 2}

ASSUME UpstreamAssumption == Upstream \subseteq Versions

\* The text a fix of an SDK replaces holds the pattern its static probe reads.
ASSUME AnchorsAssumption == \A v \in Versions : Anchors[v] \subseteq Patterns[v]

\* A run ends and prints what it saw, ends with an error status and prints
\* nothing, or does not end in time (or is not started at all).
ASSUME FixRunsAssumption ==
    LET Outcomes == {"ran", "failed", "raised"} IN
    FixRuns \subseteq [{"python", "ruby", "mcp", "dotnet"} -> [before : Outcomes, after : Outcomes]]

ASSUME WorldsAssumption ==
    \A w \in Worlds :
        /\ w.disk \in [Repositories -> Versions \cup {None, Partial}]
        /\ w.provider \in {"missing", "failed", "passed"}

\* What argparse accepts.
CommandLines ==
    [name : {"repos"}]
    \cup [name : {"scan"}, dynamic : BOOLEAN, containers : BOOLEAN,
          failOn : {"none", "critical", "high"}, output : {"latest", "expanded"}]
    \cup [name : {"mobile-registry-evidence"}, output : {"registry"}]
    \cup [name : {"build-chains"}, output : {"chains"}]
    \cup [name : {"prove-fixes"}, containers : BOOLEAN, output : {"fixes"}]

ASSUME CommandsAssumption == Commands \subseteq CommandLines

VARIABLES
    disk,      \* the clones: None, Partial or a version
    tools,     \* the runtimes on the machine
    provider,  \* the Test Mode artifacts: "missing", "failed" or "passed"
    files,     \* the artifacts this module writes: None, Torn or a report
    cli,       \* the processes: where they are and what they hold
    commands,  \* how many commands were started
    kills      \* how many processes were killed

vars == <<disk, tools, provider, files, cli, commands, kills>>

Files == {"latest", "expanded", "registry", "chains", "fixes"}

Off == [at |-> "off", cmd |-> None, found |-> <<>>, results |-> <<>>, report |-> None, code |-> None]

Init ==
    \E w \in Worlds :
        /\ disk = w.disk
        /\ tools = w.tools
        /\ provider = w.provider
        /\ files = [f \in Files |-> None]
        /\ cli = [p \in Processes |-> Off]
        /\ commands = 0
        /\ kills = 0

\* git rev-parse HEAD: a clone in the making has no commit.
Commit(r) == IF disk[r] = Partial THEN None ELSE Whole[disk[r]]

\* The clones inspect_repositories returns, by commit; it raises at a directory
\* with a .git and no commit, and does not look at the files.
Found == [r \in {x \in Repositories : disk[x] # None} |-> Commit(r)]
MutInspectable == TRUE
Inspectable == \A r \in Repositories : disk[r] # Partial

\* The files that process p finds now in the clones it inspected before.
Now(p) == [r \in DOMAIN cli[p].found |-> disk[r]]

Goto(p, at) == cli' = [cli EXCEPT ![p].at = at]
Exit(p, code) == cli' = [cli EXCEPT ![p] = [@ EXCEPT !.at = "done", !.code = code]]

Start(p, c) ==
    /\ cli[p].at \in {"off", "done"}
    /\ commands < MaxCommands
    /\ commands' = commands + 1
    /\ cli' = [cli EXCEPT ![p] = [Off EXCEPT !.at = c.name, !.cmd = c,
                                   !.report = IF c.name = "repos" THEN 0 ELSE None]]
    /\ UNCHANGED <<disk, tools, provider, files, kills>>

Local == UNCHANGED <<disk, tools, provider, files, commands, kills>>

(***************************************************************************)
(* repos --clone-missing: one repository after the other; what has a .git   *)
(* is left alone.  git fetches, sets HEAD and checks the files out.  It     *)
(* removes what it made when the fetch fails, not when the checkout fails   *)
(* and not when it is killed.                                               *)
(***************************************************************************)
OFFICIAL_REPOSITORIES == <<"mcp", "python", "java", "node", "go", "dotnet", "php", "ruby">>

\* The repositories not yet visited that have no .git; report is the place of
\* the last one cloned.
MutMissing(p) == {i \in DOMAIN OFFICIAL_REPOSITORIES : i > cli[p].report}

Missing(p) == {i \in DOMAIN OFFICIAL_REPOSITORIES :
                  i > cli[p].report /\ disk[OFFICIAL_REPOSITORIES[i]] = None}

CloneBegin(p) ==
    /\ cli[p].at = "repos"
    /\ Missing(p) # {}
    /\ LET i == CHOOSE i \in Missing(p) : \A j \in Missing(p) : i <= j IN
        /\ disk' = [disk EXCEPT ![OFFICIAL_REPOSITORIES[i]] = Partial]
        /\ cli' = [cli EXCEPT ![p].at = "cloning", ![p].report = i]
    /\ UNCHANGED <<tools, provider, files, commands, kills>>

CloneEnd(p) ==
    /\ cli[p].at = "cloning"
    /\ LET r == OFFICIAL_REPOSITORIES[cli[p].report] IN
        \/ \E v \in Upstream : disk' = [disk EXCEPT ![r] = v] /\ Goto(p, "checkout")
        \/ disk' = [disk EXCEPT ![r] = None] /\ Exit(p, 1)
    /\ UNCHANGED <<tools, provider, files, commands, kills>>

CloneCheckout(p) ==
    /\ cli[p].at = "checkout"
    /\ LET r == OFFICIAL_REPOSITORIES[cli[p].report] IN
        \/ disk' = [disk EXCEPT ![r] = Whole[@]] /\ Goto(p, "repos")
        \/ disk' = disk /\ Exit(p, 1)
    /\ UNCHANGED <<tools, provider, files, commands, kills>>

ListRepositories(p) ==
    /\ cli[p].at = "repos"
    /\ Missing(p) = {}
    /\ Exit(p, IF ~ Inspectable THEN 1 ELSE IF DOMAIN Found = Repositories THEN 0 ELSE 2)
    /\ Local

(***************************************************************************)
(* scan: inspect, static probes, dynamic probes, merge, write, gate.  The   *)
(* commits are those of the inspection; the files are those of the moment a *)
(* probe reads them.                                                        *)
(***************************************************************************)
Inspect(p) ==
    /\ cli[p].at \in {"scan", "prove-fixes"}
    /\ IF Inspectable
       THEN cli' = [cli EXCEPT ![p].at = IF @ = "scan" THEN "static" ELSE "fixes", ![p].found = Found]
       ELSE Exit(p, 1)
    /\ Local

\* The three static probes, one after the other.
StaticProbes(p) ==
    /\ cli[p].at = "static"
    /\ LET n == Len(cli[p].results) + 1 IN
        cli' = [cli EXCEPT ![p].at = IF n < 3 THEN @ ELSE IF cli[p].cmd.dynamic THEN "dynamic" ELSE "merge",
                           ![p].results = Append(@, run_static_probes(Now(p))[n])]
    /\ Local

\* No two of the dynamic probes read the files of the same clone.
DynamicProbes(p) ==
    /\ cli[p].at = "dynamic"
    /\ \E luck \in Lucks :
        cli' = [cli EXCEPT ![p].at = "merge",
                    ![p].results = @ \o run_dynamic_probes(Now(p), cli[p].cmd.containers, tools, luck)]
    /\ Local

Merge(p) ==
    /\ cli[p].at = "merge"
    /\ cli' = [cli EXCEPT ![p].at = "open",
                          ![p].report = [findings |-> merge_findings(cli[p].results),
                                         found |-> cli[p].found,
                                         containers |-> cli[p].cmd.dynamic /\ cli[p].cmd.containers]]
    /\ Local

Barred(failOn) ==
    CASE failOn = "none" -> {} [] failOn = "critical" -> Critical [] failOn = "high" -> Critical \cup High

\* --fail-on looks at the findings; a probe that ended in an error does not count.
MutGate(failOn, findings) ==
    IF \E f \in findings : f.level = "dynamic" /\ f.id \in Barred(failOn) THEN 1 ELSE 0

Gate(failOn, findings) == IF \E f \in findings : f.id \in Barred(failOn) THEN 1 ELSE 0

(***************************************************************************)
(* Every report is written with write_text: truncate, then fill.  Two       *)
(* writers of one file may leave the one's text with the other's tail.      *)
(***************************************************************************)
Open(p) ==
    /\ cli[p].at = "open"
    /\ files' = [files EXCEPT ![cli[p].cmd.output] = Torn]
    /\ Goto(p, "write")
    /\ UNCHANGED <<disk, tools, provider, commands, kills>>

Contended(p) ==
    \/ files[cli[p].cmd.output] # Torn
    \/ \E q \in Processes \ {p} : cli[q].at = "write" /\ cli[q].cmd.output = cli[p].cmd.output

\* The exit code of the command whose report is written.
Verdict(c, report) ==
    CASE c.name = "scan" -> Gate(c.failOn, report.findings)
      [] OTHER -> IF report.checks THEN 0 ELSE 1

Write(p) ==
    /\ cli[p].at = "write"
    /\ \E content \in {cli[p].report} \cup (IF Contended(p) THEN {Torn} ELSE {}) :
        files' = [files EXCEPT ![cli[p].cmd.output] = content]
    /\ Exit(p, Verdict(cli[p].cmd, cli[p].report))
    /\ UNCHANGED <<disk, tools, provider, commands, kills>>

(***************************************************************************)
(* mobile-registry-evidence: three lookups; an answer other than 200 is a   *)
(* package that does not exist, no answer at all ends the command.          *)
(***************************************************************************)
RegistryChecks(a) ==
    /\ a.missing = "404"
    /\ a.suspicious = "empty"      \* an empty package, hence not Razorpay's
    /\ a.official = "razorpay"

LookUp(p) ==
    /\ cli[p].at = "mobile-registry-evidence"
    /\ \E a \in Answers :
        IF \E package \in DOMAIN a : a[package] = "none"
        THEN Exit(p, 1)
        ELSE cli' = [cli EXCEPT ![p].at = "open", ![p].report = [checks |-> RegistryChecks(a)]]
    /\ Local

(***************************************************************************)
(* build-chains: load the five artifacts in turn, then judge every node     *)
(* that claims evidence.  The scan is always the one in artifacts/expanded. *)
(***************************************************************************)
LevelIn(scan, id, levels) == \E f \in scan.findings : f.id = id /\ f.level \in levels

RefundChain(scan, tests) ==
    LevelIn(scan, "RP-MCP-REFUND-TRUNCATION", {"dynamic"}) /\ tests = "passed"

CheckoutChain(scan, tests) ==
    /\ LevelIn(scan, "RP-MCP-GENERATOR-UNTRUSTED-ECONOMICS", {"static", "dynamic"})
    /\ LevelIn(scan, "RP-MCP-GENERATOR-CURRENCY-EXPONENT", {"dynamic"})
    /\ tests = "passed"

MobileChain(scan) == LevelIn(scan, "RP-MCP-MOBILE-MISSING-SIGNATURE", {"static"})

MutTenantChain(scan) ==
    \A id \in {"RP-DOTNET-GLOBAL-AUTH-STATE", "RP-PHP-GLOBAL-AUTH-STATE", "RP-JAVA-GLOBAL-PARTNER-HEADERS"} :
        LevelIn(scan, id, {"static", "dynamic"})

TenantChain(scan) ==
    \A id \in {"RP-DOTNET-GLOBAL-AUTH-STATE", "RP-PHP-GLOBAL-AUTH-STATE", "RP-JAVA-GLOBAL-PARTNER-HEADERS"} :
        LevelIn(scan, id, {"dynamic"})

DocumentChain(scan) ==
    \A id \in {"RP-JAVA-UPLOAD-MIME", "RP-JAVA-UPLOAD-DUPLICATE-FILE-PART"} :
        LevelIn(scan, id, {"dynamic"})

PackageChain(scan, registry) ==
    LevelIn(scan, "RP-MCP-MOBILE-DEPENDENCY-CONFUSION", {"static"}) /\ registry.checks

\* A node whose finding the scan does not have at all stops the build.
Needed ==
    {"RP-MCP-REFUND-TRUNCATION", "RP-MCP-GENERATOR-UNTRUSTED-ECONOMICS",
     "RP-MCP-GENERATOR-CURRENCY-EXPONENT", "RP-MCP-MOBILE-MISSING-SIGNATURE",
     "RP-DOTNET-GLOBAL-AUTH-STATE", "RP-PHP-GLOBAL-AUTH-STATE", "RP-JAVA-GLOBAL-PARTNER-HEADERS",
     "RP-JAVA-UPLOAD-MIME", "RP-JAVA-UPLOAD-DUPLICATE-FILE-PART",
     "RP-MCP-MOBILE-DEPENDENCY-CONFUSION"}

Chains(scan, tests, registry) ==
    /\ RefundChain(scan, tests)
    /\ CheckoutChain(scan, tests)
    /\ MobileChain(scan)
    /\ TenantChain(scan)
    /\ DocumentChain(scan)
    /\ PackageChain(scan, registry)

LoadScan(p) ==
    /\ cli[p].at = "build-chains"
    /\ CASE files["expanded"] = None -> Exit(p, 2)
         [] files["expanded"] = Torn -> Exit(p, 1)
         [] OTHER -> IF provider = "missing"
                     THEN Exit(p, 2)
                     ELSE cli' = [cli EXCEPT ![p].at = "load", ![p].report = files["expanded"]]
    /\ Local

LoadRegistry(p) ==
    /\ cli[p].at = "load"
    /\ LET scan == cli[p].report IN
       CASE files["registry"] = None -> Exit(p, 2)
         [] files["registry"] = Torn -> Exit(p, 1)
         [] ~ Needed \subseteq {f.id : f \in scan.findings} -> Exit(p, 2)
         [] OTHER -> cli' = [cli EXCEPT ![p].at = "open",
                        ![p].report = [checks |-> Chains(scan, provider, files["registry"]),
                                       scan |-> scan]]
    /\ Local

(***************************************************************************)
(* prove-fixes: the counterexample on the clone, the fix on a disposable    *)
(* clone of its commit, the counterexample on that.                         *)
(***************************************************************************)
\* v: the files of the clone.  Before and after are compared when both runs
\* printed what they saw and the text to replace was there.
MutRedGreen(id, v, run) ==
    IF v \in Readable /\ Whole[v] \in Readable /\ run.before = "ran" /\ run.after = "ran"
    THEN IF id \in Cures[Whole[v]] THEN "fixed" ELSE "not fixed"
    ELSE "raises"

RedGreen(id, v, run) ==
    IF /\ v \in Readable /\ run.before = "ran"
       /\ Whole[v] \in Readable /\ id \in Anchors[Whole[v]] /\ run.after = "ran"
    THEN IF id \in Defects[v] /\ id \in Cures[Whole[v]] THEN "fixed" ELSE "not fixed"
    ELSE "raises"

\* "raises", "fixed" or "not fixed".
PythonFix(v, has, run) ==
    IF "python3" \notin has THEN "raises" ELSE RedGreen("RP-PYTHON-WEBHOOK-BYTES", v, run)

RubyFix(v, has, run) ==
    IF "ruby" \notin has THEN "not fixed" ELSE RedGreen("RP-RUBY-PAYLINK-ORDER", v, run)

\* Red and green are the status of one test, and a docker that fails is red;
\* what the text to replace is not looked for.
McpFix(v, has, run) ==
    IF "docker" \notin has \/ Whole[v] \notin Readable \/ "raised" \in {run.before, run.after}
    THEN "raises"
    ELSE IF /\ run.before = "failed" \/ "RP-MCP-REFUND-TRUNCATION" \in Defects[Whole[v]]
            /\ run.after = "ran" /\ "RP-MCP-REFUND-TRUNCATION" \in Cures[Whole[v]]
         THEN "fixed" ELSE "not fixed"

\* The state before the fix is not run: it is quoted from an earlier scan.
DotnetFix(v, has, run) ==
    IF "docker" \notin has \/ Whole[v] \notin Readable \/ run.after = "raised" THEN "raises"
    ELSE IF /\ run.after = "ran"
            /\ {"RP-DOTNET-GCM-NONCE-REUSE", "RP-DOTNET-WEBHOOK-ASCII"} \subseteq Cures[Whole[v]]
         THEN "fixed" ELSE "not fixed"

prove_fixes(now, containers, has, runs) ==
    LET when(repo, P(_, _, _)) ==
            IF repo \in DOMAIN now THEN {P(now[repo], has, runs[repo])} ELSE {} IN
    when("python", PythonFix) \cup when("ruby", RubyFix)
    \cup (IF containers THEN when("mcp", McpFix) \cup when("dotnet", DotnetFix) ELSE {})

ProveFixes(p) ==
    /\ cli[p].at = "fixes"
    /\ \E runs \in FixRuns :
        LET proofs == prove_fixes(Now(p), cli[p].cmd.containers, tools, runs) IN
        IF "raises" \in proofs
        THEN Exit(p, 1)
        ELSE cli' = [cli EXCEPT ![p].at = "open",
                        ![p].report = [checks |-> proofs \subseteq {"fixed"}, found |-> cli[p].found]]
    /\ Local

Kill(p) ==
    /\ cli[p].at \notin {"off", "done"}
    /\ kills < MaxKills
    /\ kills' = kills + 1
    /\ cli' = [cli EXCEPT ![p] = Off]
    /\ UNCHANGED <<disk, tools, provider, files, commands>>

Next ==
    \E p \in Processes :
        \/ \E c \in Commands : Start(p, c)
        \/ CloneBegin(p) \/ CloneEnd(p) \/ CloneCheckout(p) \/ ListRepositories(p)
        \/ Inspect(p) \/ StaticProbes(p) \/ DynamicProbes(p) \/ Merge(p)
        \/ Open(p) \/ Write(p)
        \/ LookUp(p) \/ LoadScan(p) \/ LoadRegistry(p) \/ ProveFixes(p)
        \/ Kill(p)

Spec == Init /\ [][Next]_vars

-----------------------------------------------------------------------------
(***************************************************************************)
(* Properties.                                                             *)
(***************************************************************************)
Claims == UNION {Home[r] : r \in Repositories}

Findings == [id : Claims, level : DOMAIN Rank, evidence : SUBSET ((DOMAIN Rank) \X Versions)]

IsScan(report) ==
    /\ DOMAIN report = {"findings", "found", "containers"}
    /\ report.findings \subseteq Findings
    /\ DOMAIN report.found \subseteq Repositories
    /\ Range(report.found) \subseteq Versions
    /\ report.containers \in BOOLEAN

\* The clones, the artifacts and the processes keep their types; what is in
\* the file of a scan is a whole scan.
TypeOK ==
    /\ disk \in [Repositories -> Versions \cup {None, Partial}]
    /\ provider \in {"missing", "failed", "passed"}
    /\ \A f \in {"latest", "expanded"} : files[f] \in {None, Torn} \/ IsScan(files[f])
    /\ \A f \in {"registry", "chains", "fixes"} :
        files[f] \in {None, Torn} \/ files[f].checks \in BOOLEAN
    /\ \A p \in Processes :
        /\ cli[p].cmd \in Commands \cup {None}
        /\ cli[p].code \in {None, 0, 1, 2}
        /\ cli[p].at = "done" <=> cli[p].code # None
        /\ Range(cli[p].found) \subseteq Versions
        /\ \A i \in DOMAIN cli[p].results : cli[p].results[i].findings \subseteq Findings
    /\ commands \in 0..MaxCommands
    /\ kills \in 0..MaxKills

\* A report has each claim once, with every piece of evidence any probe
\* gathered for it and the strongest level among them, and the evidence comes
\* from the versions the report names: a clone made meanwhile is not mixed in.
ReportKeepsAllEvidence ==
    \A p \in Processes : (cli[p].report # None /\ cli[p].results # <<>>) =>
        LET made == UNION {cli[p].results[i].findings : i \in DOMAIN cli[p].results}
            report == cli[p].report IN
        /\ {f.id : f \in report.findings} = {g.id : g \in made}
        /\ \A f, g \in report.findings : f.id = g.id => f = g
        /\ \A f \in report.findings :
            LET same == {g \in made : g.id = f.id} IN
            /\ f.evidence = UNION {g.evidence : g \in same}
            /\ \E e \in f.evidence : e[1] = f.level
            /\ \A e \in f.evidence :
                Rank[e[1]] <= Rank[f.level] /\ e[2] \in Range(report.found)

\* When a build says that all evidence-backed nodes pass, the scan it read is
\* one that ran the official SDKs in containers, on a machine that has the
\* tools, over clones that show every defect the executed nodes name and have
\* every pattern the others rest on; whatever other scans, clones and kills
\* went on around it.
PassingChainsWereExecuted ==
    (files["chains"] \notin {None, Torn} /\ files["chains"].checks) =>
        LET scan == files["chains"].scan IN
        /\ scan.containers
        /\ {"docker", "php", "node"} \subseteq tools
        /\ {"mcp", "dotnet", "php", "java"} \subseteq DOMAIN scan.found
        /\ {"RP-MCP-REFUND-TRUNCATION", "RP-DOTNET-GLOBAL-AUTH-STATE", "RP-PHP-GLOBAL-AUTH-STATE",
            "RP-JAVA-GLOBAL-PARTNER-HEADERS", "RP-JAVA-UPLOAD-MIME",
            "RP-JAVA-UPLOAD-DUPLICATE-FILE-PART"} \subseteq Shown(scan.found)
        /\ {"RP-MCP-GENERATOR-MONEY-UNDERCHARGE", "RP-MCP-MOBILE-MISSING-SIGNATURE",
            "RP-MCP-MOBILE-DEPENDENCY-CONFUSION"} \subseteq Present(scan.found)

\* A scan that passes its gate, with no probe error, met no clone that has a
\* pattern of the severity the gate is about (but for the two claims that the
\* static probe infers from another pattern).
CleanGateMeansClean ==
    \A p \in Processes :
        LET c == cli[p] IN
        (/\ c.at = "done" /\ c.cmd.name = "scan" /\ c.code = 0 /\ c.cmd.failOn # "none"
         /\ \A i \in DOMAIN c.results : ~ c.results[i].errors)
        => Present(c.found) \cap Barred(c.cmd.failOn) \subseteq Inferred

\* When a fix report says that all are fixed, the Python and Ruby clones it
\* names showed the defect before the fix and do not show it after; and no scan
\* that ended without a probe error passed the same clone over, whenever it
\* ran and whatever was cloned, cut short or killed around the two.
Repaired == [python |-> "RP-PYTHON-WEBHOOK-BYTES", ruby |-> "RP-RUBY-PAYLINK-ORDER"]

ScannedCleanly(c) ==
    /\ c.at = "done" /\ c.cmd.name = "scan" /\ c.results # <<>>
    /\ \A i \in DOMAIN c.results : ~ c.results[i].errors

RedToGreen ==
    (files["fixes"] \notin {None, Torn} /\ files["fixes"].checks) =>
        LET found == files["fixes"].found IN
        \A r \in DOMAIN Repaired \cap DOMAIN found :
            /\ Repaired[r] \in Defects[found[r]] \cap Cures[found[r]]
            /\ \A p \in Processes :
                ScannedCleanly(cli[p]) /\ r \in DOMAIN cli[p].found =>
                    Repaired[r] \in {f.id : f \in cli[p].report.findings}

\* What report.py says of its levels: a confirmed claim is about the inspected
\* source.  False: see the README.
ConfirmedIsPresent ==
    \A f \in {"latest", "expanded"} : files[f] \notin {None, Torn} =>
        {g.id : g \in {x \in files[f].findings : x.level \in {"dynamic", "static"}}}
            \subseteq Present(files[f].found) \cup Shown(files[f].found)
=============================================================================

------------------------------- MODULE Probes -------------------------------
(***************************************************************************)
(* What the probes of razorproof report about a set of repositories, and    *)
(* how engine.py merges it.  A version of a repository is known by the      *)
(* claims whose source pattern it has and by those whose defect shows when  *)
(* it is executed: a guard elsewhere may leave the text and heal the code.  *)
(* A version that is not readable has lost files the probes open; one whose *)
(* checkout git has not finished is such a version, of a whole one.         *)
(* Titles, severities other than the two a gate reads, and the wording of   *)
(* evidence are left out: the evidence of a finding is its level and the    *)
(* commit it was gathered at.                                               *)
(***************************************************************************)
EXTENDS Naturals, Sequences, Functions

CONSTANTS
    Versions,  \* versions of source the repositories may be at
    Patterns,  \* Patterns[v]: the claims whose pattern version v has
    Defects,   \* Defects[v]: the claims whose defect shows when v is executed
    Readable,  \* the versions that still have every file the probes open
    Whole      \* Whole[v]: the commit version v is a checkout of, all files there

\* A checkout cut short has the commit of the whole one: what can be read of it
\* at all reads the same.
ASSUME WholeAssumption ==
    /\ Whole \in [Versions -> Versions]
    /\ \A v \in Versions :
        /\ Whole[Whole[v]] = Whole[v]
        /\ Patterns[Whole[v]] = Patterns[v]
        /\ Defects[Whole[v]] = Defects[v]

Repositories == {"mcp", "python", "java", "node", "go", "dotnet", "php", "ruby"}

\* The claims the probes know of, by the repository they are about.
Home == [mcp |-> {"RP-MCP-REFUND-TRUNCATION", "RP-MCP-GENERATOR-MONEY-UNDERCHARGE",
                  "RP-MCP-GENERATOR-CURRENCY-EXPONENT", "RP-MCP-GENERATOR-UNTRUSTED-ECONOMICS",
                  "RP-MCP-GENERATOR-SIGNATURE-LENGTH-500", "RP-MCP-MOBILE-MISSING-SIGNATURE",
                  "RP-MCP-MOBILE-DEPENDENCY-CONFUSION", "RP-MCP-EXPAND-COLLAPSE",
                  "RP-MCP-REFUND-IDEMPOTENCY", "RP-MCP-PAYOUT-NAME-DRIFT"},
         dotnet |-> {"RP-DOTNET-WEBHOOK-ASCII", "RP-DOTNET-GCM-NONCE-REUSE",
                     "RP-DOTNET-SIGNATURE-COMPARE", "RP-DOTNET-GLOBAL-AUTH-STATE"},
         php |-> {"RP-PHP-GLOBAL-AUTH-STATE"},
         java |-> {"RP-JAVA-GLOBAL-PARTNER-HEADERS", "RP-JAVA-UPLOAD-MIME",
                   "RP-JAVA-UPLOAD-DUPLICATE-FILE-PART", "RP-JAVA-DEFAULT-CHARSET"},
         ruby |-> {"RP-RUBY-PAYLINK-ORDER"},
         python |-> {"RP-PYTHON-WEBHOOK-BYTES", "RP-PYTHON-PAYLINK-MISSING-FIELD"},
         node |-> {"RP-NODE-SIGNATURE-COMPARE"},
         go |-> {}]

\* What the clones in found really have: in their text, and when they run.
Present(found) == UNION {Patterns[found[r]] \cap Home[r] : r \in DOMAIN found}
Shown(found) == UNION {Defects[found[r]] \cap Home[r] : r \in DOMAIN found}

Known == {"RP-MCP-EXPAND-COLLAPSE", "RP-MCP-REFUND-IDEMPOTENCY", "RP-DOTNET-SIGNATURE-COMPARE",
          "RP-PYTHON-WEBHOOK-BYTES", "RP-PYTHON-PAYLINK-MISSING-FIELD",
          "RP-NODE-SIGNATURE-COMPARE", "RP-JAVA-DEFAULT-CHARSET"}

Critical == {"RP-DOTNET-GCM-NONCE-REUSE"}

High == {"RP-MCP-GENERATOR-MONEY-UNDERCHARGE", "RP-MCP-GENERATOR-CURRENCY-EXPONENT",
         "RP-MCP-GENERATOR-UNTRUSTED-ECONOMICS", "RP-MCP-MOBILE-MISSING-SIGNATURE",
         "RP-MCP-MOBILE-DEPENDENCY-CONFUSION", "RP-DOTNET-GLOBAL-AUTH-STATE",
         "RP-PHP-GLOBAL-AUTH-STATE", "RP-JAVA-GLOBAL-PARTNER-HEADERS"}

Rank == [dynamic |-> 6, static |-> 5, known |-> 4]

(***************************************************************************)
(* Static probes: the claims each one makes of source with patterns p.      *)
(***************************************************************************)
\* Two claims about the generator are made wherever the truncation is, and a
\* third is looked for only there.
Inferred == {"RP-MCP-GENERATOR-CURRENCY-EXPONENT", "RP-MCP-GENERATOR-UNTRUSTED-ECONOMICS"}
Nested == {"RP-MCP-GENERATOR-SIGNATURE-LENGTH-500"}

McpClaims(p) ==
    ((p \cap Home.mcp) \ (Inferred \cup Nested))
    \cup (IF "RP-MCP-GENERATOR-MONEY-UNDERCHARGE" \in p THEN Inferred \cup (p \cap Nested) ELSE {})

DotnetClaims(p) == p \cap Home.dotnet
PhpClaims(p) == p \cap Home.php
JavaClaims(p) == (p \cap Home.java) \ {"RP-JAVA-DEFAULT-CHARSET"}
RubyClaims(p) == p \cap Home.ruby
PythonClaims(p) == p \cap Home.python
OtherClaims(r, p) == p \cap (IF r = "node" THEN Home.node ELSE {"RP-JAVA-DEFAULT-CHARSET"})

Finding(id, level, version) ==
    [id |-> id, level |-> level, evidence |-> {<<level, Whole[version]>>}]

Static(claims, v) ==
    {Finding(id, IF id \in Known THEN "known" ELSE "static", v) : id \in claims}

Healthy(findings) == [findings |-> findings, errors |-> FALSE]
Failed(findings) == [findings |-> findings, errors |-> TRUE]

\* One call inside a ProbeTimer: claims gives, for each repository it reads,
\* what it claims of it; an exception ends the probe with what came before.
Extend(result, found, claims) ==
    IF result.errors THEN result
    ELSE IF \E r \in DOMAIN claims : found[r] \notin Readable
         THEN [result EXCEPT !.errors = TRUE]
         ELSE [result EXCEPT !.findings = @ \cup
                  UNION {Static(claims[r], found[r]) : r \in DOMAIN claims}]

Shared == {"RP-DOTNET-GLOBAL-AUTH-STATE"}

McpProbe(found) ==
    IF "mcp" \in DOMAIN found
    THEN Extend(Healthy({}), found, [r \in {"mcp"} |-> McpClaims(Patterns[found[r]])])
    ELSE Failed({})

CryptoProbe(found) ==
    LET here(repos) == repos \cap DOMAIN found
        p(r) == Patterns[found[r]]
        dotnet == Extend(Healthy({}), found, [r \in here({"dotnet"}) |-> DotnetClaims(p(r)) \ Shared])
        ruby == Extend(dotnet, found, [r \in here({"ruby"}) |-> RubyClaims(p(r))])
        python == Extend(ruby, found, [r \in here({"python"}) |-> PythonClaims(p(r))]) IN
    Extend(python, found, [r \in here({"node", "java"}) |-> OtherClaims(r, p(r))])

ClientProbe(found) ==
    LET here(r) == {r} \cap DOMAIN found
        p(r) == Patterns[found[r]]
        dotnet == Extend(Healthy({}), found, [r \in here("dotnet") |-> DotnetClaims(p(r)) \cap Shared])
        php == Extend(dotnet, found, [r \in here("php") |-> PhpClaims(p(r))]) IN
    Extend(php, found, [r \in here("java") |-> JavaClaims(p(r))])

run_static_probes(found) == <<McpProbe(found), CryptoProbe(found), ClientProbe(found)>>

(***************************************************************************)
(* Dynamic probes.  broken is what happened to the probe this time: "no",   *)
(* "yes" (it ended in an error), or "late" (after its first observation).   *)
(***************************************************************************)
Dynamic(ids, v) == {Finding(id, "dynamic", v) : id \in ids}

\* A probe that executes the source of a repository with one tool.
Executed(ids, tool, v, tools, broken) ==
    IF tool \notin tools \/ v \notin Readable \/ broken # "no"
    THEN Failed({})
    ELSE Healthy(Dynamic(ids \cap Defects[v], v))

PythonSdk(v, tools, broken) ==
    Executed({"RP-PYTHON-WEBHOOK-BYTES", "RP-PYTHON-PAYLINK-MISSING-FIELD"}, "python3", v, tools, broken)

RubySdk(v, tools, broken) == Executed({"RP-RUBY-PAYLINK-ORDER"}, "ruby", v, tools, broken)

\* Expressions written in the probe itself: the repository is not consulted.
GeneratedMoney(v, tools, broken) ==
    LET money == IF tools \cap {"python3", "ruby", "php"} # {}
                 THEN Dynamic({"RP-MCP-GENERATOR-MONEY-UNDERCHARGE"}, v) ELSE {}
        currency == IF "node" \in tools
                    THEN Dynamic({"RP-MCP-GENERATOR-CURRENCY-EXPONENT"}, v) ELSE {} IN
    IF broken = "yes" THEN Failed({})
    ELSE IF broken = "late" THEN Failed(money)
    ELSE Healthy(money \cup currency)

NodeSignature(v, tools, broken) ==
    IF "node" \notin tools \/ broken # "no" THEN Failed({})
    ELSE Healthy(Dynamic({"RP-MCP-GENERATOR-SIGNATURE-LENGTH-500"}, v))

PhpState(v, tools, broken) == Executed({"RP-PHP-GLOBAL-AUTH-STATE"}, "php", v, tools, broken)

\* The probes in containers clone the commit first: a checkout cut short does
\* not disturb them.
GoRefund(v, tools, broken) ==
    Executed({"RP-MCP-REFUND-TRUNCATION"}, "docker", Whole[v], tools, broken)

DotnetSdk(v, tools, broken) ==
    Executed({"RP-DOTNET-GCM-NONCE-REUSE", "RP-DOTNET-WEBHOOK-ASCII", "RP-DOTNET-GLOBAL-AUTH-STATE"},
             "docker", Whole[v], tools, broken)

JavaSemantics(v, tools, broken) ==
    Executed({"RP-JAVA-UPLOAD-MIME", "RP-JAVA-UPLOAD-DUPLICATE-FILE-PART",
              "RP-JAVA-GLOBAL-PARTNER-HEADERS"}, "docker", Whole[v], tools, broken)

\* luck[probe]: what happens to each probe in this scan.
run_dynamic_probes(found, containers, tools, luck) ==
    LET when(repo, P(_, _, _), name) ==
            IF repo \in DOMAIN found THEN <<P(found[repo], tools, luck[name])>> ELSE <<>> IN
    when("python", PythonSdk, "python-sdk") \o when("ruby", RubySdk, "ruby-sdk")
    \o when("mcp", GeneratedMoney, "generated-money") \o when("mcp", NodeSignature, "node-signature")
    \o when("php", PhpState, "php-state")
    \o (IF containers
        THEN when("mcp", GoRefund, "go-refund") \o when("dotnet", DotnetSdk, "dotnet-sdk")
             \o when("java", JavaSemantics, "java-semantics")
        ELSE <<>>)

Luck == {"python-sdk", "ruby-sdk", "generated-money", "node-signature", "php-state",
         "go-refund", "dotnet-sdk", "java-semantics"}

(***************************************************************************)
(* merge_findings: result after result, one finding for each claim, with    *)
(* all the evidence and the strongest level so far.  No probe makes a claim *)
(* twice in one result.                                                     *)
(***************************************************************************)
MutAbsorb(prior, finding) == [prior EXCEPT !.evidence = @ \cup finding.evidence]

Absorb(prior, finding) ==
    [prior EXCEPT !.evidence = @ \cup finding.evidence,
                  !.level = IF Rank[finding.level] > Rank[@] THEN finding.level ELSE @]

\* What a finding merged so far becomes with the findings of one more result.
Canonical(prior, findings) ==
    IF \E g \in findings : g.id = prior.id
    THEN Absorb(prior, CHOOSE g \in findings : g.id = prior.id)
    ELSE prior

\* One turn of the loop over the results.
MergeResult(merged, findings) ==
    {Canonical(prior, findings) : prior \in merged}
    \cup {g \in findings : \A prior \in merged : prior.id # g.id}

merge_findings(results) ==
    LET merged[n \in 0..Len(results)] ==
            IF n = 0 THEN {} ELSE MergeResult(merged[n - 1], results[n].findings) IN
    merged[Len(results)]
=============================================================================

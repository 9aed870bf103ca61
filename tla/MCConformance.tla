--------------------------- MODULE MCConformance ---------------------------
(* Small instances of Conformance for TLC.                                  *)
EXTENDS Conformance, TLC

CONSTANTS a, b, vulnerable, halfway, repaired, moved, cut, guarded, stubborn

\* vulnerable has every pattern; halfway lost the truncation of money and the
\* other money patterns stay; repaired has none; moved lost the files; cut is a
\* checkout of vulnerable that did not end; guarded keeps the patterns and shows
\* no defect; stubborn is not healed by the fixes.
AllClaims ==
    Known \cup Critical \cup High \cup Needed \cup
    {"RP-MCP-GENERATOR-SIGNATURE-LENGTH-500", "RP-MCP-PAYOUT-NAME-DRIFT",
     "RP-DOTNET-WEBHOOK-ASCII", "RP-RUBY-PAYLINK-ORDER"}

PatternsDef ==
    vulnerable :> AllClaims @@
    halfway :> AllClaims \ {"RP-MCP-GENERATOR-MONEY-UNDERCHARGE"} @@
    repaired :> {} @@ moved :> AllClaims @@ cut :> AllClaims @@
    guarded :> AllClaims @@ stubborn :> AllClaims

DefectsDef == [v \in Versions |-> IF v = guarded THEN {} ELSE PatternsDef[v]]

WholeDef == [v \in Versions |-> IF v = cut THEN vulnerable ELSE v]

AnchorsDef ==
    [v \in Versions |-> PatternsDef[v] \cap {"RP-PYTHON-WEBHOOK-BYTES", "RP-RUBY-PAYLINK-ORDER"}]

CuresDef == [v \in Versions |-> IF v = stubborn THEN {} ELSE AllClaims]

Smooth == [fix \in {"python", "ruby", "mcp", "dotnet"} |-> [before |-> "ran", after |-> "ran"]]

FixRunsDef ==
    {Smooth, [Smooth EXCEPT !["python"].before = "failed"], [Smooth EXCEPT !["mcp"].before = "failed"],
     [Smooth EXCEPT !["dotnet"].after = "raised"]}

AllTools == {"python3", "ruby", "php", "node", "docker"}

Vulnerable == [r \in Repositories |-> vulnerable]

World(disk0, tools0, provider0) == [disk |-> disk0, tools |-> tools0, provider |-> provider0]

WorldsDef ==
    {World(Vulnerable, AllTools, "passed"),
     World(Vulnerable, AllTools \ {"docker"}, "passed"),
     World(Vulnerable, AllTools \ {"php"}, "passed"),
     World([Vulnerable EXCEPT !["java"] = None], AllTools, "passed"),
     World([Vulnerable EXCEPT !["mcp"] = halfway, !["go"] = None], AllTools, "failed"),
     World([Vulnerable EXCEPT !["dotnet"] = moved], AllTools, "missing"),
     World([Vulnerable EXCEPT !["ruby"] = repaired, !["java"] = None], AllTools \ {"ruby"}, "missing"),
     World([Vulnerable EXCEPT !["ruby"] = repaired, !["dotnet"] = repaired], AllTools, "passed"),
     World([r \in Repositories |-> IF r = "mcp" THEN vulnerable ELSE repaired], AllTools, "failed"),
     World([r \in Repositories |-> repaired], AllTools \ {"node"}, "failed"),
     World([Vulnerable EXCEPT !["python"] = guarded, !["ruby"] = cut], AllTools, "passed"),
     World([Vulnerable EXCEPT !["ruby"] = guarded, !["mcp"] = stubborn], AllTools, "passed"),
     World([Vulnerable EXCEPT !["python"] = stubborn], AllTools, "passed")}

Scan(dynamic, containers, failOn, output) ==
    [name |-> "scan", dynamic |-> dynamic, containers |-> containers, failOn |-> failOn, output |-> output]

CommandsDef ==
    {[name |-> "repos"],
     Scan(TRUE, TRUE, "none", "expanded"), Scan(FALSE, FALSE, "high", "expanded"),
     Scan(TRUE, FALSE, "critical", "latest"),
     [name |-> "mobile-registry-evidence", output |-> "registry"],
     [name |-> "build-chains", output |-> "chains"],
     [name |-> "prove-fixes", containers |-> TRUE, output |-> "fixes"],
     [name |-> "prove-fixes", containers |-> FALSE, output |-> "fixes"]}

Fine == [probe \in Luck |-> "no"]

LucksDef == {Fine, [Fine EXCEPT !["generated-money"] = "late"],
             [Fine EXCEPT !["java-semantics"] = "yes", !["node-signature"] = "yes"]}

Npm(m, s, o) == [missing |-> m, suspicious |-> s, official |-> o]

AnswersDef == {Npm("404", "empty", "razorpay"), Npm("404", "404", "razorpay"),
               Npm("500", "empty", "razorpay"), Npm("404", "empty", "none")}

Symmetry == Permutations(Processes)
=============================================================================

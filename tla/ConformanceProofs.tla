--------------------------- MODULE ConformanceProofs ---------------------------
(***************************************************************************)
(* For any number of processes, versions, command lines, clones and kills: *)
(* what a report of razorproof says rests on what its probes met.          *)
(***************************************************************************)
EXTENDS Conformance, TLAPS, FunctionTheorems, WellFoundedInduction

Money == "RP-MCP-GENERATOR-MONEY-UNDERCHARGE"
Currency == "RP-MCP-GENERATOR-CURRENCY-EXPONENT"
Economics == "RP-MCP-GENERATOR-UNTRUSTED-ECONOMICS"

\* The clones of a scan.
Founds == UNION {[d -> Versions] : d \in SUBSET Repositories}

Result == [findings : SUBSET Findings, errors : BOOLEAN]

-----------------------------------------------------------------------------
(* What the probes claim.                                                  *)

LevelOf(id) == IF id \in Known THEN "known" ELSE "static"

\* The pattern a static probe makes the claim id of.
Pattern(id) == IF id \in Inferred THEN Money ELSE id

\* A static probe may claim id of repository r at version v.
SeenIn(id, r, v) == id \in Home[r] /\ Pattern(id) \in Patterns[v]

Read(g, found) ==
    \E r \in DOMAIN found :
        SeenIn(g.id, r, found[r]) /\ g = Finding(g.id, LevelOf(g.id), found[r])

InContainer ==
    {"RP-MCP-REFUND-TRUNCATION", "RP-DOTNET-GCM-NONCE-REUSE", "RP-DOTNET-WEBHOOK-ASCII",
     "RP-DOTNET-GLOBAL-AUTH-STATE", "RP-JAVA-UPLOAD-MIME",
     "RP-JAVA-UPLOAD-DUPLICATE-FILE-PART", "RP-JAVA-GLOBAL-PARTNER-HEADERS"}

\* The claims whose probe runs what is written in the probe, not the clone.
Written == {Money, Currency, "RP-MCP-GENERATOR-SIGNATURE-LENGTH-500"}

Ran(g, found, containers, has) ==
    \E r \in DOMAIN found :
        /\ g.id \in Home[r] /\ g = Finding(g.id, "dynamic", found[r])
        /\ g.id \in Defects[found[r]] \/ g.id \in Written
        /\ g.id # Economics
        /\ g.id = Currency => "node" \in has
        /\ g.id = "RP-PHP-GLOBAL-AUTH-STATE" => "php" \in has
        /\ g.id \in InContainer => containers /\ "docker" \in has

AllRead(result, found) == result \in Result /\ \A g \in result.findings : Read(g, found)

AllRan(result, found, containers, has) ==
    result \in Result /\ \A g \in result.findings : Ran(g, found, containers, has)

\* A claim is about one repository.
LEMMA HomesAreDisjoint ==
    \A r, q \in Repositories : Home[r] \cap Home[q] # {} => r = q
BY DEF Home, Repositories

LEMMA FindingType ==
    ASSUME NEW found \in Founds, NEW r \in DOMAIN found, NEW id \in Home[r],
           NEW level \in DOMAIN Rank
    PROVE  Finding(id, level, found[r]) \in Findings
<1>1. found[r] \in Versions /\ r \in Repositories
  BY DEF Founds
<1>2. id \in Claims
  BY <1>1 DEF Claims
<1>3. Whole[found[r]] \in Versions
  BY <1>1, WholeAssumption
<1> QED BY <1>1, <1>2, <1>3 DEF Findings, Finding

LEMMA Levels ==
    /\ DOMAIN Rank = {"dynamic", "static", "known"}
    /\ \A l \in DOMAIN Rank : Rank[l] \in Nat
    /\ \A id : LevelOf(id) \in DOMAIN Rank
BY DEF Rank, LevelOf

\* The files in the clones at a moment after the inspection that named found.
Trees(found) ==
    {now \in [DOMAIN found -> Versions] : \A r \in DOMAIN found : Whole[now[r]] = found[r]}

\* Files cut short or not, what can be read of them is that of the commit.
LEMMA TreeType ==
    ASSUME NEW found \in Founds, NEW now \in Trees(found)
    PROVE  /\ now \in Founds /\ DOMAIN now = DOMAIN found
           /\ \A r \in DOMAIN found :
                 /\ r \in Repositories /\ now[r] \in Versions
                 /\ Whole[now[r]] = found[r] /\ Whole[found[r]] = found[r]
                 /\ Patterns[now[r]] = Patterns[found[r]]
                 /\ Defects[now[r]] = Defects[found[r]]
                 /\ \A id, level : Finding(id, level, now[r]) = Finding(id, level, found[r])
<1>1. now \in [DOMAIN found -> Versions] /\ DOMAIN found \in SUBSET Repositories
      /\ \A r \in DOMAIN found : Whole[now[r]] = found[r]
  BY DEF Trees, Founds
<1>2. now \in Founds /\ DOMAIN now = DOMAIN found
  BY <1>1 DEF Founds
<1>3. ASSUME NEW r \in DOMAIN found
      PROVE  /\ r \in Repositories /\ now[r] \in Versions
             /\ Whole[now[r]] = found[r] /\ Whole[found[r]] = found[r]
             /\ Patterns[now[r]] = Patterns[found[r]]
             /\ Defects[now[r]] = Defects[found[r]]
  BY <1>1, WholeAssumption
<1>4. ASSUME NEW r \in DOMAIN found, NEW id, NEW level
      PROVE  Finding(id, level, now[r]) = Finding(id, level, found[r])
  BY <1>3 DEF Finding
<1> QED BY <1>2, <1>3, <1>4

\* What was read or run of the files was read or run of the commit.
LEMMA OfTheCommit ==
    ASSUME NEW found \in Founds, NEW now \in Trees(found), NEW result, NEW containers, NEW has
    PROVE  /\ AllRead(result, now) => AllRead(result, found)
           /\ AllRan(result, now, containers, has) => AllRan(result, found, containers, has)
<1>1. ASSUME NEW g, Read(g, now) PROVE Read(g, found)
  BY <1>1, TreeType DEF Read, SeenIn
<1>2. ASSUME NEW g, Ran(g, now, containers, has) PROVE Ran(g, found, containers, has)
  BY <1>2, TreeType DEF Ran
<1> QED BY <1>1, <1>2 DEF AllRead, AllRan

\* No probe makes a claim twice in one result.
LEMMA OneOfEach ==
    ASSUME NEW found \in Founds, NEW result, NEW containers, NEW has,
           AllRead(result, found) \/ AllRan(result, found, containers, has),
           NEW f \in result.findings, NEW g \in result.findings, f.id = g.id
    PROVE  f = g
<1>1. DOMAIN found \subseteq Repositories
  BY DEF Founds
<1>3. CASE AllRead(result, found)
  <2>1. PICK a \in DOMAIN found : f.id \in Home[a] /\ f = Finding(f.id, LevelOf(f.id), found[a])
    BY <1>3 DEF AllRead, Read, SeenIn
  <2>2. PICK b \in DOMAIN found : g.id \in Home[b] /\ g = Finding(g.id, LevelOf(g.id), found[b])
    BY <1>3 DEF AllRead, Read, SeenIn
  <2>3. a = b
    BY <1>1, <2>1, <2>2, HomesAreDisjoint
  <2> QED BY <2>1, <2>2, <2>3
<1>4. CASE AllRan(result, found, containers, has)
  <2>1. PICK a \in DOMAIN found : f.id \in Home[a] /\ f = Finding(f.id, "dynamic", found[a])
    BY <1>4 DEF AllRan, Ran
  <2>2. PICK b \in DOMAIN found : g.id \in Home[b] /\ g = Finding(g.id, "dynamic", found[b])
    BY <1>4 DEF AllRan, Ran
  <2>3. a = b
    BY <1>1, <2>1, <2>2, HomesAreDisjoint
  <2> QED BY <2>1, <2>2, <2>3
<1> QED BY <1>3, <1>4

(***************************************************************************)
(* Static probes.                                                          *)
(***************************************************************************)

LEMMA StaticReads ==
    ASSUME NEW found \in Founds, NEW r \in DOMAIN found, NEW claims,
           \A id \in claims : SeenIn(id, r, found[r])
    PROVE  /\ Static(claims, found[r]) \subseteq Findings
           /\ \A g \in Static(claims, found[r]) : Read(g, found)
<1> SUFFICES ASSUME NEW id \in claims
             PROVE  /\ Finding(id, LevelOf(id), found[r]) \in Findings
                    /\ Read(Finding(id, LevelOf(id), found[r]), found)
  BY DEF Static, LevelOf
<1>1. SeenIn(id, r, found[r])
  OBVIOUS
<1>2. Finding(id, LevelOf(id), found[r]).id = id
  BY DEF Finding
<1> QED BY <1>1, <1>2, Levels, FindingType DEF Read, SeenIn

LEMMA ExtendReads ==
    ASSUME NEW found \in Founds, NEW result, AllRead(result, found), NEW claims,
           DOMAIN claims \subseteq DOMAIN found,
           \A r \in DOMAIN claims : \A id \in claims[r] : SeenIn(id, r, found[r])
    PROVE  AllRead(Extend(result, found, claims), found)
<1> DEFINE more == UNION {Static(claims[r], found[r]) : r \in DOMAIN claims}
<1>1. more \subseteq Findings /\ \A g \in more : Read(g, found)
  BY StaticReads
<1>2. CASE result.errors
  BY <1>2 DEF Extend
<1>3. CASE ~ result.errors /\ \E r \in DOMAIN claims : found[r] \notin Readable
  <2>1. Extend(result, found, claims) = [result EXCEPT !.errors = TRUE]
    BY <1>3 DEF Extend
  <2> QED BY <2>1 DEF AllRead, Result
<1>4. CASE ~ result.errors /\ ~ \E r \in DOMAIN claims : found[r] \notin Readable
  <2>1. Extend(result, found, claims) = [result EXCEPT !.findings = @ \cup more]
    BY <1>4 DEF Extend
  <2> HIDE DEF more
  <2>2. result.findings \cup more \in SUBSET Findings
    BY <1>1 DEF AllRead, Result
  <2>3. [result EXCEPT !.findings = @ \cup more] \in Result
    BY <2>2 DEF AllRead, Result
  <2>4. [result EXCEPT !.findings = @ \cup more].findings = result.findings \cup more
    BY DEF AllRead, Result
  <2> QED BY <2>1, <2>3, <2>4, <1>1 DEF AllRead
<1> QED BY <1>2, <1>3, <1>4

\* A result without an error holds every claim that was looked for.
LEMMA ExtendKeeps ==
    ASSUME NEW found \in Founds, NEW result \in Result, NEW claims,
           ~ Extend(result, found, claims).errors
    PROVE  /\ ~ result.errors
           /\ result.findings \subseteq Extend(result, found, claims).findings
           /\ \A r \in DOMAIN claims : \A id \in claims[r] :
                 \E g \in Extend(result, found, claims).findings : g.id = id
<1> DEFINE more == UNION {Static(claims[r], found[r]) : r \in DOMAIN claims}
<1>1. ~ result.errors
  BY DEF Extend
<1>2. ~ \E r \in DOMAIN claims : found[r] \notin Readable
  <2>1. [result EXCEPT !.errors = TRUE].errors = TRUE
    BY DEF Result
  <2> QED BY <1>1, <2>1 DEF Extend
<1>3. Extend(result, found, claims) = [result EXCEPT !.findings = @ \cup more]
  BY <1>1, <1>2 DEF Extend
<1>4. Extend(result, found, claims).findings = result.findings \cup more
  <2> HIDE DEF more
  <2> QED BY <1>3 DEF Result
<1>5. ASSUME NEW r \in DOMAIN claims, NEW id \in claims[r]
      PROVE  \E g \in more : g.id = id
  <2>1. Finding(id, LevelOf(id), found[r]) \in Static(claims[r], found[r])
    BY DEF Static, LevelOf
  <2>2. Finding(id, LevelOf(id), found[r]).id = id
    BY DEF Finding
  <2> QED BY <2>1, <2>2
<1> QED BY <1>1, <1>4, <1>5
\* What each source file is searched for.
LEMMA ClaimsAtHome ==
    ASSUME NEW p
    PROVE  /\ \A id \in McpClaims(p) : id \in Home.mcp /\ Pattern(id) \in p
           /\ \A id \in DotnetClaims(p) : id \in Home.dotnet /\ Pattern(id) \in p
           /\ \A id \in PhpClaims(p) : id \in Home.php /\ Pattern(id) \in p
           /\ \A id \in JavaClaims(p) : id \in Home.java /\ Pattern(id) \in p
           /\ \A id \in RubyClaims(p) : id \in Home.ruby /\ Pattern(id) \in p
           /\ \A id \in PythonClaims(p) : id \in Home.python /\ Pattern(id) \in p
           /\ \A r \in {"node", "java"} :
                 \A id \in OtherClaims(r, p) : id \in Home[r] /\ Pattern(id) \in p
<1>1. Inferred \cup Nested \subseteq Home.mcp /\ "RP-JAVA-DEFAULT-CHARSET" \in Home.java
  BY DEF Inferred, Nested, Home
<1>0. /\ \A id : id \notin Inferred => Pattern(id) = id
      /\ \A id \in Inferred : Pattern(id) = Money
      /\ Inferred \cap Nested = {}
      /\ \A r \in {"dotnet", "php", "java", "ruby", "python", "node"} : Home[r] \cap Inferred = {}
  BY DEF Pattern, Inferred, Nested, Home
<1>2. \A id \in McpClaims(p) : id \in Home.mcp /\ Pattern(id) \in p
  <2> SUFFICES ASSUME NEW id \in McpClaims(p)
               PROVE  id \in Home.mcp /\ Pattern(id) \in p
    OBVIOUS
  <2>1. CASE id \in (p \cap Home.mcp) \ (Inferred \cup Nested)
    BY <1>0, <2>1
  <2>2. CASE Money \in p /\ id \in Inferred \cup (p \cap Nested)
    BY <1>0, <1>1, <2>2
  <2>3. McpClaims(p) = ((p \cap Home.mcp) \ (Inferred \cup Nested))
                       \cup (IF Money \in p THEN Inferred \cup (p \cap Nested) ELSE {})
    BY DEF McpClaims, Money
  <2> QED BY <2>1, <2>2, <2>3
<1>3. \A r \in {"node", "java"} : \A id \in OtherClaims(r, p) : id \in Home[r] /\ Pattern(id) \in p
  BY <1>0, <1>1 DEF OtherClaims
<1> QED
  BY <1>0, <1>2, <1>3 DEF DotnetClaims, PhpClaims, JavaClaims, RubyClaims, PythonClaims

LEMMA ClaimsSeen ==
    ASSUME NEW v
    PROVE  /\ \A id \in McpClaims(Patterns[v]) : SeenIn(id, "mcp", v)
           /\ \A id \in DotnetClaims(Patterns[v]) : SeenIn(id, "dotnet", v)
           /\ \A id \in PhpClaims(Patterns[v]) : SeenIn(id, "php", v)
           /\ \A id \in JavaClaims(Patterns[v]) : SeenIn(id, "java", v)
           /\ \A id \in RubyClaims(Patterns[v]) : SeenIn(id, "ruby", v)
           /\ \A id \in PythonClaims(Patterns[v]) : SeenIn(id, "python", v)
           /\ \A r \in {"node", "java"} :
                 \A id \in OtherClaims(r, Patterns[v]) : SeenIn(id, r, v)
<1> DEFINE p == Patterns[v]
<1> HIDE DEF p
<1>1. /\ \A id \in McpClaims(p) : id \in Home.mcp /\ Pattern(id) \in p
      /\ \A id \in DotnetClaims(p) : id \in Home.dotnet /\ Pattern(id) \in p
      /\ \A id \in PhpClaims(p) : id \in Home.php /\ Pattern(id) \in p
      /\ \A id \in JavaClaims(p) : id \in Home.java /\ Pattern(id) \in p
      /\ \A id \in RubyClaims(p) : id \in Home.ruby /\ Pattern(id) \in p
      /\ \A id \in PythonClaims(p) : id \in Home.python /\ Pattern(id) \in p
      /\ \A r \in {"node", "java"} :
            \A id \in OtherClaims(r, p) : id \in Home[r] /\ Pattern(id) \in p
  BY ClaimsAtHome
<1>2. \A id, r : SeenIn(id, r, v) <=> id \in Home[r] /\ Pattern(id) \in p
  BY DEF SeenIn, p
<1>3. /\ Home.mcp = Home["mcp"] /\ Home.dotnet = Home["dotnet"] /\ Home.php = Home["php"]
      /\ Home.java = Home["java"] /\ Home.ruby = Home["ruby"] /\ Home.python = Home["python"]
  OBVIOUS
<1> QED BY <1>1, <1>2, <1>3 DEF p

LEMMA NothingRead ==
    ASSUME NEW found \in Founds
    PROVE  AllRead(Healthy({}), found) /\ AllRead(Failed({}), found)
BY DEF AllRead, Healthy, Failed, Result

LEMMA McpProbeReads ==
    ASSUME NEW found \in Founds
    PROVE  /\ AllRead(McpProbe(found), found)
           /\ ~ McpProbe(found).errors =>
                 /\ "mcp" \in DOMAIN found
                 /\ \A id \in McpClaims(Patterns[found["mcp"]]) :
                       \E g \in McpProbe(found).findings : g.id = id
<1> DEFINE claims == [r \in {"mcp"} |-> McpClaims(Patterns[found[r]])]
<1>1. CASE "mcp" \in DOMAIN found
  <2>1. McpProbe(found) = Extend(Healthy({}), found, claims)
    BY <1>1 DEF McpProbe
  <2>2. \A r \in DOMAIN claims : \A id \in claims[r] : SeenIn(id, r, found[r])
    BY ClaimsSeen
  <2>3. DOMAIN claims = {"mcp"} /\ claims["mcp"] = McpClaims(Patterns[found["mcp"]])
    OBVIOUS
  <2> HIDE DEF claims
  <2>4. AllRead(McpProbe(found), found)
    BY <1>1, <2>1, <2>2, <2>3, NothingRead, ExtendReads
  <2>5. Healthy({}) \in Result
    BY NothingRead DEF AllRead
  <2>6. ASSUME ~ McpProbe(found).errors
        PROVE  \A id \in claims["mcp"] : \E g \in McpProbe(found).findings : g.id = id
    BY <2>6, <2>1, <2>3, <2>5, ExtendKeeps
  <2> QED BY <1>1, <2>3, <2>4, <2>6
<1>2. CASE "mcp" \notin DOMAIN found
  <2>1. McpProbe(found) = Failed({})
    BY <1>2 DEF McpProbe
  <2> QED BY <2>1, NothingRead DEF Failed
<1> QED BY <1>1, <1>2

LEMMA CryptoProbeReads ==
    ASSUME NEW found \in Founds
    PROVE  /\ AllRead(CryptoProbe(found), found)
           /\ ~ CryptoProbe(found).errors =>
                 /\ "dotnet" \in DOMAIN found =>
                       \A id \in DotnetClaims(Patterns[found["dotnet"]]) \ Shared :
                           \E g \in CryptoProbe(found).findings : g.id = id
                 /\ "ruby" \in DOMAIN found =>
                       \A id \in RubyClaims(Patterns[found["ruby"]]) :
                           \E g \in CryptoProbe(found).findings : g.id = id
                 /\ "python" \in DOMAIN found =>
                       \A id \in PythonClaims(Patterns[found["python"]]) :
                           \E g \in CryptoProbe(found).findings : g.id = id
<1> DEFINE c1 == [r \in {"dotnet"} \cap DOMAIN found |-> DotnetClaims(Patterns[found[r]]) \ Shared]
           c2 == [r \in {"ruby"} \cap DOMAIN found |-> RubyClaims(Patterns[found[r]])]
           c3 == [r \in {"python"} \cap DOMAIN found |-> PythonClaims(Patterns[found[r]])]
           c4 == [r \in {"node", "java"} \cap DOMAIN found |-> OtherClaims(r, Patterns[found[r]])]
           r1 == Extend(Healthy({}), found, c1)
           r2 == Extend(r1, found, c2)
           r3 == Extend(r2, found, c3)
           r4 == Extend(r3, found, c4)
<1>1. CryptoProbe(found) = r4
  BY DEF CryptoProbe
<1>2. /\ DOMAIN c1 \subseteq DOMAIN found
      /\ \A r \in DOMAIN c1 : \A id \in c1[r] : SeenIn(id, r, found[r])
  BY ClaimsSeen
<1>3. /\ DOMAIN c2 \subseteq DOMAIN found
      /\ \A r \in DOMAIN c2 : \A id \in c2[r] : SeenIn(id, r, found[r])
  BY ClaimsSeen
<1>4. /\ DOMAIN c3 \subseteq DOMAIN found
      /\ \A r \in DOMAIN c3 : \A id \in c3[r] : SeenIn(id, r, found[r])
  BY ClaimsSeen
<1>5. /\ DOMAIN c4 \subseteq DOMAIN found
      /\ \A r \in DOMAIN c4 : \A id \in c4[r] : SeenIn(id, r, found[r])
  BY ClaimsSeen
<1>6. /\ "dotnet" \in DOMAIN found =>
            "dotnet" \in DOMAIN c1 /\ c1["dotnet"] = DotnetClaims(Patterns[found["dotnet"]]) \ Shared
      /\ "ruby" \in DOMAIN found =>
            "ruby" \in DOMAIN c2 /\ c2["ruby"] = RubyClaims(Patterns[found["ruby"]])
      /\ "python" \in DOMAIN found =>
            "python" \in DOMAIN c3 /\ c3["python"] = PythonClaims(Patterns[found["python"]])
  OBVIOUS
<1> HIDE DEF c1, c2, c3, c4
<1>7. AllRead(r1, found)
  BY <1>2, NothingRead, ExtendReads
<1>8. AllRead(r2, found)
  <2> HIDE DEF r1
  <2> QED BY <1>3, <1>7, ExtendReads
<1>9. AllRead(r3, found)
  <2> HIDE DEF r2
  <2> QED BY <1>4, <1>8, ExtendReads
<1>10. AllRead(r4, found)
  <2> HIDE DEF r3
  <2> QED BY <1>5, <1>9, ExtendReads
<1>11. /\ Healthy({}) \in Result /\ r1 \in Result /\ r2 \in Result /\ r3 \in Result
  BY NothingRead, <1>7, <1>8, <1>9 DEF AllRead
<1>12. ASSUME ~ r4.errors
       PROVE  /\ \A r \in DOMAIN c1 : \A id \in c1[r] : \E g \in r4.findings : g.id = id
              /\ \A r \in DOMAIN c2 : \A id \in c2[r] : \E g \in r4.findings : g.id = id
              /\ \A r \in DOMAIN c3 : \A id \in c3[r] : \E g \in r4.findings : g.id = id
  <2>1. ~ r3.errors /\ r3.findings \subseteq r4.findings
    <3> HIDE DEF r3
    <3> QED BY <1>11, <1>12, ExtendKeeps
  <2>2. /\ ~ r2.errors /\ r2.findings \subseteq r3.findings
        /\ \A r \in DOMAIN c3 : \A id \in c3[r] : \E g \in r3.findings : g.id = id
    <3> HIDE DEF r2
    <3> QED BY <1>11, <2>1, ExtendKeeps
  <2>3. /\ ~ r1.errors /\ r1.findings \subseteq r2.findings
        /\ \A r \in DOMAIN c2 : \A id \in c2[r] : \E g \in r2.findings : g.id = id
    <3> HIDE DEF r1
    <3> QED BY <1>11, <2>2, ExtendKeeps
  <2>4. \A r \in DOMAIN c1 : \A id \in c1[r] : \E g \in r1.findings : g.id = id
    BY <1>11, <2>3, ExtendKeeps
  <2> HIDE DEF r1, r2, r3, r4
  <2> QED BY <2>1, <2>2, <2>3, <2>4
<1> HIDE DEF r4
<1> QED BY <1>1, <1>6, <1>10, <1>12

LEMMA ClientProbeReads ==
    ASSUME NEW found \in Founds
    PROVE  /\ AllRead(ClientProbe(found), found)
           /\ ~ ClientProbe(found).errors =>
                 /\ "dotnet" \in DOMAIN found =>
                       \A id \in DotnetClaims(Patterns[found["dotnet"]]) \cap Shared :
                           \E g \in ClientProbe(found).findings : g.id = id
                 /\ "php" \in DOMAIN found =>
                       \A id \in PhpClaims(Patterns[found["php"]]) :
                           \E g \in ClientProbe(found).findings : g.id = id
                 /\ "java" \in DOMAIN found =>
                       \A id \in JavaClaims(Patterns[found["java"]]) :
                           \E g \in ClientProbe(found).findings : g.id = id
<1> DEFINE c1 == [r \in {"dotnet"} \cap DOMAIN found |-> DotnetClaims(Patterns[found[r]]) \cap Shared]
           c2 == [r \in {"php"} \cap DOMAIN found |-> PhpClaims(Patterns[found[r]])]
           c3 == [r \in {"java"} \cap DOMAIN found |-> JavaClaims(Patterns[found[r]])]
           r1 == Extend(Healthy({}), found, c1)
           r2 == Extend(r1, found, c2)
           r3 == Extend(r2, found, c3)
<1>1. ClientProbe(found) = r3
  BY DEF ClientProbe
<1>2. /\ DOMAIN c1 \subseteq DOMAIN found
      /\ \A r \in DOMAIN c1 : \A id \in c1[r] : SeenIn(id, r, found[r])
  BY ClaimsSeen
<1>3. /\ DOMAIN c2 \subseteq DOMAIN found
      /\ \A r \in DOMAIN c2 : \A id \in c2[r] : SeenIn(id, r, found[r])
  BY ClaimsSeen
<1>4. /\ DOMAIN c3 \subseteq DOMAIN found
      /\ \A r \in DOMAIN c3 : \A id \in c3[r] : SeenIn(id, r, found[r])
  BY ClaimsSeen
<1>5. /\ "dotnet" \in DOMAIN found =>
            "dotnet" \in DOMAIN c1 /\ c1["dotnet"] = DotnetClaims(Patterns[found["dotnet"]]) \cap Shared
      /\ "php" \in DOMAIN found =>
            "php" \in DOMAIN c2 /\ c2["php"] = PhpClaims(Patterns[found["php"]])
      /\ "java" \in DOMAIN found =>
            "java" \in DOMAIN c3 /\ c3["java"] = JavaClaims(Patterns[found["java"]])
  OBVIOUS
<1> HIDE DEF c1, c2, c3
<1>6. AllRead(r1, found)
  BY <1>2, NothingRead, ExtendReads
<1>7. AllRead(r2, found)
  <2> HIDE DEF r1
  <2> QED BY <1>3, <1>6, ExtendReads
<1>8. AllRead(r3, found)
  <2> HIDE DEF r2
  <2> QED BY <1>4, <1>7, ExtendReads
<1>9. /\ Healthy({}) \in Result /\ r1 \in Result /\ r2 \in Result
  BY NothingRead, <1>6, <1>7 DEF AllRead
<1>10. ASSUME ~ r3.errors
       PROVE  /\ \A r \in DOMAIN c1 : \A id \in c1[r] : \E g \in r3.findings : g.id = id
              /\ \A r \in DOMAIN c2 : \A id \in c2[r] : \E g \in r3.findings : g.id = id
              /\ \A r \in DOMAIN c3 : \A id \in c3[r] : \E g \in r3.findings : g.id = id
  <2>1. /\ ~ r2.errors /\ r2.findings \subseteq r3.findings
        /\ \A r \in DOMAIN c3 : \A id \in c3[r] : \E g \in r3.findings : g.id = id
    <3> HIDE DEF r2
    <3> QED BY <1>9, <1>10, ExtendKeeps
  <2>2. /\ ~ r1.errors /\ r1.findings \subseteq r2.findings
        /\ \A r \in DOMAIN c2 : \A id \in c2[r] : \E g \in r2.findings : g.id = id
    <3> HIDE DEF r1
    <3> QED BY <1>9, <2>1, ExtendKeeps
  <2>3. \A r \in DOMAIN c1 : \A id \in c1[r] : \E g \in r1.findings : g.id = id
    BY <1>9, <2>2, ExtendKeeps
  <2> HIDE DEF r1, r2, r3
  <2> QED BY <2>1, <2>2, <2>3
<1> HIDE DEF r3
<1> QED BY <1>1, <1>5, <1>8, <1>10

LEMMA StaticProbesRead ==
    ASSUME NEW found \in Founds
    PROVE  /\ run_static_probes(found) \in Seq(Result)
           /\ Len(run_static_probes(found)) = 3
           /\ \A i \in 1..3 : AllRead(run_static_probes(found)[i], found)
BY McpProbeReads, CryptoProbeReads, ClientProbeReads DEF run_static_probes, AllRead

\* Static probes of the commits found, all of them without an error.
Untroubled(results, found) ==
    \A i \in 1..3 :
        ~ results[i].errors /\ \E now \in Trees(found) : results[i] = run_static_probes(now)[i]

\* Static probes that end without an error claim everything a gate may bar and
\* everything prove-fixes heals, but for what is inferred: each of them met the
\* files of the commit, whatever another process was checking out.
LEMMA StaticProbesSeeAll ==
    ASSUME NEW found \in Founds, NEW results, Untroubled(results, found),
           NEW r \in DOMAIN found, NEW id \in Home[r], id \in Patterns[found[r]], id \notin Inferred,
           id \in Critical \cup High \/ (r \in DOMAIN Repaired /\ id = Repaired[r])
    PROVE  \E i \in 1..3 : \E g \in results[i].findings : g.id = id
<1>1. PICK m \in Trees(found) : results[1] = McpProbe(m)
  <2>1. PICK m \in Trees(found) : results[1] = run_static_probes(m)[1]
    BY DEF Untroubled
  <2> QED BY <2>1 DEF run_static_probes
<1>2. PICK k \in Trees(found) : results[2] = CryptoProbe(k)
  <2>1. PICK k \in Trees(found) : results[2] = run_static_probes(k)[2]
    BY DEF Untroubled
  <2> QED BY <2>1 DEF run_static_probes
<1>3. PICK l \in Trees(found) : results[3] = ClientProbe(l)
  <2>1. PICK l \in Trees(found) : results[3] = run_static_probes(l)[3]
    BY DEF Untroubled
  <2> QED BY <2>1 DEF run_static_probes
<1>4. /\ ~ McpProbe(m).errors /\ ~ CryptoProbe(k).errors /\ ~ ClientProbe(l).errors
      /\ m \in Founds /\ k \in Founds /\ l \in Founds
      /\ DOMAIN m = DOMAIN found /\ DOMAIN k = DOMAIN found /\ DOMAIN l = DOMAIN found
      /\ r \in Repositories
      /\ Patterns[m[r]] = Patterns[found[r]] /\ Patterns[k[r]] = Patterns[found[r]]
      /\ Patterns[l[r]] = Patterns[found[r]]
  BY <1>1, <1>2, <1>3, TreeType DEF Untroubled
<1>5. CASE r = "mcp"
  <2>1. id \in McpClaims(Patterns[found["mcp"]])
    BY <1>5 DEF McpClaims, Home, Nested, Critical, High, Repaired
  <2> QED BY <2>1, <1>1, <1>4, <1>5, McpProbeReads
<1>6. CASE r = "dotnet"
  <2>1. id \in DotnetClaims(Patterns[found["dotnet"]])
    BY <1>6 DEF DotnetClaims, Home
  <2>2. CASE id \in Shared
    BY <2>1, <2>2, <1>3, <1>4, <1>6, ClientProbeReads
  <2>3. CASE id \notin Shared
    BY <2>1, <2>3, <1>2, <1>4, <1>6, CryptoProbeReads
  <2> QED BY <2>2, <2>3
<1>7. CASE r = "php"
  <2>1. id \in PhpClaims(Patterns[found["php"]])
    BY <1>7 DEF PhpClaims, Home
  <2> QED BY <2>1, <1>3, <1>4, <1>7, ClientProbeReads
<1>8. CASE r = "java"
  <2>1. id \in JavaClaims(Patterns[found["java"]])
    BY <1>8 DEF JavaClaims, Home, Critical, High, Repaired
  <2> QED BY <2>1, <1>3, <1>4, <1>8, ClientProbeReads
<1>9. CASE r = "ruby"
  <2>1. id \in RubyClaims(Patterns[found["ruby"]])
    BY <1>9 DEF RubyClaims, Home
  <2> QED BY <2>1, <1>2, <1>4, <1>9, CryptoProbeReads
<1>10. CASE r = "python"
  <2>1. id \in PythonClaims(Patterns[found["python"]])
    BY <1>10 DEF PythonClaims, Home
  <2> QED BY <2>1, <1>2, <1>4, <1>10, CryptoProbeReads
<1>11. CASE r \in {"node", "go"}
  BY <1>11 DEF Home, Critical, High, Repaired
<1> QED BY <1>4, <1>5, <1>6, <1>7, <1>8, <1>9, <1>10, <1>11 DEF Repositories

(***************************************************************************)
(* Dynamic probes.                                                         *)
(***************************************************************************)

LEMMA NothingRan ==
    ASSUME NEW found \in Founds, NEW containers, NEW has
    PROVE  AllRan(Failed({}), found, containers, has)
BY DEF AllRan, Failed, Result

LEMMA DynamicRuns ==
    ASSUME NEW found \in Founds, NEW containers, NEW has,
           NEW r \in DOMAIN found, NEW ids,
           \A id \in ids : Ran(Finding(id, "dynamic", found[r]), found, containers, has)
    PROVE  /\ AllRan(Healthy(Dynamic(ids, found[r])), found, containers, has)
           /\ AllRan(Failed(Dynamic(ids, found[r])), found, containers, has)
<1>1. \A g \in Dynamic(ids, found[r]) : Ran(g, found, containers, has)
  BY DEF Dynamic
<1>2. ASSUME NEW g \in Dynamic(ids, found[r]) PROVE g \in Findings
  <2>1. PICK q \in DOMAIN found : g.id \in Home[q] /\ g = Finding(g.id, "dynamic", found[q])
    BY <1>1 DEF Ran
  <2> QED BY <2>1, Levels, FindingType
<1> QED BY <1>1, <1>2 DEF AllRan, Healthy, Failed, Result

LEMMA ExecutedRuns ==
    ASSUME NEW found \in Founds, NEW containers, NEW has,
           NEW r \in DOMAIN found, NEW ids \in SUBSET Home[r], NEW tool, NEW broken,
           NEW v \in {found[r], Whole[found[r]]}, Economics \notin ids, Currency \notin ids,
           "RP-PHP-GLOBAL-AUTH-STATE" \in ids => tool = "php",
           ids \cap InContainer # {} => containers /\ tool = "docker"
    PROVE  AllRan(Executed(ids, tool, v, has, broken), found, containers, has)
<1>0. Defects[v] = Defects[found[r]] /\ \A id : Finding(id, "dynamic", v) = Finding(id, "dynamic", found[r])
  <2>1. found[r] \in Versions
    BY DEF Founds
  <2> QED BY <2>1, WholeAssumption DEF Finding
<1>1. CASE tool \notin has \/ v \notin Readable \/ broken # "no"
  BY <1>1, NothingRan DEF Executed
<1>2. CASE ~ (tool \notin has \/ v \notin Readable \/ broken # "no")
  <2>1. ASSUME NEW id \in ids \cap Defects[found[r]]
        PROVE  Ran(Finding(id, "dynamic", found[r]), found, containers, has)
    <3>1. Finding(id, "dynamic", found[r]).id = id
      BY DEF Finding
    <3> QED BY <1>2, <2>1, <3>1 DEF Ran
  <2>2. Dynamic(ids \cap Defects[v], v) = Dynamic(ids \cap Defects[found[r]], found[r])
    BY <1>0 DEF Dynamic
  <2> QED BY <1>2, <2>1, <2>2, DynamicRuns DEF Executed
<1> QED BY <1>1, <1>2

LEMMA SdksRun ==
    ASSUME NEW found \in Founds, NEW containers, NEW has, NEW broken
    PROVE  /\ "python" \in DOMAIN found =>
                 AllRan(PythonSdk(found["python"], has, broken), found, containers, has)
           /\ "ruby" \in DOMAIN found =>
                 AllRan(RubySdk(found["ruby"], has, broken), found, containers, has)
           /\ "php" \in DOMAIN found =>
                 AllRan(PhpState(found["php"], has, broken), found, containers, has)
<1>1. /\ {"RP-PYTHON-WEBHOOK-BYTES", "RP-PYTHON-PAYLINK-MISSING-FIELD"} \subseteq Home["python"]
      /\ {"RP-RUBY-PAYLINK-ORDER"} \subseteq Home["ruby"]
      /\ {"RP-PHP-GLOBAL-AUTH-STATE"} \subseteq Home["php"]
  BY DEF Home
<1>2. ASSUME "python" \in DOMAIN found
      PROVE  AllRan(PythonSdk(found["python"], has, broken), found, containers, has)
  <2> DEFINE ids == {"RP-PYTHON-WEBHOOK-BYTES", "RP-PYTHON-PAYLINK-MISSING-FIELD"}
  <2>1. Economics \notin ids /\ Currency \notin ids /\ "RP-PHP-GLOBAL-AUTH-STATE" \notin ids
        /\ ids \cap InContainer = {}
    BY DEF Economics, Currency, InContainer
  <2> QED BY <1>1, <1>2, <2>1, ExecutedRuns DEF PythonSdk
<1>3. ASSUME "ruby" \in DOMAIN found
      PROVE  AllRan(RubySdk(found["ruby"], has, broken), found, containers, has)
  <2> DEFINE ids == {"RP-RUBY-PAYLINK-ORDER"}
  <2>1. Economics \notin ids /\ Currency \notin ids /\ "RP-PHP-GLOBAL-AUTH-STATE" \notin ids
        /\ ids \cap InContainer = {}
    BY DEF Economics, Currency, InContainer
  <2> QED BY <1>1, <1>3, <2>1, ExecutedRuns DEF RubySdk
<1>4. ASSUME "php" \in DOMAIN found
      PROVE  AllRan(PhpState(found["php"], has, broken), found, containers, has)
  <2> DEFINE ids == {"RP-PHP-GLOBAL-AUTH-STATE"}
  <2>1. Economics \notin ids /\ Currency \notin ids /\ ids \cap InContainer = {}
    BY DEF Economics, Currency, InContainer
  <2> QED BY <1>1, <1>4, <2>1, ExecutedRuns DEF PhpState
<1> QED BY <1>2, <1>3, <1>4

LEMMA GeneratedRuns ==
    ASSUME NEW found \in Founds, NEW containers, NEW has, NEW broken,
           "mcp" \in DOMAIN found
    PROVE  /\ AllRan(GeneratedMoney(found["mcp"], has, broken), found, containers, has)
           /\ AllRan(NodeSignature(found["mcp"], has, broken), found, containers, has)
<1> DEFINE v == found["mcp"]
           money == IF has \cap {"python3", "ruby", "php"} # {} THEN {Money} ELSE {}
           currency == IF "node" \in has THEN {Currency} ELSE {}
<1>1. ASSUME NEW id \in Written, id = Currency => "node" \in has
      PROVE  Ran(Finding(id, "dynamic", v), found, containers, has)
  <2>1. Finding(id, "dynamic", v).id = id
    BY DEF Finding
  <2>2. id \in Home["mcp"] /\ id # Economics /\ id # "RP-PHP-GLOBAL-AUTH-STATE" /\ id \notin InContainer
    BY DEF Written, Home, Economics, InContainer, Money, Currency
  <2> QED BY <1>1, <2>1, <2>2 DEF Ran
<1>2. {Money, Currency, "RP-MCP-GENERATOR-SIGNATURE-LENGTH-500"} \subseteq Written
      /\ Money # Currency /\ Currency # "RP-MCP-GENERATOR-SIGNATURE-LENGTH-500"
  BY DEF Written, Money, Currency
<1>3. /\ \A id \in money : Ran(Finding(id, "dynamic", v), found, containers, has)
      /\ \A id \in money \cup currency : Ran(Finding(id, "dynamic", v), found, containers, has)
      /\ Ran(Finding("RP-MCP-GENERATOR-SIGNATURE-LENGTH-500", "dynamic", v), found, containers, has)
  BY <1>1, <1>2
<1>4. AllRan(NodeSignature(v, has, broken), found, containers, has)
  BY <1>3, NothingRan, DynamicRuns DEF NodeSignature
<1>5. GeneratedMoney(v, has, broken) \in
          {Failed({}), Failed(Dynamic(money, v)), Healthy(Dynamic(money \cup currency, v))}
  <2>1. Dynamic({}, v) = {} /\ Dynamic(money \cup currency, v) = Dynamic(money, v) \cup Dynamic(currency, v)
    BY DEF Dynamic
  <2> QED BY <2>1 DEF GeneratedMoney, Money, Currency
<1>6. AllRan(GeneratedMoney(v, has, broken), found, containers, has)
  <2> HIDE DEF money, currency
  <2> QED BY <1>3, <1>5, NothingRan, DynamicRuns
<1> QED BY <1>4, <1>6

LEMMA ContainersRun ==
    ASSUME NEW found \in Founds, NEW has, NEW broken
    PROVE  /\ "mcp" \in DOMAIN found =>
                 AllRan(GoRefund(found["mcp"], has, broken), found, TRUE, has)
           /\ "dotnet" \in DOMAIN found =>
                 AllRan(DotnetSdk(found["dotnet"], has, broken), found, TRUE, has)
           /\ "java" \in DOMAIN found =>
                 AllRan(JavaSemantics(found["java"], has, broken), found, TRUE, has)
<1> DEFINE mcp == {"RP-MCP-REFUND-TRUNCATION"}
           dotnet == {"RP-DOTNET-GCM-NONCE-REUSE", "RP-DOTNET-WEBHOOK-ASCII", "RP-DOTNET-GLOBAL-AUTH-STATE"}
           java == {"RP-JAVA-UPLOAD-MIME", "RP-JAVA-UPLOAD-DUPLICATE-FILE-PART", "RP-JAVA-GLOBAL-PARTNER-HEADERS"}
<1>1. mcp \subseteq Home["mcp"] /\ dotnet \subseteq Home["dotnet"] /\ java \subseteq Home["java"]
  BY DEF Home
<1>2. \A ids \in {mcp, dotnet, java} :
          Economics \notin ids /\ Currency \notin ids /\ "RP-PHP-GLOBAL-AUTH-STATE" \notin ids
  BY DEF Economics, Currency
<1> QED BY <1>1, <1>2, ExecutedRuns DEF GoRefund, DotnetSdk, JavaSemantics

LEMMA OneOrNone ==
    ASSUME NEW found \in Founds, NEW containers, NEW has, NEW b \in BOOLEAN, NEW result,
           b => AllRan(result, found, containers, has),
           NEW s, s = IF b THEN <<result>> ELSE <<>>
    PROVE  s \in Seq(Result) /\ \A i \in DOMAIN s : AllRan(s[i], found, containers, has)
BY DEF AllRan

LEMMA JoinedRan ==
    ASSUME NEW found \in Founds, NEW containers, NEW has,
           NEW s \in Seq(Result), \A i \in DOMAIN s : AllRan(s[i], found, containers, has),
           NEW t \in Seq(Result), \A i \in DOMAIN t : AllRan(t[i], found, containers, has)
    PROVE  /\ s \o t \in Seq(Result)
           /\ \A i \in DOMAIN (s \o t) : AllRan((s \o t)[i], found, containers, has)
<1>1. /\ s \o t \in Seq(Result) /\ DOMAIN (s \o t) = 1..(Len(s) + Len(t))
      /\ Len(s) \in Nat /\ Len(t) \in Nat /\ DOMAIN s = 1..Len(s) /\ DOMAIN t = 1..Len(t)
  OBVIOUS
<1>2. ASSUME NEW i \in 1..(Len(s) + Len(t))
      PROVE  (s \o t)[i] = IF i <= Len(s) THEN s[i] ELSE t[i - Len(s)]
  OBVIOUS
<1>3. ASSUME NEW i \in 1..(Len(s) + Len(t))
      PROVE  AllRan((s \o t)[i], found, containers, has)
  <2>1. CASE i <= Len(s)
    <3>1. i \in DOMAIN s /\ (s \o t)[i] = s[i]
      BY <1>1, <1>2, <2>1
    <3> QED BY <3>1
  <2>2. CASE ~ (i <= Len(s))
    <3>1. i - Len(s) \in DOMAIN t /\ (s \o t)[i] = t[i - Len(s)]
      BY <1>1, <1>2, <2>2
    <3> QED BY <3>1
  <2> QED BY <2>1, <2>2
<1> QED BY <1>1, <1>3

LEMMA DynamicProbesRan ==
    ASSUME NEW found \in Founds, NEW containers \in BOOLEAN, NEW has, NEW luck
    PROVE  /\ run_dynamic_probes(found, containers, has, luck) \in Seq(Result)
           /\ \A i \in DOMAIN run_dynamic_probes(found, containers, has, luck) :
                 AllRan(run_dynamic_probes(found, containers, has, luck)[i],
                        found, containers, has)
<1> DEFINE at(repo) == repo \in DOMAIN found
           s1 == IF at("python") THEN <<PythonSdk(found["python"], has, luck["python-sdk"])>> ELSE <<>>
           s2 == IF at("ruby") THEN <<RubySdk(found["ruby"], has, luck["ruby-sdk"])>> ELSE <<>>
           s3 == IF at("mcp") THEN <<GeneratedMoney(found["mcp"], has, luck["generated-money"])>> ELSE <<>>
           s4 == IF at("mcp") THEN <<NodeSignature(found["mcp"], has, luck["node-signature"])>> ELSE <<>>
           s5 == IF at("php") THEN <<PhpState(found["php"], has, luck["php-state"])>> ELSE <<>>
           s6 == IF at("mcp") THEN <<GoRefund(found["mcp"], has, luck["go-refund"])>> ELSE <<>>
           s7 == IF at("dotnet") THEN <<DotnetSdk(found["dotnet"], has, luck["dotnet-sdk"])>> ELSE <<>>
           s8 == IF at("java") THEN <<JavaSemantics(found["java"], has, luck["java-semantics"])>> ELSE <<>>
           Fits(s) == s \in Seq(Result) /\ \A i \in DOMAIN s : AllRan(s[i], found, containers, has)
<1>1. run_dynamic_probes(found, containers, has, luck) =
          s1 \o s2 \o s3 \o s4 \o s5 \o (IF containers THEN s6 \o s7 \o s8 ELSE <<>>)
  BY DEF run_dynamic_probes
<1>2. Fits(s1) /\ Fits(s2) /\ Fits(s5)
  <2>1. at("python") \in BOOLEAN /\ at("ruby") \in BOOLEAN /\ at("php") \in BOOLEAN
    OBVIOUS
  <2>2. Fits(s1)
    BY <2>1, SdksRun, OneOrNone
  <2>3. Fits(s2)
    BY <2>1, SdksRun, OneOrNone
  <2>4. Fits(s5)
    BY <2>1, SdksRun, OneOrNone
  <2> QED BY <2>2, <2>3, <2>4
<1>3. Fits(s3) /\ Fits(s4)
  <2>1. at("mcp") \in BOOLEAN
    OBVIOUS
  <2>2. Fits(s3)
    BY <2>1, GeneratedRuns, OneOrNone
  <2>3. Fits(s4)
    BY <2>1, GeneratedRuns, OneOrNone
  <2> QED BY <2>2, <2>3
<1>4. ASSUME containers PROVE Fits(s6) /\ Fits(s7) /\ Fits(s8)
  <2>0. containers = TRUE
    BY <1>4
  <2>1. at("mcp") \in BOOLEAN /\ at("dotnet") \in BOOLEAN /\ at("java") \in BOOLEAN
    OBVIOUS
  <2>2. Fits(s6)
    BY <2>0, <2>1, ContainersRun, OneOrNone
  <2>3. Fits(s7)
    BY <2>0, <2>1, ContainersRun, OneOrNone
  <2>4. Fits(s8)
    BY <2>0, <2>1, ContainersRun, OneOrNone
  <2> QED BY <2>2, <2>3, <2>4
<1>5. \A s, t : Fits(s) /\ Fits(t) => Fits(s \o t)
  BY JoinedRan
<1>6. Fits(<<>>)
  OBVIOUS
<1> HIDE DEF s1, s2, s3, s4, s5, s6, s7, s8, Fits
<1>7. Fits(s1 \o s2)
  BY <1>2, <1>5
<1>8. Fits(s1 \o s2 \o s3)
  BY <1>3, <1>5, <1>7
<1>9. Fits(s1 \o s2 \o s3 \o s4)
  BY <1>3, <1>5, <1>8
<1>10. Fits(s1 \o s2 \o s3 \o s4 \o s5)
  BY <1>2, <1>5, <1>9
<1>11. Fits(IF containers THEN s6 \o s7 \o s8 ELSE <<>>)
  <2>1. ASSUME containers PROVE Fits(s6 \o s7 \o s8)
    <3>1. Fits(s6 \o s7)
      BY <2>1, <1>4, <1>5
    <3> QED BY <2>1, <3>1, <1>4, <1>5
  <2> QED BY <2>1, <1>6
<1>12. Fits(run_dynamic_probes(found, containers, has, luck))
  BY <1>1, <1>5, <1>10, <1>11
<1> QED BY <1>12 DEF Fits

-----------------------------------------------------------------------------
(* Loops.                                                                  *)

\* Every set of naturals that is not empty has a least element.
LEMMA LeastNatural ==
    ASSUME NEW T \in SUBSET Nat, T # {}
    PROVE  \E n \in T : \A m \in T : n <= m
<1>1. PICK n \in T : \A m \in T : <<m, n>> \notin OpToRel(<, Nat)
  BY NatLessThanWellFounded, WFMin
<1>2. \A m \in T : m < n => <<m, n>> \in OpToRel(<, Nat)
  BY DEF OpToRel
<1>3. \A m \in T : ~(m < n)
  BY <1>1, <1>2, Zenon
<1> QED BY <1>3

\* f holds the values of a loop of N turns over S.
Loops(f, S, start, N, Turn) ==
    /\ f \in [0..N -> S]
    /\ f[0] = start
    /\ \A n \in 1..N : f[n] = Turn[<<f[n - 1], n>>]

\* Every loop runs to its end: there is no first turn that it does not reach.
LEMMA LoopRuns ==
    ASSUME NEW S, NEW start \in S, NEW N \in Nat, NEW Turn \in [S \X (1..N) -> S]
    PROVE  \E f : Loops(f, S, start, N, Turn)
<1> DEFINE Reached(k) ==
               \E f \in [0..k -> S] :
                  f[0] = start /\ \A n \in 1..k : f[n] = Turn[<<f[n - 1], n>>]
           T == {k \in 0..N : ~ Reached(k)}
<1>1. SUFFICES ASSUME T # {} PROVE FALSE
  <2>1. N \in T \/ Reached(N)
    OBVIOUS
  <2> QED BY <2>1 DEF Loops
<1>2. PICK k \in T : \A m \in T : k <= m
  <2>1. T \in SUBSET Nat
    OBVIOUS
  <2> HIDE DEF T
  <2> QED BY <1>1, <2>1, LeastNatural
<1>3. k # 0
  <2>1. [i \in 0..0 |-> start] \in [0..0 -> S] /\ [i \in 0..0 |-> start][0] = start
    OBVIOUS
  <2>2. \A n \in 1..0 : FALSE
    OBVIOUS
  <2>3. Reached(0)
    BY <2>1, <2>2
  <2> HIDE DEF Reached
  <2> QED BY <2>3
<1>4. Reached(k - 1)
  <2>1. k - 1 \in 0..N /\ k - 1 \notin T
    BY <1>2, <1>3
  <2> QED BY <2>1
<1>5. PICK f \in [0..(k - 1) -> S] :
          f[0] = start /\ \A n \in 1..(k - 1) : f[n] = Turn[<<f[n - 1], n>>]
  BY <1>4
<1> DEFINE g == [i \in 0..k |-> IF i < k THEN f[i] ELSE Turn[<<f[k - 1], k>>]]
<1>6. k \in 1..N
  BY <1>3
<1>7. g \in [0..k -> S] /\ g[0] = start
  BY <1>5, <1>6
<1>8. ASSUME NEW n \in 1..k PROVE g[n] = Turn[<<g[n - 1], n>>]
  <2>1. n - 1 \in 0..k /\ n - 1 < k /\ n \in 0..k
    BY <1>6
  <2>2. g[n - 1] = f[n - 1]
    BY <2>1
  <2>3. CASE n < k
    <3>1. g[n] = f[n] /\ n \in 1..(k - 1)
      BY <2>1, <2>3
    <3> QED BY <3>1, <2>2, <1>5
  <2>4. CASE n = k
    <3>1. g[n] = Turn[<<f[k - 1], k>>]
      BY <2>1, <2>4
    <3> QED BY <3>1, <2>4, <2>2
  <2> QED BY <2>3, <2>4, <1>6
<1>9. Reached(k)
  <2> HIDE DEF g
  <2> QED BY <1>7, <1>8
<1> QED BY <1>2, <1>9

-----------------------------------------------------------------------------
(* merge_findings.                                                         *)

Same(made, id) == {g \in made : g.id = id}

\* merged is what was made, each claim once.
MergeOf(merged, made) ==
    /\ merged \in SUBSET Findings
    /\ \A g \in made : \E f \in merged : f.id = g.id
    /\ \A f, g \in merged : f.id = g.id => f = g
    /\ \A f \in merged :
          /\ f.evidence = UNION {g.evidence : g \in Same(made, f.id)}
          /\ \E g \in Same(made, f.id) : g.level = f.level
          /\ \A g \in Same(made, f.id) : Rank[g.level] <= Rank[f.level]

OnePerClaim(findings) == \A f, g \in findings : f.id = g.id => f = g

LEMMA AbsorbFields ==
    ASSUME NEW f \in Findings, NEW g \in Findings
    PROVE  /\ Absorb(f, g) \in Findings
           /\ Absorb(f, g).id = f.id
           /\ Absorb(f, g).evidence = f.evidence \cup g.evidence
           /\ Absorb(f, g).level = IF Rank[g.level] > Rank[f.level] THEN g.level ELSE f.level
<1> DEFINE level == IF Rank[g.level] > Rank[f.level] THEN g.level ELSE f.level
           evidence == f.evidence \cup g.evidence
<1>1. level \in DOMAIN Rank /\ evidence \in SUBSET ((DOMAIN Rank) \X Versions)
  BY DEF Findings
<1>2. Absorb(f, g) = [f EXCEPT !.evidence = evidence, !.level = level]
  BY DEF Absorb
<1> HIDE DEF level, evidence
<1>3. /\ [f EXCEPT !.evidence = evidence, !.level = level] \in Findings
      /\ [f EXCEPT !.evidence = evidence, !.level = level].id = f.id
      /\ [f EXCEPT !.evidence = evidence, !.level = level].evidence = evidence
      /\ [f EXCEPT !.evidence = evidence, !.level = level].level = level
  BY <1>1 DEF Findings
<1> QED BY <1>2, <1>3 DEF level, evidence

\* What a finding is after one more result.
LEMMA CanonicalFields ==
    ASSUME NEW made \in SUBSET Findings, NEW findings \in SUBSET Findings,
           OnePerClaim(findings), NEW f \in Findings,
           f.evidence = UNION {g.evidence : g \in Same(made, f.id)},
           \E g \in Same(made, f.id) : g.level = f.level,
           \A g \in Same(made, f.id) : Rank[g.level] <= Rank[f.level]
    PROVE  LET c == Canonical(f, findings)
               all == Same(made \cup findings, f.id) IN
           /\ c \in Findings /\ c.id = f.id
           /\ c.evidence = UNION {g.evidence : g \in all}
           /\ \E g \in all : g.level = c.level
           /\ \A g \in all : Rank[g.level] <= Rank[c.level]
<1> DEFINE c == Canonical(f, findings)
           all == Same(made \cup findings, f.id)
<1>1. CASE ~ \E g \in findings : g.id = f.id
  <2>1. c = f
    BY <1>1 DEF Canonical
  <2>2. all = Same(made, f.id)
    BY <1>1 DEF Same
  <2> QED BY <2>1, <2>2
<1>2. CASE \E g \in findings : g.id = f.id
  <2>1. PICK h \in findings : h.id = f.id /\ c = Absorb(f, h)
    BY <1>2 DEF Canonical
  <2>2. Same(findings, f.id) = {h} /\ all = Same(made, f.id) \cup {h}
    BY <2>1 DEF Same, OnePerClaim
  <2>3. \A l \in DOMAIN Rank : Rank[l] \in Nat
    BY Levels
  <2>4. f.level \in DOMAIN Rank /\ h.level \in DOMAIN Rank
        /\ \A g \in made : g.level \in DOMAIN Rank
    BY DEF Findings
  <2>5. /\ c \in Findings /\ c.id = f.id
        /\ c.evidence = f.evidence \cup h.evidence
        /\ c.level = IF Rank[h.level] > Rank[f.level] THEN h.level ELSE f.level
    <3> HIDE DEF c
    <3> QED BY <2>1, AbsorbFields
  <2>6. c.evidence = UNION {g.evidence : g \in all}
    BY <2>2, <2>5
  <2>7. \E g \in all : g.level = c.level
    BY <2>2, <2>5
  <2>8. ASSUME NEW g \in all PROVE Rank[g.level] <= Rank[c.level]
    <3>1. Rank[f.level] <= Rank[c.level] /\ Rank[h.level] <= Rank[c.level]
      BY <2>3, <2>4, <2>5
    <3>2. CASE g = h
      BY <3>1, <3>2
    <3>3. CASE g \in Same(made, f.id)
      <4>1. Rank[g.level] <= Rank[f.level] /\ g.level \in DOMAIN Rank
        BY <2>4, <3>3 DEF Same
      <4>2. Rank[g.level] \in Nat /\ Rank[f.level] \in Nat /\ Rank[c.level] \in Nat
        BY <4>1, <2>3, <2>4, <2>5
      <4> QED BY <3>1, <4>1, <4>2
    <3> QED BY <2>2, <3>2, <3>3
  <2> QED BY <2>5, <2>6, <2>7, <2>8
<1> QED BY <1>1, <1>2

LEMMA MergeOneMore ==
    ASSUME NEW merged, NEW made \in SUBSET Findings, MergeOf(merged, made),
           NEW findings \in SUBSET Findings, OnePerClaim(findings)
    PROVE  MergeOf(MergeResult(merged, findings), made \cup findings)
<1> DEFINE next == MergeResult(merged, findings)
           all == made \cup findings
           old == {Canonical(f, findings) : f \in merged}
           new == {g \in findings : \A f \in merged : f.id # g.id}
           Right(f) == /\ f \in Findings
                       /\ f.evidence = UNION {g.evidence : g \in Same(all, f.id)}
                       /\ \E g \in Same(all, f.id) : g.level = f.level
                       /\ \A g \in Same(all, f.id) : Rank[g.level] <= Rank[f.level]
<1>1. next = old \cup new
  BY DEF MergeResult
<1>2. ASSUME NEW f \in merged
      PROVE  Canonical(f, findings).id = f.id /\ Right(Canonical(f, findings))
  <2>1. /\ f \in Findings
        /\ f.evidence = UNION {g.evidence : g \in Same(made, f.id)}
        /\ \E g \in Same(made, f.id) : g.level = f.level
        /\ \A g \in Same(made, f.id) : Rank[g.level] <= Rank[f.level]
    BY DEF MergeOf
  <2> DEFINE c == Canonical(f, findings)
  <2>2. /\ c \in Findings /\ c.id = f.id
        /\ c.evidence = UNION {g.evidence : g \in Same(all, f.id)}
        /\ \E g \in Same(all, f.id) : g.level = c.level
        /\ \A g \in Same(all, f.id) : Rank[g.level] <= Rank[c.level]
    BY <2>1, CanonicalFields
  <2> HIDE DEF c, all
  <2>3. c.id = f.id /\ Right(c)
    BY <2>2
  <2> QED BY <2>3 DEF c
<1>3. ASSUME NEW g \in new PROVE Right(g)
  <2>1. Same(all, g.id) = {g}
    <3>1. \A x \in made : x.id # g.id
      BY DEF MergeOf
    <3> QED BY <3>1 DEF Same, OnePerClaim
  <2>2. Rank[g.level] <= Rank[g.level]
    <3>1. g.level \in DOMAIN Rank
      BY DEF Findings
    <3> QED BY <3>1, Levels
  <2> QED BY <2>1, <2>2
<1> HIDE DEF Right
<1>4. \A f \in next : Right(f)
  BY <1>1, <1>2, <1>3
<1>5. ASSUME NEW x \in all PROVE \E f \in next : f.id = x.id
  <2>1. CASE x \in made
    <3>1. PICK f \in merged : f.id = x.id
      BY <2>1 DEF MergeOf
    <3> QED BY <3>1, <1>1, <1>2
  <2>2. CASE x \in findings
    <3>1. CASE x \in new
      BY <3>1, <1>1
    <3>2. CASE x \notin new
      <4>1. PICK f \in merged : f.id = x.id
        BY <2>2, <3>2
      <4> QED BY <4>1, <1>1, <1>2
    <3> QED BY <3>1, <3>2
  <2> QED BY <2>1, <2>2
<1>6. ASSUME NEW x \in next, NEW y \in next, x.id = y.id PROVE x = y
  <2>1. CASE x \in new /\ y \in new
    BY <2>1, <1>6 DEF OnePerClaim
  <2>2. CASE x \in old /\ y \in old
    <3>1. PICK f \in merged, g \in merged : x = Canonical(f, findings) /\ y = Canonical(g, findings)
      BY <2>2
    <3>2. f.id = g.id
      BY <3>1, <1>2, <1>6
    <3> QED BY <3>1, <3>2 DEF MergeOf
  <2>3. ASSUME NEW f \in merged, NEW g \in new PROVE Canonical(f, findings).id # g.id
    BY <1>2
  <2> QED BY <1>1, <1>6, <2>1, <2>2, <2>3
<1> QED BY <1>4, <1>5, <1>6 DEF MergeOf, Right

Made(results) == UNION {results[i].findings : i \in DOMAIN results}

\* merge_findings keeps every claim once, with all its evidence and its
\* strongest level: there is no first turn of the loop that loses one.
LEMMA MergeFindings ==
    ASSUME NEW results \in Seq(Result), \A i \in DOMAIN results : OnePerClaim(results[i].findings)
    PROVE  MergeOf(merge_findings(results), Made(results))
<1> DEFINE N == Len(results)
           S == SUBSET Findings
           Turn == [x \in S \X (1..N) |-> MergeResult(x[1], results[x[2]].findings)]
           Loop(f) == [n \in 0..N |-> IF n = 0 THEN {} ELSE MergeResult(f[n - 1], results[n].findings)]
           MadeBy(n) == UNION {results[i].findings : i \in 1..n}
<1>0. N \in Nat /\ DOMAIN results = 1..N
      /\ \A i \in 1..N : results[i].findings \in S /\ OnePerClaim(results[i].findings)
  <2>1. N \in Nat /\ DOMAIN results = 1..N /\ \A i \in 1..N : results[i] \in Result
    OBVIOUS
  <2> QED BY <2>1 DEF Result
<1>1. ASSUME NEW merged \in S, NEW findings \in S
      PROVE  MergeResult(merged, findings) \in S
  <2>1. ASSUME NEW f \in merged PROVE Canonical(f, findings) \in Findings
    BY AbsorbFields DEF Canonical
  <2> QED BY <2>1 DEF MergeResult
<1>2. Turn \in [S \X (1..N) -> S]
  <2>1. \A x \in S \X (1..N) : MergeResult(x[1], results[x[2]].findings) \in S
    BY <1>0, <1>1
  <2> QED BY <2>1
<1>3. PICK f : Loops(f, S, {}, N, Turn)
  <2>1. {} \in S
    OBVIOUS
  <2> HIDE DEF S, N, Turn
  <2> QED BY <2>1, <1>0, <1>2, LoopRuns
<1>4. \A n \in 1..N : f[n] = MergeResult(f[n - 1], results[n].findings)
  <2>1. ASSUME NEW n \in 1..N PROVE f[n - 1] \in S /\ f[n] = Turn[<<f[n - 1], n>>]
    <3> HIDE DEF S, Turn
    <3>1. n - 1 \in 0..N
      BY <1>0
    <3> QED BY <3>1, <1>3 DEF Loops
  <2> HIDE DEF S
  <2> QED BY <2>1
<1>5. f = Loop(f)
  <2> HIDE DEF N, S, Turn
  <2> QED BY <1>3, <1>4 DEF Loops
<1> DEFINE loop == CHOOSE h : h = Loop(h)
<1>6. loop = Loop(loop)
  <2> HIDE DEF Loop
  <2> QED BY <1>5
<1>7. merge_findings(results) = loop[N]
  BY DEF merge_findings
<1> HIDE DEF loop
<1>8. loop[0] = {} /\ \A n \in 1..N : loop[n] = MergeResult(loop[n - 1], results[n].findings)
  <2> HIDE DEF N
  <2>1. \A n \in 0..N : loop[n] = IF n = 0 THEN {} ELSE MergeResult(loop[n - 1], results[n].findings)
    BY <1>6
  <2> QED BY <2>1, <1>0
<1> DEFINE Wrong == {n \in 0..N : ~ MergeOf(loop[n], MadeBy(n))}
<1>9. Wrong = {}
  <2>1. SUFFICES ASSUME Wrong # {} PROVE FALSE
    OBVIOUS
  <2>2. PICK n \in Wrong : \A m \in Wrong : n <= m
    <3>1. Wrong \in SUBSET Nat
      OBVIOUS
    <3> HIDE DEF Wrong
    <3> QED BY <2>1, <3>1, LeastNatural
  <2>3. CASE n = 0
    <3>1. MadeBy(0) = {}
      OBVIOUS
    <3>2. MergeOf({}, {})
      BY DEF MergeOf
    <3> QED BY <2>2, <2>3, <3>1, <3>2, <1>8
  <2>4. CASE n # 0
    <3>1. n \in 1..N /\ n - 1 \in 0..N /\ ~(n <= n - 1)
      BY <2>4, <1>0
    <3>2. MergeOf(loop[n - 1], MadeBy(n - 1))
      BY <3>1, <2>2
    <3>3. MadeBy(n) = MadeBy(n - 1) \cup results[n].findings
      <4>1. 1..n = 1..(n - 1) \cup {n}
        BY <3>1
      <4> HIDE DEF Wrong
      <4> QED BY <4>1
    <3>4. MadeBy(n - 1) \in SUBSET Findings
      <4>1. 1..(n - 1) \subseteq 1..N
        BY <3>1, <1>0
      <4> QED BY <4>1, <1>0
    <3> HIDE DEF MadeBy
    <3>5. MergeOf(loop[n], MadeBy(n))
      BY <3>1, <3>2, <3>3, <3>4, <1>0, <1>8, MergeOneMore
    <3> QED BY <2>2, <3>5
  <2> QED BY <2>3, <2>4
<1>10. MergeOf(loop[N], MadeBy(N))
  <2>1. N \in 0..N
    BY <1>0
  <2> HIDE DEF MadeBy, N
  <2> QED BY <2>1, <1>9
<1> QED BY <1>0, <1>7, <1>10 DEF Made

-----------------------------------------------------------------------------
(* The invariant.                                                          *)

Points == {"off", "done", "repos", "cloning", "checkout", "scan", "static", "dynamic", "merge",
           "open", "write", "mobile-registry-evidence", "build-chains", "load", "prove-fixes", "fixes"}

Scans == [findings : SUBSET Findings, found : Founds, containers : BOOLEAN]

Reports ==
    {None} \cup Nat \cup Scans \cup [checks : BOOLEAN]
    \cup [checks : BOOLEAN, scan : Scans] \cup [checks : BOOLEAN, found : Founds]

Cli == [at : Points, cmd : Commands \cup {None}, found : Founds, results : Seq(Result),
        report : Reports, code : {None, 0, 1, 2}]

\* A claim of a report is one that a probe made, at the level the report says.
Grounded(f, found, containers, has) ==
    \E g : /\ g.id = f.id /\ g.level = f.level
           /\ Read(g, found) \/ Ran(g, found, containers, has)

ScanSound(scan, has) ==
    /\ scan \in Scans
    /\ \A f \in scan.findings : Grounded(f, scan.found, scan.containers, has)

\* What a build that passes says of the scan it read.
Executable(scan, has) ==
    /\ scan.containers
    /\ {"docker", "php", "node"} \subseteq has
    /\ {"mcp", "dotnet", "php", "java"} \subseteq DOMAIN scan.found
    /\ {"RP-MCP-REFUND-TRUNCATION", "RP-DOTNET-GLOBAL-AUTH-STATE", "RP-PHP-GLOBAL-AUTH-STATE",
        "RP-JAVA-GLOBAL-PARTNER-HEADERS", "RP-JAVA-UPLOAD-MIME",
        "RP-JAVA-UPLOAD-DUPLICATE-FILE-PART"} \subseteq Shown(scan.found)
    /\ {Money, "RP-MCP-MOBILE-MISSING-SIGNATURE",
        "RP-MCP-MOBILE-DEPENDENCY-CONFUSION"} \subseteq Present(scan.found)

\* What a fix report that says fixed says of the clones it names: red before,
\* green after, and the text it replaced is what the static probe reads.
WasRed(found) ==
    \A r \in DOMAIN Repaired \cap DOMAIN found :
        Repaired[r] \in Defects[found[r]] \cap Cures[found[r]] \cap Patterns[found[r]]

\* The clones d are at the commits found.
Settled(d, found) == \A r \in DOMAIN found : d[r] \in Versions /\ Whole[d[r]] = found[r]

\* What may be written to an artifact.
ReportSound(output, report, has) ==
    /\ output \in {"latest", "expanded"} => ScanSound(report, has)
    /\ output = "registry" => report \in [checks : BOOLEAN]
    /\ output = "chains" =>
          /\ report \in [checks : BOOLEAN, scan : Scans]
          /\ report.checks => Executable(report.scan, has)
    /\ output = "fixes" =>
          /\ report \in [checks : BOOLEAN, found : Founds]
          /\ report.checks => WasRed(report.found)

InContainers(cmd) == cmd.dynamic /\ cmd.containers

\* What a scan has gathered of the clones it inspected.
Gathered(results, found, cmd, has) ==
    /\ \A i \in DOMAIN results :
          AllRead(results[i], found) \/ AllRan(results[i], found, InContainers(cmd), has)
    /\ \A i \in 1..3 \cap DOMAIN results :
          \E now \in Trees(found) : results[i] = run_static_probes(now)[i]

ScanReport(c) ==
    [findings |-> merge_findings(c.results), found |-> c.found,
     containers |-> InContainers(c.cmd)]

NameFits(c) ==
    /\ c.at \in {"repos", "cloning", "checkout"} => c.cmd.name = "repos"
    /\ c.at \in {"scan", "static", "dynamic", "merge"} => c.cmd.name = "scan"
    /\ c.at = "mobile-registry-evidence" => c.cmd.name = "mobile-registry-evidence"
    /\ c.at \in {"build-chains", "load"} => c.cmd.name = "build-chains"
    /\ c.at \in {"prove-fixes", "fixes"} => c.cmd.name = "prove-fixes"
    /\ c.at \in {"open", "write"} => c.cmd.name # "repos"
    /\ c.at = "dynamic" => c.cmd.dynamic

ResultsFit(c, has) ==
    /\ c.at \in {"scan", "static"} => c.report = None
    /\ c.at = "static" => Len(c.results) < 3
    /\ c.at \in {"dynamic", "merge"} => c.results # <<>>
    /\ c.results # <<>> =>
          /\ c.at \in {"static", "dynamic", "merge", "open", "write", "done"}
          /\ c.cmd.name = "scan"
          /\ Gathered(c.results, c.found, c.cmd, has)
          /\ c.at # "static" => 3 <= Len(c.results)
          /\ c.report = IF c.at \in {"static", "dynamic", "merge"} THEN None ELSE ScanReport(c)

\* What process c holds, when the clones are d and the tools are has.
ProcessFits(c, d, has) ==
    /\ c \in Cli
    /\ Settled(d, c.found)
    /\ c.at = "done" <=> c.code # None
    /\ c.at # "off" => c.cmd \in Commands
    /\ NameFits(c)
    /\ ResultsFit(c, has)
    /\ c.at = "cloning" => c.report \in 1..8 /\ d[OFFICIAL_REPOSITORIES[c.report]] = Partial
    /\ c.at = "checkout" => c.report \in 1..8 /\ d[OFFICIAL_REPOSITORIES[c.report]] \in Versions
    /\ c.at = "load" => ScanSound(c.report, has)
    /\ c.at \in {"open", "write"} =>
          /\ ReportSound(c.cmd.output, c.report, has)
          /\ c.cmd.name = "scan" => c.results # <<>>
          /\ c.cmd.name = "prove-fixes" => c.report.found = c.found
    /\ c.at = "done" /\ c.cmd.name = "scan" /\ c.code = 0 =>
          c.results # <<>> /\ Gate(c.cmd.failOn, merge_findings(c.results)) = 0

\* No two processes clone the same repository: each left one that has no .git.
ClonesApart ==
    \A p, q \in Processes :
        cli[p].at = "cloning" /\ cli[q].at = "cloning" /\ p # q =>
            OFFICIAL_REPOSITORIES[cli[p].report] # OFFICIAL_REPOSITORIES[cli[q].report]

\* What the artifacts hold, when the clones are d and the tools are has.
FilesFit(fs, d, has) ==
    /\ fs \in [Files -> {None, Torn} \cup Reports]
    /\ \A f \in Files : fs[f] \in {None, Torn} \/ ReportSound(f, fs[f], has)
    /\ fs["fixes"] \in {None, Torn} \/ Settled(d, fs["fixes"].found)

CompilerInv ==
    /\ disk \in [Repositories -> Versions \cup {None, Partial}]
    /\ provider \in {"missing", "failed", "passed"}
    /\ cli \in [Processes -> Cli]
    /\ commands \in 0..MaxCommands
    /\ kills \in 0..MaxKills
    /\ FilesFit(files, disk, tools)
    /\ \A p \in Processes : ProcessFits(cli[p], disk, tools)
    /\ ClonesApart

LEMMA NothingFound == <<>> \in Founds
<1>1. <<>> \in [{} -> Versions]
  OBVIOUS
<1> QED BY <1>1 DEF Founds

\* A process that does nothing.
LEMMA OffFits == ASSUME NEW d, NEW has PROVE ProcessFits(Off, d, has)
<1>1. Off \in Cli
  <2>1. <<>> \in Seq(Result) /\ None \in Reports /\ "off" \in Points
    BY DEF Reports, Points
  <2> QED BY <2>1, NothingFound DEF Off, Cli
<1>2. DOMAIN <<>> = {}
  OBVIOUS
<1>3. Off.at = "off" /\ Off.found = <<>> /\ Off.results = <<>> /\ Off.code = None
  BY DEF Off
<1> QED BY <1>1, <1>2, <1>3 DEF ProcessFits, NameFits, ResultsFit, Settled

\* A process that ends.
LEMMA ExitFits ==
    ASSUME NEW d, NEW has, NEW c, ProcessFits(c, d, has), NEW code \in {0, 1, 2},
           c.at \notin {"off", "static", "dynamic", "merge"},
           c.cmd.name = "scan" /\ code = 0 =>
               c.results # <<>> /\ Gate(c.cmd.failOn, merge_findings(c.results)) = 0
    PROVE  ProcessFits([c EXCEPT !.at = "done", !.code = code], d, has)
<1> DEFINE e == [c EXCEPT !.at = "done", !.code = code]
<1>0. c \in Cli
  BY DEF ProcessFits
<1>1. /\ e \in Cli /\ e.at = "done" /\ e.code = code /\ e.cmd = c.cmd /\ e.found = c.found
      /\ e.results = c.results /\ e.report = c.report
  BY <1>0 DEF Cli, Points
<1> HIDE DEF e
<1>2. code # None
  BY MarksAssumption
<1>3. ScanReport(e) = ScanReport(c)
  BY <1>1 DEF ScanReport
<1>4. NameFits(e)
  BY <1>1 DEF NameFits
<1>5. ResultsFit(e, has)
  BY <1>1, <1>3 DEF ProcessFits, ResultsFit
<1> QED BY <1>1, <1>2, <1>4, <1>5 DEF ProcessFits, e

\* A process that moves, and nothing else.
LEMMA ProcessMoves ==
    ASSUME CompilerInv, NEW p \in Processes, NEW c, cli' = [cli EXCEPT ![p] = c],
           ProcessFits(c, disk, tools), c.at # "cloning",
           disk' = disk, tools' = tools, provider' = provider,
           FilesFit(files, disk, tools) => FilesFit(files', disk, tools),
           commands' \in 0..MaxCommands, kills' \in 0..MaxKills
    PROVE  CompilerInv'
<1>1. c \in Cli /\ cli \in [Processes -> Cli]
  BY DEF ProcessFits, CompilerInv
<1>2. cli' \in [Processes -> Cli] /\ cli'[p] = c /\ \A q \in Processes \ {p} : cli'[q] = cli[q]
  BY <1>1
<1>3. ASSUME NEW q \in Processes PROVE ProcessFits(cli'[q], disk, tools)
  <2>1. CASE q = p
    BY <2>1, <1>2
  <2>2. CASE q # p
    BY <2>2, <1>2 DEF CompilerInv
  <2> QED BY <2>1, <2>2
<1>4. ClonesApart'
  BY <1>2 DEF ClonesApart, CompilerInv
<1>5. FilesFit(files', disk, tools)
  BY DEF CompilerInv
<1>6. \A q \in Processes : ProcessFits(cli'[q], disk', tools')
  BY <1>3
<1>7. FilesFit(files', disk', tools')
  BY <1>5
<1> QED BY <1>2, <1>4, <1>6, <1>7 DEF CompilerInv

LEMMA InitInv == Init => CompilerInv
<1> SUFFICES ASSUME Init PROVE CompilerInv
  OBVIOUS
<1>1. disk \in [Repositories -> Versions \cup {None, Partial}] /\ provider \in {"missing", "failed", "passed"}
  BY WorldsAssumption DEF Init
<1>2. cli \in [Processes -> Cli] /\ \A p \in Processes : cli[p] = Off /\ ProcessFits(cli[p], disk, tools)
  BY OffFits DEF Init, ProcessFits
<1>3. ClonesApart
  BY <1>2 DEF ClonesApart, Off
<1>4. FilesFit(files, disk, tools)
  BY DEF FilesFit, Init, Files
<1>5. commands \in 0..MaxCommands /\ kills \in 0..MaxKills
  BY BoundsAssumption DEF Init
<1> QED BY <1>1, <1>2, <1>3, <1>4, <1>5 DEF CompilerInv

\* What is typed after razorproof.
LEMMA CommandType ==
    ASSUME NEW c \in Commands
    PROVE  /\ c.name \in {"repos", "scan", "mobile-registry-evidence", "build-chains", "prove-fixes"}
           /\ c.name = "scan" =>
                 /\ c.dynamic \in BOOLEAN /\ c.containers \in BOOLEAN
                 /\ c.failOn \in {"none", "critical", "high"}
                 /\ c.output \in {"latest", "expanded"}
           /\ c.name = "mobile-registry-evidence" => c.output = "registry"
           /\ c.name = "build-chains" => c.output = "chains"
           /\ c.name = "prove-fixes" => c.output = "fixes" /\ c.containers \in BOOLEAN
<1>1. c \in CommandLines
  BY CommandsAssumption
<1> QED BY <1>1 DEF CommandLines

LEMMA StartKeepsInv ==
    ASSUME CompilerInv, NEW p \in Processes, NEW c \in Commands, Start(p, c)
    PROVE  CompilerInv'
<1> DEFINE report == IF c.name = "repos" THEN 0 ELSE None
           e == [Off EXCEPT !.at = c.name, !.cmd = c, !.report = report]
<1>1. cli' = [cli EXCEPT ![p] = e]
  BY DEF Start
<1>2. c.name \in {"repos", "scan", "mobile-registry-evidence", "build-chains", "prove-fixes"}
  BY CommandType
<1>3. report \in Reports
  BY DEF Reports
<1> HIDE DEF report
<1>4. Off \in Cli /\ Off.found = <<>> /\ Off.results = <<>> /\ Off.code = None
  BY OffFits DEF Off, ProcessFits
<1>5. /\ e \in Cli /\ e.at = c.name /\ e.cmd = c /\ e.found = <<>>
      /\ e.results = <<>> /\ e.code = None /\ e.report = report
  BY <1>2, <1>3, <1>4 DEF Cli, Points
<1> HIDE DEF e
<1>6. DOMAIN <<>> = {}
  OBVIOUS
<1>7. NameFits(e) /\ ResultsFit(e, tools)
  BY <1>2, <1>5 DEF NameFits, ResultsFit, report
<1>8. ProcessFits(e, disk, tools)
  BY <1>2, <1>5, <1>6, <1>7 DEF ProcessFits, Settled
<1>9. commands' \in 0..MaxCommands
  BY BoundsAssumption DEF Start, CompilerInv
<1>10. disk' = disk /\ tools' = tools /\ provider' = provider /\ files' = files /\ kills' \in 0..MaxKills
  BY DEF Start, CompilerInv
<1> QED BY <1>1, <1>2, <1>5, <1>8, <1>9, <1>10, ProcessMoves

LEMMA KillKeepsInv ==
    ASSUME CompilerInv, NEW p \in Processes, Kill(p)
    PROVE  CompilerInv'
<1>1. kills' \in 0..MaxKills /\ commands' \in 0..MaxCommands
  BY BoundsAssumption DEF Kill, CompilerInv
<1>2. Off.at # "cloning" /\ cli' = [cli EXCEPT ![p] = Off]
  BY DEF Off, Kill
<1>3. disk' = disk /\ tools' = tools /\ provider' = provider /\ files' = files
  BY DEF Kill
<1> QED BY <1>1, <1>2, <1>3, OffFits, ProcessMoves

\* What a step of one process that changes nothing else has to show.
LEMMA LocalMove ==
    ASSUME CompilerInv, NEW p \in Processes, NEW c, cli' = [cli EXCEPT ![p] = c],
           ProcessFits(c, disk, tools), c.at # "cloning", Local
    PROVE  CompilerInv'
<1>1. commands' \in 0..MaxCommands /\ kills' \in 0..MaxKills
  BY DEF Local, CompilerInv
<1>2. disk' = disk /\ tools' = tools /\ provider' = provider /\ files' = files
  BY DEF Local
<1> QED BY <1>1, <1>2, ProcessMoves

\* A process that ends before it wrote anything.
LEMMA EarlyExit ==
    ASSUME CompilerInv, NEW p \in Processes, NEW code \in {0, 1, 2}, Exit(p, code), Local,
           cli[p].at \notin {"off", "static", "dynamic", "merge", "done", "open", "write"},
           cli[p].at = "scan" => code # 0
    PROVE  CompilerInv'
<1> DEFINE c == cli[p]
           e == [c EXCEPT !.at = "done", !.code = code]
<1>1. ProcessFits(c, disk, tools) /\ c \in Cli
  BY DEF CompilerInv, ProcessFits
<1>2. cli' = [cli EXCEPT ![p] = e]
  BY DEF Exit
<1>3. c.cmd.name = "scan" => c.at = "scan"
  BY <1>1 DEF ProcessFits, NameFits, Cli, Points
<1>4. e.at = "done"
  BY <1>1 DEF Cli
<1>5. ProcessFits(e, disk, tools)
  <2> HIDE DEF c
  <2>1. c.at \notin {"off", "static", "dynamic", "merge"} /\ (c.cmd.name = "scan" => code # 0)
    BY <1>3 DEF c
  <2> QED BY <1>1, <2>1, ExitFits
<1> HIDE DEF e
<1> QED BY <1>2, <1>4, <1>5, LocalMove

LEMMA ListRepositoriesKeepsInv ==
    ASSUME CompilerInv, NEW p \in Processes, ListRepositories(p)
    PROVE  CompilerInv'
<1>1. PICK code \in {0, 1, 2} : Exit(p, code)
  BY DEF ListRepositories
<1> QED BY <1>1, EarlyExit DEF ListRepositories

\* A process that has made its report, and is about to write it.
LEMMA ReportMade ==
    ASSUME CompilerInv, NEW p \in Processes, Local,
           cli[p].at \in {"mobile-registry-evidence", "load", "fixes"},
           NEW report \in Reports, ReportSound(cli[p].cmd.output, report, tools),
           cli[p].at = "fixes" => report.found = cli[p].found,
           cli' = [cli EXCEPT ![p].at = "open", ![p].report = report]
    PROVE  CompilerInv'
<1> DEFINE c == cli[p]
           e == [c EXCEPT !.at = "open", !.report = report]
<1>1. ProcessFits(c, disk, tools) /\ c \in Cli /\ cli \in [Processes -> Cli]
  BY DEF CompilerInv, ProcessFits
<1>2. cli' = [cli EXCEPT ![p] = e]
  BY <1>1 DEF Cli
<1>3. /\ e \in Cli /\ e.at = "open" /\ e.cmd = c.cmd /\ e.found = c.found
      /\ e.results = c.results /\ e.report = report /\ e.code = c.code
  BY <1>1 DEF Cli, Points
<1> HIDE DEF e
<1>4. /\ c.cmd \in Commands /\ c.results = <<>> /\ c.code = None
      /\ c.cmd.name \in {"mobile-registry-evidence", "build-chains", "prove-fixes"}
      /\ c.cmd.name = "prove-fixes" => report.found = c.found
  BY <1>1 DEF ProcessFits, NameFits, ResultsFit
<1>5. NameFits(e) /\ ResultsFit(e, tools)
  BY <1>3, <1>4 DEF NameFits, ResultsFit
<1>6. ProcessFits(e, disk, tools)
  BY <1>1, <1>3, <1>4, <1>5 DEF ProcessFits
<1> QED BY <1>2, <1>3, <1>6, LocalMove

LEMMA LookUpKeepsInv ==
    ASSUME CompilerInv, NEW p \in Processes, LookUp(p)
    PROVE  CompilerInv'
<1>1. ProcessFits(cli[p], disk, tools) /\ cli[p].at = "mobile-registry-evidence" /\ Local
  BY DEF CompilerInv, LookUp
<1>2. CASE Exit(p, 1)
  BY <1>1, <1>2, EarlyExit
<1>3. ASSUME NEW a \in Answers,
             cli' = [cli EXCEPT ![p].at = "open", ![p].report = [checks |-> RegistryChecks(a)]]
      PROVE  CompilerInv'
  <2> DEFINE answer == RegistryChecks(a)
             report == [checks |-> answer]
  <2>1. report \in [checks : BOOLEAN]
    <3>1. answer \in BOOLEAN
      BY Zenon DEF RegistryChecks
    <3> HIDE DEF answer
    <3> QED BY <3>1
  <2>2. cli' = [cli EXCEPT ![p].at = "open", ![p].report = report]
    BY <1>3
  <2> HIDE DEF report
  <2>3. report \in Reports
    BY <2>1 DEF Reports
  <2>4. cli[p].cmd.output = "registry"
    BY <1>1, CommandType DEF ProcessFits, NameFits
  <2>5. ReportSound(cli[p].cmd.output, report, tools)
    BY <2>1, <2>4 DEF ReportSound
  <2> QED BY <1>1, <2>2, <2>3, <2>5, ReportMade
<1> QED BY <1>2, <1>3 DEF LookUp

(***************************************************************************)
(* The steps of a scan.                                                    *)
(***************************************************************************)

LEMMA FoundType ==
    ASSUME CompilerInv, Inspectable
    PROVE  Found \in Founds /\ Settled(disk, Found)
<1> DEFINE here == {x \in Repositories : disk[x] # None}
<1>1. \A r \in here : disk[r] \in Versions /\ Commit(r) = Whole[disk[r]]
  BY MarksAssumption DEF CompilerInv, Inspectable, Commit
<1>2. Found = [r \in here |-> Commit(r)] /\ here \in SUBSET Repositories
  BY DEF Found
<1>3. \A r \in here : Commit(r) \in Versions
  BY <1>1, WholeAssumption
<1> HIDE DEF here
<1>4. Found \in [here -> Versions] /\ DOMAIN Found = here /\ \A r \in here : Found[r] = Commit(r)
  BY <1>2, <1>3
<1> QED BY <1>1, <1>2, <1>4 DEF Founds, Settled

\* The files a probe opens are those of the commits the scan named, cut short
\* or not: a clone that is there is left alone.
LEMMA NowIsFound ==
    ASSUME CompilerInv, NEW p \in Processes
    PROVE  cli[p].found \in Founds /\ Now(p) \in Trees(cli[p].found)
<1>1. cli[p].found \in Founds /\ Settled(disk, cli[p].found)
  BY DEF CompilerInv, ProcessFits, Cli
<1> QED BY <1>1 DEF Now, Trees, Settled

LEMMA GatheredMerges ==
    ASSUME NEW found \in Founds, NEW results \in Seq(Result), NEW cmd, NEW has,
           Gathered(results, found, cmd, has)
    PROVE  /\ MergeOf(merge_findings(results), Made(results))
           /\ \A f \in merge_findings(results) : Grounded(f, found, InContainers(cmd), has)
<1>1. ASSUME NEW i \in DOMAIN results PROVE OnePerClaim(results[i].findings)
  <2>1. AllRead(results[i], found) \/ AllRan(results[i], found, InContainers(cmd), has)
    BY DEF Gathered
  <2> QED BY <2>1, OneOfEach DEF OnePerClaim
<1>2. MergeOf(merge_findings(results), Made(results))
  BY <1>1, MergeFindings
<1>3. ASSUME NEW f \in merge_findings(results)
      PROVE  Grounded(f, found, InContainers(cmd), has)
  <2>1. PICK g \in Same(Made(results), f.id) : g.level = f.level
    BY <1>2 DEF MergeOf
  <2>2. g.id = f.id /\ g \in Made(results)
    BY <2>1 DEF Same
  <2>3. PICK i \in DOMAIN results : g \in results[i].findings
    BY <2>2 DEF Made
  <2>4. AllRead(results[i], found) \/ AllRan(results[i], found, InContainers(cmd), has)
    BY DEF Gathered
  <2>5. Read(g, found) \/ Ran(g, found, InContainers(cmd), has)
    BY <2>3, <2>4 DEF AllRead, AllRan
  <2> QED BY <2>1, <2>2, <2>5 DEF Grounded
<1> QED BY <1>2, <1>3

LEMMA InspectKeepsInv ==
    ASSUME CompilerInv, NEW p \in Processes, Inspect(p)
    PROVE  CompilerInv'
<1> DEFINE c == cli[p]
           found == Found
           at == IF c.at = "scan" THEN "static" ELSE "fixes"
           e == [c EXCEPT !.at = at, !.found = found]
<1>1. /\ ProcessFits(c, disk, tools) /\ c \in Cli /\ cli \in [Processes -> Cli]
      /\ c.at \in {"scan", "prove-fixes"} /\ Local
  BY DEF CompilerInv, ProcessFits, Inspect
<1>2. CASE ~ Inspectable
  <2>1. Exit(p, 1)
    BY <1>2 DEF Inspect
  <2> QED BY <1>1, <2>1, EarlyExit
<1>3. CASE Inspectable
  <2>1. found \in Founds /\ Settled(disk, found)
    BY <1>3, FoundType
  <2>2. cli' = [cli EXCEPT ![p].at = IF @ = "scan" THEN "static" ELSE "fixes", ![p].found = found]
    BY <1>3 DEF Inspect
  <2> HIDE DEF found
  <2>3. cli' = [cli EXCEPT ![p] = e]
    BY <1>1, <2>1, <2>2 DEF Cli
  <2>4. /\ e \in Cli /\ e.at = at /\ e.cmd = c.cmd /\ e.found = found
        /\ e.results = c.results /\ e.report = c.report /\ e.code = c.code
    BY <1>1, <2>1 DEF Cli, Points
  <2> HIDE DEF e
  <2>5. /\ c.results = <<>> /\ c.cmd \in Commands /\ c.code = None
        /\ c.at = "scan" => c.report = None /\ c.cmd.name = "scan"
        /\ c.at = "prove-fixes" => c.cmd.name = "prove-fixes"
    BY <1>1 DEF ProcessFits, NameFits, ResultsFit
  <2>6. Len(c.results) = 0
    BY <2>5
  <2>7. NameFits(e) /\ ResultsFit(e, tools)
    BY <1>1, <2>4, <2>5, <2>6 DEF NameFits, ResultsFit
  <2>8. ProcessFits(e, disk, tools)
    BY <1>1, <2>1, <2>4, <2>5, <2>7 DEF ProcessFits
  <2> QED BY <1>1, <2>3, <2>4, <2>8, LocalMove
<1> QED BY <1>2, <1>3

\* A scan that has gathered more.
LEMMA MoreGathered ==
    ASSUME CompilerInv, NEW p \in Processes, Local,
           NEW at \in {"static", "dynamic", "merge"}, NEW results \in Seq(Result),
           cli[p].at \in {"static", "dynamic"}, at = "dynamic" => cli[p].cmd.dynamic,
           results # <<>>, at = "static" <=> Len(results) < 3,
           Gathered(results, cli[p].found, cli[p].cmd, tools),
           cli' = [cli EXCEPT ![p].at = at, ![p].results = results]
    PROVE  CompilerInv'
<1> DEFINE c == cli[p]
           e == [c EXCEPT !.at = at, !.results = results]
<1>1. ProcessFits(c, disk, tools) /\ c \in Cli /\ cli \in [Processes -> Cli]
  BY DEF CompilerInv, ProcessFits
<1>2. cli' = [cli EXCEPT ![p] = e]
  BY <1>1 DEF Cli
<1>3. /\ e \in Cli /\ e.at = at /\ e.cmd = c.cmd /\ e.found = c.found
      /\ e.results = results /\ e.report = c.report /\ e.code = c.code
  BY <1>1 DEF Cli, Points
<1> HIDE DEF e
<1>4. /\ c.report = None /\ c.cmd.name = "scan" /\ c.cmd \in Commands /\ c.code = None
  BY <1>1 DEF ProcessFits, NameFits, ResultsFit
<1>5. at # "static" => 3 <= Len(results)
  <2>1. Len(results) \in Nat
    OBVIOUS
  <2> QED BY <2>1
<1>6. NameFits(e) /\ ResultsFit(e, tools)
  BY <1>3, <1>4, <1>5 DEF NameFits, ResultsFit
<1>7. ProcessFits(e, disk, tools)
  BY <1>1, <1>3, <1>4, <1>6 DEF ProcessFits
<1> QED BY <1>2, <1>3, <1>7, LocalMove

\* The next of the three probes reads what is in the clones by then.
LEMMA StaticProbesKeepsInv ==
    ASSUME CompilerInv, NEW p \in Processes, StaticProbes(p)
    PROVE  CompilerInv'
<1> DEFINE found == cli[p].found
           cmd == cli[p].cmd
           before == cli[p].results
           n == Len(before) + 1
           at == IF n < 3 THEN "static" ELSE IF cmd.dynamic THEN "dynamic" ELSE "merge"
           result == run_static_probes(Now(p))[n]
           results == Append(before, result)
<1>1. /\ ProcessFits(cli[p], disk, tools) /\ cli[p].at = "static" /\ Local
      /\ before \in Seq(Result) /\ found \in Founds /\ Now(p) \in Trees(found)
      /\ cli[p] \in Cli /\ cli \in [Processes -> Cli]
  BY NowIsFound DEF CompilerInv, ProcessFits, Cli, StaticProbes
<1>2. /\ Len(before) \in Nat /\ Len(before) < 3 /\ DOMAIN before = 1..Len(before)
      /\ before # <<>> => Gathered(before, found, cmd, tools)
  BY <1>1 DEF ProcessFits, ResultsFit
<1>3. n \in 1..3
  BY <1>2
<1>4. result \in Result /\ AllRead(result, found)
  <2>1. Now(p) \in Founds
    BY <1>1, TreeType
  <2>2. AllRead(result, Now(p))
    BY <1>3, <2>1, StaticProbesRead
  <2> QED BY <1>1, <2>2, OfTheCommit DEF AllRead
<1>5. /\ results \in Seq(Result) /\ Len(results) = n /\ DOMAIN results = 1..n /\ results # <<>>
      /\ results[n] = result /\ \A i \in 1..n : i # n => i \in DOMAIN before /\ results[i] = before[i]
  <2>1. ASSUME NEW s \in Seq(Result), NEW x \in Result
        PROVE  /\ Append(s, x) \in Seq(Result) /\ Len(Append(s, x)) = Len(s) + 1 /\ Len(s) \in Nat
               /\ DOMAIN Append(s, x) = 1..(Len(s) + 1) /\ DOMAIN s = 1..Len(s)
               /\ Append(s, x)[Len(s) + 1] = x /\ \A i \in 1..Len(s) : Append(s, x)[i] = s[i]
               /\ Append(s, x) # <<>>
    OBVIOUS
  <2> HIDE DEF result, before
  <2>2. /\ results \in Seq(Result) /\ Len(results) = n /\ DOMAIN results = 1..n
        /\ results # <<>> /\ results[n] = result
        /\ DOMAIN before = 1..Len(before) /\ \A i \in 1..Len(before) : results[i] = before[i]
    BY <1>1, <1>4, <2>1
  <2>3. \A i \in 1..n : i # n => i \in 1..Len(before)
    BY <1>2
  <2> HIDE DEF results, n
  <2> QED BY <2>2, <2>3
<1>6. cli' = [cli EXCEPT ![p].at = at, ![p].results = results]
  <2>1. cli' = [cli EXCEPT ![p].at = IF n < 3 THEN @ ELSE IF cmd.dynamic THEN "dynamic" ELSE "merge",
                           ![p].results = Append(@, result)]
    BY DEF StaticProbes
  <2> HIDE DEF result, n
  <2> QED BY <1>1, <2>1 DEF Cli
<1>7. at \in {"static", "dynamic", "merge"} /\ (at = "dynamic" => cmd.dynamic)
      /\ (at = "static" <=> Len(results) < 3)
  <2>1. at = "static" <=> n < 3
    OBVIOUS
  <2> HIDE DEF result, n
  <2> QED BY <1>5, <2>1
<1>8. ASSUME NEW i \in DOMAIN results
      PROVE  /\ AllRead(results[i], found) \/ AllRan(results[i], found, InContainers(cmd), tools)
             /\ \E now \in Trees(found) : results[i] = run_static_probes(now)[i]
  <2>1. CASE i = n
    BY <1>1, <1>4, <1>5, <2>1
  <2>2. CASE i # n
    <3>1. i \in DOMAIN before /\ results[i] = before[i] /\ i \in 1..3 /\ before # <<>>
      <4> HIDE DEF result, n, results, before
      <4> QED BY <1>2, <1>3, <1>5, <2>2
    <3> QED BY <1>2, <3>1 DEF Gathered
  <2> QED BY <2>1, <2>2
<1>9. Gathered(results, found, cmd, tools)
  <2> HIDE DEF results
  <2> QED BY <1>8 DEF Gathered
<1> HIDE DEF at, results, result, n
<1> QED BY <1>1, <1>5, <1>6, <1>7, <1>9, MoreGathered

LEMMA DynamicProbesKeepsInv ==
    ASSUME CompilerInv, NEW p \in Processes, DynamicProbes(p)
    PROVE  CompilerInv'
<1> DEFINE found == cli[p].found
           cmd == cli[p].cmd
           before == cli[p].results
<1>1. found \in Founds /\ before \in Seq(Result) /\ ProcessFits(cli[p], disk, tools) /\ cli[p].at = "dynamic" /\ Local
  BY DEF CompilerInv, ProcessFits, Cli, DynamicProbes
<1>2. /\ cmd \in Commands /\ cmd.name = "scan" /\ cmd.dynamic /\ before # <<>>
      /\ Gathered(before, found, cmd, tools) /\ 3 <= Len(before)
  BY <1>1 DEF ProcessFits, NameFits, ResultsFit
<1>3. cmd.containers \in BOOLEAN /\ InContainers(cmd) = cmd.containers
  BY <1>2, CommandType DEF InContainers
<1>4. PICK luck \in Lucks :
          cli' = [cli EXCEPT ![p].at = "merge",
                    ![p].results = @ \o run_dynamic_probes(Now(p), cmd.containers, tools, luck)]
  BY DEF DynamicProbes
<1> DEFINE more == run_dynamic_probes(Now(p), cmd.containers, tools, luck)
           results == before \o more
<1>5. /\ more \in Seq(Result)
      /\ \A i \in DOMAIN more : AllRan(more[i], found, InContainers(cmd), tools)
  <2>1. Now(p) \in Trees(found) /\ Now(p) \in Founds
    BY <1>1, NowIsFound, TreeType
  <2>2. /\ more \in Seq(Result)
        /\ \A i \in DOMAIN more : AllRan(more[i], Now(p), InContainers(cmd), tools)
    BY <1>3, <2>1, DynamicProbesRan
  <2> HIDE DEF more
  <2> QED BY <1>1, <2>1, <2>2, OfTheCommit
<1>6. cli' = [cli EXCEPT ![p].at = "merge", ![p].results = results]
  BY <1>1, <1>4 DEF CompilerInv, Cli
<1> HIDE DEF more
<1>7. results \in Seq(Result) /\ Len(results) = Len(before) + Len(more)
      /\ \A i \in 1..Len(results) : results[i] = IF i <= Len(before) THEN before[i] ELSE more[i - Len(before)]
  BY <1>1, <1>5
<1>8. Gathered(results, found, cmd, tools)
  <2>1. Len(before) \in Nat /\ Len(more) \in Nat /\ DOMAIN before = 1..Len(before)
        /\ DOMAIN more = 1..Len(more) /\ DOMAIN results = 1..Len(results) /\ 3 <= Len(before)
    BY <1>1, <1>2, <1>5, <1>7
  <2>2. ASSUME NEW i \in DOMAIN results
        PROVE  AllRead(results[i], found) \/ AllRan(results[i], found, InContainers(cmd), tools)
    <3>1. CASE i <= Len(before)
      <4>1. i \in DOMAIN before /\ results[i] = before[i]
        BY <2>1, <3>1, <1>7
      <4> QED BY <4>1, <1>2 DEF Gathered
    <3>2. CASE ~ (i <= Len(before))
      <4>1. i - Len(before) \in DOMAIN more /\ results[i] = more[i - Len(before)]
        BY SMTT(20), <2>1, <3>2, <1>7
      <4> QED BY <4>1, <1>5
    <3> QED BY <3>1, <3>2
  <2>3. \A i \in 1..3 : i \in DOMAIN before /\ results[i] = before[i]
    BY <2>1, <1>7
  <2> HIDE DEF results
  <2> QED BY <2>2, <2>3, <1>2 DEF Gathered
<1>9. 3 <= Len(results) /\ ~ (Len(results) < 3) /\ results # <<>>
  <2>1. Len(before) \in Nat /\ Len(more) \in Nat /\ Len(<<>>) = 0
    BY <1>1, <1>5
  <2> HIDE DEF results
  <2> QED BY <1>2, <1>7, <2>1
<1> HIDE DEF results
<1> QED BY <1>1, <1>6, <1>7, <1>8, <1>9, MoreGathered

LEMMA MergeKeepsInv ==
    ASSUME CompilerInv, NEW p \in Processes, Merge(p)
    PROVE  CompilerInv'
<1> DEFINE c == cli[p]
           report == ScanReport(c)
           e == [c EXCEPT !.at = "open", !.report = report]
<1>1. ProcessFits(c, disk, tools) /\ c \in Cli /\ cli \in [Processes -> Cli] /\ c.at = "merge" /\ Local
  BY DEF CompilerInv, ProcessFits, Merge
<1>2. /\ c.cmd.name = "scan" /\ c.cmd \in Commands /\ c.code = None /\ c.results # <<>>
      /\ Gathered(c.results, c.found, c.cmd, tools) /\ 3 <= Len(c.results)
  BY <1>1 DEF ProcessFits, NameFits, ResultsFit
<1>3. /\ MergeOf(merge_findings(c.results), Made(c.results))
      /\ \A f \in merge_findings(c.results) : Grounded(f, c.found, InContainers(c.cmd), tools)
  BY <1>1, <1>2, GatheredMerges DEF Cli
<1>4. cli' = [cli EXCEPT ![p].at = "open", ![p].report = report]
  BY DEF Merge, ScanReport, InContainers
<1>5. ScanSound(report, tools)
  <2> DEFINE findings == merge_findings(c.results)
             contained == InContainers(c.cmd)
  <2>1. findings \in SUBSET Findings /\ contained \in BOOLEAN /\ c.found \in Founds
    BY <1>1, <1>3 DEF MergeOf, InContainers, Cli
  <2>2. report = [findings |-> findings, found |-> c.found, containers |-> contained]
    BY DEF ScanReport
  <2> HIDE DEF findings, contained, report
  <2>3. report \in Scans /\ report.findings = findings /\ report.found = c.found /\ report.containers = contained
    BY <2>1, <2>2 DEF Scans
  <2> QED BY <2>3, <1>3 DEF ScanSound, findings, contained
<1>6. report \in Reports
  BY <1>5 DEF ScanSound, Reports
<1> HIDE DEF report
<1>7. cli' = [cli EXCEPT ![p] = e]
  BY <1>1, <1>4, <1>6 DEF Cli
<1>8. /\ e \in Cli /\ e.at = "open" /\ e.cmd = c.cmd /\ e.found = c.found
      /\ e.results = c.results /\ e.report = report /\ e.code = c.code
  BY <1>1, <1>6 DEF Cli, Points
<1> HIDE DEF e
<1>9. ScanReport(e) = report
  BY <1>8 DEF ScanReport, report
<1>10. NameFits(e) /\ ResultsFit(e, tools)
  BY <1>2, <1>8, <1>9 DEF NameFits, ResultsFit
<1>11. ReportSound(e.cmd.output, e.report, tools)
  BY <1>2, <1>5, <1>8, CommandType DEF ReportSound
<1>12. ProcessFits(e, disk, tools)
  BY <1>1, <1>2, <1>8, <1>10, <1>11 DEF ProcessFits
<1> QED BY <1>1, <1>7, <1>8, <1>12, LocalMove

(***************************************************************************)
(* What a build reads out of a scan.                                       *)
(***************************************************************************)

\* A claim at the level dynamic was made by a probe that ran something.
LEMMA DynamicSays ==
    ASSUME NEW scan, NEW has, ScanSound(scan, has), NEW id, LevelIn(scan, id, {"dynamic"})
    PROVE  \E r \in DOMAIN scan.found :
              /\ id \in Home[r]
              /\ id \in Defects[scan.found[r]] \/ id \in Written
              /\ id = Currency => "node" \in has
              /\ id = "RP-PHP-GLOBAL-AUTH-STATE" => "php" \in has
              /\ id \in InContainer => scan.containers /\ "docker" \in has
<1>1. PICK f \in scan.findings : f.id = id /\ f.level = "dynamic"
  BY DEF LevelIn
<1>2. PICK g : /\ g.id = f.id /\ g.level = f.level
               /\ Read(g, scan.found) \/ Ran(g, scan.found, scan.containers, has)
  BY DEF ScanSound, Grounded
<1>3. ~ Read(g, scan.found)
  BY <1>1, <1>2 DEF Read, LevelOf, Finding
<1> QED BY <1>1, <1>2, <1>3 DEF Ran

\* A claim that no probe runs, or at the level static, was read in the source.
LEMMA StaticSays ==
    ASSUME NEW scan, NEW has, ScanSound(scan, has), NEW id, NEW levels,
           LevelIn(scan, id, levels), "dynamic" \notin levels \/ id = Economics
    PROVE  \E r \in DOMAIN scan.found : SeenIn(id, r, scan.found[r])
<1>1. PICK f \in scan.findings : f.id = id /\ f.level \in levels
  BY DEF LevelIn
<1>2. PICK g : /\ g.id = f.id /\ g.level = f.level
               /\ Read(g, scan.found) \/ Ran(g, scan.found, scan.containers, has)
  BY DEF ScanSound, Grounded
<1>3. ~ Ran(g, scan.found, scan.containers, has)
  BY <1>1, <1>2 DEF Ran, Finding
<1> QED BY <1>1, <1>2, <1>3 DEF Read

LEMMA HomeOf ==
    ASSUME NEW r \in Repositories
    PROVE  /\ "RP-MCP-REFUND-TRUNCATION" \in Home[r] => r = "mcp"
           /\ "RP-MCP-MOBILE-MISSING-SIGNATURE" \in Home[r] => r = "mcp"
           /\ "RP-MCP-MOBILE-DEPENDENCY-CONFUSION" \in Home[r] => r = "mcp"
           /\ Economics \in Home[r] => r = "mcp"
           /\ "RP-DOTNET-GLOBAL-AUTH-STATE" \in Home[r] => r = "dotnet"
           /\ "RP-PHP-GLOBAL-AUTH-STATE" \in Home[r] => r = "php"
           /\ "RP-JAVA-GLOBAL-PARTNER-HEADERS" \in Home[r] => r = "java"
           /\ "RP-JAVA-UPLOAD-MIME" \in Home[r] => r = "java"
           /\ "RP-JAVA-UPLOAD-DUPLICATE-FILE-PART" \in Home[r] => r = "java"
           /\ Money \in Home["mcp"]
BY DEF Home, Repositories, Economics, Money

\* A build passes only over a scan that ran what its nodes rest on.
LEMMA ChainsExecute ==
    ASSUME NEW scan, NEW has, ScanSound(scan, has), NEW tests, NEW registry,
           Chains(scan, tests, registry)
    PROVE  Executable(scan, has)
<1> DEFINE found == scan.found
<1>0. DOMAIN found \subseteq Repositories
  BY DEF ScanSound, Scans, Founds
<1>1. ASSUME NEW r \in DOMAIN found, NEW id, id \in Home[r]
      PROVE  /\ id \in Patterns[found[r]] => id \in Present(found)
             /\ id \in Defects[found[r]] => id \in Shown(found)
  BY <1>1 DEF Present, Shown
<1>2. ASSUME NEW id \in InContainer, LevelIn(scan, id, {"dynamic"})
      PROVE  /\ scan.containers /\ "docker" \in has /\ id \in Shown(found)
             /\ \E r \in DOMAIN found : id \in Home[r]
             /\ id = "RP-PHP-GLOBAL-AUTH-STATE" => "php" \in has
  <2>1. id \notin Written
    BY DEF InContainer, Written, Money, Currency
  <2> QED BY <1>1, <1>2, <2>1, DynamicSays
<1>3. /\ scan.containers /\ "docker" \in has
      /\ "RP-MCP-REFUND-TRUNCATION" \in Shown(found) /\ "mcp" \in DOMAIN found
  <2>1. "RP-MCP-REFUND-TRUNCATION" \in InContainer
    BY DEF InContainer
  <2>2. LevelIn(scan, "RP-MCP-REFUND-TRUNCATION", {"dynamic"})
    BY DEF Chains, RefundChain
  <2> QED BY <1>0, <1>2, <2>1, <2>2, HomeOf
<1>4. "node" \in has
  <2>1. LevelIn(scan, Currency, {"dynamic"})
    BY DEF Chains, CheckoutChain, Currency
  <2> QED BY <2>1, DynamicSays
<1>5. Money \in Present(found)
  <2>1. LevelIn(scan, Economics, {"static", "dynamic"})
    BY DEF Chains, CheckoutChain, Economics
  <2>2. PICK r \in DOMAIN found : SeenIn(Economics, r, found[r])
    BY <2>1, StaticSays
  <2>3. Pattern(Economics) = Money
    BY DEF Pattern, Inferred, Economics
  <2> QED BY <1>0, <1>1, <2>2, <2>3, HomeOf DEF SeenIn
<1>6. /\ "RP-MCP-MOBILE-MISSING-SIGNATURE" \in Present(found)
      /\ "RP-MCP-MOBILE-DEPENDENCY-CONFUSION" \in Present(found)
  <2>1. ASSUME NEW id, LevelIn(scan, id, {"static"}), id \notin Inferred PROVE id \in Present(found)
    <3>1. PICK r \in DOMAIN found : SeenIn(id, r, found[r])
      BY <2>1, StaticSays
    <3> QED BY <1>1, <2>1, <3>1 DEF SeenIn, Pattern
  <2>2. /\ "RP-MCP-MOBILE-MISSING-SIGNATURE" \notin Inferred
        /\ "RP-MCP-MOBILE-DEPENDENCY-CONFUSION" \notin Inferred
    BY DEF Inferred
  <2> QED BY <2>1, <2>2 DEF Chains, MobileChain, PackageChain
<1>7. /\ "RP-DOTNET-GLOBAL-AUTH-STATE" \in Shown(found) /\ "dotnet" \in DOMAIN found
      /\ "RP-JAVA-GLOBAL-PARTNER-HEADERS" \in Shown(found) /\ "java" \in DOMAIN found
  <2>1. {"RP-DOTNET-GLOBAL-AUTH-STATE", "RP-JAVA-GLOBAL-PARTNER-HEADERS"} \subseteq InContainer
    BY DEF InContainer
  <2>2. /\ LevelIn(scan, "RP-DOTNET-GLOBAL-AUTH-STATE", {"dynamic"})
        /\ LevelIn(scan, "RP-JAVA-GLOBAL-PARTNER-HEADERS", {"dynamic"})
    BY DEF Chains, TenantChain
  <2> QED BY <1>0, <1>2, <2>1, <2>2, HomeOf
<1>8. /\ "RP-PHP-GLOBAL-AUTH-STATE" \in Shown(found) /\ "php" \in DOMAIN found /\ "php" \in has
  <2>1. LevelIn(scan, "RP-PHP-GLOBAL-AUTH-STATE", {"dynamic"})
    BY DEF Chains, TenantChain
  <2>2. "RP-PHP-GLOBAL-AUTH-STATE" \notin Written
    BY DEF Written, Money, Currency
  <2> QED BY <1>0, <1>1, <2>1, <2>2, DynamicSays, HomeOf
<1>9. /\ "RP-JAVA-UPLOAD-MIME" \in Shown(found)
      /\ "RP-JAVA-UPLOAD-DUPLICATE-FILE-PART" \in Shown(found)
  <2>1. {"RP-JAVA-UPLOAD-MIME", "RP-JAVA-UPLOAD-DUPLICATE-FILE-PART"} \subseteq InContainer
    BY DEF InContainer
  <2>2. /\ LevelIn(scan, "RP-JAVA-UPLOAD-MIME", {"dynamic"})
        /\ LevelIn(scan, "RP-JAVA-UPLOAD-DUPLICATE-FILE-PART", {"dynamic"})
    BY DEF Chains, DocumentChain
  <2> QED BY <1>2, <2>1, <2>2
<1> QED BY <1>3, <1>4, <1>5, <1>6, <1>7, <1>8, <1>9 DEF Executable

LEMMA OutputType ==
    ASSUME NEW c \in Commands, c.name # "repos"
    PROVE  /\ c.output \in Files
           /\ c.output \in {"latest", "expanded"} <=> c.name = "scan"
           /\ c.output = "registry" <=> c.name = "mobile-registry-evidence"
           /\ c.output = "chains" <=> c.name = "build-chains"
           /\ c.output = "fixes" <=> c.name = "prove-fixes"
BY CommandType DEF Files

\* A file other than None and Torn holds what a command wrote.
LEMMA FileHolds ==
    ASSUME CompilerInv, NEW f \in Files, files[f] \notin {None, Torn}
    PROVE  files[f] \in Reports /\ ReportSound(f, files[f], tools)
BY DEF CompilerInv, FilesFit

LEMMA LoadScanKeepsInv ==
    ASSUME CompilerInv, NEW p \in Processes, LoadScan(p)
    PROVE  CompilerInv'
<1> DEFINE c == cli[p]
           report == files["expanded"]
           e == [c EXCEPT !.at = "load", !.report = report]
<1>1. ProcessFits(c, disk, tools) /\ c \in Cli /\ cli \in [Processes -> Cli] /\ c.at = "build-chains" /\ Local
  BY DEF CompilerInv, ProcessFits, LoadScan
<1>2. CASE Exit(p, 1) \/ Exit(p, 2)
  BY <1>1, <1>2, EarlyExit
<1>3. CASE /\ files["expanded"] \notin {None, Torn}
           /\ cli' = [cli EXCEPT ![p].at = "load", ![p].report = report]
  <2>1. "expanded" \in Files
    BY DEF Files
  <2>2. report \in Reports /\ ScanSound(report, tools)
    BY <1>3, <2>1, FileHolds DEF ReportSound
  <2>3. cli' = [cli EXCEPT ![p].at = "load", ![p].report = report]
    BY <1>3
  <2> HIDE DEF report
  <2>4. cli' = [cli EXCEPT ![p] = e]
    BY <1>1, <2>2, <2>3 DEF Cli
  <2>5. /\ e \in Cli /\ e.at = "load" /\ e.cmd = c.cmd /\ e.found = c.found
        /\ e.results = c.results /\ e.report = report /\ e.code = c.code
    BY <1>1, <2>2 DEF Cli, Points
  <2> HIDE DEF e
  <2>6. c.results = <<>> /\ c.cmd.name = "build-chains" /\ c.cmd \in Commands /\ c.code = None
    BY <1>1 DEF ProcessFits, NameFits, ResultsFit
  <2>7. NameFits(e) /\ ResultsFit(e, tools)
    BY <2>5, <2>6 DEF NameFits, ResultsFit
  <2>8. ProcessFits(e, disk, tools)
    BY <1>1, <2>2, <2>5, <2>6, <2>7 DEF ProcessFits
  <2> QED BY <1>1, <2>4, <2>5, <2>8, LocalMove
<1> QED BY <1>2, <1>3 DEF LoadScan

LEMMA LoadRegistryKeepsInv ==
    ASSUME CompilerInv, NEW p \in Processes, LoadRegistry(p)
    PROVE  CompilerInv'
<1> DEFINE scan == cli[p].report
           passes == Chains(scan, provider, files["registry"])
           report == [checks |-> passes, scan |-> scan]
<1>1. ProcessFits(cli[p], disk, tools) /\ cli[p].at = "load" /\ Local
  BY DEF CompilerInv, LoadRegistry
<1>2. CASE Exit(p, 1) \/ Exit(p, 2)
  BY <1>1, <1>2, EarlyExit
<1>3. CASE cli' = [cli EXCEPT ![p].at = "open", ![p].report = report]
  <2>1. ScanSound(scan, tools) /\ scan \in Scans
    BY <1>1 DEF ProcessFits, ScanSound
  <2>2. passes \in BOOLEAN /\ (passes => Executable(scan, tools))
    <3>1. passes \in BOOLEAN
      BY Zenon DEF Chains
    <3>2. passes => Executable(scan, tools)
      BY <2>1, ChainsExecute
    <3> QED BY <3>1, <3>2
  <2> HIDE DEF passes, scan
  <2>3. report \in [checks : BOOLEAN, scan : Scans] /\ report.scan = scan /\ report.checks = passes
    BY <2>1, <2>2
  <2>4. report \in Reports
    BY <2>3 DEF Reports
  <2>5. cli[p].cmd.output = "chains"
    BY <1>1, CommandType DEF ProcessFits, NameFits
  <2>6. ReportSound(cli[p].cmd.output, report, tools)
    BY <2>2, <2>3, <2>5 DEF ReportSound
  <2> HIDE DEF report
  <2> QED BY <1>1, <1>3, <2>4, <2>6, ReportMade DEF scan, passes, report
<1> QED BY <1>2, <1>3 DEF LoadRegistry

\* A fix that is reported as fixed was preceded by the failure and followed by
\* the success, and replaced the text that the static probe reads.
LEMMA FixesWereRed ==
    ASSUME NEW found \in Founds, NEW now \in Trees(found), NEW containers, NEW has, NEW runs,
           prove_fixes(now, containers, has, runs) \subseteq {"fixed"}
    PROVE  WasRed(found)
<1>0. /\ DOMAIN now = DOMAIN found
      /\ \A r \in DOMAIN found :
            /\ now[r] \in Versions /\ found[r] \in Versions /\ Whole[now[r]] = found[r]
            /\ Defects[now[r]] = Defects[found[r]]
  BY TreeType, WholeAssumption
<1>1. ASSUME "python" \in DOMAIN found
      PROVE  Repaired.python \in Defects[found["python"]] \cap Cures[found["python"]] \cap Patterns[found["python"]]
  <2>1. PythonFix(now["python"], has, runs["python"]) \in prove_fixes(now, containers, has, runs)
    BY <1>0, <1>1 DEF prove_fixes
  <2>2. PythonFix(now["python"], has, runs["python"]) = "fixed"
    BY <2>1
  <2>3. RedGreen("RP-PYTHON-WEBHOOK-BYTES", now["python"], runs["python"]) = "fixed"
    BY <2>2 DEF PythonFix
  <2>4. /\ "RP-PYTHON-WEBHOOK-BYTES" \in Defects[now["python"]]
        /\ "RP-PYTHON-WEBHOOK-BYTES" \in Cures[Whole[now["python"]]]
        /\ "RP-PYTHON-WEBHOOK-BYTES" \in Anchors[Whole[now["python"]]]
    BY <2>3 DEF RedGreen
  <2>5. Anchors[found["python"]] \subseteq Patterns[found["python"]]
    BY <1>0, <1>1, AnchorsAssumption
  <2> QED BY <1>0, <1>1, <2>4, <2>5 DEF Repaired
<1>2. ASSUME "ruby" \in DOMAIN found
      PROVE  Repaired.ruby \in Defects[found["ruby"]] \cap Cures[found["ruby"]] \cap Patterns[found["ruby"]]
  <2>1. RubyFix(now["ruby"], has, runs["ruby"]) \in prove_fixes(now, containers, has, runs)
    BY <1>0, <1>2 DEF prove_fixes
  <2>2. RubyFix(now["ruby"], has, runs["ruby"]) = "fixed"
    BY <2>1
  <2>3. RedGreen("RP-RUBY-PAYLINK-ORDER", now["ruby"], runs["ruby"]) = "fixed"
    BY <2>2 DEF RubyFix
  <2>4. /\ "RP-RUBY-PAYLINK-ORDER" \in Defects[now["ruby"]]
        /\ "RP-RUBY-PAYLINK-ORDER" \in Cures[Whole[now["ruby"]]]
        /\ "RP-RUBY-PAYLINK-ORDER" \in Anchors[Whole[now["ruby"]]]
    BY <2>3 DEF RedGreen
  <2>5. Anchors[found["ruby"]] \subseteq Patterns[found["ruby"]]
    BY <1>0, <1>2, AnchorsAssumption
  <2> QED BY <1>0, <1>2, <2>4, <2>5 DEF Repaired
<1>3. DOMAIN Repaired = {"python", "ruby"}
  BY DEF Repaired
<1> QED BY <1>1, <1>2, <1>3 DEF WasRed

LEMMA ProveFixesKeepsInv ==
    ASSUME CompilerInv, NEW p \in Processes, ProveFixes(p)
    PROVE  CompilerInv'
<1> DEFINE found == cli[p].found
<1>1. /\ ProcessFits(cli[p], disk, tools) /\ cli[p].at = "fixes" /\ Local
      /\ found \in Founds /\ Now(p) \in Trees(found)
  BY NowIsFound DEF CompilerInv, ProveFixes
<1>2. CASE Exit(p, 1)
  BY <1>1, <1>2, EarlyExit
<1>3. CASE ~ Exit(p, 1)
  <2>1. PICK runs \in FixRuns :
            cli' = [cli EXCEPT ![p].at = "open",
                        ![p].report = [checks |-> prove_fixes(Now(p), cli[p].cmd.containers, tools, runs) \subseteq {"fixed"},
                                       found |-> found]]
    BY <1>3 DEF ProveFixes
  <2> DEFINE proofs == prove_fixes(Now(p), cli[p].cmd.containers, tools, runs)
             fixed == proofs \subseteq {"fixed"}
             report == [checks |-> fixed, found |-> found]
  <2>2. cli' = [cli EXCEPT ![p].at = "open", ![p].report = report]
    BY <2>1
  <2>3. fixed \in BOOLEAN /\ (fixed => WasRed(found))
    BY <1>1, FixesWereRed
  <2> HIDE DEF fixed, found
  <2>4. report \in [checks : BOOLEAN, found : Founds] /\ report.found = found /\ report.checks = fixed
    BY <1>1, <2>3
  <2>5. report \in Reports
    BY <2>4 DEF Reports
  <2>6. cli[p].cmd.output = "fixes"
    BY <1>1, CommandType DEF ProcessFits, NameFits
  <2>7. ReportSound(cli[p].cmd.output, report, tools)
    BY <2>3, <2>4, <2>6 DEF ReportSound
  <2>8. report.found = cli[p].found
    BY <2>4 DEF found
  <2> HIDE DEF report
  <2> QED BY <1>1, <2>2, <2>5, <2>7, <2>8, ReportMade
<1> QED BY <1>2, <1>3

(***************************************************************************)
(* Writing an artifact, and cloning.                                       *)
(***************************************************************************)

LEMMA FileWritten ==
    ASSUME FilesFit(files, disk, tools), NEW f \in Files, NEW content,
           content = Torn \/ (content \in Reports /\ ReportSound(f, content, tools)),
           f = "fixes" => content = Torn \/ Settled(disk, content.found),
           files' = [files EXCEPT ![f] = content]
    PROVE  FilesFit(files', disk, tools)
<1>1. files' \in [Files -> {None, Torn} \cup Reports]
  BY DEF FilesFit
<1>2. files'[f] = content /\ \A g \in Files \ {f} : files'[g] = files[g]
  BY DEF FilesFit
<1>3. ASSUME NEW g \in Files
      PROVE  files'[g] \in {None, Torn} \/ ReportSound(g, files'[g], tools)
  <2>1. CASE g = f
    BY <1>2, <2>1
  <2>2. CASE g # f
    BY <1>2, <2>2 DEF FilesFit
  <2> QED BY <2>1, <2>2
<1>4. files'["fixes"] \in {None, Torn} \/ Settled(disk, files'["fixes"].found)
  <2>1. CASE f = "fixes"
    BY <1>2, <2>1
  <2>2. CASE f # "fixes"
    BY <1>2, <2>2 DEF FilesFit, Files
  <2> QED BY <2>1, <2>2
<1> QED BY <1>1, <1>3, <1>4 DEF FilesFit

LEMMA OpenKeepsInv ==
    ASSUME CompilerInv, NEW p \in Processes, Open(p)
    PROVE  CompilerInv'
<1> DEFINE c == cli[p]
           e == [c EXCEPT !.at = "write"]
<1>1. ProcessFits(c, disk, tools) /\ c \in Cli /\ cli \in [Processes -> Cli] /\ c.at = "open"
  BY DEF CompilerInv, ProcessFits, Open
<1>2. cli' = [cli EXCEPT ![p] = e]
  BY <1>1 DEF Open, Goto
<1>3. /\ e \in Cli /\ e.at = "write" /\ e.cmd = c.cmd /\ e.found = c.found
      /\ e.results = c.results /\ e.report = c.report /\ e.code = c.code
  BY <1>1 DEF Cli, Points
<1> HIDE DEF e
<1>4. ScanReport(e) = ScanReport(c)
  BY <1>3 DEF ScanReport
<1>5. NameFits(e) /\ ResultsFit(e, tools)
  BY <1>1, <1>3, <1>4 DEF ProcessFits, NameFits, ResultsFit
<1>6. ProcessFits(e, disk, tools)
  BY <1>1, <1>3, <1>5 DEF ProcessFits
<1>7. c.cmd.output \in Files
  BY <1>1, OutputType DEF ProcessFits, NameFits
<1>8. FilesFit(files, disk, tools) => FilesFit(files', disk, tools)
  BY <1>7, FileWritten DEF Open
<1>9. /\ disk' = disk /\ tools' = tools /\ provider' = provider
      /\ commands' \in 0..MaxCommands /\ kills' \in 0..MaxKills
  BY DEF Open, CompilerInv
<1> QED BY <1>2, <1>3, <1>6, <1>8, <1>9, ProcessMoves

LEMMA WriteKeepsInv ==
    ASSUME CompilerInv, NEW p \in Processes, Write(p)
    PROVE  CompilerInv'
<1> DEFINE c == cli[p]
           code == Verdict(c.cmd, c.report)
           e == [c EXCEPT !.at = "done", !.code = code]
<1>1. ProcessFits(c, disk, tools) /\ c \in Cli /\ cli \in [Processes -> Cli] /\ c.at = "write"
  BY DEF CompilerInv, ProcessFits, Write
<1>2. /\ c.cmd \in Commands /\ c.cmd.name # "repos" /\ ReportSound(c.cmd.output, c.report, tools)
      /\ c.cmd.name = "scan" => c.results # <<>> /\ c.report = ScanReport(c)
      /\ c.cmd.name = "prove-fixes" => c.report.found = c.found
      /\ Settled(disk, c.found)
  BY <1>1 DEF ProcessFits, NameFits, ResultsFit
<1>3. code \in {0, 1}
  BY DEF Verdict, Gate
<1>4. c.cmd.name = "scan" /\ code = 0 => Gate(c.cmd.failOn, merge_findings(c.results)) = 0
  BY <1>2 DEF Verdict, ScanReport
<1>5. cli' = [cli EXCEPT ![p] = e]
  BY DEF Write, Exit
<1> HIDE DEF code
<1>6. e.at = "done"
  BY <1>1 DEF Cli
<1>7. ProcessFits(e, disk, tools)
  <2> HIDE DEF c
  <2>1. code \in {0, 1, 2} /\ c.at \notin {"off", "static", "dynamic", "merge"}
    BY <1>1, <1>3
  <2> QED BY <1>1, <1>2, <1>4, <2>1, ExitFits
<1> HIDE DEF e
<1>8. FilesFit(files, disk, tools) => FilesFit(files', disk, tools)
  <2>1. PICK content \in {c.report, Torn} : files' = [files EXCEPT ![c.cmd.output] = content]
    BY DEF Write
  <2>2. c.cmd.output \in Files /\ c.report \in Reports
    BY <1>1, <1>2, OutputType DEF Cli
  <2>3. c.cmd.output = "fixes" => Settled(disk, c.report.found)
    BY <1>2, OutputType
  <2> HIDE DEF c
  <2> QED BY <1>2, <2>1, <2>2, <2>3, FileWritten
<1>9. /\ disk' = disk /\ tools' = tools /\ provider' = provider
      /\ commands' \in 0..MaxCommands /\ kills' \in 0..MaxKills
  BY DEF Write, CompilerInv
<1> QED BY <1>5, <1>6, <1>7, <1>8, <1>9, ProcessMoves

LEMMA Officials ==
    /\ DOMAIN OFFICIAL_REPOSITORIES = 1..8
    /\ \A i \in 1..8 : OFFICIAL_REPOSITORIES[i] \in Repositories
BY DEF OFFICIAL_REPOSITORIES, Repositories

\* The clones that stay at their commit, with all or some of their files.
Onward(d, e) ==
    \A r \in Repositories : d[r] \in Versions => e[r] \in Versions /\ Whole[e[r]] = Whole[d[r]]

LEMMA SettledStays ==
    ASSUME NEW found \in Founds, NEW d, NEW e, Onward(d, e), Settled(d, found)
    PROVE  Settled(e, found)
<1>1. DOMAIN found \subseteq Repositories
  BY DEF Founds
<1> QED BY <1>1 DEF Onward, Settled

\* A process does not see a clone that was not there for it, nor one whose
\* files come and go.
LEMMA CloneUnseen ==
    ASSUME NEW d, NEW e, NEW has, NEW c, ProcessFits(c, d, has), Onward(d, e),
           c.at = "cloning" => e[OFFICIAL_REPOSITORIES[c.report]] = d[OFFICIAL_REPOSITORIES[c.report]]
    PROVE  ProcessFits(c, e, has)
<1>1. Settled(e, c.found)
  BY SettledStays DEF ProcessFits, Cli
<1>2. c.at = "checkout" => c.report \in 1..8 /\ e[OFFICIAL_REPOSITORIES[c.report]] \in Versions
  BY Officials DEF ProcessFits, Onward
<1> QED BY <1>1, <1>2 DEF ProcessFits

\* What git does to one clone, at the hands of a process that goes on as e.
LEMMA CloneStep ==
    ASSUME CompilerInv, NEW p \in Processes, NEW R \in Repositories, NEW e,
           disk' \in [Repositories -> Versions \cup {None, Partial}],
           \A r \in Repositories \ {R} : disk'[r] = disk[r],
           disk[R] \in Versions => disk'[R] \in Versions /\ Whole[disk'[R]] = Whole[disk[R]],
           \A q \in Processes \ {p} : cli[q].at = "cloning" => OFFICIAL_REPOSITORIES[cli[q].report] # R,
           e.at = "cloning" => OFFICIAL_REPOSITORIES[e.report] = R,
           cli' = [cli EXCEPT ![p] = e], ProcessFits(e, disk', tools),
           tools' = tools, provider' = provider, files' = files, commands' = commands, kills' = kills
    PROVE  CompilerInv'
<1>1. cli \in [Processes -> Cli] /\ e \in Cli
  BY DEF CompilerInv, ProcessFits
<1>3. cli' \in [Processes -> Cli] /\ cli'[p] = e /\ \A q \in Processes \ {p} : cli'[q] = cli[q]
  BY <1>1
<1>4. Onward(disk, disk')
  BY DEF Onward
<1>5. ASSUME NEW q \in Processes PROVE ProcessFits(cli'[q], disk', tools)
  <2>1. CASE q = p
    BY <2>1, <1>3
  <2>2. CASE q # p
    <3>1. ProcessFits(cli[q], disk, tools)
      BY DEF CompilerInv
    <3>2. cli[q].at = "cloning" =>
              disk'[OFFICIAL_REPOSITORIES[cli[q].report]] = disk[OFFICIAL_REPOSITORIES[cli[q].report]]
      BY <2>2, <3>1, Officials DEF ProcessFits
    <3>3. ProcessFits(cli[q], disk', tools)
      BY <3>1, <3>2, <1>4, CloneUnseen
    <3> QED BY <2>2, <3>3, <1>3
  <2> QED BY <2>1, <2>2
<1>6. ClonesApart'
  BY <1>3 DEF ClonesApart, CompilerInv
<1>7. FilesFit(files, disk', tools)
  <2>1. files["fixes"] \in {None, Torn} \/ Settled(disk', files["fixes"].found)
    <3>1. CASE files["fixes"] \notin {None, Torn}
      <4>1. files["fixes"].found \in Founds /\ Settled(disk, files["fixes"].found)
        BY <3>1, FileHolds DEF CompilerInv, FilesFit, ReportSound, Files
      <4> QED BY <4>1, <1>4, SettledStays
    <3> QED BY <3>1
  <2> QED BY <2>1 DEF CompilerInv, FilesFit
<1>8. /\ tools' = tools /\ files' = files /\ provider' = provider
      /\ commands' \in 0..MaxCommands /\ kills' \in 0..MaxKills
  BY DEF CompilerInv
<1>9. \A q \in Processes : ProcessFits(cli'[q], disk', tools')
  BY <1>5, <1>8
<1>10. FilesFit(files', disk', tools')
  BY <1>7, <1>8
<1> QED BY <1>3, <1>6, <1>8, <1>9, <1>10 DEF CompilerInv

LEMMA CloneBeginKeepsInv ==
    ASSUME CompilerInv, NEW p \in Processes, CloneBegin(p)
    PROVE  CompilerInv'
<1> DEFINE c == cli[p]
           i == CHOOSE x \in Missing(p) : \A j \in Missing(p) : x <= j
           e == [c EXCEPT !.at = "cloning", !.report = i]
<1>1. ProcessFits(c, disk, tools) /\ c \in Cli /\ cli \in [Processes -> Cli] /\ c.at = "repos"
  BY DEF CompilerInv, ProcessFits, CloneBegin
<1>2. i \in 1..8 /\ disk[OFFICIAL_REPOSITORIES[i]] = None
  <2>1. Missing(p) \in SUBSET (1..8)
    BY Officials DEF Missing
  <2>2. Missing(p) # {}
    BY DEF CloneBegin
  <2>3. 1..8 \subseteq Nat
    OBVIOUS
  <2>4. \E x \in Missing(p) : \A j \in Missing(p) : x <= j
    BY <2>1, <2>2, <2>3, LeastNatural
  <2>5. i \in Missing(p)
    BY <2>4
  <2> HIDE DEF i
  <2> QED BY <2>1, <2>5 DEF Missing
<1>3. /\ disk' = [disk EXCEPT ![OFFICIAL_REPOSITORIES[i]] = Partial]
      /\ cli' = [cli EXCEPT ![p].at = "cloning", ![p].report = i]
      /\ tools' = tools /\ provider' = provider /\ files' = files
      /\ commands' = commands /\ kills' = kills
  BY DEF CloneBegin
<1> HIDE DEF i
<1>4. i \in Reports
  BY <1>2 DEF Reports
<1>5. cli' = [cli EXCEPT ![p] = e]
  BY <1>1, <1>3, <1>4 DEF Cli
<1>6. /\ e \in Cli /\ e.at = "cloning" /\ e.cmd = c.cmd /\ e.found = c.found
      /\ e.results = c.results /\ e.report = i /\ e.code = c.code
  BY <1>1, <1>4 DEF Cli, Points
<1> HIDE DEF e
<1> DEFINE R == OFFICIAL_REPOSITORIES[i]
<1>7. /\ R \in Repositories /\ disk[R] = None /\ disk \in [Repositories -> Versions \cup {None, Partial}]
      /\ disk' = [disk EXCEPT ![R] = Partial]
  BY <1>2, <1>3, Officials DEF CompilerInv
<1>8. \A q \in Processes : cli[q].at = "cloning" => OFFICIAL_REPOSITORIES[cli[q].report] # R
  <2> HIDE DEF R
  <2> QED BY <1>7, MarksAssumption DEF CompilerInv, ProcessFits
<1>9. disk[R] \notin Versions /\ disk'[R] = Partial /\ \A r \in Repositories \ {R} : disk'[r] = disk[r]
  <2> HIDE DEF R
  <2> QED BY <1>7, MarksAssumption
<1>10. ProcessFits(e, disk', tools)
  <2>1. c.results = <<>> /\ c.cmd.name = "repos" /\ c.cmd \in Commands /\ c.code = None
    BY <1>1 DEF ProcessFits, NameFits, ResultsFit
  <2>2. NameFits(e) /\ ResultsFit(e, tools)
    BY <1>6, <2>1 DEF NameFits, ResultsFit
  <2>3. Onward(disk, disk')
    <3> HIDE DEF R
    <3> QED BY <1>7, <1>9 DEF Onward
  <2>4. Settled(disk', c.found)
    BY <1>1, <2>3, SettledStays DEF ProcessFits, Cli
  <2> QED BY <1>2, <1>6, <1>9, <2>1, <2>2, <2>4 DEF ProcessFits
<1>11. e.at = "cloning" => OFFICIAL_REPOSITORIES[e.report] = R
  BY <1>6
<1> HIDE DEF R
<1>12. disk' \in [Repositories -> Versions \cup {None, Partial}]
  BY <1>7
<1>13. /\ disk[R] \in Versions => disk'[R] \in Versions /\ Whole[disk'[R]] = Whole[disk[R]]
       /\ \A q \in Processes \ {p} : cli[q].at = "cloning" => OFFICIAL_REPOSITORIES[cli[q].report] # R
  BY <1>8, <1>9
<1> QED BY <1>3, <1>5, <1>7, <1>9, <1>10, <1>11, <1>12, <1>13, CloneStep

\* How a process c that clones may go on.
Onwards(c) ==
    {[c EXCEPT !.at = "checkout"], [c EXCEPT !.at = "repos"], [c EXCEPT !.at = "done", !.code = 1]}

\* A process that has done with a clone, or with all of them.
LEMMA CloneMoves ==
    ASSUME CompilerInv, NEW p \in Processes, NEW R \in Repositories, NEW e \in Onwards(cli[p]),
           cli[p].at \in {"cloning", "checkout"}, R = OFFICIAL_REPOSITORIES[cli[p].report],
           disk' \in [Repositories -> Versions \cup {None, Partial}],
           \A r \in Repositories \ {R} : disk'[r] = disk[r],
           disk[R] \in Versions => disk'[R] \in Versions /\ Whole[disk'[R]] = Whole[disk[R]],
           e.at = "checkout" => disk'[R] \in Versions,
           cli' = [cli EXCEPT ![p] = e],
           tools' = tools, provider' = provider, files' = files, commands' = commands, kills' = kills
    PROVE  CompilerInv'
<1> DEFINE c == cli[p]
<1>1. ProcessFits(c, disk, tools) /\ c \in Cli /\ cli \in [Processes -> Cli]
  BY DEF CompilerInv, ProcessFits
<1>2. /\ c.results = <<>> /\ c.cmd.name = "repos" /\ c.cmd \in Commands /\ c.code = None
      /\ c.report \in 1..8 /\ disk[R] # None
      /\ c.at = "cloning" => disk[R] = Partial
      /\ c.at = "checkout" => disk[R] \in Versions
  BY <1>1, MarksAssumption DEF ProcessFits, NameFits, ResultsFit
<1>4. Onward(disk, disk')
  BY DEF Onward
<1>5. Settled(disk', c.found)
  BY <1>1, <1>4, SettledStays DEF ProcessFits, Cli
<1>6. /\ e \in Cli /\ e.at \in {"checkout", "repos", "done"} /\ e.cmd = c.cmd /\ e.found = c.found
      /\ e.results = c.results /\ e.report = c.report
      /\ e.code = IF e.at = "done" THEN 1 ELSE None
      /\ e.at = "checkout" => disk'[R] \in Versions
  BY <1>1, <1>2 DEF Cli, Points, Onwards
<1>7. NameFits(e) /\ ResultsFit(e, tools)
  BY <1>2, <1>6 DEF NameFits, ResultsFit
<1>8. 1 # None
  BY MarksAssumption
<1>9. ProcessFits(e, disk', tools)
  BY <1>2, <1>5, <1>6, <1>7, <1>8 DEF ProcessFits
<1>10. \A q \in Processes \ {p} : cli[q].at = "cloning" => OFFICIAL_REPOSITORIES[cli[q].report] # R
  <2> SUFFICES ASSUME NEW q \in Processes \ {p}, cli[q].at = "cloning"
               PROVE  OFFICIAL_REPOSITORIES[cli[q].report] # R
    OBVIOUS
  <2>1. disk[OFFICIAL_REPOSITORIES[cli[q].report]] = Partial
    BY DEF CompilerInv, ProcessFits
  <2>2. CASE c.at = "checkout"
    BY <1>2, <2>1, <2>2, MarksAssumption
  <2>3. CASE c.at = "cloning"
    BY <2>3 DEF CompilerInv, ClonesApart
  <2> QED BY <2>2, <2>3
<1>11. e.at # "cloning"
  BY <1>6
<1> QED BY <1>9, <1>10, <1>11, CloneStep

LEMMA CloneEndKeepsInv ==
    ASSUME CompilerInv, NEW p \in Processes, CloneEnd(p)
    PROVE  CompilerInv'
<1> DEFINE c == cli[p]
           R == OFFICIAL_REPOSITORIES[c.report]
<1>1. /\ ProcessFits(c, disk, tools) /\ c.at = "cloning"
      /\ tools' = tools /\ provider' = provider /\ files' = files
      /\ commands' = commands /\ kills' = kills
      /\ disk \in [Repositories -> Versions \cup {None, Partial}]
  BY DEF CompilerInv, CloneEnd
<1>2. R \in Repositories /\ disk[R] \notin Versions
  BY <1>1, Officials, MarksAssumption DEF ProcessFits
<1>3. PICK e :
          /\ \/ e = [c EXCEPT !.at = "checkout"] /\ \E v \in Upstream : disk' = [disk EXCEPT ![R] = v]
             \/ e = [c EXCEPT !.at = "done", !.code = 1] /\ disk' = [disk EXCEPT ![R] = None]
          /\ cli' = [cli EXCEPT ![p] = e]
  <2> DEFINE on == [c EXCEPT !.at = "checkout"]
             off == [c EXCEPT !.at = "done", !.code = 1]
  <2>1. \/ /\ \E v \in Upstream : disk' = [disk EXCEPT ![R] = v]
           /\ cli' = [cli EXCEPT ![p] = on]
        \/ disk' = [disk EXCEPT ![R] = None] /\ cli' = [cli EXCEPT ![p] = off]
    BY DEF CloneEnd, Goto, Exit
  <2> QED BY <2>1
<1>4. PICK v : /\ v \in Versions \cup {None} /\ disk' = [disk EXCEPT ![R] = v]
               /\ \/ e = [c EXCEPT !.at = "checkout"] /\ v \in Versions
                  \/ e = [c EXCEPT !.at = "done", !.code = 1]
  BY <1>3, UpstreamAssumption
<1>5. /\ disk' \in [Repositories -> Versions \cup {None, Partial}] /\ disk'[R] = v
      /\ \A r \in Repositories \ {R} : disk'[r] = disk[r]
  <2> HIDE DEF R
  <2> QED BY <1>1, <1>2, <1>4
<1>6. /\ c.at \in {"cloning", "checkout"}
      /\ disk[R] \in Versions => disk'[R] \in Versions /\ Whole[disk'[R]] = Whole[disk[R]]
      /\ e \in Onwards(c)
      /\ e.at = "checkout" => disk'[R] \in Versions
  <2>1. c \in Cli
    BY <1>1 DEF ProcessFits
  <2> HIDE DEF R
  <2> QED BY <1>1, <1>2, <1>4, <1>5, <2>1 DEF Onwards, Cli
<1>7. R = OFFICIAL_REPOSITORIES[cli[p].report]
  OBVIOUS
<1> HIDE DEF R
<1> QED BY <1>1, <1>2, <1>3, <1>5, <1>6, <1>7, CloneMoves

LEMMA CloneCheckoutKeepsInv ==
    ASSUME CompilerInv, NEW p \in Processes, CloneCheckout(p)
    PROVE  CompilerInv'
<1> DEFINE c == cli[p]
           R == OFFICIAL_REPOSITORIES[c.report]
<1>1. /\ ProcessFits(c, disk, tools) /\ c.at = "checkout"
      /\ tools' = tools /\ provider' = provider /\ files' = files
      /\ commands' = commands /\ kills' = kills
      /\ disk \in [Repositories -> Versions \cup {None, Partial}]
  BY DEF CompilerInv, CloneCheckout
<1>2. R \in Repositories /\ disk[R] \in Versions
  BY <1>1, Officials DEF ProcessFits
<1>3. PICK e :
          /\ \/ e = [c EXCEPT !.at = "repos"] /\ disk' = [disk EXCEPT ![R] = Whole[disk[R]]]
             \/ e = [c EXCEPT !.at = "done", !.code = 1] /\ disk' = disk
          /\ cli' = [cli EXCEPT ![p] = e]
  <2> DEFINE on == [c EXCEPT !.at = "repos"]
             off == [c EXCEPT !.at = "done", !.code = 1]
  <2>1. \/ disk' = [disk EXCEPT ![R] = Whole[disk[R]]] /\ cli' = [cli EXCEPT ![p] = on]
        \/ disk' = disk /\ cli' = [cli EXCEPT ![p] = off]
    BY DEF CloneCheckout, Goto, Exit
  <2> QED BY <2>1
<1>4. Whole[disk[R]] \in Versions /\ Whole[Whole[disk[R]]] = Whole[disk[R]]
  BY <1>2, WholeAssumption
<1>5. /\ disk' \in [Repositories -> Versions \cup {None, Partial}]
      /\ disk'[R] \in {disk[R], Whole[disk[R]]}
      /\ \A r \in Repositories \ {R} : disk'[r] = disk[r]
  <2> HIDE DEF R
  <2> QED BY <1>1, <1>2, <1>3, <1>4
<1>6. /\ c.at \in {"cloning", "checkout"}
      /\ disk[R] \in Versions => disk'[R] \in Versions /\ Whole[disk'[R]] = Whole[disk[R]]
      /\ e \in Onwards(c)
      /\ e.at = "checkout" => disk'[R] \in Versions
  <2>1. c \in Cli
    BY <1>1 DEF ProcessFits
  <2> HIDE DEF R
  <2> QED BY <1>1, <1>2, <1>3, <1>4, <1>5, <2>1 DEF Onwards, Cli
<1>7. R = OFFICIAL_REPOSITORIES[cli[p].report]
  OBVIOUS
<1> HIDE DEF R
<1> QED BY <1>1, <1>2, <1>3, <1>5, <1>6, <1>7, CloneMoves

\* Whatever a command does next, and whichever of them, the invariant stays.
LEMMA NextKeepsInv == CompilerInv /\ [Next]_vars => CompilerInv'
<1> SUFFICES ASSUME CompilerInv, [Next]_vars PROVE CompilerInv'
  OBVIOUS
<1>1. CASE UNCHANGED vars
  BY <1>1 DEF vars, CompilerInv, ClonesApart
<1>2. ASSUME NEW p \in Processes,
             \/ \E c \in Commands : Start(p, c)
             \/ CloneBegin(p) \/ CloneEnd(p) \/ CloneCheckout(p) \/ ListRepositories(p)
             \/ Inspect(p) \/ StaticProbes(p) \/ DynamicProbes(p) \/ Merge(p)
             \/ Open(p) \/ Write(p)
             \/ LookUp(p) \/ LoadScan(p) \/ LoadRegistry(p) \/ ProveFixes(p)
             \/ Kill(p)
      PROVE  CompilerInv'
  <2>1. CASE \E c \in Commands : Start(p, c)
    BY <2>1, StartKeepsInv
  <2>2. CASE CloneBegin(p) \/ CloneEnd(p) \/ CloneCheckout(p) \/ ListRepositories(p)
    BY <2>2, CloneBeginKeepsInv, CloneEndKeepsInv, CloneCheckoutKeepsInv, ListRepositoriesKeepsInv
  <2>3. CASE Inspect(p) \/ StaticProbes(p) \/ DynamicProbes(p) \/ Merge(p)
    BY <2>3, InspectKeepsInv, StaticProbesKeepsInv, DynamicProbesKeepsInv, MergeKeepsInv
  <2>4. CASE Open(p) \/ Write(p)
    BY <2>4, OpenKeepsInv, WriteKeepsInv
  <2>5. CASE LookUp(p) \/ LoadScan(p) \/ LoadRegistry(p) \/ ProveFixes(p)
    BY <2>5, LookUpKeepsInv, LoadScanKeepsInv, LoadRegistryKeepsInv, ProveFixesKeepsInv
  <2>6. CASE Kill(p)
    BY <2>6, KillKeepsInv
  <2> QED BY <1>2, <2>1, <2>2, <2>3, <2>4, <2>5, <2>6
<1> QED BY <1>1, <1>2 DEF Next

\* What the commands of razorproof.cli leave in the clones, in artifacts/ and
\* in their own hands fits together at every step, killed or not.
THEOREM CompilerInvariant == Spec => []CompilerInv
BY InitInv, NextKeepsInv, PTL DEF Spec

-----------------------------------------------------------------------------
(* What the runs check.                                                    *)

LEMMA FoundVersions ==
    ASSUME NEW found \in Founds
    PROVE  /\ Range(found) \subseteq Versions /\ DOMAIN found \subseteq Repositories
           /\ \A r \in DOMAIN found : found[r] \in Range(found)
BY DEF Founds, Range

LEMMA TypesFollow == CompilerInv => TypeOK
<1> SUFFICES ASSUME CompilerInv PROVE TypeOK
  OBVIOUS
<1>1. ASSUME NEW f \in {"latest", "expanded"} PROVE files[f] \in {None, Torn} \/ IsScan(files[f])
  <2>1. CASE files[f] \notin {None, Torn}
    <3>1. files[f] \in Scans
      BY <2>1, FileHolds DEF Files, ReportSound, ScanSound
    <3> QED BY <3>1, FoundVersions DEF Scans, IsScan
  <2> QED BY <2>1
<1>2. ASSUME NEW f \in {"registry", "chains", "fixes"}
      PROVE  files[f] \in {None, Torn} \/ files[f].checks \in BOOLEAN
  <2>1. CASE files[f] \notin {None, Torn}
    BY <2>1, FileHolds DEF Files, ReportSound
  <2> QED BY <2>1
<1>3. ASSUME NEW p \in Processes
      PROVE  /\ cli[p].cmd \in Commands \cup {None}
             /\ cli[p].code \in {None, 0, 1, 2}
             /\ cli[p].at = "done" <=> cli[p].code # None
             /\ Range(cli[p].found) \subseteq Versions
             /\ \A i \in DOMAIN cli[p].results : cli[p].results[i].findings \subseteq Findings
  <2>1. cli[p] \in Cli /\ ProcessFits(cli[p], disk, tools)
    BY DEF CompilerInv
  <2>2. Range(cli[p].found) \subseteq Versions
    BY <2>1, FoundVersions DEF Cli
  <2>3. \A i \in DOMAIN cli[p].results : cli[p].results[i] \in Result
    BY <2>1 DEF Cli
  <2> QED BY <2>1, <2>2, <2>3 DEF Cli, ProcessFits, Result
<1> QED BY <1>1, <1>2, <1>3 DEF CompilerInv, TypeOK

\* Clones, artifacts and processes of razorproof.cli keep their types, and what
\* stands in the file of a scan is a whole scan or torn.
THEOREM ConformanceTypeCorrect == Spec => []TypeOK
BY CompilerInvariant, TypesFollow, PTL

\* What a probe gathered is one piece of evidence, from a version it was given.
LEMMA EvidenceOfOne ==
    ASSUME NEW g, NEW found \in Founds, NEW d, Settled(d, found), NEW containers, NEW has,
           Read(g, found) \/ Ran(g, found, containers, has)
    PROVE  \E v \in Range(found) : g.evidence = {<<g.level, v>>}
<1>1. PICK r, level : r \in DOMAIN found /\ g = Finding(g.id, level, found[r])
  BY DEF Read, Ran
<1>2. Whole[found[r]] = found[r]
  BY <1>1, WholeAssumption DEF Settled
<1>3. g.level = level /\ g.evidence = {<<level, found[r]>>}
  BY <1>1, <1>2 DEF Finding
<1> QED BY <1>1, <1>3, FoundVersions

LEMMA EvidenceFollows == CompilerInv => ReportKeepsAllEvidence
<1> SUFFICES ASSUME CompilerInv, NEW p \in Processes, cli[p].report # None, cli[p].results # <<>>
             PROVE  LET made == UNION {cli[p].results[i].findings : i \in DOMAIN cli[p].results}
                        report == cli[p].report IN
                    /\ {f.id : f \in report.findings} = {g.id : g \in made}
                    /\ \A f, g \in report.findings : f.id = g.id => f = g
                    /\ \A f \in report.findings :
                        LET same == {g \in made : g.id = f.id} IN
                        /\ f.evidence = UNION {g.evidence : g \in same}
                        /\ \E e \in f.evidence : e[1] = f.level
                        /\ \A e \in f.evidence :
                            Rank[e[1]] <= Rank[f.level] /\ e[2] \in Range(report.found)
  BY DEF ReportKeepsAllEvidence
<1> DEFINE c == cli[p]
           made == Made(c.results)
           merged == merge_findings(c.results)
<1>1. c \in Cli /\ ProcessFits(c, disk, tools)
  BY DEF CompilerInv
<1>2. c.results \in Seq(Result) /\ c.found \in Founds /\ Settled(disk, c.found)
  BY <1>1 DEF Cli, ProcessFits
<1>3. Gathered(c.results, c.found, c.cmd, tools) /\ c.report = ScanReport(c)
  BY <1>1 DEF ProcessFits, ResultsFit
<1>4. c.report.findings = merged /\ c.report.found = c.found
  BY <1>3 DEF ScanReport
<1>5. MergeOf(merged, made)
  BY <1>2, <1>3, GatheredMerges
<1>6. made = UNION {c.results[i].findings : i \in DOMAIN c.results}
  BY DEF Made
<1>7. ASSUME NEW g \in made PROVE \E v \in Range(c.found) : g.evidence = {<<g.level, v>>}
  <2>1. PICK i \in DOMAIN c.results : g \in c.results[i].findings
    BY <1>6
  <2>2. \/ AllRead(c.results[i], c.found)
        \/ AllRan(c.results[i], c.found, InContainers(c.cmd), tools)
    BY <1>3 DEF Gathered
  <2>3. Read(g, c.found) \/ Ran(g, c.found, InContainers(c.cmd), tools)
    BY <2>1, <2>2 DEF AllRead, AllRan
  <2> QED BY <1>2, <2>3, EvidenceOfOne
<1> HIDE DEF made, merged, c
<1>8. {f.id : f \in merged} = {g.id : g \in made}
  <2>1. ASSUME NEW f \in merged PROVE \E g \in made : g.id = f.id
    <3>1. PICK g \in Same(made, f.id) : g.level = f.level
      BY <1>5 DEF MergeOf
    <3> QED BY <3>1 DEF Same
  <2>2. ASSUME NEW g \in made PROVE \E f \in merged : f.id = g.id
    BY <1>5 DEF MergeOf
  <2> QED BY <2>1, <2>2
<1>9. \A f, g \in merged : f.id = g.id => f = g
  BY <1>5 DEF MergeOf
<1>10. ASSUME NEW f \in merged
       PROVE  /\ f.evidence = UNION {g.evidence : g \in {g \in made : g.id = f.id}}
              /\ \E e \in f.evidence : e[1] = f.level
              /\ \A e \in f.evidence : Rank[e[1]] <= Rank[f.level] /\ e[2] \in Range(c.found)
  <2> DEFINE same == Same(made, f.id)
  <2>1. /\ f.evidence = UNION {g.evidence : g \in same}
        /\ \E g \in same : g.level = f.level
        /\ \A g \in same : Rank[g.level] <= Rank[f.level]
    BY <1>5 DEF MergeOf
  <2>2. same = {g \in made : g.id = f.id}
    BY DEF Same
  <2>3. \E e \in f.evidence : e[1] = f.level
    <3>1. PICK g \in same : g.level = f.level
      BY <2>1
    <3>2. PICK v \in Range(c.found) : g.evidence = {<<g.level, v>>}
      BY <1>7, <2>2
    <3>3. <<g.level, v>> \in f.evidence /\ <<g.level, v>>[1] = f.level
      BY <2>1, <3>1, <3>2
    <3> QED BY <3>3
  <2>4. ASSUME NEW e \in f.evidence PROVE Rank[e[1]] <= Rank[f.level] /\ e[2] \in Range(c.found)
    <3>1. PICK g \in same : e \in g.evidence
      BY <2>1
    <3>2. PICK v \in Range(c.found) : g.evidence = {<<g.level, v>>}
      BY <1>7, <2>2
    <3>3. e[1] = g.level /\ e[2] = v
      BY <3>1, <3>2
    <3> QED BY <2>1, <3>1, <3>2, <3>3
  <2> QED BY <2>1, <2>2, <2>3, <2>4
<1> QED BY <1>4, <1>6, <1>8, <1>9, <1>10 DEF c

\* Whatever probes ran, in whatever order their results came to
\* engine.merge_findings, a report has every claim once, all its evidence and
\* its strongest level, and no evidence from a clone that it does not name.
THEOREM EveryReportKeepsAllEvidence == Spec => []ReportKeepsAllEvidence
BY CompilerInvariant, EvidenceFollows, PTL

LEMMA ExecutionFollows == CompilerInv => PassingChainsWereExecuted
<1> SUFFICES ASSUME CompilerInv, files["chains"] \notin {None, Torn}, files["chains"].checks
             PROVE  Executable(files["chains"].scan, tools)
  BY DEF PassingChainsWereExecuted, Executable, Money
<1>1. ReportSound("chains", files["chains"], tools)
  BY FileHolds DEF Files
<1> QED BY <1>1 DEF ReportSound

\* A build of the attack chains that says all evidence-backed nodes pass read
\* a scan that ran the SDKs in containers over clones with the patterns:
\* attack_chains.py asks enough of the artifacts, whatever ran around it.
THEOREM ChainsThatPassWereExecuted == Spec => []PassingChainsWereExecuted
BY CompilerInvariant, ExecutionFollows, PTL

\* A scan that ended without a probe error tells of every pattern a gate may
\* bar and of every one that prove-fixes heals, but for what is inferred.
LEMMA CleanScanTells ==
    ASSUME CompilerInv, NEW p \in Processes, cli[p].at = "done", cli[p].cmd.name = "scan",
           cli[p].results # <<>>, \A i \in DOMAIN cli[p].results : ~ cli[p].results[i].errors,
           NEW r \in DOMAIN cli[p].found, NEW id \in Home[r] \cap Patterns[cli[p].found[r]],
           id \notin Inferred,
           id \in Critical \cup High \/ (r \in DOMAIN Repaired /\ id = Repaired[r])
    PROVE  \E f \in merge_findings(cli[p].results) : f.id = id
<1> DEFINE c == cli[p]
<1>1. c \in Cli /\ ProcessFits(c, disk, tools)
  BY DEF CompilerInv
<1>2. c.results \in Seq(Result) /\ c.found \in Founds
  BY <1>1 DEF Cli
<1>3. Gathered(c.results, c.found, c.cmd, tools) /\ 3 <= Len(c.results)
  BY <1>1 DEF ProcessFits, ResultsFit
<1>4. DOMAIN c.results = 1..Len(c.results) /\ Len(c.results) \in Nat
  BY <1>2
<1>5. \A i \in 1..3 : i \in DOMAIN c.results
  BY <1>3, <1>4
<1>6. Untroubled(c.results, c.found)
  BY <1>3, <1>5 DEF Gathered, Untroubled
<1>7. PICK i \in 1..3 : \E g \in c.results[i].findings : g.id = id
  <2>1. /\ r \in DOMAIN c.found /\ id \in Home[r] /\ id \in Patterns[c.found[r]] /\ id \notin Inferred
        /\ id \in Critical \cup High \/ (r \in DOMAIN Repaired /\ id = Repaired[r])
    OBVIOUS
  <2> HIDE DEF c
  <2> QED BY <1>2, <1>6, <2>1, StaticProbesSeeAll
<1>8. PICK g \in c.results[i].findings : g.id = id
  BY <1>7
<1>9. g \in Made(c.results)
  BY <1>5, <1>8 DEF Made
<1>10. MergeOf(merge_findings(c.results), Made(c.results))
  BY <1>2, <1>3, GatheredMerges
<1> QED BY <1>8, <1>9, <1>10 DEF MergeOf

LEMMA CleanFollows == CompilerInv => CleanGateMeansClean
<1> SUFFICES ASSUME CompilerInv, NEW p \in Processes,
                    cli[p].at = "done", cli[p].cmd.name = "scan", cli[p].code = 0,
                    cli[p].cmd.failOn # "none",
                    \A i \in DOMAIN cli[p].results : ~ cli[p].results[i].errors,
                    NEW id \in Present(cli[p].found) \cap Barred(cli[p].cmd.failOn),
                    id \notin Inferred
             PROVE  FALSE
  BY DEF CleanGateMeansClean
<1> DEFINE c == cli[p]
<1>1. c \in Cli /\ ProcessFits(c, disk, tools)
  BY DEF CompilerInv
<1>2. c.results \in Seq(Result) /\ c.found \in Founds
  BY <1>1 DEF Cli
<1>3. /\ c.results # <<>> /\ c.cmd \in Commands
      /\ Gate(c.cmd.failOn, merge_findings(c.results)) = 0
      /\ Gathered(c.results, c.found, c.cmd, tools)
  BY <1>1 DEF ProcessFits, ResultsFit
<1>4. id \in Critical \cup High
  BY <1>3, CommandType DEF Barred
<1>5. PICK r \in DOMAIN c.found : id \in Home[r] \cap Patterns[c.found[r]]
  BY DEF Present
<1>6. \E f \in merge_findings(c.results) : f.id = id
  BY <1>3, <1>4, <1>5, CleanScanTells
<1> QED BY <1>3, <1>6 DEF Gate

\* scan --fail-on: exit code 0 and no probe error mean that the clones have no
\* pattern of the severity that was barred, but for what is only inferred.
THEOREM CleanScansAreClean == Spec => []CleanGateMeansClean
BY CompilerInvariant, CleanFollows, PTL

LEMMA RedFollows == CompilerInv => RedToGreen
<1> DEFINE found == files["fixes"].found
<1> SUFFICES ASSUME CompilerInv, files["fixes"] \notin {None, Torn}, files["fixes"].checks,
                    NEW r \in DOMAIN Repaired \cap DOMAIN found
             PROVE  /\ Repaired[r] \in Defects[found[r]] \cap Cures[found[r]]
                    /\ \A p \in Processes :
                        ScannedCleanly(cli[p]) /\ r \in DOMAIN cli[p].found =>
                            Repaired[r] \in {f.id : f \in cli[p].report.findings}
  BY DEF RedToGreen
<1>1. WasRed(found) /\ Settled(disk, found)
  BY FileHolds DEF Files, ReportSound, CompilerInv, FilesFit
<1>2. Repaired[r] \in Defects[found[r]] \cap Cures[found[r]] \cap Patterns[found[r]]
  BY <1>1 DEF WasRed
<1>3. ASSUME NEW p \in Processes, ScannedCleanly(cli[p]), r \in DOMAIN cli[p].found
      PROVE  Repaired[r] \in {f.id : f \in cli[p].report.findings}
  <2> DEFINE c == cli[p]
  <2>1. ProcessFits(c, disk, tools)
    BY DEF CompilerInv
  <2>2. c.found[r] = found[r]
    BY <1>1, <1>3, <2>1 DEF ProcessFits, Settled
  <2>3. Repaired[r] \in Home[r] /\ Repaired[r] \notin Inferred
    BY DEF Repaired, Home, Inferred
  <2>4. \E f \in merge_findings(c.results) : f.id = Repaired[r]
    BY <1>2, <1>3, <2>2, <2>3, CleanScanTells DEF ScannedCleanly
  <2>5. c.report.findings = merge_findings(c.results)
    BY <1>3, <2>1 DEF ProcessFits, ResultsFit, ScanReport, ScannedCleanly
  <2> QED BY <2>4, <2>5
<1> QED BY <1>2, <1>3

\* A fix report of prove-fixes that says all are fixed names Python and Ruby
\* commits that showed the defect, and do not once the fix is made; and no scan
\* of these commits that ended without a probe error has passed them over,
\* whatever was cloned, cut short or killed between the inspections and the runs.
THEOREM FixesAreRedToGreen == Spec => []RedToGreen
BY CompilerInvariant, RedFollows, PTL
=============================================================================

CONSTANTS
  a = a b = b vulnerable = vulnerable halfway = halfway repaired = repaired moved = moved
  cut = cut guarded = guarded stubborn = stubborn
  Processes = {a, b}
  None = None
  Torn = Torn
  Partial = Partial
  Versions = {vulnerable, halfway, repaired, moved, cut, guarded, stubborn}
  Patterns <- PatternsDef
  Defects <- DefectsDef
  Whole <- WholeDef
  Anchors <- AnchorsDef
  Cures <- CuresDef
  FixRuns <- FixRunsDef
  Readable = {vulnerable, halfway, repaired, guarded, stubborn}
  Upstream = {cut, repaired}
  Worlds <- WorldsDef
  Commands <- CommandsDef
  Lucks <- LucksDef
  Answers <- AnswersDef
  MaxCommands = 3
  MaxKills = 1
SYMMETRY Symmetry
SPECIFICATION Spec
INVARIANTS TypeOK ReportKeepsAllEvidence PassingChainsWereExecuted CleanGateMeansClean RedToGreen
CHECK_DEADLOCK FALSE

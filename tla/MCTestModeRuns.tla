--------------------------- MODULE MCTestModeRuns ---------------------------
(* Small instances of TestModeRuns for TLC.                                 *)
EXTENDS TestModeRuns, TLC

CONSTANTS r1, r2, r3

Call(name, identity, amount) ==
    [name |-> name, via |-> "call", identity |-> identity, amount |-> amount]
Main(name, identity, amount) ==
    [name |-> name, via |-> "main", identity |-> identity, amount |-> amount]

\* Two commands on one captured payment.
Two(price, c, d) ==
    [price |-> price, customers |-> 1, faults |-> 2, resolved |-> TRUE,
     commands |-> (r1 :> c) @@ (r2 :> d)]

RivalPlans ==
    { Two(201, Main("header", "header", 100), Main("close", "header", 0)),
      Two(201, Call("close", "receipt", 0), Main("close", "header", 0)),
      Two(201, Main("live", "header", 101), Main("ledger", "header", 0)),
      Two(101, Main("dust", "header", 0), Main("header", "header", 100)),
      Two(101, Main("dust", "header", 0), Main("close", "receipt", 0)),
      Two(600, Call("matrix", "header", 0), Main("live", "header", 100)),
      [Two(500, Call("matrix", "header", 0), Call("close", "receipt", 0)) EXCEPT !.faults = 1],
      Two(201, Main("lab", "header", 0), Main("lab", "header", 0)),
      [Two(100, Main("orders", "header", 0), Main("contract", "header", 0))
          EXCEPT !.faults = 1] }

\* A first fixture, and a session that moves from one payment to another
\* while an experiment runs.
FixturePlans ==
    { [price |-> 201, customers |-> 2, faults |-> 2, resolved |-> FALSE,
       commands |-> (r1 :> Main("link", "header", 0)) @@ (r2 :> Main("refresh", "header", 0))
                    @@ (r3 :> Main("header", "header", 100))],
      [price |-> 201, customers |-> 2, faults |-> 2, resolved |-> TRUE,
       commands |-> (r1 :> Main("link", "header", 0)) @@ (r2 :> Main("refresh", "header", 0))
                    @@ (r3 :> Main("header", "header", 100))],
      [price |-> 500, customers |-> 1, faults |-> 2, resolved |-> FALSE,
       commands |-> (r1 :> Main("link", "header", 0)) @@ (r2 :> Main("refresh", "header", 0))
                    @@ (r3 :> Call("matrix", "header", 0))] }

AllPlans == RivalPlans \cup FixturePlans
=============================================================================

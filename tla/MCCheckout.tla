----------------------------- MODULE MCCheckout -----------------------------
(* Small instances of Checkout for TLC.                                     *)
EXTENDS Checkout, TLC

CONSTANTS h1, h2, q1, q2, i1, i2, i3, r1, r2, o1, o2, p1, p2, full, part

\* Every quote costs the full amount; a customer may also pay a part of it.
PriceDef == [q \in Quotes |-> full]

Symmetry == Permutations(Handlers) \cup Permutations(Intents)
            \cup Permutations(References) \cup Permutations(Orders)
            \cup Permutations(Payments) \cup Permutations(Quotes)
=============================================================================

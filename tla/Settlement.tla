----------------------------- MODULE Settlement -----------------------------
(***************************************************************************)
(* What the checkout of RazorProof promises for each quote, with no        *)
(* handlers, versions, intents or lost messages: a quote is issued, bound  *)
(* to one order placed for it, verified against one captured payment of    *)
(* its price on an order placed for it, and fulfilled under one            *)
(* reference, in this order and each at most once.                         *)
(***************************************************************************)
CONSTANTS Quotes, Orders, Payments, Amounts, References, Price, None

VARIABLES
    book,      \* the stage each quote has reached
    placed,    \* the quote each order was placed for
    captured   \* the captured payments

sVars == <<book, placed, captured>>

Page(state, o, p, r) == [state |-> state, order |-> o, payment |-> p, reference |-> r]

Blank == Page("Absent", None, None, None)

SInit ==
    /\ book = [q \in Quotes |-> Blank]
    /\ placed = [o \in Orders |-> None]
    /\ captured = {}

Open(q) ==
    /\ book[q].state = "Absent"
    /\ book' = [book EXCEPT ![q] = Page("Issued", None, None, None)]
    /\ UNCHANGED <<placed, captured>>

Place(q, o) ==
    /\ book[q].state # "Absent"
    /\ placed[o] = None
    /\ placed' = [placed EXCEPT ![o] = q]
    /\ UNCHANGED <<book, captured>>

Bind(q, o) ==
    /\ book[q].state = "Issued"
    /\ placed[o] = q
    /\ book' = [book EXCEPT ![q] = Page("OrderBound", o, None, None)]
    /\ UNCHANGED <<placed, captured>>

CapturePayment(p, o, a) ==
    /\ placed[o] # None
    /\ \A c \in captured : c.payment # p
    /\ captured' = captured \cup {[payment |-> p, order |-> o, amount |-> a]}
    /\ UNCHANGED <<book, placed>>

Verify(q, p) ==
    /\ book[q].state = "OrderBound"
    /\ [payment |-> p, order |-> book[q].order, amount |-> Price[q]] \in captured
    /\ book' = [book EXCEPT ![q] = Page("PaymentVerified", book[q].order, p, None)]
    /\ UNCHANGED <<placed, captured>>

Release(q, r) ==
    /\ book[q].state = "PaymentVerified"
    /\ book' = [book EXCEPT ![q] = Page("Fulfilled", None, book[q].payment, r)]
    /\ UNCHANGED <<placed, captured>>

SNext ==
    \/ \E q \in Quotes : Open(q)
    \/ \E q \in Quotes, o \in Orders : Place(q, o) \/ Bind(q, o)
    \/ \E p \in Payments, o \in Orders, a \in Amounts : CapturePayment(p, o, a)
    \/ \E q \in Quotes, p \in Payments : Verify(q, p)
    \/ \E q \in Quotes, r \in References : Release(q, r)

SSpec == SInit /\ [][SNext]_sVars
=============================================================================

--------------------------- MODULE OrderLifecycle ----------------------------
(***************************************************************************)
(* What the order manager promises about the life of an order, whatever    *)
(* the gateway and the store do: an order is opened once, with a fixed     *)
(* quantity; it accumulates fills while it is working; it ends once, for   *)
(* one reason, and nothing about it changes after that.                    *)
(***************************************************************************)
EXTENDS Naturals

CONSTANTS Orders,   \* order identifiers
          Amounts,  \* the quantities that may be ordered, natural numbers
          Fills     \* the quantities of single fills, natural numbers

VARIABLES state,     \* per order: "none", "pending", "working" or how it ended
          quantity,  \* per order: what was ordered (0 before it is opened)
          filled     \* per order: what has been filled

lifeVars == <<state, quantity, filled>>

\* How an order may enter the store.
Entries == {"pending", "working", "rejected"}

LifeInit ==
    /\ state = [o \in Orders |-> "none"]
    /\ quantity = [o \in Orders |-> 0]
    /\ filled = [o \in Orders |-> 0]

\* An order enters the store: working, refused, or pending for ever.
Open(o, q, entry) ==
    /\ state[o] = "none"
    /\ state' = [state EXCEPT ![o] = entry]
    /\ quantity' = [quantity EXCEPT ![o] = q]
    /\ UNCHANGED filled

\* A fill completes the order exactly when it reaches the quantity ordered.
Fill(o, n) ==
    /\ state[o] = "working"
    /\ filled' = [filled EXCEPT ![o] = @ + n]
    /\ state' = [state EXCEPT ![o] = IF filled[o] + n >= quantity[o]
                                     THEN "filled" ELSE "working"]
    /\ UNCHANGED quantity

\* A cancellation (of one order or of several), or a rejection by the broker.
End(os, how) ==
    /\ \A o \in os : state[o] = "working"
    /\ state' = [o \in Orders |-> IF o \in os THEN how ELSE state[o]]
    /\ UNCHANGED <<quantity, filled>>

\* A replacement ends the old order and opens the new one in the same step,
\* or fails to open it.
Replace(old, new, q) ==
    /\ state[old] = "working"
    /\ state[new] = "none"
    /\ state' = [state EXCEPT ![old] = "replaced", ![new] = "working"]
    /\ quantity' = [quantity EXCEPT ![new] = q]
    /\ UNCHANGED filled

Abandon(old) ==
    /\ state[old] = "working"
    /\ state' = [state EXCEPT ![old] = "replaced"]
    /\ UNCHANGED <<quantity, filled>>

LifeNext ==
    \/ \E o \in Orders, q \in Amounts, entry \in Entries : Open(o, q, entry)
    \/ \E o \in Orders, n \in Fills : Fill(o, n)
    \/ \E os \in SUBSET Orders, how \in {"cancelled", "rejected"} : End(os, how)
    \/ \E old, new \in Orders, q \in Amounts : Replace(old, new, q)
    \/ \E old \in Orders : Abandon(old)

LifeSpec == LifeInit /\ [][LifeNext]_lifeVars
==============================================================================

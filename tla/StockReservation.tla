--------------------------- MODULE StockReservation ---------------------------
(***************************************************************************)
(* What a purchase promises about stock, whatever payments, webhooks,      *)
(* timeouts and refunds do to get there.                                   *)
(*                                                                         *)
(* A checkout is opened once and holds every piece of its orders, or is    *)
(* not opened at all.  Orders may withdraw from it; then it is paid, and   *)
(* every order still in it is sold, or it is lost, and none of them is.    *)
(* An order is sold or dropped for good, and free stock goes down only     *)
(* when a checkout is opened.                                              *)
(***************************************************************************)
EXTENDS Integers

CONSTANTS Checkout, Order, Listing, CheckoutOf, InitialQuantity,
          Pieces(_, _)   \* the quantity of a listing that orders hold together

VARIABLES
    outcome,   \* of each checkout: "none", "open", "paid" or "lost"
    phase,     \* of each order: "none", "held", "sold" or "dropped"
    free       \* pieces of each listing that nobody holds and nobody bought

stockVars == <<outcome, phase, free>>

StockInit ==
    /\ outcome = [c \in Checkout |-> "none"]
    /\ phase = [o \in Order |-> "none"]
    /\ free = InitialQuantity

In(c) == {o \in Order : CheckoutOf[o] = c}

Held(c) == {o \in In(c) : phase[o] = "held"}

Move(S, to) == phase' = [o \in Order |-> IF o \in S THEN to ELSE phase[o]]

GetBack(S) == free' = [l \in Listing |-> free[l] + Pieces(S, l)]

Open(c) ==
    /\ outcome[c] = "none"
    /\ \A l \in Listing : Pieces(In(c), l) <= free[l]
    /\ outcome' = [outcome EXCEPT ![c] = "open"]
    /\ Move(In(c), "held")
    /\ free' = [l \in Listing |-> free[l] - Pieces(In(c), l)]

\* The last order to withdraw closes the checkout.
Withdraw(o) ==
    /\ phase[o] = "held"
    /\ Move({o}, "dropped")
    /\ GetBack({o})
    /\ outcome' = IF Held(CheckoutOf[o]) = {o}
                  THEN [outcome EXCEPT ![CheckoutOf[o]] = "lost"] ELSE outcome

Win(c) ==
    /\ outcome[c] = "open"
    /\ Held(c) # {}
    /\ outcome' = [outcome EXCEPT ![c] = "paid"]
    /\ Move(Held(c), "sold")
    /\ UNCHANGED free

Lose(c) ==
    /\ outcome[c] = "open"
    /\ outcome' = [outcome EXCEPT ![c] = "lost"]
    /\ Move(Held(c), "dropped")
    /\ GetBack(Held(c))

\* A refund puts the pieces of sold orders on sale again.
TakeBack(S) ==
    /\ \A o \in S : phase[o] = "sold"
    /\ GetBack(S)
    /\ UNCHANGED <<outcome, phase>>

StockNext ==
    \/ \E c \in Checkout : Open(c) \/ Win(c) \/ Lose(c)
    \/ \E o \in Order : Withdraw(o)
    \/ \E S \in SUBSET Order : TakeBack(S)

StockSpec == StockInit /\ [][StockNext]_stockVars
=============================================================================

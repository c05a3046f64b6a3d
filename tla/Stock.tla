-------------------------------- MODULE Stock --------------------------------
(***************************************************************************)
(* The stock columns of a listing row and the four conditional UPDATEs of  *)
(* apps/api/src/orders/stock.ts that every checkout, payment and refund    *)
(* goes through.                                                           *)
(*                                                                         *)
(* An order is a set of pieces: one piece is one unit of one listing, so   *)
(* an order item of quantity n is n pieces.  Pieces(S, l) is the quantity  *)
(* of listing l that the orders of S hold together.                        *)
(***************************************************************************)
EXTENDS Integers, FiniteSets

CONSTANTS Listing, Order,
          Piece,       \* units of order items
          OrderOf,     \* the order of a piece
          ListingOf    \* the listing a piece is a unit of

ASSUME PieceAssumption ==
    /\ IsFiniteSet(Piece)
    /\ OrderOf \in [Piece -> Order]
    /\ ListingOf \in [Piece -> Listing]

Pieces(S, l) == Cardinality({u \in Piece : OrderOf[u] \in S /\ ListingOf[u] = l})

ListingStatus == {"ACTIVE", "SOLD"}

ListingRow == [quantity : Nat, reserved : Nat, status : ListingStatus]

----------------------------------------------------------------------------
(* The WHERE clauses: the update matches no row, and the transaction is    *)
(* aborted, when they are false.  Nothing is done for a listing the orders *)
(* have no piece of.                                                       *)
(*                                                                         *)
(* Here and in the modules built on this one, a definition X_Y is X with a *)
(* bug in it: no other definition uses it, and it is there to show which   *)
(* property would find that bug.                                           *)

CanReserve_Quantity(row, n) == n > 0 => row.status = "ACTIVE" /\ row.quantity >= n
CanReserve(row, n) == n > 0 => row.status = "ACTIVE" /\ row.quantity - row.reserved >= n

CanRelease(row, n) == row.reserved >= n

CanConsume(row, n) == row.quantity >= n /\ row.reserved >= n

Reserve(row, n) == [row EXCEPT !.reserved = row.reserved + n]

Release_Twice(row, n) == [row EXCEPT !.reserved = row.reserved - 2 * n]
Release(row, n) == [row EXCEPT !.reserved = row.reserved - n]

Consume(row, n) ==
    [quantity |-> row.quantity - n,
     reserved |-> row.reserved - n,
     status   |-> IF n > 0 /\ row.quantity - n <= 0 THEN "SOLD" ELSE row.status]

Restore(row, n) ==
    [row EXCEPT !.quantity = row.quantity + n,
                !.status = IF n > 0 /\ row.status = "SOLD" THEN "ACTIVE" ELSE row.status]
=============================================================================

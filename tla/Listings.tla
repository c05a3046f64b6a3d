------------------------------- MODULE Listings -------------------------------
(***************************************************************************)
(* The listings of one seller: publication, edits, pauses and restorations *)
(* by the seller and by moderators, the suspension of the seller, and the  *)
(* sales that move the same rows (apps/api/src/listings, apps/api/src/     *)
(* trust/moderation.service.ts, orders/stock.ts).                          *)
(*                                                                         *)
(* Every call but a sale reads the row, decides, and writes later without  *)
(* a lock: a call in flight keeps what it read.                            *)
(***************************************************************************)
EXTENDS Integers, FiniteSets

CONSTANTS Listing, Sale, Call, Nothing,
          MaxQuantity    \* the largest quantity a seller enters

VARIABLES listing,     \* rows
          sale,        \* order items, of one unit each
          suspended,   \* the seller has an open suspension
          editing,     \* calls in flight
          excused      \* listings that may be on sale despite the suspension

vars == <<listing, sale, suspended, editing, excused>>

Row == INSTANCE Stock WITH
    Order <- Sale, Piece <- Sale, OrderOf <- [s \in Sale |-> s],
    ListingOf <- [s \in Sale |-> CHOOSE l \in Listing : TRUE]

Status == {"NONE", "ACTIVE", "PAUSED", "SOLD", "CANCELLED"}

ListingRow == [status : Status, quantity : 0..(MaxQuantity + Cardinality(Sale)),
               reserved : 0..Cardinality(Sale)]

SaleRow == [status : {"NONE", "RESERVED", "SOLD", "RELEASED", "REFUNDED"},
            listing : Listing \cup {Nothing}]

Operation == {"none", "create", "edit", "pause", "activate", "cancel", "suspend"}

\* checked: the seller was found without a suspension.  status: the status
\* read; targets: the active listings a suspension found.
CallRow == [op : Operation, listing : Listing \cup {Nothing}, status : Status,
            quantity : 0..MaxQuantity, checked : BOOLEAN, targets : SUBSET Listing]

NoCall == [op |-> "none", listing |-> Nothing, status |-> "NONE", quantity |-> 0,
           checked |-> FALSE, targets |-> {}]

Init ==
    /\ listing = [l \in Listing |-> [status |-> "NONE", quantity |-> 0, reserved |-> 0]]
    /\ sale = [s \in Sale |-> [status |-> "NONE", listing |-> Nothing]]
    /\ suspended = FALSE
    /\ editing = [k \in Call |-> NoCall]
    /\ excused = {}

Idle(k) == editing[k].op = "none"

OnSale == {l \in Listing : listing[l].status = "ACTIVE"}

----------------------------------------------------------------------------
(* What the seller and the moderators ask.                                 *)

\* requireOwnedMutable
Mutable_Sold(row) == row.status # "CANCELLED"
Mutable(row) == row.status \notin {"CANCELLED", "SOLD"}

\* The CHECK constraint of the table.
RowCheck_None(row) == TRUE
RowCheck(row) == 0 <= row.reserved /\ row.reserved <= row.quantity

BeginCreate(k, l, n) ==
    /\ Idle(k) /\ listing[l].status = "NONE"
    /\ \A k2 \in Call : editing[k2].op = "create" => editing[k2].listing # l
    /\ ~suspended
    /\ editing' = [editing EXCEPT ![k] = [NoCall EXCEPT !.op = "create", !.listing = l,
                                                        !.quantity = n, !.checked = TRUE]]
    /\ UNCHANGED <<listing, sale, suspended, excused>>

\* update: the new quantity is compared with the reserved pieces it read.
BeginEdit(k, l, n) ==
    /\ Idle(k) /\ listing[l].status # "NONE" /\ Mutable(listing[l])
    /\ n >= listing[l].reserved
    /\ editing' = [editing EXCEPT ![k] = [NoCall EXCEPT !.op = "edit", !.listing = l,
                                            !.status = listing[l].status, !.quantity = n]]
    /\ UNCHANGED <<listing, sale, suspended, excused>>

BeginMove(k, l, op) ==
    /\ Idle(k) /\ listing[l].status # "NONE" /\ Mutable(listing[l])
    /\ op = "pause" => listing[l].status = "ACTIVE"
    /\ op = "activate" => listing[l].status = "PAUSED"
    /\ editing' = [editing EXCEPT ![k] = [NoCall EXCEPT !.op = op, !.listing = l,
                                                        !.status = listing[l].status]]
    /\ UNCHANGED <<listing, sale, suspended, excused>>

\* A moderator pauses a listing, or puts a paused one back on sale.
BeginModeration(k, l, op) ==
    /\ Idle(k)
    /\ \/ op = "pause" /\ listing[l].status = "ACTIVE"
       \/ op = "activate" /\ listing[l].status = "PAUSED"
    /\ editing' = [editing EXCEPT ![k] = [NoCall EXCEPT !.op = op, !.listing = l,
                                                        !.status = listing[l].status]]
    /\ UNCHANGED <<listing, sale, suspended, excused>>

\* assertSellerNotSuspended
CheckSeller_Any(k) ==
    /\ editing[k].op = "activate" /\ ~editing[k].checked
    /\ editing' = [editing EXCEPT ![k].checked = TRUE]
    /\ UNCHANGED <<listing, sale, suspended, excused>>
CheckSeller(k) ==
    /\ editing[k].op = "activate" /\ ~editing[k].checked /\ ~suspended
    /\ editing' = [editing EXCEPT ![k].checked = TRUE]
    /\ UNCHANGED <<listing, sale, suspended, excused>>

Target(op) == CASE op = "pause" -> "PAUSED"
                [] op = "activate" -> "ACTIVE"
                [] op = "cancel" -> "CANCELLED"

WriteCreate(k) ==
    /\ editing[k].op = "create"
    /\ listing' = [listing EXCEPT ![editing[k].listing] =
                     [status |-> "ACTIVE", quantity |-> editing[k].quantity, reserved |-> 0]]
    /\ editing' = [editing EXCEPT ![k] = NoCall]
    /\ UNCHANGED <<sale, suspended, excused>>

WriteEdit(k) ==
    LET l == editing[k].listing
        row == [listing[l] EXCEPT !.quantity = editing[k].quantity]
    IN /\ editing[k].op = "edit" /\ RowCheck(row)
       /\ listing' = [listing EXCEPT ![l] = row]
       /\ editing' = [editing EXCEPT ![k] = NoCall]
       /\ UNCHANGED <<sale, suspended, excused>>

WriteMove(k) ==
    /\ editing[k].op \in {"pause", "activate", "cancel"}
    /\ editing[k].op = "activate" => editing[k].checked
    /\ listing' = [listing EXCEPT ![editing[k].listing].status = Target(editing[k].op)]
    /\ editing' = [editing EXCEPT ![k] = NoCall]
    /\ UNCHANGED <<sale, suspended, excused>>

\* A call that is refused, that the database aborts, or whose process stops.
GiveUp(k) ==
    /\ ~Idle(k)
    /\ editing' = [editing EXCEPT ![k] = NoCall]
    /\ UNCHANGED <<listing, sale, suspended, excused>>

----------------------------------------------------------------------------
(* suspendSeller: one transaction that opens the suspension, reads the     *)
(* active listings and then pauses each of them.  The unique index on open *)
(* suspensions aborts the second of two.                                   *)

BeginSuspend(k) ==
    /\ Idle(k) /\ ~suspended
    /\ editing' = [editing EXCEPT ![k] = [NoCall EXCEPT !.op = "suspend", !.targets = OnSale]]
    /\ UNCHANGED <<listing, sale, suspended, excused>>

PauseAll(L) == [l \in Listing |-> IF l \in L THEN [listing[l] EXCEPT !.status = "PAUSED"]
                                             ELSE listing[l]]

\* The code lets these stay or come back on sale: what was published after the
\* suspension read the listings, and what a call in flight has been checked for.
WriteSuspend(k) ==
    /\ editing[k].op = "suspend" /\ ~suspended
    /\ suspended' = TRUE
    /\ listing' = PauseAll(editing[k].targets)
    /\ excused' = (OnSale \ editing[k].targets)
                  \cup {editing[k2].listing : k2 \in {c \in Call : editing[c].checked}}
    /\ editing' = [editing EXCEPT ![k] = NoCall]
    /\ UNCHANGED sale

\* restoreSeller: the listings stay paused.
Lift ==
    /\ suspended
    /\ suspended' = FALSE
    /\ excused' = {}
    /\ UNCHANGED <<listing, sale, editing>>

----------------------------------------------------------------------------
(* The sales of one unit: checkout, expiry, payment and refund.            *)

Reserve(s, l) ==
    /\ sale[s].status = "NONE" /\ listing[l].status # "NONE"
    /\ Row!CanReserve(listing[l], 1)
    /\ listing' = [listing EXCEPT ![l] = Row!Reserve(listing[l], 1)]
    /\ sale' = [sale EXCEPT ![s] = [status |-> "RESERVED", listing |-> l]]
    /\ UNCHANGED <<suspended, editing, excused>>

Release(s) ==
    LET l == sale[s].listing
    IN /\ sale[s].status = "RESERVED" /\ Row!CanRelease(listing[l], 1)
       /\ listing' = [listing EXCEPT ![l] = Row!Release(listing[l], 1)]
       /\ sale' = [sale EXCEPT ![s].status = "RELEASED"]
       /\ UNCHANGED <<suspended, editing, excused>>

Pay(s) ==
    LET l == sale[s].listing
    IN /\ sale[s].status = "RESERVED" /\ Row!CanConsume(listing[l], 1)
       /\ listing' = [listing EXCEPT ![l] = Row!Consume(listing[l], 1)]
       /\ sale' = [sale EXCEPT ![s].status = "SOLD"]
       /\ UNCHANGED <<suspended, editing, excused>>

\* A refund puts a sold out listing back on sale without a look at its seller.
Restock(s) ==
    LET l == sale[s].listing
    IN /\ sale[s].status = "SOLD"
       /\ listing' = [listing EXCEPT ![l] = Row!Restore(listing[l], 1)]
       /\ sale' = [sale EXCEPT ![s].status = "REFUNDED"]
       /\ excused' = IF suspended /\ listing[l].status = "SOLD" THEN excused \cup {l} ELSE excused
       /\ UNCHANGED <<suspended, editing>>

----------------------------------------------------------------------------
Next ==
    \/ \E k \in Call, l \in Listing, n \in 1..MaxQuantity : BeginCreate(k, l, n) \/ BeginEdit(k, l, n)
    \/ \E k \in Call, l \in Listing, op \in {"pause", "activate", "cancel"} :
          BeginMove(k, l, op) \/ BeginModeration(k, l, op)
    \/ \E k \in Call : \/ CheckSeller(k) \/ WriteCreate(k) \/ WriteEdit(k) \/ WriteMove(k)
                       \/ GiveUp(k) \/ BeginSuspend(k) \/ WriteSuspend(k)
    \/ Lift
    \/ \E s \in Sale, l \in Listing : Reserve(s, l)
    \/ \E s \in Sale : Release(s) \/ Pay(s) \/ Restock(s)

Spec == Init /\ [][Next]_vars

----------------------------------------------------------------------------
(* Every column has its type.                                              *)
TypeOK ==
    /\ listing \in [Listing -> ListingRow]
    /\ sale \in [Sale -> SaleRow]
    /\ suspended \in BOOLEAN
    /\ editing \in [Call -> CallRow]
    /\ excused \subseteq Listing

(* A listing holds exactly the pieces of its live reservations, and has    *)
(* them, whatever its seller enters meanwhile: update compares the new     *)
(* quantity with a reserved count it read before its transaction.          *)
ReservedWithinStock ==
    \A l \in Listing :
        /\ listing[l].reserved =
               Cardinality({s \in Sale : sale[s].status = "RESERVED" /\ sale[s].listing = l})
        /\ listing[l].reserved <= listing[l].quantity

(* The listings of a suspended seller are off sale, but for those that a   *)
(* call found the seller unsuspended for before the suspension committed,  *)
(* those published while it was committing, and those a refund restocked.  *)
SuspendedIsOffline == suspended => OnSale \subseteq excused

(* A listing that is sold out or cancelled leaves that status only when a  *)
(* refund restocks it, when a cancelled one's last reservation is paid, or *)
(* by a call that had read it before.                                      *)
ClosedStep ==
    \A l \in Listing :
       listing[l].status \in {"SOLD", "CANCELLED"} /\ listing'[l].status # listing[l].status
       => \/ \E s \in Sale : /\ sale[s].listing = l /\ sale'[s].status # sale[s].status
                            /\ sale'[s].status \in {"SOLD", "REFUNDED"}
          \/ \E k \in Call : /\ ~Idle(k) /\ editing'[k].op = "none"
                             /\ \/ editing[k].listing = l /\ editing[k].status \in {"ACTIVE", "PAUSED"}
                                \/ l \in editing[k].targets
=============================================================================

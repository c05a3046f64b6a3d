---------------------------------- MODULE Lots ----------------------------------
(***************************************************************************)
(* The lots of a seller's collection, and the orders that take their       *)
(* pieces from them when their buyer confirms (apps/api/src/collections).  *)
(*                                                                         *)
(* A confirmation is a transaction: it locks a lot, reads it, and writes   *)
(* it, one item after the other, and holds its locks until it commits.     *)
(***************************************************************************)
EXTENDS Integers, Sequences, FiniteSets, FiniteSetsExt

CONSTANTS Lot, Order,
          Items,         \* the lots, with quantities, that each order takes from
          MaxLot         \* the largest quantity the owner enters

VARIABLES lot,         \* the quantity of a lot, 0 when it is deleted
          confirming,  \* confirmations
          owed         \* what a lot should hold: entered, less what was sold since

vars == <<lot, confirming, owed>>

\* read: what the running confirmation read of the lots it has locked.
ConfirmationRow == [stage : {"idle", "running", "done"}, next : Nat, locked : SUBSET Lot,
                    read : [Lot -> 0..MaxLot]]

Idle == [stage |-> "idle", next |-> 1, locked |-> {}, read |-> [l \in Lot |-> 0]]

Init ==
    /\ lot \in [Lot -> 1..MaxLot]
    /\ confirming = [o \in Order |-> Idle]
    /\ owed = lot

Unlocked(l) == \A o \in Order : l \notin confirming[o].locked

----------------------------------------------------------------------------
(* The owner patches the quantity of a lot, or deletes it for good.  An    *)
(* update of a row that is locked waits.                                   *)

Enter(l, n) ==
    /\ Unlocked(l) /\ lot[l] \notin {0, n}
    /\ lot' = [lot EXCEPT ![l] = n]
    /\ owed' = [owed EXCEPT ![l] = n]
    /\ UNCHANGED confirming

----------------------------------------------------------------------------
(* applySaleDeduction, called by confirm.  An order that has been deducted *)
(* is found in the audit log, and skipped.                                 *)

Begin(o) ==
    /\ confirming[o].stage = "idle"
    /\ confirming' = [confirming EXCEPT ![o].stage = "running"]
    /\ UNCHANGED <<lot, owed>>

CanLock_Read(o, l) == TRUE
CanLock(o, l) == \A o2 \in Order \ {o} : l \notin confirming[o2].locked

Left(have, sold) == IF have <= sold THEN 0 ELSE have - sold

\* SELECT ... FOR UPDATE, and the read; the write is its own, seen by the
\* others when it commits.  A lot that is gone is locked by nobody.
LockAndDeduct(o) ==
    LET c == confirming[o]
        item == Items[o][c.next]
        l == item.lot
        have == IF l \in c.locked THEN c.read[l] ELSE lot[l]
    IN /\ c.stage = "running" /\ c.next <= Len(Items[o])
       /\ CanLock(o, l)
       /\ confirming' = [confirming EXCEPT
             ![o].next = c.next + 1,
             ![o].locked = IF have = 0 THEN c.locked ELSE c.locked \cup {l},
             ![o].read[l] = Left(have, item.quantity)]
       /\ UNCHANGED <<lot, owed>>

\* What the items of an order take from lot l, all together.
Taken(o, l) == MapThenSumSet(LAMBDA i : Items[o][i].quantity,
                             {i \in DOMAIN Items[o] : Items[o][i].lot = l})

Commit(o) ==
    LET c == confirming[o]
    IN /\ c.stage = "running" /\ c.next > Len(Items[o])
       /\ lot' = [l \in Lot |-> IF l \in c.locked THEN c.read[l] ELSE lot[l]]
       /\ owed' = [l \in Lot |-> IF l \in c.locked THEN Left(owed[l], Taken(o, l)) ELSE owed[l]]
       /\ confirming' = [confirming EXCEPT ![o] = [Idle EXCEPT !.stage = "done"]]

\* The transaction fails, the process stops, or the database ends a deadlock of
\* two confirmations: locks and writes are gone, and the buyer may try again.
Rollback(o) ==
    /\ confirming[o].stage = "running"
    /\ confirming' = [confirming EXCEPT ![o] = Idle]
    /\ UNCHANGED <<lot, owed>>

Next ==
    \/ \E l \in Lot, n \in 0..MaxLot : Enter(l, n)
    \/ \E o \in Order : Begin(o) \/ LockAndDeduct(o) \/ Commit(o) \/ Rollback(o)

Spec == Init /\ [][Next]_vars

----------------------------------------------------------------------------
(* Every column has its type.                                              *)
TypeOK ==
    /\ lot \in [Lot -> 0..MaxLot]
    /\ confirming \in [Order -> ConfirmationRow]

(* A lot holds what its owner last entered less the pieces of the orders   *)
(* confirmed since: two confirmations that take from one lot do not lose   *)
(* one another's deduction.                                                *)
LotMatchesSales == lot = owed
=============================================================================

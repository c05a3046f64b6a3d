-------------------------------- MODULE Ledger --------------------------------
(***************************************************************************)
(* The ledger of sellers' money: an append-only table of entries, each     *)
(* under an idempotency key, and the balance that is derived from it.      *)
(* There is no balance column anywhere: pending, available, reserved and   *)
(* paid are sums over a seller's entries (apps/api/src/ledger).            *)
(***************************************************************************)
EXTENDS Integers, FiniteSetsExt

CONSTANTS Seller, Order, Payout, Adjustment,
          SellerOf,      \* the seller of an order
          Total,         \* what the buyer paid for an order
          Commission,    \* the platform's part of it
          Nothing

ASSUME MoneyAssumption ==
    /\ SellerOf \in [Order -> Seller]
    /\ Total \in [Order -> Nat]
    /\ Commission \in [Order -> Nat]

EntryType == {"PAYMENT_CAPTURED", "SELLER_PAYABLE", "PLATFORM_FEE", "REFUND",
              "PAYOUT_RESERVED", "PAYOUT_PAID", "PAYOUT_REVERSED", "ADJUSTMENT"}

Entry == [type : EntryType, ref : Order \cup Payout \cup Adjustment,
          seller : Seller \cup {Nothing}, amount : Int]

(* The key an entry is idempotent under.  The refund of an order stands for *)
(* the order: OrderPayments shows that a sale has at most one.              *)
KeyOf(e) == <<e.type, e.ref>>

Keys(ledger) == {KeyOf(e) : e \in ledger}

Has(ledger, type, ref) == \E e \in ledger : e.type = type /\ e.ref = ref

Insert(ledger, e) == IF Has(ledger, e.type, e.ref) THEN ledger ELSE ledger \cup {e}

----------------------------------------------------------------------------
(* What each event enters.                                                 *)

Net(o) == Total[o] - Commission[o]

OrderEntry(type, o, amount) ==
    [type |-> type, ref |-> o, seller |-> SellerOf[o], amount |-> amount]

RecordCapture(ledger, o) == Insert(ledger, OrderEntry("PAYMENT_CAPTURED", o, Net(o)))

FeeEntry(o) == [type |-> "PLATFORM_FEE", ref |-> o, seller |-> Nothing, amount |-> Commission[o]]

RecordRelease_NoPayable(ledger, o) ==
    IF Commission[o] # 0 THEN Insert(ledger, FeeEntry(o)) ELSE ledger
RecordRelease(ledger, o) ==
    LET payable == Insert(ledger, OrderEntry("SELLER_PAYABLE", o, Net(o)))
    IN  IF Commission[o] # 0 THEN Insert(payable, FeeEntry(o)) ELSE payable

RecordRefund(ledger, o) == Insert(ledger, OrderEntry("REFUND", o, -Net(o)))

RecordPayout(ledger, type, p, seller, amount) ==
    Insert(ledger, [type |-> type, ref |-> p, seller |-> seller, amount |-> amount])

RecordAdjustment(ledger, a, seller, amount) ==
    Insert(ledger, [type |-> "ADJUSTMENT", ref |-> a, seller |-> seller, amount |-> amount])

----------------------------------------------------------------------------
(* The balance of a seller.                                                *)

AmountOf(e) == e.amount

SumOf(entries) == MapThenSumSet(AmountOf, entries)

OfTypes(ledger, seller, types) == {e \in ledger : e.seller = seller /\ e.type \in types}

OfType(ledger, seller, type) == OfTypes(ledger, seller, {type})

PayableOrders(ledger, seller) == {e.ref : e \in OfType(ledger, seller, "SELLER_PAYABLE")}

(* Refunds count against what is available once their order was payable,  *)
(* and against what is pending before.                                     *)
RefundsAfter(ledger, seller) ==
    LET payable == PayableOrders(ledger, seller)
    IN  {e \in OfType(ledger, seller, "REFUND") : e.ref \in payable}

DeriveSellerBalance_OneBucket(ledger, seller) ==
    LET total(types) == SumOf(OfTypes(ledger, seller, types))
    IN  [pending   |-> total({"PAYMENT_CAPTURED"}) - total({"SELLER_PAYABLE"}),
         available |-> total({"SELLER_PAYABLE", "REFUND", "ADJUSTMENT", "PAYOUT_RESERVED", "PAYOUT_REVERSED"}),
         reserved  |-> -total({"PAYOUT_RESERVED", "PAYOUT_PAID", "PAYOUT_REVERSED"}),
         paid      |-> total({"PAYOUT_PAID"})]

DeriveSellerBalance(ledger, seller) ==
    LET total(types) == SumOf(OfTypes(ledger, seller, types))
        refundsAfter == SumOf(RefundsAfter(ledger, seller))
        refundsBefore == total({"REFUND"}) - refundsAfter
    IN  [pending   |-> total({"PAYMENT_CAPTURED"}) - total({"SELLER_PAYABLE"}) + refundsBefore,
         available |-> total({"SELLER_PAYABLE", "ADJUSTMENT", "PAYOUT_RESERVED", "PAYOUT_REVERSED"})
                           + refundsAfter,
         reserved  |-> -total({"PAYOUT_RESERVED", "PAYOUT_PAID", "PAYOUT_REVERSED"}),
         paid      |-> total({"PAYOUT_PAID"})]

(* disputed are the orders of an active dispute, frozen the orders of a    *)
(* payout that is processing or paid.                                      *)
DisputedMoney(ledger, seller, disputed, frozen) ==
    SumOf({e \in OfType(ledger, seller, "SELLER_PAYABLE") :
            e.ref \in disputed \ frozen /\ ~Has(ledger, "REFUND", e.ref)})

SellerBalance(ledger, seller, disputed, frozen) ==
    LET base == DeriveSellerBalance(ledger, seller)
    IN  [base EXCEPT !.available = base.available - DisputedMoney(ledger, seller, disputed, frozen)]
=============================================================================

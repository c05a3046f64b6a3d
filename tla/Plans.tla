---------------------------------- MODULE Plans ----------------------------------
(***************************************************************************)
(* Seller plans and the marketplace fee of an order: apps/api/src/         *)
(* seller-plans/, packages/config/src/seller-plans.ts, and the part of     *)
(* orders.service.ts createCheckout that prices an order.  One seller; the *)
(* clock counts moments.                                                   *)
(*                                                                         *)
(* Both an assignment and a checkout lock the seller's row, and read the   *)
(* time only then.                                                         *)
(***************************************************************************)
EXTENDS Integers, FiniteSets

CONSTANTS Assign, Checkout, MaxTime, Subtotal

VARIABLES
  clock,
  sub,       \* [Assign -> [status, plan, starts, ends]] the subscription of each assignment
  admin,     \* [Assign -> where the assignment is]
  buyer,     \* [Checkout -> [at, pricedAt, plan, fee, subtotal]]
  holder,    \* who holds the seller's row, or NoOne
  offered    \* [0..MaxTime -> the plans the committed rows gave at that moment]
planVars == <<clock, sub, admin, buyer, holder, offered>>

NoOne == "none"
Never == MaxTime + 1
Moments == 0..MaxTime
Plan == {"FREE", "SELLER_PLUS", "SELLER_PRO", "STORE"}

PlanTypeOK ==
    /\ clock \in Moments
    /\ sub \in [Assign -> [status : {"NONE", "ACTIVE", "CANCELLED"}, plan : Plan,
                           starts : Moments, ends : 0..Never]]
    /\ admin \in [Assign -> [at : {"idle", "read", "locked", "done"}, plan : Plan, starts : Moments,
                             ends : 0..Never]]
    /\ buyer \in [Checkout -> [at : {"idle", "locked", "priced", "quoted", "done"},
                               pricedAt : Moments, subtotal : Subtotal, plan : Plan, fee : Nat]]
    /\ holder \in Assign \cup Checkout \cup {NoOne}
    /\ offered \in [Moments -> SUBSET Plan]

----------------------------------------------------------------------------
(* The newest ACTIVE subscription that covers the moment.                  *)
Covers(s, t) == s.status = "ACTIVE" /\ s.starts <= t /\ t < s.ends

EffectivePlan(subs, t) ==
    LET now == {a \in Assign : Covers(subs[a], t)}
    IN  IF now = {} THEN "FREE"
        ELSE subs[CHOOSE a \in now : \A b \in now : subs[b].starts <= subs[a].starts].plan

FeeBps(plan) == CASE plan = "FREE" -> 600 [] plan = "SELLER_PLUS" -> 450
                  [] plan = "SELLER_PRO" -> 350 [] plan = "STORE" -> 300
FeeCap(plan) == CASE plan = "FREE" -> 25000 [] plan = "SELLER_PLUS" -> 20000
                  [] plan = "SELLER_PRO" -> 17500 [] plan = "STORE" -> 15000
PromoBps == 300
PromoCap == 15000

\* The launch promotion: here, from the moment 1 until the moment 2.
IsLaunchPromoActive(t) == 1 <= t /\ t < 2

FeeBeforeCap(subtotal, bps) == (subtotal * bps) \div 10000

Least(a, b) == IF a <= b THEN a ELSE b

QuoteMarketplaceFee(plan, subtotal, t) ==
    IF IsLaunchPromoActive(t) THEN Least(FeeBeforeCap(subtotal, PromoBps), PromoCap)
    ELSE Least(FeeBeforeCap(subtotal, FeeBps(plan)), FeeCap(plan))

----------------------------------------------------------------------------
Init ==
    /\ clock = 0
    /\ sub = [a \in Assign |-> [status |-> "NONE", plan |-> "FREE", starts |-> 0, ends |-> 0]]
    /\ admin = [a \in Assign |-> [at |-> "idle", plan |-> "FREE", starts |-> 0, ends |-> 0]]
    /\ buyer \in [Checkout -> [at : {"idle"}, pricedAt : {0}, subtotal : Subtotal,
                               plan : {"FREE"}, fee : {0}]]
    /\ holder = NoOne
    /\ offered = [t \in Moments |-> IF t = 0 THEN {"FREE"} ELSE {}]

Tick ==
    /\ clock < MaxTime
    /\ clock' = clock + 1
    /\ offered' = [offered EXCEPT ![clock + 1] = {EffectivePlan(sub, clock + 1)}]
    /\ UNCHANGED <<sub, admin, buyer, holder>>

(* Before the transaction: the seller exists, the period is not empty.     *)
BeginAssign(a, plan, starts, ends) ==
    /\ admin[a].at = "idle" /\ starts < ends
    /\ admin' = [admin EXCEPT ![a] = [at |-> "read", plan |-> plan, starts |-> starts, ends |-> ends]]
    /\ UNCHANGED <<clock, sub, buyer, holder, offered>>

LockSellers_Free(x) == holder' = holder

LockSellers(x) == holder = NoOne /\ holder' = x

LockForAssign(a) ==
    /\ admin[a].at = "read" /\ LockSellers(a)
    /\ admin' = [admin EXCEPT ![a].at = "locked"]
    /\ UNCHANGED <<clock, sub, buyer, offered>>

(* Every ACTIVE subscription is cancelled, ended or not.                   *)
AssignPlan(a) ==
    /\ admin[a].at = "locked"
    /\ LET new == admin[a] IN
         sub' = [b \in Assign |->
                   IF b = a /\ new.plan # "FREE"
                   THEN [status |-> "ACTIVE", plan |-> new.plan, starts |-> new.starts, ends |-> new.ends]
                   ELSE IF sub[b].status = "ACTIVE"
                        THEN [status |-> "CANCELLED", plan |-> sub[b].plan,
                              starts |-> sub[b].starts, ends |-> clock]
                        ELSE sub[b]]
    /\ offered' = [offered EXCEPT ![clock] = @ \cup {EffectivePlan(sub', clock)}]
    /\ admin' = [admin EXCEPT ![a].at = "done"]
    /\ holder' = NoOne
    /\ UNCHANGED <<clock, buyer>>

LockForCheckout(c) ==
    /\ buyer[c].at = "idle" /\ LockSellers(c)
    /\ buyer' = [buyer EXCEPT ![c].at = "locked"]
    /\ UNCHANGED <<clock, sub, admin, offered>>

PriceAt(c) ==
    /\ buyer[c].at = "locked"
    /\ buyer' = [buyer EXCEPT ![c] = [at |-> "priced", pricedAt |-> clock, subtotal |-> @.subtotal,
                                      plan |-> @.plan, fee |-> @.fee]]
    /\ UNCHANGED <<clock, sub, admin, holder, offered>>

CalculateFee(c) ==
    /\ buyer[c].at = "priced"
    /\ LET plan == EffectivePlan(sub, buyer[c].pricedAt) IN
         buyer' = [buyer EXCEPT ![c] =
                     [at |-> "quoted", pricedAt |-> @.pricedAt, subtotal |-> @.subtotal, plan |-> plan,
                      fee |-> QuoteMarketplaceFee(plan, @.subtotal, @.pricedAt)]]
    /\ UNCHANGED <<clock, sub, admin, holder, offered>>

CommitCheckout(c) ==
    /\ buyer[c].at = "quoted"
    /\ buyer' = [buyer EXCEPT ![c].at = "done"]
    /\ holder' = NoOne
    /\ UNCHANGED <<clock, sub, admin, offered>>

(* Stock is short, or something else fails: the transaction rolls back.    *)
RollBackCheckout(c) ==
    /\ buyer[c].at \in {"locked", "priced", "quoted"}
    /\ buyer' = [buyer EXCEPT ![c] = [at |-> "idle", pricedAt |-> 0, subtotal |-> @.subtotal,
                                      plan |-> "FREE", fee |-> 0]]
    /\ holder' = NoOne
    /\ UNCHANGED <<clock, sub, admin, offered>>

Next ==
    \/ Tick
    \/ \E a \in Assign :
         \/ LockForAssign(a) \/ AssignPlan(a)
         \/ \E plan \in {"FREE", "SELLER_PRO"}, ends \in {clock + 1, Never} :
              BeginAssign(a, plan, clock, ends)
         \/ clock + 1 \in Moments /\ BeginAssign(a, "STORE", clock + 1, Never)
    \/ \E c \in Checkout : LockForCheckout(c) \/ PriceAt(c) \/ CalculateFee(c) \/ CommitCheckout(c)
                           \/ RollBackCheckout(c)

Spec == Init /\ [][Next]_planVars

----------------------------------------------------------------------------
(* An order is charged by a plan that its seller had at the moment it was  *)
(* priced at, never by one that an assignment took away before it was      *)
(* read; and at no more than that plan's fee, its cap and the subtotal,    *)
(* whatever the promotion (orders.service.ts:113-121, :185).               *)
FeeOfPlan ==
    \A c \in Checkout : buyer[c].at = "done" =>
      /\ buyer[c].plan \in offered[buyer[c].pricedAt]
      /\ buyer[c].fee * 10000 <= buyer[c].subtotal * FeeBps(buyer[c].plan)
      /\ buyer[c].fee <= FeeCap(buyer[c].plan)
=============================================================================

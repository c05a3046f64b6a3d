----------------------------- MODULE AccountProofs -----------------------------
(***************************************************************************)
(* What holds of the accounts in Market for any number of calls, sessions, *)
(* assignments and orders, and of the pages of a search, of a row and of   *)
(* checkout whatever a person does on them.                                *)
(*                                                                         *)
(* Each part is about one component: an invariant that its first states    *)
(* satisfy and its steps keep.  A behaviour of Market with that component  *)
(* in focus is one of the component.                                       *)
(***************************************************************************)
EXTENDS Market, Totals, TLAPS

----------------------------------------------------------------------------
(* Plans: whoever changes the plan, or is between the moment and the plan  *)
(* of an order, holds the seller's row, so that the rows do not change     *)
(* between the two reads.  Past moments offer what they offered.  And an   *)
(* assignment cancels every other, so that one subscription is ACTIVE at   *)
(* most and the plan in effect is well defined.                            *)

OneActive ==
    \A a, b \in Assignment : sub[a].status = "ACTIVE" /\ sub[b].status = "ACTIVE" => a = b

PlanLockOK ==
    /\ \A a \in Assignment : admin[a].at = "locked" => holder = a
    /\ \A c \in Purchase : buyer[c].at \in {"locked", "priced", "quoted"} => holder = c

\* What an order is charged is within the fee of a plan of its moment.
Charged(c) ==
    /\ buyer[c].plan \in offered[buyer[c].pricedAt]
    /\ buyer[c].fee * 10000 <= buyer[c].subtotal * P!FeeBps(buyer[c].plan)
    /\ buyer[c].fee <= P!FeeCap(buyer[c].plan)

OrdersOK ==
    \A c \in Purchase :
      /\ buyer[c].pricedAt <= clock
      /\ buyer[c].at = "priced" => P!EffectivePlan(sub, buyer[c].pricedAt) \in offered[buyer[c].pricedAt]
      /\ buyer[c].at \in {"quoted", "done"} => Charged(c)

PlansInv ==
    /\ P!PlanTypeOK /\ OneActive /\ PlanLockOK /\ OrdersOK
    /\ P!EffectivePlan(sub, clock) \in offered[clock]

----------------------------------------------------------------------------
(* With one ACTIVE subscription at most, the plan in effect is a plan.     *)
LEMMA EffectiveIsPlan ==
  ASSUME NEW subs \in [Assignment -> [status : {"NONE", "ACTIVE", "CANCELLED"}, plan : P!Plan,
                                  starts : P!Moments, ends : 0..P!Never]],
         \A a, b \in Assignment : subs[a].status = "ACTIVE" /\ subs[b].status = "ACTIVE" => a = b,
         MaxTime \in Nat, NEW t \in P!Moments
  PROVE  P!EffectivePlan(subs, t) \in P!Plan
<1> DEFINE now == {a \in Assignment : P!Covers(subs[a], t)}
<1>1. CASE now = {}
  BY <1>1 DEF P!EffectivePlan, P!Plan
<1>2. CASE now # {}
  <2>1. PICK a \in now : TRUE
    BY <1>2
  <2>2. \A b \in now : subs[b].starts <= subs[a].starts
    BY <2>1 DEF P!Covers, P!Moments
  <2>3. (CHOOSE x \in now : \A b \in now : subs[b].starts <= subs[x].starts) \in now
    BY <2>1, <2>2
  <2> QED BY <1>2, <2>3 DEF P!EffectivePlan
<1> QED BY <1>1, <1>2

(* Rounding down takes no more than the rate.                              *)
LEMMA RoundsDown ==
  ASSUME NEW subtotal \in Nat, NEW bps \in Nat
  PROVE  /\ P!FeeBeforeCap(subtotal, bps) \in Nat
         /\ P!FeeBeforeCap(subtotal, bps) * 10000 <= subtotal * bps
<1> DEFINE x == subtotal * bps
<1>1. x \in Nat
  OBVIOUS
<1> HIDE DEF x
<1>2. x \div 10000 \in Nat /\ (x \div 10000) * 10000 <= x
  BY <1>1
<1> QED BY <1>2 DEF P!FeeBeforeCap, x

(* The quote, promoted or not, is within the plan's rate and cap.          *)
LEMMA QuoteWithinPlan ==
  ASSUME NEW plan \in P!Plan, NEW subtotal \in Nat, NEW t \in Nat
  PROVE  /\ P!QuoteMarketplaceFee(plan, subtotal, t) \in Nat
         /\ P!QuoteMarketplaceFee(plan, subtotal, t) * 10000 <= subtotal * P!FeeBps(plan)
         /\ P!QuoteMarketplaceFee(plan, subtotal, t) <= P!FeeCap(plan)
<1>1. P!FeeBps(plan) \in Nat /\ P!FeeCap(plan) \in Nat /\ P!PromoBps <= P!FeeBps(plan) /\ P!PromoCap <= P!FeeCap(plan)
  BY DEF P!FeeBps, P!FeeCap, P!PromoBps, P!PromoCap, P!Plan
<1>2. subtotal * P!PromoBps \in Nat /\ subtotal * P!PromoBps <= subtotal * P!FeeBps(plan)
  <2>1. CASE plan = "FREE"
    BY <2>1 DEF P!FeeBps, P!PromoBps
  <2>2. CASE plan = "SELLER_PLUS"
    BY <2>2 DEF P!FeeBps, P!PromoBps
  <2>3. CASE plan = "SELLER_PRO"
    BY <2>3 DEF P!FeeBps, P!PromoBps
  <2>4. CASE plan = "STORE"
    BY <2>4 DEF P!FeeBps, P!PromoBps
  <2> QED BY <2>1, <2>2, <2>3, <2>4 DEF P!Plan
<1>3. /\ P!FeeBeforeCap(subtotal, P!PromoBps) \in Nat
      /\ P!FeeBeforeCap(subtotal, P!PromoBps) * 10000 <= subtotal * P!PromoBps
  BY RoundsDown DEF P!PromoBps
<1> DEFINE rate == P!FeeBps(plan)
           most == subtotal * rate
           promoted == P!FeeBeforeCap(subtotal, P!PromoBps)
           usual == P!FeeBeforeCap(subtotal, rate)
<1>4. usual \in Nat /\ usual * 10000 <= most
  <2>1. rate \in Nat
    BY <1>1
  <2> HIDE DEF rate
  <2> QED BY <2>1, RoundsDown
<1>5. most \in Nat /\ promoted \in Nat /\ usual \in Nat /\ promoted * 10000 <= most /\ usual * 10000 <= most
  BY <1>1, <1>2, <1>3, <1>4
<1>6. P!QuoteMarketplaceFee(plan, subtotal, t) \in {P!Least(promoted, P!PromoCap), P!Least(usual, P!FeeCap(plan))}
  BY DEF P!QuoteMarketplaceFee
<1> HIDE DEF rate, most, promoted, usual
<1>7. \A f \in {P!Least(promoted, P!PromoCap), P!Least(usual, P!FeeCap(plan))} :
        f \in Nat /\ f * 10000 <= most /\ f <= P!FeeCap(plan)
  BY <1>1, <1>5 DEF P!Least, P!PromoCap
<1> QED BY <1>6, <1>7 DEF most, rate

----------------------------------------------------------------------------
(* Nothing is assigned yet: FREE is in effect, and was offered.            *)
LEMMA PlansStart == P!Init => PlansInv
<1> SUFFICES ASSUME P!Init PROVE PlansInv
  OBVIOUS
<1>1. P!PlanTypeOK
  BY PlansAssumption DEF P!Init, P!PlanTypeOK, P!Moments, P!Never, P!Plan
<1>2. OneActive /\ PlanLockOK /\ OrdersOK
  BY PlansAssumption DEF P!Init, OneActive, PlanLockOK, OrdersOK
<1>3. P!EffectivePlan(sub, clock) = "FREE"
  BY DEF P!Init, P!EffectivePlan, P!Covers
<1>4. offered[clock] = {"FREE"}
  BY PlansAssumption DEF P!Init, P!Moments
<1> QED BY <1>1, <1>2, <1>3, <1>4 DEF PlansInv

(* Time passes: the new moment offers what is in effect, the others keep.  *)
LEMMA TickStep == ASSUME PlansInv, P!Tick PROVE PlansInv'
<1>1. clock \in P!Moments /\ clock' = clock + 1 /\ clock' \in P!Moments /\ sub' = sub
  BY PlansAssumption DEF PlansInv, P!Tick, P!PlanTypeOK, P!Moments
<1>2. P!EffectivePlan(sub, clock') \in P!Plan
  BY <1>1, EffectiveIsPlan, PlansAssumption DEF PlansInv, P!PlanTypeOK, OneActive
<1>3. offered' = [offered EXCEPT ![clock'] = {P!EffectivePlan(sub, clock')}]
  BY <1>1 DEF P!Tick
<1>4. P!PlanTypeOK'
  BY <1>1, <1>2, <1>3 DEF PlansInv, P!Tick, P!PlanTypeOK
<1>5. OneActive' /\ PlanLockOK'
  BY DEF PlansInv, P!Tick, OneActive, PlanLockOK
<1>6. \A t \in P!Moments : t <= clock => offered'[t] = offered[t]
  BY <1>1, <1>3 DEF PlansInv, P!PlanTypeOK, P!Moments
<1>7. OrdersOK'
  BY <1>1, <1>6 DEF PlansInv, P!Tick, P!PlanTypeOK, OrdersOK, Charged, P!Moments
<1>8. P!EffectivePlan(sub, clock)' \in offered'[clock']
  BY <1>1, <1>3 DEF PlansInv, P!PlanTypeOK
<1> QED BY <1>4, <1>5, <1>7, <1>8 DEF PlansInv

(* An assignment starts, or locks the seller.                              *)
LEMMA AssignmentWaits ==
  ASSUME PlansInv, NEW a \in Assignment,
         P!LockForAssign(a) \/ \E plan \in P!Plan, starts \in P!Moments, ends \in 0..P!Never :
                               P!BeginAssign(a, plan, starts, ends)
  PROVE  PlansInv'
<1> DEFINE Rows == [at : {"idle", "read", "locked", "done"}, plan : P!Plan,
                    starts : P!Moments, ends : 0..P!Never]
           Waits ==
             /\ UNCHANGED <<clock, sub, buyer, offered>>
             /\ admin' \in [Assignment -> Rows]
             /\ holder' = holder \/ (holder = P!NoOne /\ holder' = a)
             /\ \A b \in Assignment : admin'[b].at = "locked" => holder' = b
<1>1. Waits
  <2>1. admin \in [Assignment -> Rows] /\ \A b \in Assignment : admin[b].at = "locked" => holder = b
    BY DEF PlansInv, P!PlanTypeOK, PlanLockOK
  <2>2. CASE P!LockForAssign(a)
    <3>1. /\ admin' = [admin EXCEPT ![a].at = "locked"] /\ holder = P!NoOne /\ holder' = a
          /\ UNCHANGED <<clock, sub, buyer, offered>>
      BY <2>2 DEF P!LockForAssign, P!LockSellers
    <3>2. \A b \in Assignment : b # a => admin'[b].at # "locked"
      BY <2>1, <3>1, PlansAssumption
    <3> QED BY <2>1, <3>1, <3>2
  <2>3. ASSUME NEW plan \in P!Plan, NEW starts \in P!Moments, NEW ends \in 0..P!Never,
               P!BeginAssign(a, plan, starts, ends)
        PROVE  Waits
    <3>1. /\ admin' = [admin EXCEPT ![a] = [at |-> "read", plan |-> plan, starts |-> starts,
                                            ends |-> ends]]
          /\ UNCHANGED <<clock, sub, buyer, holder, offered>>
      BY <2>3 DEF P!BeginAssign
    <3> QED BY <2>1, <3>1
  <2> QED BY <2>2, <2>3
<1>2. P!PlanTypeOK'
  BY <1>1 DEF PlansInv, P!PlanTypeOK
<1>3. PlanLockOK'
  BY <1>1, PlansAssumption DEF PlansInv, PlanLockOK
<1> QED BY <1>1, <1>2, <1>3 DEF PlansInv, OneActive, OrdersOK, Charged

(* An assignment commits: no order is between its moment and its plan.     *)
LEMMA AssignStep == ASSUME PlansInv, NEW a \in Assignment, P!AssignPlan(a) PROVE PlansInv'
<1>1. holder = a /\ clock \in P!Moments /\ clock' = clock /\ buyer' = buyer /\ holder' = P!NoOne
  BY DEF P!AssignPlan, PlansInv, PlanLockOK, P!PlanTypeOK
<1> DEFINE Rows == [status : {"NONE", "ACTIVE", "CANCELLED"}, plan : P!Plan,
                    starts : P!Moments, ends : 0..P!Never]
           new == admin[a]
<1>2. sub' \in [Assignment -> Rows] /\ \A b \in Assignment : sub'[b].status = "ACTIVE" => b = a
  <2>1. sub \in [Assignment -> Rows] /\ clock \in 0..P!Never
    BY <1>1, PlansAssumption DEF PlansInv, P!PlanTypeOK, P!Moments, P!Never
  <2>2. /\ new \in [at : {"idle", "read", "locked", "done"}, plan : P!Plan, starts : P!Moments,
                     ends : 0..P!Never]
    BY DEF PlansInv, P!PlanTypeOK
  <2>3. [status |-> "ACTIVE", plan |-> new.plan, starts |-> new.starts, ends |-> new.ends] \in Rows
    BY <2>2
  <2>4. \A b \in Assignment : /\ sub[b] \in Rows
                          /\ [status |-> "CANCELLED", plan |-> sub[b].plan,
                              starts |-> sub[b].starts, ends |-> clock] \in Rows
    BY <2>1
  <2> HIDE DEF Rows, new
  <2>5. sub' = [b \in Assignment |->
                  IF b = a /\ new.plan # "FREE"
                  THEN [status |-> "ACTIVE", plan |-> new.plan, starts |-> new.starts, ends |-> new.ends]
                  ELSE IF sub[b].status = "ACTIVE"
                       THEN [status |-> "CANCELLED", plan |-> sub[b].plan,
                             starts |-> sub[b].starts, ends |-> clock]
                       ELSE sub[b]]
    BY DEF P!AssignPlan, new
  <2>6. sub' \in [Assignment -> Rows]
    BY <2>3, <2>4, <2>5
  <2>7. \A b \in Assignment : sub'[b].status = "ACTIVE" => b = a
    BY <2>5
  <2> QED BY <2>6, <2>7
<1>3. P!EffectivePlan(sub', clock) \in P!Plan
  BY <1>1, <1>2, EffectiveIsPlan, PlansAssumption
<1>4. offered' = [offered EXCEPT ![clock] = @ \cup {P!EffectivePlan(sub', clock)}]
  BY DEF P!AssignPlan
<1>5. P!PlanTypeOK'
  <2>1. offered' \in [P!Moments -> SUBSET P!Plan]
    BY <1>1, <1>3, <1>4 DEF PlansInv, P!PlanTypeOK
  <2>2. admin' \in [Assignment -> [at : {"idle", "read", "locked", "done"}, plan : P!Plan,
                               starts : P!Moments, ends : 0..P!Never]]
    BY DEF P!AssignPlan, PlansInv, P!PlanTypeOK
  <2> QED BY <1>1, <1>2, <2>1, <2>2 DEF PlansInv, P!PlanTypeOK
<1>6. \A c \in Purchase : buyer[c].at \notin {"locked", "priced", "quoted"}
  BY <1>1, PlansAssumption DEF PlansInv, PlanLockOK
<1>7. PlanLockOK'
  BY <1>1, <1>6, PlansAssumption DEF P!AssignPlan, PlansInv, PlanLockOK, P!PlanTypeOK
<1>8. \A t \in P!Moments : offered[t] \subseteq offered'[t]
  BY <1>1, <1>4 DEF PlansInv, P!PlanTypeOK
<1>9. OrdersOK'
  BY <1>1, <1>6, <1>8 DEF PlansInv, P!PlanTypeOK, OrdersOK, Charged
<1>10. P!EffectivePlan(sub, clock)' \in offered'[clock']
  BY <1>1, <1>4 DEF PlansInv, P!PlanTypeOK
<1> QED BY <1>2, <1>5, <1>7, <1>9, <1>10 DEF PlansInv, OneActive

(* A checkout: each step is about its own row, and only with the lock does *)
(* it read the time and the plan.                                          *)
LEMMA CheckoutStep ==
  ASSUME PlansInv, NEW c \in Purchase,
         \/ P!LockForCheckout(c) \/ P!PriceAt(c) \/ P!CalculateFee(c) \/ P!CommitCheckout(c)
         \/ P!RollBackCheckout(c)
  PROVE  PlansInv'
<1> USE PlansAssumption
<1>1. /\ UNCHANGED <<clock, sub, admin, offered>>
      /\ \A d \in Purchase \ {c} : buyer'[d] = buyer[d]
      /\ clock \in P!Moments
  BY DEF P!LockForCheckout, P!PriceAt, P!CalculateFee, P!CommitCheckout, P!RollBackCheckout, PlansInv, P!PlanTypeOK
<1>2. buyer[c].subtotal \in Nat /\ buyer[c].pricedAt \in P!Moments
  BY DEF PlansInv, P!PlanTypeOK
<1>3. CASE P!LockForCheckout(c)
  BY <1>1, <1>3 DEF P!LockForCheckout, P!LockSellers, PlansInv, P!PlanTypeOK, OneActive, PlanLockOK, OrdersOK, Charged
<1>4. CASE P!PriceAt(c)
  BY <1>1, <1>4 DEF P!PriceAt, PlansInv, P!PlanTypeOK, OneActive, PlanLockOK, OrdersOK, Charged, P!Moments
<1>5. CASE P!CalculateFee(c)
  <2> DEFINE plan == P!EffectivePlan(sub, buyer[c].pricedAt)
             fee == P!QuoteMarketplaceFee(plan, buyer[c].subtotal, buyer[c].pricedAt)
  <2>1. /\ buyer[c].at = "priced" /\ holder' = holder
        /\ buyer' = [buyer EXCEPT ![c] =
                       [at |-> "quoted", pricedAt |-> buyer[c].pricedAt,
                        subtotal |-> buyer[c].subtotal, plan |-> plan, fee |-> fee]]
    BY <1>5 DEF P!CalculateFee
  <2>2. plan \in P!Plan
    BY <1>2, EffectiveIsPlan DEF PlansInv, P!PlanTypeOK, OneActive
  <2>3. fee \in Nat /\ fee * 10000 <= buyer[c].subtotal * P!FeeBps(plan) /\ fee <= P!FeeCap(plan)
    <3> DEFINE subtotal == buyer[c].subtotal
               t == buyer[c].pricedAt
    <3>1. subtotal \in Nat /\ t \in Nat
      BY <1>2 DEF P!Moments
    <3> HIDE DEF subtotal, t, plan
    <3>2. /\ P!QuoteMarketplaceFee(plan, subtotal, t) \in Nat
          /\ P!QuoteMarketplaceFee(plan, subtotal, t) * 10000 <= subtotal * P!FeeBps(plan)
          /\ P!QuoteMarketplaceFee(plan, subtotal, t) <= P!FeeCap(plan)
      BY <3>1, <2>2, QuoteWithinPlan
    <3> QED BY <3>2 DEF subtotal, t
  <2>4. plan \in offered[buyer[c].pricedAt]
    BY <2>1 DEF PlansInv, OrdersOK
  <2> HIDE DEF plan, fee
  <2>5. P!PlanTypeOK'
    BY <1>1, <2>1, <2>2, <2>3 DEF PlansInv, P!PlanTypeOK
  <2>6. PlanLockOK'
    BY <1>1, <2>1 DEF PlansInv, PlanLockOK, P!PlanTypeOK
  <2>7. /\ buyer'[c].plan = plan /\ buyer'[c].fee = fee /\ buyer'[c].subtotal = buyer[c].subtotal
        /\ buyer'[c].pricedAt = buyer[c].pricedAt /\ buyer'[c].at = "quoted"
    BY <2>1 DEF PlansInv, P!PlanTypeOK
  <2>8. OrdersOK'
    BY <1>1, <2>3, <2>4, <2>7 DEF PlansInv, OrdersOK, Charged
  <2> QED BY <1>1, <2>5, <2>6, <2>8 DEF PlansInv, OneActive
<1>6. CASE P!CommitCheckout(c)
  BY <1>1, <1>6 DEF P!CommitCheckout, PlansInv, P!PlanTypeOK, OneActive, PlanLockOK, OrdersOK, Charged
<1>7. CASE P!RollBackCheckout(c)
  BY <1>1, <1>7 DEF P!RollBackCheckout, PlansInv, P!PlanTypeOK, OneActive, PlanLockOK, OrdersOK, Charged, P!Moments, P!Plan
<1> QED BY <1>3, <1>4, <1>5, <1>6, <1>7

(* A BeginAssign has a period that is one of the model's.                  *)
LEMMA PlansStep == ASSUME PlansInv, P!Next PROVE PlansInv'
<1>1. ASSUME NEW a \in Assignment, P!LockForAssign(a) \/ P!AssignPlan(a) PROVE PlansInv'
  BY <1>1, AssignmentWaits, AssignStep
<1>2. ASSUME NEW a \in Assignment, NEW plan \in {"FREE", "SELLER_PRO"}, NEW ends \in {clock + 1, P!Never},
             P!BeginAssign(a, plan, clock, ends)
      PROVE  PlansInv'
  <2>1. plan \in P!Plan /\ clock \in P!Moments /\ ends \in 0..P!Never
    BY PlansAssumption DEF P!Plan, PlansInv, P!PlanTypeOK, P!Moments, P!Never
  <2> QED BY <1>2, <2>1, AssignmentWaits
<1>3. ASSUME NEW a \in Assignment, clock + 1 \in P!Moments, P!BeginAssign(a, "STORE", clock + 1, P!Never)
      PROVE  PlansInv'
  <2>1. "STORE" \in P!Plan /\ P!Never \in 0..P!Never
    BY PlansAssumption DEF P!Plan, P!Never
  <2> QED BY <1>3, <2>1, AssignmentWaits
<1> QED BY <1>1, <1>2, <1>3, TickStep, CheckoutStep DEF P!Next

----------------------------------------------------------------------------
(* Sessions: nothing that is live, or that a refresh in flight is about to *)
(* replace, is of a login that ended; and a login that nobody forked is    *)
(* held by one live session or by one refresh, which has read that session.*)

Refreshes == {k \in Call : call[k].op = "refresh"}
LoginOf(s) == session[s].login

SessionsOK ==
    /\ over \subseteq S!Known
    /\ \A s \in S!Known : LoginOf(s) \in S!Known
    /\ \A k \in Refreshes : call[k].what \in S!Known /\ LoginOf(call[k].what) \notin over
    /\ \A s \in S!Live : LoginOf(s) \notin over
    /\ \A s, t \in S!Live : LoginOf(s) = LoginOf(t) => s = t \/ LoginOf(s) \in forked
    /\ \A s \in S!Live : \A k \in Refreshes :
         LoginOf(s) = LoginOf(call[k].what) =>
           LoginOf(s) \in forked \/ (s = call[k].what /\ call[k].at # "used")
    /\ \A j, k \in Refreshes :
         LoginOf(call[j].what) = LoginOf(call[k].what) => j = k \/ LoginOf(call[j].what) \in forked

SessionsInv == S!SessionTypeOK /\ SessionsOK

LEMMA SessionsStart == ASSUME S!Init PROVE SessionsInv
<1>1. S!SessionTypeOK
  BY SessionsAssumption DEF S!Init, S!SessionTypeOK, S!NewSession, S!NoCall, S!Ops
<1>2. S!Known = {} /\ S!Live = {} /\ Refreshes = {}
  BY DEF S!Init, S!Known, S!Live, S!NewSession, S!NoCall, Refreshes
<1> QED BY <1>1, <1>2 DEF S!Init, SessionsInv, SessionsOK

(* What is live is known.                                                  *)
LEMMA LiveIsKnown == S!Live \subseteq S!Known
  BY DEF S!Live, S!Known

(* The sessions stay, and no refresh begins or goes on to issue.           *)
LEMMA QuietStep ==
  ASSUME SessionsOK, session' = session, over' = over, forked' = forked,
         \A k \in Call : call'[k].op = "refresh" =>
           /\ call[k].op = "refresh" /\ call'[k].what = call[k].what
           /\ call'[k].at = "used" => call[k].at = "used"
  PROVE  SessionsOK'
  BY DEF SessionsOK, Refreshes, LoginOf, S!Known, S!Live

(* Sessions end, and their logins with them.                               *)
LEMMA EndStep ==
  ASSUME SessionsOK, session \in [Session -> [status : {"NONE", "LIVE", "EXPIRED", "REVOKED"},
                                              version : 0..MaxVersion, login : Session \cup {S!NoOne}]],
         NEW these, S!EndSessions(these), forked' = forked,
         \A k \in Call : call'[k] = call[k] \/ call'[k].op # "refresh"
  PROVE  SessionsOK'
<1>1. \A s \in Session :
        /\ LoginOf(s)' = LoginOf(s)
        /\ s \in S!Known' <=> s \in S!Known
        /\ s \in S!Live' <=> s \in S!Live /\ s \notin these
  BY DEF S!EndSessions, S!Revoked, S!Known, S!Live, LoginOf
<1>2. Refreshes' \subseteq Refreshes /\ \A k \in Refreshes' : call'[k] = call[k]
  BY DEF Refreshes
<1>3. \A l \in over' :
        \/ l \in over
        \/ /\ \E s \in S!Live : l = LoginOf(s)
           /\ \A s \in S!Live : s \notin these => l # LoginOf(s)
           /\ \A k \in Refreshes : l # LoginOf(call[k].what)
  BY DEF S!EndSessions, Refreshes, LoginOf
<1>4. S!Known' = S!Known /\ S!Live' = S!Live \ these /\ S!Known \subseteq Session /\ S!Live \subseteq S!Known
  BY <1>1, LiveIsKnown DEF S!Known, S!Live
<1>5. over' \subseteq S!Known'
  BY <1>3, <1>4 DEF SessionsOK
<1>6. \A k \in Refreshes' : /\ call'[k].what \in S!Known
                            /\ LoginOf(call[k].what)' = LoginOf(call[k].what)
                            /\ call'[k].what = call[k].what
                            /\ LoginOf(call[k].what) \notin over'
  BY <1>1, <1>2, <1>3, <1>4 DEF SessionsOK
<1>7. \A s \in S!Live' : s \in S!Live /\ LoginOf(s)' = LoginOf(s) /\ LoginOf(s) \notin over'
  BY <1>1, <1>3, <1>4 DEF SessionsOK
<1> QED BY <1>1, <1>2, <1>4, <1>5, <1>6, <1>7 DEF SessionsOK

(* A session is issued: to a new login, or to that of a refresh that has   *)
(* revoked the one it read.                                                *)
LEMMA IssueStep ==
  ASSUME SessionsInv, NEW k \in Call, NEW login, S!IssueTokens(k, login),
         \/ login = S!NoOne /\ k \notin Refreshes
         \/ k \in Refreshes /\ call[k].at = "used" /\ login = LoginOf(call[k].what)
  PROVE  SessionsInv'
<1>1. PICK s \in Session \ S!Known, l \in Session \cup {login} :
        /\ session' = [session EXCEPT ![s] = [status |-> "LIVE", version |-> call[k].version, login |-> l]]
        /\ login = S!NoOne => l = s
        /\ login # S!NoOne => l = login
  BY DEF S!IssueTokens, S!Known
<1>2. call' = [call EXCEPT ![k] = S!NoCall] /\ UNCHANGED <<account, reset, over, forked>>
  BY DEF S!IssueTokens, S!Done
<1>3. k \in Refreshes => l = LoginOf(call[k].what) /\ l \in S!Known
  BY <1>1, SessionsAssumption DEF SessionsInv, SessionsOK, S!Known
<1>4. k \notin Refreshes => l = s
  BY <1>1
<1>5. S!SessionTypeOK'
  <2>1. call[k].version \in 0..MaxVersion /\ l \in Session /\ 0 \in 0..MaxVersion
    BY <1>1, <1>3, <1>4, SessionsAssumption DEF SessionsInv, S!SessionTypeOK, S!Known
  <2>2. [status |-> "LIVE", version |-> call[k].version, login |-> l]
          \in [status : {"NONE", "LIVE", "EXPIRED", "REVOKED"}, version : 0..MaxVersion,
               login : Session \cup {S!NoOne}]
    BY <2>1
  <2>3. S!NoCall \in [op : S!Ops, at : {"idle", "admitted", "read", "used"},
                      what : Session \cup {S!NoOne}, version : 0..MaxVersion]
    BY <2>1 DEF S!NoCall, S!Ops
  <2> QED BY <1>1, <1>2, <2>2, <2>3 DEF SessionsInv, S!SessionTypeOK
<1>6. session \in [Session -> [status : {"NONE", "LIVE", "EXPIRED", "REVOKED"},
                               version : 0..MaxVersion, login : Session \cup {S!NoOne}]]
      /\ DOMAIN call = Call /\ SessionsOK
  BY DEF SessionsInv, S!SessionTypeOK
<1>7. session'[s].login = l /\ \A t \in S!Known : t # s /\ session'[t].login = LoginOf(t)
  BY <1>1, <1>2, <1>6 DEF LoginOf, S!Known
<1>8. S!Known' = S!Known \cup {s} /\ S!Live' = S!Live \cup {s}
  BY <1>1, <1>2, <1>6 DEF S!Known, S!Live
<1>9. Refreshes' = Refreshes \ {k} /\ \A j \in Refreshes' : call'[j] = call[j]
  BY <1>2, <1>6 DEF Refreshes, S!NoCall
<1>10. \A j \in Refreshes' : call[j].what \in S!Known /\ LoginOf(call[j].what) \in S!Known
  BY <1>6, <1>9 DEF SessionsOK
<1>11. l \notin over /\ l \in S!Known'
  BY <1>1, <1>3, <1>4, <1>6, <1>8 DEF SessionsOK
<1>12. \A t \in S!Live : LoginOf(t) = l => l \in forked
  BY <1>1, <1>3, <1>4, <1>6, LiveIsKnown DEF SessionsOK
<1>13. \A j \in Refreshes' : LoginOf(call[j].what) = l => l \in forked
  BY <1>1, <1>3, <1>4, <1>6, <1>9, <1>10 DEF SessionsOK
<1>14. /\ over' \subseteq S!Known'
       /\ \A t \in S!Known' : session'[t].login \in S!Known'
       /\ \A j \in Refreshes' : call'[j].what \in S!Known' /\ session'[call'[j].what].login \notin over'
       /\ \A t \in S!Live' : session'[t].login \notin over'
  BY <1>2, <1>6, <1>7, <1>8, <1>9, <1>10, <1>11, LiveIsKnown DEF SessionsOK
<1>15. \A t, u \in S!Live' : session'[t].login = session'[u].login => t = u \/ session'[t].login \in forked'
  BY <1>2, <1>6, <1>7, <1>8, <1>12, LiveIsKnown DEF SessionsOK
<1>16. \A t \in S!Live' : \A j \in Refreshes' :
         session'[t].login = session'[call[j].what].login =>
           session'[t].login \in forked' \/ (t = call[j].what /\ call[j].at # "used")
  BY <1>2, <1>6, <1>7, <1>8, <1>9, <1>10, <1>13, LiveIsKnown DEF SessionsOK
<1>17. \A i, j \in Refreshes' :
         session'[call[i].what].login = session'[call[j].what].login =>
           i = j \/ session'[call[i].what].login \in forked'
  BY <1>2, <1>6, <1>7, <1>9, <1>10 DEF SessionsOK
<1> QED BY <1>5, <1>9, <1>14, <1>15, <1>16, <1>17 DEF SessionsInv, SessionsOK, LoginOf

(* What an admitted call is.                                               *)
LEMMA AdmittedCall ==
  ASSUME NEW op, NEW what
  PROVE  [S!NoCall EXCEPT !.op = op, !.at = "admitted", !.what = what]
           = [op |-> op, at |-> "admitted", what |-> what, version |-> 0]
<1>1. [S!NoCall EXCEPT !.op = op, !.at = "admitted", !.what = what]
        = [[[S!NoCall EXCEPT !.op = op] EXCEPT !.at = "admitted"] EXCEPT !.what = what]
  BY DEF S!NoCall
<1>2. [S!NoCall EXCEPT !.op = op] = [op |-> op, at |-> "idle", what |-> S!NoOne, version |-> 0]
  BY DEF S!NoCall
<1>3. [[op |-> op, at |-> "idle", what |-> S!NoOne, version |-> 0] EXCEPT !.at = "admitted"]
        = [op |-> op, at |-> "admitted", what |-> S!NoOne, version |-> 0]
  OBVIOUS
<1>4. [[op |-> op, at |-> "admitted", what |-> S!NoOne, version |-> 0] EXCEPT !.what = what]
        = [op |-> op, at |-> "admitted", what |-> what, version |-> 0]
  OBVIOUS
<1> QED BY <1>1, <1>2, <1>3, <1>4

(* A refresh reads a live session; if another reads the same, the login is *)
(* forked.                                                                 *)
LEMMA ReadTokenStep ==
  ASSUME SessionsInv, NEW k \in Call, NEW s \in Session, S!ReadToken(k, s) PROVE SessionsInv'
<1>1. SessionsOK /\ DOMAIN call = Call /\ s \in S!Live /\ s \in S!Known /\ k \notin Refreshes
  BY LiveIsKnown DEF SessionsInv, S!SessionTypeOK, S!ReadToken, S!MayRefresh, Refreshes, S!NoCall
<1> DEFINE new == [op |-> "refresh", at |-> "admitted", what |-> s, version |-> 0]
<1>2. call' = [call EXCEPT ![k] = new] /\ UNCHANGED <<account, reset, session, over>>
  <2>1. [S!NoCall EXCEPT !.op = "refresh", !.at = "admitted", !.what = s] = new
    BY AdmittedCall
  <2> QED BY <2>1 DEF S!ReadToken
<1>3. /\ forked \subseteq forked' /\ forked' \subseteq forked \cup {LoginOf(s)}
      /\ \A c \in Refreshes : call[c].what = s => LoginOf(s) \in forked'
  BY DEF S!ReadToken, Refreshes, LoginOf
<1>4. S!Known' = S!Known /\ S!Live' = S!Live
  BY <1>2 DEF S!Known, S!Live
<1>5. /\ Refreshes' = Refreshes \cup {k} /\ call'[k] = new
      /\ \A c \in Refreshes : c # k /\ call'[c] = call[c]
  BY <1>1, <1>2 DEF Refreshes
<1>6. S!SessionTypeOK'
  <2>1. new \in [op : S!Ops, at : {"idle", "admitted", "read", "used"},
                 what : Session \cup {S!NoOne}, version : 0..MaxVersion]
    BY SessionsAssumption DEF S!Ops
  <2>2. forked' \subseteq Session
    BY <1>1, <1>3 DEF SessionsInv, S!SessionTypeOK, SessionsOK, S!Known
  <2> HIDE DEF new
  <2> QED BY <1>2, <2>1, <2>2 DEF SessionsInv, S!SessionTypeOK
<1>7. \A c \in Refreshes : LoginOf(call[c].what) = LoginOf(s) => LoginOf(s) \in forked'
  BY <1>1, <1>3 DEF SessionsOK
<1>8. \A t \in S!Live : LoginOf(t) = LoginOf(s) => t = s \/ LoginOf(s) \in forked'
  BY <1>1, <1>3 DEF SessionsOK
<1>9. new.what = s /\ new.at # "used"
  OBVIOUS
<1>10. \A t \in Session : session'[t].login = LoginOf(t)
  BY <1>2 DEF LoginOf
<1>11. \A c \in Refreshes' : call'[c].what \in S!Known /\ LoginOf(call'[c].what) \notin over'
  BY <1>1, <1>2, <1>5, <1>9 DEF SessionsOK
<1>12. \A c \in Refreshes' : \A t \in S!Live :
         LoginOf(t) = LoginOf(call'[c].what) =>
           LoginOf(t) \in forked' \/ (t = call'[c].what /\ call'[c].at # "used")
  BY <1>1, <1>3, <1>5, <1>8, <1>9 DEF SessionsOK
<1>13. \A b, c \in Refreshes' :
         LoginOf(call'[b].what) = LoginOf(call'[c].what) => b = c \/ LoginOf(call'[b].what) \in forked'
  BY <1>1, <1>3, <1>5, <1>7, <1>9 DEF SessionsOK
<1> HIDE DEF new
<1> QED BY <1>1, <1>2, <1>3, <1>4, <1>6, <1>11, <1>12, <1>13 DEF SessionsInv, SessionsOK, LoginOf

(* A session that is not live any more: expired, or rotated by a refresh.  *)
LEMMA LapseStep ==
  ASSUME SessionsInv, NEW s \in Session, NEW status \in {"EXPIRED", "REVOKED"}, s \in S!Known,
         session' = [session EXCEPT ![s].status = status],
         UNCHANGED <<account, reset, over, forked>>,
         \/ call' = call
         \/ \E k \in Refreshes : call[k].what = s /\ call' = [call EXCEPT ![k].at = "used"]
  PROVE  SessionsInv'
<1>1. SessionsOK /\ DOMAIN call = Call
  BY DEF SessionsInv, S!SessionTypeOK
<1>2. \A t \in Session : session'[t].login = LoginOf(t)
  BY DEF LoginOf, SessionsInv, S!SessionTypeOK
<1>3. S!Known' = S!Known /\ S!Live' = S!Live \ {s} /\ S!Known \subseteq Session
  BY DEF S!Known, S!Live, SessionsInv, S!SessionTypeOK
<1>4. /\ Refreshes' = Refreshes
      /\ \A k \in Refreshes : /\ call'[k].what = call[k].what
                              /\ call'[k].at # call[k].at => call[k].what = s
  BY DEF Refreshes, SessionsInv, S!SessionTypeOK
<1>5. S!SessionTypeOK'
  BY DEF SessionsInv, S!SessionTypeOK, Refreshes
<1>6. \A k \in Refreshes : call[k].what \in Session
  BY <1>1, <1>3 DEF SessionsOK
<1>7. \A t \in S!Live' : t \in S!Live /\ t # s /\ t \in Session /\ t \in S!Known
  BY <1>3, LiveIsKnown
<1> QED BY <1>1, <1>2, <1>3, <1>4, <1>5, <1>6, <1>7 DEF SessionsInv, SessionsOK, LoginOf

(* The calls and the account, whatever they end, keep their types.         *)
LEMMA CallsTyped ==
  ASSUME S!SessionTypeOK, NEW k \in Call, NEW new, call' = [call EXCEPT ![k] = new],
         new \in [op : S!Ops, at : {"idle", "admitted", "read", "used"},
                  what : Session \cup {S!NoOne}, version : 0..MaxVersion]
  PROVE  call' \in [Call -> [op : S!Ops, at : {"idle", "admitted", "read", "used"},
                             what : Session \cup {S!NoOne}, version : 0..MaxVersion]]
  BY DEF S!SessionTypeOK

LEMMA NoCallTyped ==
  S!NoCall \in [op : S!Ops, at : {"idle", "admitted", "read", "used"},
                what : Session \cup {S!NoOne}, version : 0..MaxVersion]
  BY SessionsAssumption DEF S!NoCall, S!Ops

(* The operations that end sessions.                                       *)
LEMMA EndingStep ==
  ASSUME SessionsInv, NEW these, S!EndSessions(these), forked' = forked,
         reset' \in {reset, "CONSUMED"}, account' = account \/ \E d \in BOOLEAN : S!Bump(d),
         call' = call \/ \E k \in Call : S!Done(k)
  PROVE  SessionsInv'
<1>1. \A k \in Call : call'[k] = call[k] \/ call'[k].op # "refresh"
  BY DEF S!Done, S!NoCall, SessionsInv, S!SessionTypeOK
<1>2. SessionsOK'
  BY <1>1, EndStep DEF SessionsInv, S!SessionTypeOK
<1>3. session' \in [Session -> [status : {"NONE", "LIVE", "EXPIRED", "REVOKED"},
                                version : 0..MaxVersion, login : Session \cup {S!NoOne}]]
  BY DEF SessionsInv, S!SessionTypeOK, S!EndSessions, S!Revoked
<1>4. over' \subseteq Session
  BY <1>2 DEF SessionsOK, S!Known
<1>5. account' \in [deleted : BOOLEAN, version : 0..MaxVersion]
  BY SessionsAssumption DEF SessionsInv, S!SessionTypeOK, S!Bump
<1>6. call' \in [Call -> [op : S!Ops, at : {"idle", "admitted", "read", "used"},
                          what : Session \cup {S!NoOne}, version : 0..MaxVersion]]
  <2>1. CASE call' = call
    BY <2>1 DEF SessionsInv, S!SessionTypeOK
  <2>2. ASSUME NEW k \in Call, S!Done(k)
        PROVE  call' \in [Call -> [op : S!Ops, at : {"idle", "admitted", "read", "used"},
                                   what : Session \cup {S!NoOne}, version : 0..MaxVersion]]
    BY <2>2, CallsTyped, NoCallTyped DEF S!Done, SessionsInv
  <2> QED BY <2>1, <2>2
<1> QED BY <1>2, <1>3, <1>4, <1>5, <1>6 DEF SessionsInv, S!SessionTypeOK

(* A call begins that refreshes nothing, or goes on, or gives up.          *)
LEMMA CallStep ==
  ASSUME SessionsInv, NEW k \in Call, UNCHANGED <<account, session, over, forked>>,
         reset' \in {reset, "ISSUED"},
         NEW new, call' = [call EXCEPT ![k] = new],
         new \in [op : S!Ops, at : {"idle", "admitted", "read", "used"},
                  what : Session \cup {S!NoOne}, version : 0..MaxVersion],
         new.op = "refresh" => call[k].op = "refresh" /\ new.what = call[k].what /\ new.at # "used"
  PROVE  SessionsInv'
<1>1. call' \in [Call -> [op : S!Ops, at : {"idle", "admitted", "read", "used"},
                          what : Session \cup {S!NoOne}, version : 0..MaxVersion]]
  BY CallsTyped DEF SessionsInv
<1>2. \A j \in Call : call'[j].op = "refresh" =>
           /\ call[j].op = "refresh" /\ call'[j].what = call[j].what
           /\ call'[j].at = "used" => call[j].at = "used"
  BY DEF SessionsInv, S!SessionTypeOK
<1>3. SessionsOK'
  BY <1>2, QuietStep DEF SessionsInv
<1> QED BY <1>1, <1>3 DEF SessionsInv, S!SessionTypeOK

LEMMA SessionsStep == ASSUME SessionsInv, S!Next PROVE SessionsInv'
<1> USE SessionsAssumption
<1> DEFINE Calls == [op : S!Ops, at : {"idle", "admitted", "read", "used"},
                     what : Session \cup {S!NoOne}, version : 0..MaxVersion]
<1>1. call \in [Call -> Calls] /\ account.version \in 0..MaxVersion
  BY DEF SessionsInv, S!SessionTypeOK
<1>2. ASSUME NEW s \in Session, S!ReuseDetected(s) PROVE SessionsInv'
  BY <1>2, EndingStep DEF S!ReuseDetected
<1>3. ASSUME NEW s \in Session, S!Expire(s) PROVE SessionsInv'
  BY <1>3, LapseStep, LiveIsKnown DEF S!Expire
<1>4. CASE S!ForgotPassword
  <2>1. SessionsOK'
    BY <1>4, QuietStep DEF S!ForgotPassword, SessionsInv
  <2> QED BY <1>4, <2>1 DEF S!ForgotPassword, SessionsInv, S!SessionTypeOK
<1>5. ASSUME NEW k \in Call, S!Login(k) PROVE SessionsInv'
  <2> DEFINE new == [S!NoCall EXCEPT !.op = "login", !.version = account.version]
  <2>1. new \in Calls /\ new.op # "refresh"
    BY <1>1 DEF S!NoCall, S!Ops
  <2>2. call' = [call EXCEPT ![k] = new] /\ UNCHANGED <<account, reset, session, over, forked>>
    BY <1>5 DEF S!Login
  <2> HIDE DEF new
  <2> QED BY <2>1, <2>2, CallStep
<1>6. ASSUME NEW k \in Call, S!LoginIssue(k) PROVE SessionsInv'
  BY <1>6, IssueStep DEF S!LoginIssue, Refreshes
<1>7. ASSUME NEW k \in Call, S!RefreshIssue(k) PROVE SessionsInv'
  BY <1>7, IssueStep DEF S!RefreshIssue, Refreshes, LoginOf
<1>8. ASSUME NEW k \in Call, S!RevokeUsed(k) PROVE SessionsInv'
  <2>1. k \in Refreshes /\ call[k].what \in S!Known /\ call[k].what \in Session
    BY <1>8 DEF S!RevokeUsed, Refreshes, SessionsInv, SessionsOK, S!Known
  <2>2. session' = [session EXCEPT ![call[k].what].status = "REVOKED"]
    BY <1>8, <2>1 DEF S!RevokeUsed, S!Revoked, SessionsInv, S!SessionTypeOK
  <2>3. call' = [call EXCEPT ![k].at = "used"] /\ UNCHANGED <<account, reset, over, forked>>
    BY <1>8 DEF S!RevokeUsed
  <2> QED BY <2>1, <2>2, <2>3, LapseStep
<1>9. ASSUME NEW k \in Call, S!ReadUser(k) PROVE SessionsInv'
  <2> DEFINE read == IF call[k].op = "refresh" THEN account.version ELSE 0
             new == [[call[k] EXCEPT !.at = "read"] EXCEPT !.version = read]
  <2>1. UNCHANGED <<account, reset, session, over, forked>>
    BY <1>9 DEF S!ReadUser
  <2>2. CASE account.deleted
    <3>1. call' = [call EXCEPT ![k] = S!NoCall] /\ S!NoCall.op # "refresh"
      BY <1>9, <2>2 DEF S!ReadUser, S!Done, S!NoCall
    <3> QED BY <2>1, <3>1, NoCallTyped, CallStep
  <2>3. CASE ~account.deleted
    <3>1. call' = [call EXCEPT ![k] = new]
      BY <1>1, <1>9, <2>3 DEF S!ReadUser
    <3>2. new \in Calls /\ new.op = call[k].op /\ new.what = call[k].what /\ new.at = "read"
      <4>1. read \in 0..MaxVersion
        BY <1>1
      <4> HIDE DEF read
      <4> DEFINE half == [call[k] EXCEPT !.at = "read"]
      <4>2. half \in Calls /\ half.op = call[k].op /\ half.what = call[k].what /\ half.at = "read"
        BY <1>1
      <4> HIDE DEF half
      <4>3. new = [half EXCEPT !.version = read]
        BY DEF half
      <4> HIDE DEF new
      <4> QED BY <4>1, <4>2, <4>3
    <3> HIDE DEF new
    <3> QED BY <2>1, <3>1, <3>2, CallStep
  <2> QED BY <2>2, <2>3
<1>10. ASSUME NEW k \in Call,
              S!SetPassword(k) \/ S!RevokeSession(k) \/ S!RevokeAllSessions(k) \/ S!RequestDeletion(k)
              \/ S!ResetPassword(k)
       PROVE  SessionsInv'
  <2>1. account.deleted \in BOOLEAN
    BY DEF SessionsInv, S!SessionTypeOK
  <2> QED BY <1>10, <2>1, EndingStep
          DEF S!SetPassword, S!RevokeSession, S!RevokeAllSessions, S!RequestDeletion, S!ResetPassword
<1>11. ASSUME NEW k \in Call, S!ReadReset(k) PROVE SessionsInv'
  <2> DEFINE new == [S!NoCall EXCEPT !.op = "reset"]
  <2>1. new \in Calls /\ new.op # "refresh"
    BY DEF S!NoCall, S!Ops
  <2>2. call' = [call EXCEPT ![k] = new] /\ UNCHANGED <<account, reset, session, over, forked>>
    BY <1>11 DEF S!ReadReset
  <2> HIDE DEF new
  <2> QED BY <2>1, <2>2, CallStep
<1>12. ASSUME NEW k \in Call, NEW s \in Session, S!ReadToken(k, s) PROVE SessionsInv'
  BY <1>12, ReadTokenStep
<1>13. ASSUME NEW k \in Call, NEW op \in {"setPassword", "revokeAll", "delete", "revoke"},
              NEW what \in Session \cup {S!NoOne}, S!Admit(k, op, what)
       PROVE  SessionsInv'
  <2> DEFINE new == [op |-> op, at |-> "admitted", what |-> what, version |-> 0]
  <2>1. new \in Calls /\ new.op # "refresh"
    BY DEF S!Ops
  <2>2. call' = [call EXCEPT ![k] = new] /\ UNCHANGED <<account, reset, session, over, forked>>
    <3>1. [S!NoCall EXCEPT !.op = op, !.at = "admitted", !.what = what] = new
      BY AdmittedCall
    <3> QED BY <1>13, <3>1 DEF S!Admit
  <2> HIDE DEF new
  <2> QED BY <2>1, <2>2, CallStep
<1>14. S!Live \subseteq Session
  BY DEF S!Live
<1> QED BY <1>2, <1>3, <1>4, <1>5, <1>6, <1>7, <1>8, <1>9, <1>10, <1>11, <1>12, <1>13, <1>14 DEF S!Next

----------------------------------------------------------------------------
(* SearchPages: what the controls hold is of the filters shown, which are  *)
(* of the game chosen; what the address says, of its game, once one is     *)
(* chosen; and the box waits for the text it asked for last.               *)

SomeGame == F!Game \cup {F!NoGame}
SearchKeys == {"cardType", "language", "hasListings"} \cup F!Ranges
SearchValue == {F!Blank, "number", "word", "code", "true", "POKEMON", "TRAINER", "UNIT", "PILOT"}
Filled == UNION {[ks -> SearchValue] : ks \in SUBSET SearchKeys}
FormRow == [game : SomeGame, meta : SomeGame, selected : Filled, boxes : Filled,
            sort : F!CommonSorts \cup F!Ranges, touches : 0..MaxTouches, came : SomeGame]
UrlRow == [game : SomeGame, set : Filled, sort : F!SearchSorts]

WebKeys(g) == {"price"} \cup F!JsonKeys(g)

BoxesFit(boxes, g) ==
    \A k \in DOMAIN boxes : /\ k \in WebKeys(g)
                            /\ k \in F!Ranges => boxes[k] \in {F!Blank, "number"}
                            /\ k = "cardType" => boxes[k] \in F!CardTypes(g) \cup {F!Blank}

UrlFits(q) ==
    /\ \A k \in DOMAIN q.set : /\ k \in F!Ranges \cup {"cardType"} /\ q.set[k] # F!Blank
                               /\ k \in F!Ranges => q.set[k] = "number"
    /\ q.game # F!NoGame => BoxesFit(q.set, q.game) /\ F!SortAllowedForGame(q.sort, q.game)

FormOK ==
    /\ form \in FormRow /\ form.meta \in {F!NoGame, form.game}
    /\ fetching \subseteq F!Game \cap {form.game}
    /\ surface = "web" => BoxesFit(form.boxes, form.meta) /\ form.sort \in F!SortsOf(form.meta)

\* A page just loaded has what its address says.
LoadedOK ==
    surface = "web" /\ form.touches = 0 =>
        /\ form.game = url.game /\ form.selected = url.set
        /\ fetching # {} => form.meta = F!NoGame
        /\ F!NarrowedIsShown

\* A reload sends the address again.
ReloadOK ==
    surface = "web" /\ searched.sent /\ url.game = F!NoGame /\ F!Criteria(url) =>
        F!AssertSearchFilters(url) \/ searched.by = "link"

\* On the app the keys are of the game chosen, and without one only the price is.
ScreenOK ==
    surface = "app" =>
        \A k \in DOMAIN form.boxes :
            /\ k \in WebKeys(form.game) \/ (form.game # F!NoGame /\ k \in F!CommonKeys)
            /\ k \in F!Ranges => form.boxes[k] \in {F!Blank, "number", "word"}
            /\ k = "language" => form.boxes[k] \in {F!Blank, "code", "word"}

FiltersInv ==
    /\ surface \in {"web", "app", "box"} /\ (surface = "box" => fetching = {})
    /\ url \in UrlRow /\ UrlFits(url)
    /\ FormOK /\ LoadedOK /\ ReloadOK /\ ScreenOK
    /\ F!SearchAccepted

SuggestInv ==
    /\ box \in [text : F!Long \cup {F!Blank}, timer : BOOLEAN, asking : SUBSET F!Long,
                hits : F!Long \cup {F!Blank}, missed : BOOLEAN]
    /\ box.timer => box.text \in F!Long
    /\ box.text \in F!Long /\ ~box.timer => box.asking \subseteq {box.text}
    /\ F!SuggestedIsTyped

SearchInv == FiltersInv /\ SuggestInv

LEMMA FilledIs ==
  ASSUME NEW f \in Filled
  PROVE  /\ DOMAIN f \subseteq SearchKeys /\ f = [k \in DOMAIN f |-> f[k]]
         /\ \A k \in DOMAIN f : f[k] \in SearchValue
  BY DEF Filled

LEMMA IsFilled ==
  ASSUME NEW ks, ks \subseteq SearchKeys, NEW f, f = [k \in ks |-> f[k]], \A k \in ks : f[k] \in SearchValue
  PROVE  f \in Filled
<1>1. f \in [ks -> SearchValue]
  OBVIOUS
<1> QED BY <1>1 DEF Filled

LEMMA SuggestStart == ASSUME F!Init PROVE SuggestInv
<1>1. box = [text |-> F!Blank, timer |-> FALSE, asking |-> {}, hits |-> F!Blank, missed |-> FALSE]
  BY DEF F!Init
<1>2. box.text = F!Blank /\ box.timer = FALSE /\ box.asking = {} /\ box.hits = F!Blank
  BY <1>1
<1>3. box \in [text : F!Long \cup {F!Blank}, timer : BOOLEAN, asking : SUBSET F!Long,
              hits : F!Long \cup {F!Blank}, missed : BOOLEAN]
  BY <1>1
<1>4. F!Blank \notin F!Long
  BY DEF F!Long, F!Blank
<1> QED BY <1>2, <1>3, <1>4 DEF SuggestInv, F!SuggestedIsTyped

LEMMA SuggestStep == ASSUME SuggestInv, F!Next PROVE SuggestInv'
<1> USE DEF SuggestInv, F!SuggestedIsTyped, F!Long
<1>1. CASE UNCHANGED box
  BY <1>1
<1>2. ASSUME NEW t \in F!Long \cup {F!Blank}, F!TypeText(t) PROVE SuggestInv'
  <2>1. CASE t \in F!Long
    <3>1. box' = [box EXCEPT !.text = t, !.timer = TRUE, !.missed = FALSE, !.hits = box.hits]
      BY <1>2, <2>1, Zenon DEF F!TypeText
    <3> QED BY <2>1, <3>1
  <2>2. CASE t \notin F!Long
    <3>1. box' = [box EXCEPT !.text = t, !.timer = (t \in F!Long), !.missed = FALSE, !.hits = F!Blank]
      BY <1>2, <2>2, Zenon DEF F!TypeText
    <3>2. (t \in F!Long) = FALSE
      BY <2>2
    <3>3. box' = [box EXCEPT !.text = t, !.timer = FALSE, !.missed = FALSE, !.hits = F!Blank]
      BY <3>1, <3>2, Zenon
    <3> QED BY <2>2, <3>3
  <2> QED BY <2>1, <2>2
<1>3. CASE F!AskHits
  BY <1>3 DEF F!AskHits, F!Aborted
<1>4. ASSUME NEW t \in F!Long, F!HitsCome(t) PROVE SuggestInv'
  BY <1>4 DEF F!HitsCome
<1>5. ASSUME NEW t \in F!Long, F!HitsFail(t) PROVE SuggestInv'
  <2>1. box' = [box EXCEPT !.asking = box.asking \ {t}, !.missed = TRUE]
        \/ (box' = [box EXCEPT !.asking = box.asking \ {t}, !.missed = box.missed] /\ t # box.text)
    <3>1. box' = [box EXCEPT !.asking = box.asking \ {t}, !.missed = (box.missed \/ t = box.text)]
      BY <1>5 DEF F!HitsFail
    <3>2. (box.missed \/ t = box.text) = TRUE \/ ((box.missed \/ t = box.text) = box.missed /\ t # box.text)
      BY Zenon
    <3> QED BY <3>1, <3>2, Zenon
  <2> QED BY <1>5, <2>1 DEF F!HitsFail
<1> QED
  BY <1>1, <1>2, <1>3, <1>4, <1>5 DEF F!Next, F!ChooseGame, F!Enter, F!ChooseSort, F!Submit, F!Reload, F!Clear,
     F!FollowLink, F!FiltersCome, F!FiltersFail, F!PickGame, F!SetAttr, F!ClearAll

(* A rendered form has controls for its filters, filled as they were or    *)
(* from the address.                                                       *)
LEMMA RenderedForm ==
  ASSUME NEW fm \in FormRow, NEW meta \in SomeGame, NEW selected \in Filled, NEW q \in UrlRow,
         BoxesFit(fm.boxes, fm.meta), UrlFits(q)
  PROVE  LET r == F!Rendered(fm, meta, selected, q)
         IN /\ r \in FormRow /\ r.game = fm.game /\ r.touches = fm.touches /\ r.came = fm.came
            /\ r.meta = meta /\ r.selected = selected
            /\ BoxesFit(r.boxes, meta) /\ r.sort \in F!SortsOf(meta)
            /\ DOMAIN r.boxes = F!Shown(meta, selected)
            /\ (fm.meta = F!NoGame) # (meta = F!NoGame) \/ DOMAIN fm.boxes = {} =>
                  \A k \in F!Shown(meta, selected) : r.boxes[k] = F!StartOf(meta, k, selected, q)
<1> DEFINE kept(k) == /\ k \in DOMAIN fm.boxes /\ (fm.meta = F!NoGame) = (meta = F!NoGame)
                      /\ (k = "cardType" => fm.boxes[k] \in F!CardTypes(meta) \union {F!Blank})
           boxes == [k \in F!Shown(meta, selected) |->
                        IF kept(k) THEN fm.boxes[k] ELSE F!StartOf(meta, k, selected, q)]
           sort == IF fm.sort \in F!SortsOf(meta) THEN fm.sort ELSE "relevance"
<1>1. F!Rendered(fm, meta, selected, q)
        = [fm EXCEPT !.meta = meta, !.selected = selected, !.boxes = boxes, !.sort = sort]
  BY DEF F!Rendered, FormRow
<1>2. F!Shown(meta, selected) \subseteq WebKeys(meta) /\ WebKeys(meta) \subseteq SearchKeys
  BY DEF F!Shown, WebKeys, SearchKeys, F!JsonKeys, F!Ranges
<1>3. \A k \in F!Shown(meta, selected) :
        /\ k \in F!Ranges => F!StartOf(meta, k, selected, q) \in {F!Blank, "number"}
        /\ k = "cardType" => F!StartOf(meta, k, selected, q) \in F!CardTypes(meta) \cup {F!Blank}
  BY DEF F!StartOf, F!At, UrlFits, UrlRow
<1>4. \A k \in F!Shown(meta, selected) :
        /\ k \in F!Ranges => boxes[k] \in {F!Blank, "number"}
        /\ k = "cardType" => boxes[k] \in F!CardTypes(meta) \cup {F!Blank}
  BY <1>3 DEF BoxesFit
<1>5. \A k \in WebKeys(meta) : k \in F!Ranges \/ k = "cardType"
  BY DEF WebKeys, F!JsonKeys, F!Ranges
<1>6. \A k \in F!Shown(meta, selected) : boxes[k] \in SearchValue
  <2>1. F!CardTypes(meta) \cup {F!Blank, "number"} \subseteq SearchValue
    BY DEF F!CardTypes, SearchValue
  <2> HIDE DEF boxes
  <2> QED BY <1>2, <1>4, <1>5, <2>1
<1>7. BoxesFit(boxes, meta)
  BY <1>2, <1>4 DEF BoxesFit
<1>8. boxes \in Filled
  <2>1. boxes = [k \in F!Shown(meta, selected) |-> boxes[k]]
    OBVIOUS
  <2> HIDE DEF boxes
  <2> QED BY <1>2, <1>6, <2>1, IsFilled
<1>9. sort \in F!SortsOf(meta) /\ F!SortsOf(meta) \subseteq F!CommonSorts \cup F!Ranges
  BY DEF F!SortsOf, F!CommonSorts
<1>10. DOMAIN boxes = F!Shown(meta, selected)
  OBVIOUS
<1>11. (fm.meta = F!NoGame) # (meta = F!NoGame) \/ DOMAIN fm.boxes = {} =>
          \A k \in F!Shown(meta, selected) : boxes[k] = F!StartOf(meta, k, selected, q)
  OBVIOUS
<1> HIDE DEF boxes, sort
<1> QED BY <1>1, <1>7, <1>8, <1>9, <1>10, <1>11 DEF FormRow

(* An address that fits is one the API accepts, and a form made for its    *)
(* game shows every filter in it.                                          *)
LEMMA UrlAccepted ==
  ASSUME NEW q \in UrlRow, UrlFits(q), q.game # F!NoGame PROVE F!AssertSearchFilters(q)
<1>1. \A k \in DOMAIN q.set : k # "language"
  BY DEF UrlFits, F!Ranges
<1>2. \A k \in DOMAIN q.set : k \in F!Ranges => q.set[k] = "number"
  BY DEF UrlFits
<1>3. \A k \in DOMAIN q.set : F!AsAttribute(k) => k \in F!JsonKeys(q.game)
  BY DEF UrlFits, BoxesFit, WebKeys, F!AsAttribute
<1>4. q.sort \in F!SearchSorts /\ F!SortAllowedForGame(q.sort, q.game)
  BY DEF UrlRow, UrlFits
<1>5. "price" \in F!Ranges
  BY DEF F!Ranges
<1> QED BY <1>1, <1>2, <1>3, <1>4, <1>5 DEF F!AssertSearchFilters

LEMMA UrlShown ==
  ASSUME NEW q \in UrlRow, UrlFits(q), q.game # F!NoGame, NEW k \in DOMAIN q.set
  PROVE  k \in F!Shown(q.game, q.set) /\ F!StartOf(q.game, k, q.set, q) = q.set[k]
<1>1. q.set[k] # F!Blank /\ k \in WebKeys(q.game) /\ (k = "cardType" => q.set[k] \in F!CardTypes(q.game))
  BY DEF UrlFits, BoxesFit
<1>2. F!At(q.set, k) = q.set[k]
  BY DEF F!At
<1>3. F!IsFilterVisible(q.game, k, q.set)
  BY <1>1, <1>2 DEF F!IsFilterVisible, F!SelectedList
<1>4. k \in F!Shown(q.game, q.set)
  BY <1>1, <1>3 DEF F!Shown, WebKeys
<1>5. F!StartOf(q.game, k, q.set, q) = q.set[k]
  BY <1>1, <1>2 DEF F!StartOf
<1> QED BY <1>4, <1>5

LEMMA EmptyFits ==
  F!Empty \in Filled /\ DOMAIN F!Empty = {} /\ F!BlankSearch \in UrlRow /\ UrlFits(F!BlankSearch)
<1>1. F!Empty \in Filled /\ DOMAIN F!Empty = {}
  <2>1. F!Empty = [k \in {} |-> F!Empty[k]] /\ DOMAIN F!Empty = {}
    BY DEF F!Empty
  <2> QED BY <2>1, IsFilled
<1>2. F!BlankSearch.set = F!Empty /\ F!BlankSearch.game = F!NoGame /\ F!BlankSearch \in UrlRow
  BY <1>1 DEF F!BlankSearch, UrlRow, SomeGame, F!SearchSorts, F!CommonSorts
<1> QED BY <1>1, <1>2 DEF UrlFits

(* What the person does on a form is counted.                              *)
LEMMA TouchedForm ==
  ASSUME form \in FormRow, F!MayTouch
  PROVE  /\ F!Touch(form) \in FormRow /\ F!Touch(form).touches # 0
         /\ F!Touch(form).game = form.game /\ F!Touch(form).meta = form.meta
         /\ F!Touch(form).selected = form.selected /\ F!Touch(form).boxes = form.boxes
         /\ F!Touch(form).sort = form.sort /\ F!Touch(form).came = form.came
<1>1. form.touches + 1 \in 0..MaxTouches /\ form.touches + 1 # 0
  BY SearchAssumption DEF FormRow, F!MayTouch
<1> QED BY <1>1 DEF F!Touch, FormRow

\* The form after a step of the web's page, about to show the search q.
FormMoved(q) ==
    /\ form' \in FormRow /\ form'.meta \in {F!NoGame, form'.game}
    /\ fetching' \subseteq F!Game \cap {form'.game}
    /\ BoxesFit(form'.boxes, form'.meta) /\ form'.sort \in F!SortsOf(form'.meta)

LEMMA TakesFilters ==
  ASSUME NEW fm \in FormRow, NEW q \in UrlRow, UrlFits(q), BoxesFit(fm.boxes, fm.meta),
         F!TakeFilters(fm, q)
  PROVE  FormMoved(q) /\ form'.touches = fm.touches
<1>1. fm.game \in SomeGame /\ F!NoGame \in SomeGame /\ fm.selected \in Filled
  BY DEF FormRow, SomeGame
<1>2. CASE fm.game = F!NoGame \/ fm.game = fm.came
  <2>1. form' = F!Rendered(fm, fm.game, fm.selected, q) /\ fetching' = {}
    BY <1>2 DEF F!TakeFilters, F!StillHeard
  <2> QED BY <1>1, <2>1, RenderedForm DEF FormMoved
<1>3. CASE ~(fm.game = F!NoGame \/ fm.game = fm.came)
  <2>1. form' = F!Rendered(fm, F!NoGame, fm.selected, q) /\ fetching' = {fm.game}
    BY <1>3 DEF F!TakeFilters, F!StillHeard
  <2>2. fm.game \in F!Game
    BY <1>1, <1>3 DEF SomeGame
  <2> QED BY <1>1, <2>1, <2>2, RenderedForm DEF FormMoved
<1> QED BY <1>2, <1>3

(* A page is loaded.                                                       *)
LEMMA LoadsPage ==
  ASSUME NEW q \in UrlRow, UrlFits(q), F!Load(q)
  PROVE  /\ url' = q /\ FormMoved(q) /\ form'.touches = 0 /\ form'.game = q.game /\ form'.selected = q.set
         /\ fetching' # {} => form'.meta = F!NoGame
         /\ q.game # F!NoGame /\ form'.meta = q.game =>
               \A k \in DOMAIN q.set : F!At(form'.boxes, k) = q.set[k]
<1>1. PICK meta \in {q.game, F!NoGame} :
        /\ url' = q /\ form' = F!Mounted(q, meta)
        /\ fetching' = IF q.game = meta THEN {} ELSE {q.game}
  BY DEF F!Load
<1> DEFINE fm == [game |-> q.game, meta |-> F!NoGame, selected |-> F!Empty, boxes |-> F!Empty, sort |-> q.sort,
                  touches |-> 0, came |-> meta]
<1>2. fm \in FormRow /\ fm.game = q.game /\ fm.meta = F!NoGame /\ fm.boxes = F!Empty /\ fm.touches = 0
  <2>1. q.sort \in F!CommonSorts \cup F!Ranges
    BY DEF UrlRow, F!SearchSorts, F!Ranges
  <2>2. 0 \in 0..MaxTouches
    BY SearchAssumption
  <2>3. {q.game, F!NoGame, meta} \subseteq SomeGame
    BY DEF UrlRow, SomeGame
  <2> QED BY <2>1, <2>2, <2>3, EmptyFits DEF FormRow
<1>3. form' = F!Rendered(fm, meta, q.set, q)
  BY <1>1 DEF F!Mounted
<1>4. q.set \in Filled /\ meta \in SomeGame /\ q.game \in SomeGame
  BY DEF UrlRow, SomeGame
<1> HIDE DEF fm
<1>5. BoxesFit(fm.boxes, fm.meta)
  BY <1>2, EmptyFits DEF BoxesFit
<1>6. /\ form' \in FormRow /\ form'.game = q.game /\ form'.touches = 0 /\ form'.meta = meta
      /\ form'.selected = q.set /\ BoxesFit(form'.boxes, meta) /\ form'.sort \in F!SortsOf(meta)
      /\ DOMAIN form'.boxes = F!Shown(meta, q.set)
      /\ \A k \in F!Shown(meta, q.set) : form'.boxes[k] = F!StartOf(meta, k, q.set, q)
  BY <1>2, <1>3, <1>4, <1>5, EmptyFits, RenderedForm
<1>7. fetching' \subseteq F!Game \cap {q.game} /\ (fetching' # {} => meta = F!NoGame)
  BY <1>1, <1>4 DEF SomeGame
<1>8. ASSUME q.game # F!NoGame, form'.meta = q.game, NEW k \in DOMAIN q.set
      PROVE  F!At(form'.boxes, k) = q.set[k]
  BY <1>6, <1>8, UrlShown DEF F!At
<1> QED BY <1>1, <1>6, <1>7, <1>8 DEF FormMoved

(* A search goes out with an address that the API accepts, or by a link of *)
(* a search without a game.                                                *)
LEMMA SendsSearch ==
  ASSUME FiltersInv, surface = "web", surface' = surface, NEW q \in UrlRow, UrlFits(q), url' = q,
         NEW by, F!SearchFor(q, by),
         q.game = F!NoGame /\ F!Criteria(q) => F!AssertSearchFilters(q) \/ by = "link"
  PROVE  ReloadOK' /\ F!SearchAccepted'
<1>1. CASE F!Criteria(q)
  <2>1. searched' = [sent |-> TRUE, query |-> q, by |-> by, ok |-> F!AssertSearchFilters(q)]
    BY <1>1 DEF F!SearchFor
  <2>2. searched'.query = q /\ searched'.by = by /\ searched'.ok = F!AssertSearchFilters(q)
    BY <2>1, Zenon
  <2>3. F!AssertSearchFilters(q) \/ (by = "link" /\ q.game = F!NoGame)
    BY <1>1, UrlAccepted
  <2>4. F!SearchAccepted'
    BY <2>2, <2>3, Zenon DEF F!SearchAccepted
  <2>5. ReloadOK'
    BY <2>2, <2>3, Zenon DEF ReloadOK
  <2> QED BY <2>4, <2>5
<1>2. CASE ~F!Criteria(q)
  <2>1. searched' = searched
    BY <1>2 DEF F!SearchFor
  <2>2. F!SearchAccepted'
    BY <2>1 DEF FiltersInv, F!SearchAccepted, F!App
  <2>3. ReloadOK'
    BY <1>2 DEF ReloadOK
  <2> QED BY <2>2, <2>3
<1> QED BY <1>1, <1>2

\* A step of the web's page that leaves a form someone has touched.
LEMMA MovedForm ==
  ASSUME FiltersInv, surface = "web", surface' = surface, url' \in UrlRow, UrlFits(url'),
         FormMoved(url'), form'.touches # 0, ReloadOK', F!SearchAccepted'
  PROVE  FiltersInv'
<1>1. FormOK' /\ LoadedOK' /\ ScreenOK'
  BY DEF FormMoved, FormOK, LoadedOK, ScreenOK
<1> QED BY <1>1 DEF FiltersInv

\* One that neither sends a search nor changes the address.
LEMMA SameSearch ==
  ASSUME FiltersInv, UNCHANGED <<surface, url, searched>> PROVE ReloadOK' /\ F!SearchAccepted'
<1>1. ReloadOK /\ F!SearchAccepted
  BY DEF FiltersInv
<1>2. ReloadOK'
  BY <1>1 DEF ReloadOK
<1>3. F!SearchAccepted'
  BY <1>1 DEF F!SearchAccepted, F!App
<1> QED BY <1>2, <1>3

LEMMA WebFacts ==
  ASSUME FiltersInv, surface = "web"
  PROVE  /\ form \in FormRow /\ BoxesFit(form.boxes, form.meta) /\ form.sort \in F!SortsOf(form.meta)
         /\ form.meta \in {F!NoGame, form.game} /\ form.meta \in SomeGame /\ form.game \in SomeGame
         /\ fetching \subseteq F!Game \cap {form.game}
         /\ url \in UrlRow /\ UrlFits(url) /\ form.selected \in Filled /\ form.boxes \in Filled
  BY DEF FiltersInv, FormOK, FormRow

LEMMA ChooseGameStep ==
  ASSUME FiltersInv, NEW g \in SomeGame, F!ChooseGame(g) PROVE FiltersInv'
<1> DEFINE fm == [F!Touch(form) EXCEPT !.game = g, !.selected = F!Empty]
<1>1. /\ surface = "web" /\ F!MayTouch /\ F!TakeFilters(fm, url) /\ UNCHANGED <<surface, url, searched>>
  BY DEF F!ChooseGame, F!Web
<1>2. /\ fm \in FormRow /\ fm.touches # 0 /\ fm.boxes = form.boxes /\ fm.meta = form.meta
  BY <1>1, WebFacts, TouchedForm, EmptyFits DEF FormRow
<1> HIDE DEF fm
<1>3. FormMoved(url) /\ form'.touches # 0
  BY <1>1, <1>2, WebFacts, TakesFilters
<1> QED BY <1>1, <1>3, WebFacts, MovedForm, SameSearch

LEMMA ChooseSortStep ==
  ASSUME FiltersInv, NEW s, F!ChooseSort(s) PROVE FiltersInv'
<1>1. /\ surface = "web" /\ F!MayTouch /\ UNCHANGED <<surface, url, searched, fetching>>
      /\ form' = [F!Touch(form) EXCEPT !.sort = s] /\ s \in F!SortsOf(form.meta)
  BY DEF F!ChooseSort, F!Web
<1>2. s \in F!CommonSorts \cup F!Ranges
  BY <1>1 DEF F!SortsOf
<1>3. FormMoved(url) /\ form'.touches # 0
  BY <1>1, <1>2, WebFacts, TouchedForm DEF FormMoved, FormRow
<1> QED BY <1>1, <1>3, WebFacts, MovedForm, SameSearch

LEMMA EnterStep ==
  ASSUME FiltersInv, NEW k, NEW v, F!Enter(k, v) PROVE FiltersInv'
<1> DEFINE boxes == [F!Touch(form).boxes EXCEPT ![k] = v]
           fm == [F!Touch(form) EXCEPT !.boxes = boxes]
<1>1. /\ surface = "web" /\ F!MayTouch /\ UNCHANGED <<surface, url, searched, fetching>>
      /\ k \in DOMAIN form.boxes
      /\ k \in F!Ranges => v \in {F!Blank, "number"}
      /\ k \notin F!Ranges => v \in F!CardTypes(form.meta) \cup {F!Blank}
      /\ form' = IF k \in F!Ranges THEN fm
                 ELSE F!Rendered(fm, fm.meta, F!WithKey(fm.selected, k, v), url)
  BY DEF F!Enter, F!Web
<1>2. k \in SearchKeys /\ v \in SearchValue
  BY <1>1, WebFacts, FilledIs DEF F!CardTypes, SearchValue
<1>3. DOMAIN boxes = DOMAIN form.boxes /\ boxes[k] = v /\ \A j \in DOMAIN boxes : j # k => boxes[j] = form.boxes[j]
  BY <1>1, WebFacts, TouchedForm, FilledIs
<1>4. boxes \in Filled
  <2>1. boxes = [j \in DOMAIN form.boxes |-> boxes[j]]
    BY <1>1, WebFacts, TouchedForm, FilledIs
  <2>2. \A j \in DOMAIN form.boxes : boxes[j] \in SearchValue
    BY <1>2, <1>3, WebFacts, <1>1, FilledIs
  <2> HIDE DEF boxes
  <2> QED BY <1>1, <2>1, <2>2, WebFacts, FilledIs, IsFilled
<1>5. BoxesFit(boxes, form.meta)
  <2> HIDE DEF boxes
  <2>1. k # "cardType" \/ k \notin F!Ranges
    BY DEF F!Ranges
  <2> QED BY <1>1, <1>3, <2>1, WebFacts DEF BoxesFit
<1> HIDE DEF boxes
<1>6. /\ fm \in FormRow /\ fm.touches # 0 /\ fm.boxes = boxes /\ fm.meta = form.meta
      /\ fm.selected = form.selected /\ fm.game = form.game /\ fm.sort = form.sort
  BY <1>1, <1>4, WebFacts, TouchedForm DEF FormRow
<1> HIDE DEF fm
<1>7. F!WithKey(fm.selected, k, v) \in Filled
  <2> DEFINE f == F!WithKey(fm.selected, k, v)
             ks == DOMAIN fm.selected \cup {k}
  <2>1. f = [j \in ks |-> f[j]] /\ \A j \in ks : f[j] = IF j = k THEN v ELSE fm.selected[j]
    BY DEF F!WithKey
  <2>2. ks \subseteq SearchKeys /\ \A j \in ks : f[j] \in SearchValue
    BY <1>1, <1>2, <1>6, <2>1, WebFacts, FilledIs
  <2> HIDE DEF f, ks
  <2>3. f \in Filled
    BY <2>1, <2>2, IsFilled
  <2> QED BY <2>3 DEF f
<1>8. FormMoved(url) /\ form'.touches # 0
  <2>1. CASE k \in F!Ranges
    BY <1>1, <1>5, <1>6, <2>1, WebFacts DEF FormMoved
  <2>2. CASE k \notin F!Ranges
    BY <1>1, <1>5, <1>6, <1>7, <2>2, WebFacts, RenderedForm DEF FormMoved
  <2> QED BY <2>1, <2>2
<1> QED BY <1>1, <1>8, WebFacts, MovedForm, SameSearch

(* A page loaded with a search.                                            *)
LEMMA LoadStep ==
  ASSUME FiltersInv, surface = "web", surface' = surface, NEW q \in UrlRow, UrlFits(q), F!Load(q),
         ReloadOK', F!SearchAccepted'
  PROVE  FiltersInv'
<1>1. url' = q /\ FormMoved(q) /\ form'.touches = 0 /\ form'.game = q.game /\ form'.selected = q.set
  BY LoadsPage
<1>2. fetching' # {} => form'.meta = F!NoGame
  BY LoadsPage
<1>3. F!NarrowedIsShown'
  BY <1>1, LoadsPage DEF F!NarrowedIsShown
<1>4. FormOK' /\ LoadedOK' /\ ScreenOK'
  BY <1>1, <1>2, <1>3 DEF FormMoved, FormOK, LoadedOK, ScreenOK
<1> QED BY <1>1, <1>4 DEF FiltersInv

LEMMA ParsedAddress ==
  ASSUME NEW g, NEW set, NEW sort
  PROVE  F!InputFromParams([game |-> g, set |-> set, sort |-> sort])
           = [game |-> g, set |-> set, sort |-> IF sort \in F!SearchSorts THEN sort ELSE "relevance"]
  BY DEF F!InputFromParams

(* What the controls hold makes an address that fits.                      *)
LEMMA SubmitStep == ASSUME FiltersInv, F!Submit PROVE FiltersInv'
<1> DEFINE ks == {j \in DOMAIN form.boxes : form.boxes[j] # F!Blank}
           set == [k \in ks |-> form.boxes[k]]
           sort == IF form.sort \in F!SearchSorts THEN form.sort ELSE "relevance"
           q == [game |-> form.game, set |-> set, sort |-> sort]
<1>1. surface = "web" /\ surface' = surface /\ F!Load(q) /\ F!SearchFor(q, "form")
  <2>1. F!InputFromParams([game |-> form.game, set |-> set, sort |-> form.sort]) = q
    BY ParsedAddress
  <2> QED BY <2>1 DEF F!Submit, F!Web
<1>2. set \in Filled
  <2>1. ks \subseteq SearchKeys /\ \A k \in ks : set[k] \in SearchValue
    BY <1>1, WebFacts, FilledIs
  <2>2. set = [k \in ks |-> set[k]]
    OBVIOUS
  <2> HIDE DEF set, ks
  <2> QED BY <2>1, <2>2, IsFilled
<1>3. DOMAIN set \subseteq DOMAIN form.boxes /\ \A k \in DOMAIN set : set[k] = form.boxes[k] /\ set[k] # F!Blank
  OBVIOUS
<1>4. \A k \in DOMAIN set : /\ k \in WebKeys(form.meta)
                            /\ k \in F!Ranges => set[k] = "number"
                            /\ k = "cardType" => set[k] \in F!CardTypes(form.meta)
  <2> HIDE DEF set
  <2> QED BY <1>1, <1>3, WebFacts DEF BoxesFit
<1>5. sort \in F!SearchSorts /\ sort \in F!SortsOf(form.meta)
  BY <1>1, WebFacts DEF F!SearchSorts, F!CommonSorts, F!SortsOf
<1> HIDE DEF set, sort
<1>6. q \in UrlRow /\ q.game = form.game /\ q.set = set /\ q.sort = sort
  BY <1>1, <1>2, <1>5, WebFacts DEF UrlRow
<1> HIDE DEF q
<1>7. UrlFits(q)
  <2>1. \A k \in WebKeys(form.meta) : k \in F!Ranges \cup {"cardType"}
    BY DEF WebKeys, F!JsonKeys, F!Ranges
  <2>2. form.game # F!NoGame => WebKeys(form.meta) \subseteq WebKeys(form.game)
    BY <1>1, WebFacts DEF WebKeys, F!JsonKeys, F!NoGame
  <2>3. \A k \in DOMAIN set : k = "cardType" => form.meta = form.game
    BY <1>1, <1>4, WebFacts DEF WebKeys, F!JsonKeys, F!NoGame
  <2>4. form.game # F!NoGame => F!SortAllowedForGame(sort, form.game)
    BY <1>1, <1>5, WebFacts DEF F!SortAllowedForGame, F!SortsOf, F!JsonKeys, F!NoGame
  <2> QED BY <1>3, <1>4, <1>6, <2>1, <2>2, <2>3, <2>4 DEF UrlFits, BoxesFit
<1>8. q.game = F!NoGame => F!AssertSearchFilters(q)
  <2>1. q.game = F!NoGame => \A k \in DOMAIN q.set : k = "price"
    BY <1>1, <1>4, <1>6, WebFacts DEF WebKeys, F!JsonKeys, F!NoGame
  <2>2. q.game = F!NoGame => q.sort \in F!CommonSorts
    BY <1>1, <1>5, <1>6, WebFacts DEF F!SortsOf, F!JsonKeys, F!NoGame
  <2>3. "price" \in DOMAIN q.set => q.set["price"] = "number"
    BY <1>4, <1>6 DEF F!Ranges
  <2>4. q.game = F!NoGame => {k \in DOMAIN q.set : F!AsAttribute(k)} = {}
    BY <2>1 DEF F!AsAttribute
  <2>5. q.sort \in F!SearchSorts
    BY <1>5, <1>6
  <2>6. q.game = F!NoGame => \A k \in DOMAIN q.set \cap {"price", "language"} : q.set[k] # "word"
    BY <2>1, <2>3
  <2> QED BY <2>2, <2>4, <2>5, <2>6 DEF F!AssertSearchFilters, F!SortAllowedForGame
<1>9. ReloadOK' /\ F!SearchAccepted'
  BY <1>1, <1>6, <1>7, <1>8, SendsSearch, LoadsPage
<1> QED BY <1>1, <1>6, <1>7, <1>9, LoadStep

LEMMA ReloadStep == ASSUME FiltersInv, F!Reload PROVE FiltersInv'
<1>1. surface = "web" /\ surface' = surface /\ F!Load(url) /\ F!SearchFor(url, searched.by) /\ searched.sent
  BY DEF F!Reload, F!Web
<1>2. url' = url
  BY <1>1 DEF F!Load
<1>3. url.game = F!NoGame /\ F!Criteria(url) => F!AssertSearchFilters(url) \/ searched.by = "link"
  BY <1>1 DEF FiltersInv, ReloadOK
<1>4. ReloadOK' /\ F!SearchAccepted'
  BY <1>1, <1>2, <1>3, WebFacts, SendsSearch
<1> QED BY <1>1, <1>4, WebFacts, LoadStep

(* A link changes the address under the form.                              *)
LEMMA LinkStep ==
  ASSUME FiltersInv, surface = "web", surface' = surface, F!MayTouch, NEW q \in UrlRow, UrlFits(q),
         F!Navigate(q), F!SearchFor(q, "link")
  PROVE  FiltersInv'
<1>1. PICK meta \in {q.game, F!NoGame} :
        /\ url' = q
        /\ IF form.came = F!NoGame /\ meta = F!NoGame THEN form' = F!Touch(form) /\ UNCHANGED fetching
           ELSE F!TakeFilters([F!Touch(form) EXCEPT !.came = meta], q)
  BY DEF F!Navigate
<1>2. FormMoved(q) /\ form'.touches # 0
  <2>1. CASE form.came = F!NoGame /\ meta = F!NoGame
    BY <1>1, <2>1, WebFacts, TouchedForm DEF FormMoved
  <2>2. CASE ~(form.came = F!NoGame /\ meta = F!NoGame)
    <3> DEFINE fm == [F!Touch(form) EXCEPT !.came = meta]
    <3>1. F!TakeFilters(fm, q)
      BY <1>1, <2>2
    <3>2. meta \in SomeGame
      BY DEF UrlRow, SomeGame
    <3>3. fm \in FormRow /\ fm.touches # 0 /\ fm.boxes = form.boxes /\ fm.meta = form.meta
      BY <3>2, WebFacts, TouchedForm DEF FormRow
    <3> HIDE DEF fm
    <3> QED BY <3>1, <3>3, WebFacts, TakesFilters
  <2> QED BY <2>1, <2>2
<1>3. ReloadOK' /\ F!SearchAccepted'
  BY <1>1, SendsSearch
<1> QED BY <1>1, <1>2, <1>3, MovedForm

LEMMA ClearStep == ASSUME FiltersInv, F!Clear PROVE FiltersInv'
<1> DEFINE q == [F!BlankSearch EXCEPT !.game = form.game]
<1>1. surface = "web" /\ surface' = surface /\ F!MayTouch /\ F!Navigate(q) /\ F!SearchFor(q, "link")
  BY DEF F!Clear, F!Web
<1>2. q \in UrlRow /\ DOMAIN q.set = {} /\ q.sort = "relevance"
  BY <1>1, WebFacts, EmptyFits DEF UrlRow, F!BlankSearch
<1> HIDE DEF q
<1>3. UrlFits(q)
  BY <1>2 DEF UrlFits, BoxesFit, F!SortAllowedForGame, F!CommonSorts
<1> QED BY <1>1, <1>2, <1>3, LinkStep

LEMMA FollowLinkStep == ASSUME FiltersInv, NEW k, F!FollowLink(k) PROVE FiltersInv'
<1> DEFINE q == F!OmitSearchFilter(url, k)
<1>1. surface = "web" /\ surface' = surface /\ F!MayTouch /\ F!Navigate(q) /\ F!SearchFor(q, "link")
  BY DEF F!FollowLink, F!Web
<1>2. q \in UrlRow /\ UrlFits(q)
  <2>1. CASE k = "game"
    <3>1. q = [url EXCEPT !.game = F!NoGame]
      BY <2>1 DEF F!OmitSearchFilter
    <3>2. q \in UrlRow /\ q.game = F!NoGame /\ q.set = url.set
      BY <1>1, <3>1, WebFacts DEF UrlRow, SomeGame
    <3> QED BY <1>1, <3>2, WebFacts DEF UrlFits
  <2>2. CASE k # "game"
    <3> DEFINE set == F!Without(url.set, {k})
    <3>1. q = [url EXCEPT !.set = set]
      BY <1>1, <2>2, WebFacts DEF F!OmitSearchFilter, UrlRow
    <3>2. set = [j \in DOMAIN url.set \ {k} |-> set[j]] /\ DOMAIN set = DOMAIN url.set \ {k}
          /\ \A j \in DOMAIN set : set[j] = url.set[j]
      BY DEF F!Without
    <3> HIDE DEF set
    <3>3. url.set \in Filled
      BY <1>1, WebFacts DEF UrlRow
    <3>4. set \in Filled
      <4>1. DOMAIN set \subseteq SearchKeys /\ \A j \in DOMAIN set : set[j] \in SearchValue
        BY <3>2, <3>3, FilledIs
      <4>2. set = [j \in DOMAIN set |-> set[j]]
        BY <3>2
      <4> QED BY <4>1, <4>2, IsFilled
    <3>5. q \in UrlRow /\ q.game = url.game /\ q.set = set /\ q.sort = url.sort
      BY <1>1, <3>1, <3>4, WebFacts DEF UrlRow
    <3> HIDE DEF q
    <3> QED BY <1>1, <3>2, <3>5, WebFacts, SMTT(30) DEF UrlFits, BoxesFit
  <2> QED BY <2>1, <2>2
<1> HIDE DEF q
<1> QED BY <1>1, <1>2, LinkStep

(* The filters of a game come, or do not.  On a page just loaded they fill *)
(* the form from the address.                                              *)
LEMMA FiltersStep ==
  ASSUME FiltersInv, NEW g \in F!Game, F!FiltersCome(g) \/ F!FiltersFail(g) PROVE FiltersInv'
<1>1. /\ g \in fetching /\ fetching' = fetching \ {g} /\ UNCHANGED <<surface, url, searched>>
  BY DEF F!FiltersCome, F!FiltersFail
<1>2. g = form.game /\ g # F!NoGame /\ F!NoGame \in SomeGame /\ surface \in {"web", "app"}
  BY <1>1 DEF FiltersInv, FormOK, F!Game, F!NoGame, SomeGame
<1>3. CASE surface = "web"
  <2>1. PICK meta \in {g, F!NoGame} : form' = F!Rendered(form, meta, form.selected, url)
    BY <1>3 DEF F!FiltersCome, F!FiltersFail, F!Web
  <2>2. meta \in SomeGame
    BY <1>2, <1>3, WebFacts
  <2>3. FormMoved(url) /\ form'.game = form.game /\ form'.touches = form.touches
        /\ form'.meta = meta /\ form'.selected = form.selected
    BY <1>1, <1>2, <1>3, <2>1, <2>2, WebFacts, RenderedForm DEF FormMoved
  <2>4. CASE form.touches # 0
    BY <1>1, <1>3, <2>3, <2>4, WebFacts, MovedForm, SameSearch
  <2>5. CASE form.touches = 0
    <3>1. form.game = url.game /\ form.selected = url.set /\ form.meta = F!NoGame
      BY <1>1, <1>3, <2>5 DEF FiltersInv, LoadedOK
    <3>2. fetching' = {}
      BY <1>1, <1>2, <1>3, WebFacts
    <3>3. ASSUME meta = url.game, NEW k \in DOMAIN url.set PROVE F!At(form'.boxes, k) = url.set[k]
      <4>1. k \in F!Shown(meta, url.set) /\ F!StartOf(meta, k, url.set, url) = url.set[k]
        BY <1>2, <1>3, <3>1, <3>3, WebFacts, UrlShown
      <4>2. form'.boxes[k] = url.set[k] /\ k \in DOMAIN form'.boxes
        BY <1>2, <1>3, <2>1, <2>2, <3>1, <3>3, <4>1, WebFacts, RenderedForm
      <4> QED BY <4>2 DEF F!At
    <3>4. F!NarrowedIsShown'
      BY <1>1, <2>3, <3>3 DEF F!NarrowedIsShown
    <3>5. FormOK' /\ LoadedOK' /\ ScreenOK'
      BY <1>1, <1>3, <2>3, <3>1, <3>2, <3>4 DEF FormMoved, FormOK, LoadedOK, ScreenOK
    <3> QED BY <1>1, <1>3, <3>5, SameSearch DEF FiltersInv
  <2> QED BY <2>4, <2>5
<1>4. CASE surface = "app"
  <2>1. form' = form \/ form' = [form EXCEPT !.meta = g]
    BY <1>1, <1>2, <1>4 DEF F!FiltersCome, F!FiltersFail, F!Web
  <2>2. form \in FormRow /\ form.meta \in {F!NoGame, form.game} /\ fetching \subseteq F!Game \cap {form.game}
    BY DEF FiltersInv, FormOK
  <2>3. form' \in FormRow /\ form'.game = form.game /\ form'.boxes = form.boxes
        /\ form'.meta \in {F!NoGame, form'.game}
    BY <1>2, <2>1, <2>2 DEF FormRow
  <2>4. FormOK' /\ LoadedOK'
    BY <1>1, <1>4, <2>2, <2>3 DEF FormOK, LoadedOK
  <2>5. ScreenOK'
    BY <1>1, <2>3 DEF FiltersInv, ScreenOK
  <2> QED BY <1>1, <1>4, <2>4, <2>5, SameSearch DEF FiltersInv
<1> QED BY <1>2, <1>3, <1>4

(* The app sends what the API accepts, but for words and "Con              *)
(* publicaciones".                                                         *)
LEMMA ScreenAccepted ==
  ASSUME surface' = "app", NEW fm, fm.boxes \in Filled, F!SearchFor(F!ScreenQuery(fm), "screen"), F!SearchAccepted,
         surface = "app",
         \A k \in DOMAIN fm.boxes :
            /\ k \in WebKeys(fm.game) \/ (fm.game # F!NoGame /\ k \in F!CommonKeys)
            /\ k \in F!Ranges => fm.boxes[k] \in {F!Blank, "number", "word"}
            /\ k = "language" => fm.boxes[k] \in {F!Blank, "code", "word"}
  PROVE  F!SearchAccepted'
<1> DEFINE q == F!ScreenQuery(fm)
<1>1. /\ q.game = fm.game /\ q.sort = "relevance" /\ DOMAIN q.set \subseteq DOMAIN fm.boxes
      /\ \A k \in DOMAIN q.set : q.set[k] = fm.boxes[k] /\ q.set[k] # F!Blank
  BY DEF F!ScreenQuery
<1>2. F!SearchFor(q, "screen")
  OBVIOUS
<1> HIDE DEF q
<1>3. CASE ~F!Criteria(q)
  BY <1>2, <1>3 DEF F!SearchFor, F!SearchAccepted, F!App
<1>4. CASE F!Criteria(q) /\ \E k \in DOMAIN q.set : k = "hasListings" \/ q.set[k] = "word"
  <2>1. searched' = [sent |-> TRUE, query |-> q, by |-> "screen", ok |-> F!AssertSearchFilters(q)]
    BY <1>2, <1>4 DEF F!SearchFor
  <2>2. searched'.query = q
    BY <2>1, Zenon
  <2> QED BY <1>4, <2>2 DEF F!SearchAccepted, F!App
<1>5. CASE F!Criteria(q) /\ ~\E k \in DOMAIN q.set : k = "hasListings" \/ q.set[k] = "word"
  <2>1. searched' = [sent |-> TRUE, query |-> q, by |-> "screen", ok |-> F!AssertSearchFilters(q)]
    BY <1>2, <1>5 DEF F!SearchFor
  <2>2. \A k \in DOMAIN q.set : k \in F!Ranges => q.set[k] = "number"
    BY <1>1, <1>5
  <2>3. \A k \in DOMAIN q.set : F!AsAttribute(k) => q.game # F!NoGame /\ k \in F!JsonKeys(q.game)
    BY <1>1, <1>5 DEF WebKeys, F!JsonKeys, F!CommonKeys, F!AsAttribute, F!NoGame
  <2>4. F!AssertSearchFilters(q)
    <3>1. q.sort \in F!SearchSorts /\ F!SortAllowedForGame(q.sort, q.game)
      BY <1>1 DEF F!SearchSorts, F!CommonSorts, F!SortAllowedForGame
    <3>2. \A k \in DOMAIN q.set : q.set[k] # "word"
      BY <1>5
    <3> QED BY <2>2, <2>3, <3>1, <3>2 DEF F!AssertSearchFilters
  <2>5. searched'.ok
    BY <2>1, <2>4, Zenon
  <2> QED BY <2>5 DEF F!SearchAccepted
<1> QED BY <1>3, <1>4, <1>5

\* A change on the app's screen that searches anew.
LEMMA ScreenMoved ==
  ASSUME FiltersInv, surface = "app", UNCHANGED <<surface, url>>,
         form' \in FormRow, form'.meta \in {F!NoGame, form'.game},
         fetching' \subseteq F!Game \cap {form'.game}, ScreenOK',
         F!SearchFor(F!ScreenQuery(form'), "screen")
  PROVE  FiltersInv'
<1>1. F!SearchAccepted'
  <2>1. form'.boxes \in Filled
    BY DEF FormRow
  <2>2. \A k \in DOMAIN form'.boxes :
            /\ k \in WebKeys(form'.game) \/ (form'.game # F!NoGame /\ k \in F!CommonKeys)
            /\ k \in F!Ranges => form'.boxes[k] \in {F!Blank, "number", "word"}
            /\ k = "language" => form'.boxes[k] \in {F!Blank, "code", "word"}
    BY DEF ScreenOK
  <2>3. F!SearchAccepted
    BY DEF FiltersInv
  <2> QED BY <2>1, <2>2, <2>3, ScreenAccepted
<1>2. FormOK' /\ LoadedOK' /\ ReloadOK'
  BY DEF FormOK, LoadedOK, ReloadOK
<1>3. url' \in UrlRow /\ UrlFits(url')
  BY DEF FiltersInv
<1> QED BY <1>1, <1>2, <1>3 DEF FiltersInv

LEMMA AppFacts ==
  ASSUME FiltersInv, surface = "app"
  PROVE  /\ form \in FormRow /\ form.meta \in {F!NoGame, form.game} /\ form.game \in SomeGame
         /\ fetching \subseteq F!Game \cap {form.game} /\ form.boxes \in Filled /\ ScreenOK
  BY DEF FiltersInv, FormOK, FormRow

LEMMA PickGameStep == ASSUME FiltersInv, NEW g \in F!Game, F!PickGame(g) PROVE FiltersInv'
<1> DEFINE to == IF form.game = g THEN F!NoGame ELSE g
           boxes == F!Attrs(form)
           fm == [F!Touch(form) EXCEPT !.game = to, !.meta = F!NoGame, !.boxes = boxes]
<1>1. /\ surface = "app" /\ F!MayTouch /\ UNCHANGED <<surface, url>>
      /\ form' = fm /\ fetching' = IF to = F!NoGame THEN {} ELSE {to}
      /\ F!SearchFor(F!ScreenQuery(fm), "screen")
  BY DEF F!PickGame, F!App
<1>2. /\ boxes = [k \in DOMAIN boxes |-> boxes[k]] /\ DOMAIN boxes = DOMAIN form.boxes \cap {"price"}
      /\ \A k \in DOMAIN boxes : boxes[k] = form.boxes[k]
  BY DEF F!Attrs, F!Without
<1> HIDE DEF boxes
<1>3. boxes \in Filled
  <2>1. DOMAIN boxes \subseteq SearchKeys /\ \A k \in DOMAIN boxes : boxes[k] \in SearchValue
    BY <1>1, <1>2, AppFacts, FilledIs
  <2> QED BY <1>2, <2>1, IsFilled
<1>4. to \in SomeGame /\ F!NoGame \in SomeGame /\ F!NoGame \notin F!Game
  BY DEF SomeGame, F!Game, F!NoGame
<1>5. fetching' \subseteq F!Game \cap {to}
  BY <1>1, <1>4
<1> HIDE DEF to
<1>6. fm \in FormRow /\ fm.game = to /\ fm.meta = F!NoGame /\ fm.boxes = boxes
  BY <1>1, <1>3, <1>4, AppFacts, TouchedForm DEF FormRow
<1> HIDE DEF fm
<1>7. ScreenOK'
  BY <1>1, <1>2, <1>6, AppFacts DEF ScreenOK, WebKeys
<1> QED BY <1>1, <1>5, <1>6, <1>7, ScreenMoved

LEMMA ClearAllStep == ASSUME FiltersInv, F!ClearAll PROVE FiltersInv'
<1> DEFINE fm == [F!Touch(form) EXCEPT !.boxes = F!Empty]
<1>1. /\ surface = "app" /\ F!MayTouch /\ UNCHANGED <<surface, url, fetching>>
      /\ form' = fm /\ F!SearchFor(F!ScreenQuery(fm), "screen")
  BY DEF F!ClearAll, F!App
<1>2. fm \in FormRow /\ fm.game = form.game /\ fm.meta = form.meta /\ fm.boxes = F!Empty
  BY <1>1, AppFacts, TouchedForm, EmptyFits DEF FormRow
<1> HIDE DEF fm
<1>3. ScreenOK'
  BY <1>1, <1>2, EmptyFits DEF ScreenOK
<1> QED BY <1>1, <1>2, <1>3, AppFacts, ScreenMoved

LEMMA SetAttrStep == ASSUME FiltersInv, NEW k, NEW v, F!SetAttr(k, v) PROVE FiltersInv'
<1> DEFINE boxes == F!WithKey(F!Touch(form).boxes, k, v)
           fm == [F!Touch(form) EXCEPT !.boxes = boxes]
<1>1. /\ surface = "app" /\ F!MayTouch /\ UNCHANGED <<surface, url, fetching>>
      /\ form' = fm /\ F!SearchFor(F!ScreenQuery(fm), "screen") /\ k \in F!OnScreen(form)
  BY DEF F!SetAttr, F!App
<1>2. form.meta # F!NoGame /\ form.meta = form.game /\ k \in F!JsonKeys(form.game) \cup F!CommonKeys
  BY <1>1, AppFacts DEF F!OnScreen
<1>3. /\ k \in F!Ranges => v \in {F!Blank, "number", "word"}
      /\ k = "language" => v \in {F!Blank, "code", "word"}
      /\ v \in SearchValue
  BY <1>1, Zenon DEF F!SetAttr, F!Ranges, F!CardTypes, SearchValue
<1>4. k \in SearchKeys
  BY <1>2 DEF F!JsonKeys, F!CommonKeys, SearchKeys, F!Ranges
<1>5. /\ DOMAIN boxes = DOMAIN form.boxes \cup {k} /\ boxes = [j \in DOMAIN boxes |-> boxes[j]]
      /\ \A j \in DOMAIN boxes : boxes[j] = IF j = k THEN v ELSE form.boxes[j]
  BY <1>1, AppFacts, TouchedForm DEF F!WithKey
<1> HIDE DEF boxes
<1>6. boxes \in Filled
  <2>1. DOMAIN boxes \subseteq SearchKeys /\ \A j \in DOMAIN boxes : boxes[j] \in SearchValue
    BY <1>1, <1>3, <1>4, <1>5, AppFacts, FilledIs
  <2> QED BY <1>5, <2>1, IsFilled
<1>7. fm \in FormRow /\ fm.game = form.game /\ fm.meta = form.meta /\ fm.boxes = boxes
  BY <1>1, <1>6, AppFacts, TouchedForm DEF FormRow
<1> HIDE DEF fm
<1>8. ScreenOK'
  BY <1>1, <1>2, <1>3, <1>5, <1>7, AppFacts DEF ScreenOK, WebKeys
<1> QED BY <1>1, <1>7, <1>8, AppFacts, ScreenMoved

LEMMA SearchStart == ASSUME F!Init PROVE FiltersInv /\ SuggestInv
<1> DEFINE fm == [game |-> F!NoGame, meta |-> F!NoGame, selected |-> F!Empty, boxes |-> F!Empty,
                  sort |-> "relevance", touches |-> 0, came |-> F!NoGame]
<1>1. /\ surface \in {"web", "app", "box"} /\ url = F!BlankSearch /\ fetching = {}
      /\ searched = F!NoSearch /\ form = F!Mounted(F!BlankSearch, F!NoGame)
  BY DEF F!Init
<1>2. F!BlankSearch.game = F!NoGame /\ F!BlankSearch.set = F!Empty /\ F!BlankSearch.sort = "relevance"
  BY DEF F!BlankSearch
<1>3. form = F!Rendered(fm, F!NoGame, F!Empty, url)
  BY <1>1, <1>2 DEF F!Mounted
<1>4. fm \in FormRow /\ fm.meta = F!NoGame /\ fm.boxes = F!Empty /\ fm.game = F!NoGame /\ F!NoGame \in SomeGame
  <2>1. "relevance" \in F!CommonSorts /\ 0 \in 0..MaxTouches /\ F!NoGame \in SomeGame
    BY SearchAssumption DEF F!CommonSorts, SomeGame
  <2> QED BY <2>1, EmptyFits DEF FormRow
<1> HIDE DEF fm
<1>5. BoxesFit(fm.boxes, fm.meta)
  BY <1>4, EmptyFits DEF BoxesFit
<1>6. /\ form \in FormRow /\ form.game = F!NoGame /\ form.meta = F!NoGame /\ form.selected = F!Empty
      /\ BoxesFit(form.boxes, F!NoGame) /\ form.sort \in F!SortsOf(F!NoGame)
      /\ DOMAIN form.boxes = F!Shown(F!NoGame, F!Empty)
      /\ \A k \in F!Shown(F!NoGame, F!Empty) : form.boxes[k] = F!StartOf(F!NoGame, k, F!Empty, url)
  BY <1>1, <1>3, <1>4, <1>5, EmptyFits, RenderedForm
<1>7. FormOK /\ LoadedOK
  BY <1>1, <1>2, <1>6 DEF FormOK, LoadedOK, F!NarrowedIsShown
<1>8. ~searched.sent
  BY <1>1 DEF F!NoSearch
<1>9. ScreenOK
  <2>1. DOMAIN form.boxes \subseteq WebKeys(F!NoGame)
    BY <1>6 DEF F!Shown, WebKeys
  <2>2. \A k \in DOMAIN form.boxes : (k \in F!Ranges => form.boxes[k] \in {F!Blank, "number"}) /\ k # "language"
    BY <1>6 DEF BoxesFit, WebKeys, F!JsonKeys, F!NoGame
  <2> QED BY <1>6, <2>1, <2>2 DEF ScreenOK
<1>10. ReloadOK /\ F!SearchAccepted
  BY <1>8 DEF ReloadOK, F!SearchAccepted
<1> QED BY <1>1, <1>7, <1>9, <1>10, EmptyFits, SuggestStart DEF FiltersInv

\* What the box of suggestions does leaves the form as it is.
LEMMA SameRows ==
  ASSUME FiltersInv, UNCHANGED <<surface, url, form, fetching, searched>> PROVE FiltersInv'
<1>1. FormOK' /\ LoadedOK' /\ ScreenOK'
  BY DEF FiltersInv, FormOK, LoadedOK, ScreenOK, F!NarrowedIsShown, F!Web
<1> QED BY <1>1, SameSearch DEF FiltersInv

LEMMA FiltersInvStep == ASSUME FiltersInv, F!Next PROVE FiltersInv'
<1>1. ASSUME UNCHANGED F!formRows PROVE FiltersInv'
  BY <1>1, SameRows DEF F!formRows
<1>2. CASE \E g \in F!Game \cup {F!NoGame} : F!ChooseGame(g)
  BY <1>2, ChooseGameStep DEF SomeGame
<1>3. ASSUME NEW k, NEW v, F!Enter(k, v) \/ F!SetAttr(k, v) PROVE FiltersInv'
  BY <1>3, EnterStep, SetAttrStep
<1>4. ASSUME NEW s, F!ChooseSort(s) PROVE FiltersInv'
  BY <1>4, ChooseSortStep
<1>5. CASE F!Submit \/ F!Reload \/ F!Clear \/ F!ClearAll
  BY <1>5, SubmitStep, ReloadStep, ClearStep, ClearAllStep
<1>6. ASSUME NEW k, F!FollowLink(k) PROVE FiltersInv'
  BY <1>6, FollowLinkStep
<1>7. CASE \E g \in F!Game : F!FiltersCome(g) \/ F!FiltersFail(g) \/ F!PickGame(g)
  BY <1>7, FiltersStep, PickGameStep
<1>8. CASE F!AskHits \/ (\E t \in F!Long \cup {F!Blank} : F!TypeText(t))
           \/ (\E t \in F!Long : F!HitsCome(t) \/ F!HitsFail(t))
  BY <1>1, <1>8 DEF F!AskHits, F!TypeText, F!HitsCome, F!HitsFail
<1> QED BY <1>2, <1>3, <1>4, <1>5, <1>6, <1>7, <1>8 DEF F!Next

LEMMA SearchFitsHolds ==
  ASSUME FiltersInv, SuggestInv
  PROVE  /\ F!SearchTypeOK /\ F!FiltersOfGame /\ F!SearchAccepted
         /\ F!NarrowedIsShown /\ F!SuggestedIsTyped
<1>1. F!SearchTypeOK
  <2>1. {url.game, form.game, form.meta, form.came} \subseteq F!Game \cup {F!NoGame}
    BY DEF FiltersInv, FormOK, FormRow, UrlRow, SomeGame
  <2>2. url.sort \in F!SearchSorts /\ form.touches \in 0..MaxTouches
    BY DEF FiltersInv, FormOK, FormRow, UrlRow
  <2>3. {box.text, box.hits} \cup box.asking \subseteq F!Long \cup {F!Blank}
    BY DEF SuggestInv
  <2>4. surface \in {"web", "app", "box"} /\ fetching \subseteq F!Game
    BY DEF FiltersInv, FormOK
  <2> QED BY <2>1, <2>2, <2>3, <2>4 DEF F!SearchTypeOK
<1>2. F!FiltersOfGame /\ F!SearchAccepted
  BY DEF FiltersInv, FormOK, F!FiltersOfGame
<1>3. F!NarrowedIsShown
  BY DEF FiltersInv, LoadedOK, F!NarrowedIsShown, F!Web
<1>4. F!SuggestedIsTyped
  BY DEF SuggestInv
<1> QED BY <1>1, <1>2, <1>3, <1>4

----------------------------------------------------------------------------
(* RowPages: a page that shows all the changes of its row shows the row;   *)
(* a request pressed there and not overtaken is one that it offers on the  *)
(* row as it is; and what was done from the page, and put no screen over   *)
(* it, is on it, or a request or a read in flight will bring it.           *)

PageKinds == {"order", "payout", "refund", "dispute", "report", "issue", "submission", "listing"}
RowStatus == UNION {G!Statuses(k) : k \in PageKinds}
RowRec == [kind : PageKinds, status : RowStatus,
           marks : SUBSET {"meetup", "refund", "dispute", "rated", "suspended"}]
ListingOps == {"pause", "activate", "delete"}

\* An order under dispute is DISPUTED.
RowOK(r) ==
    /\ r \in RowRec /\ r.status \in G!Statuses(r.kind)
    /\ r.kind = "order" /\ "dispute" \in r.marks => r.status = "DISPUTED"

After(p, op) == G!Pages[p].after[op]

PageView == [r : RowRec, has : SUBSET Nat]

\* A view of the row r, which has changed n - 1 times.
ViewOf(v, r, n) == v \in PageView /\ v.has \subseteq 1..n /\ (v.has = 1..n => v.r = r) /\ v.r.kind = r.kind

\* A request of the open page p.
ClickFits(c, p, r, n) ==
    /\ c.op \in DOMAIN G!Pages[p].after
    /\ c.stage = "SENT" => /\ c.fresh \in 0..n /\ (c.fresh = n => c.op \in G!Offers(p, r))
                           /\ After(p, c.op) = "append" => ViewOf(c.saw, r, n)
    /\ c.stage = "READ" \/ (c.stage = "ACCEPTED" /\ After(p, c.op) \in {"answer", "append"}) => ViewOf(c.view, r, n)
    /\ c.stage \in {"LOADING", "READ"} => After(p, c.op) \in {"reload", "later", "refetch"}
    /\ c.stage = "REFUSED" /\ c.view.has # {} => G!OffersTooMuch(p, c.op, c.view.r)

ClickStage == {"SENT", "ACCEPTED", "REFUSED", "LOADING", "READ"}
OpenPage == [name : G!PageName, shown : PageView]

RowsInv ==
    /\ RowOK(row) /\ version \in 1..MaxChange /\ made \subseteq 2..version /\ pushed \subseteq made
    /\ DOMAIN click = Call /\ \A k \in Call : click[k] = G!Idle \/ click[k].stage \in ClickStage
    /\ \A k \in Call : click[k].stage # "IDLE" /\ row.kind = "listing" => click[k].op \in ListingOps
    /\ page = G!Closed \/ (page \in OpenPage /\ G!Pages[page.name].kind = row.kind
                                            /\ ViewOf(page.shown, row, version))
    /\ page # G!Closed => \A k \in Call : click[k].stage # "IDLE" => ClickFits(click[k], page.name, row, version)

Reading == {"LOADING", "READ"}

\* What the page has to show, and the requests that will have it read again.
Due == made \ pushed
Awaited(k) == click[k].stage = "ACCEPTED" /\ After(page.name, click[k].op) # "push"

OwnInv ==
    page # G!Closed /\ ~muddled =>
      /\ Due \subseteq page.shown.has \/ \E k \in Call : click[k].stage \in Reading \/ Awaited(k)
      /\ \A k \in Call : click[k].stage = "READ" =>
            Due \subseteq click[k].view.has \/ \E j \in Call : Awaited(j)
      /\ \A k \in Call : click[k].stage = "ACCEPTED" /\ After(page.name, click[k].op) \in {"answer", "append"} =>
            Due \subseteq click[k].view.has
      /\ \A k \in Call : click[k].stage = "SENT" /\ After(page.name, click[k].op) = "append" =>
            Due \subseteq click[k].saw.has
      /\ \A j, k \in Call : j # k /\ click[j].stage # "IDLE" /\ click[k].stage # "IDLE" =>
            /\ After(page.name, click[j].op) \in {"refetch", "push"}
            /\ ~(click[j].stage \in Reading /\ click[k].stage \in Reading)

PagesInv == RowsInv /\ OwnInv

(* The changes of a row.                                                   *)
LEMMA StatusKnown == ASSUME NEW k \in PageKinds PROVE G!Statuses(k) \subseteq RowStatus
  BY DEF RowStatus

LEMMA ToRow ==
  ASSUME NEW r \in RowRec, NEW s \in RowStatus
  PROVE  G!To(r, s) \in RowRec /\ G!To(r, s).kind = r.kind /\ G!To(r, s).status = s /\ G!To(r, s).marks = r.marks
  BY DEF G!To, RowRec

LEMMA MarkRow ==
  ASSUME NEW r \in RowRec, NEW m \in {"refund", "dispute", "rated", "suspended"}
  PROVE  /\ G!Mark(r, m) \in RowRec /\ G!Mark(r, m).kind = r.kind /\ G!Mark(r, m).status = r.status
         /\ G!Mark(r, m).marks = r.marks \cup {m}
  BY DEF G!Mark, RowRec

LEMMA UnmarkRow ==
  ASSUME NEW r \in RowRec, NEW m
  PROVE  /\ G!Unmark(r, m) \in RowRec /\ G!Unmark(r, m).kind = r.kind /\ G!Unmark(r, m).status = r.status
         /\ G!Unmark(r, m).marks = r.marks \ {m}
  BY DEF G!Unmark, RowRec

LEMMA OrderStatuses ==
  G!Statuses("order") = {"PAID", "PREPARING", "SHIPPED", "READY_FOR_MEETUP", "DELIVERED", "COMPLETED", "DISPUTED",
                         "PENDING_PAYMENT", "CANCELLED", "REFUNDED"}
  BY DEF G!Statuses, G!OpenOrderStatuses

LEMMA RefundDoneRow ==
  ASSUME NEW r, RowOK(r), r.kind = "order"
  PROVE  /\ RowOK(G!RefundDone(r)) /\ G!RefundDone(r).kind = r.kind
         /\ r.status \in {"PAID", "PREPARING"} => G!RefundDone(r).status = "REFUNDED"
<1>1. r \in RowRec /\ "REFUNDED" \in RowStatus /\ "REFUNDED" \in G!Statuses("order")
  BY OrderStatuses, StatusKnown DEF RowOK, PageKinds
<1>2. CASE r.status \in {"PAID", "PREPARING"}
  <2>1. G!RefundDone(r) = G!Unmark(G!To(r, "REFUNDED"), "refund")
    BY <1>2 DEF G!RefundDone
  <2> QED BY <1>1, <1>2, <2>1, ToRow, UnmarkRow DEF RowOK
<1>3. CASE r.status \notin {"PAID", "PREPARING"}
  <2>1. G!RefundDone(r) = G!Unmark(r, "refund")
    BY <1>3 DEF G!RefundDone
  <2> QED BY <1>1, <1>3, <2>1, UnmarkRow DEF RowOK
<1> QED BY <1>2, <1>3

(* What the answers say of the row.                                        *)
LEMMA AnswerRow ==
  ASSUME NEW x, NEW a PROVE /\ a \in G!Accepted(x) => a.row = x /\ a.ok = TRUE
                            /\ a \in G!Refused(x) => a.row = x /\ a.ok = FALSE
  BY DEF G!Accepted, G!Refused

Keeps(x, r) == RowOK(x) /\ x.kind = r.kind

LEMMA OrderAnswer ==
  ASSUME NEW r, RowOK(r), r.kind = "order", NEW op, NEW a \in G!OrderAnswers(r, op)
  PROVE  Keeps(a.row, r)
<1>1. r \in RowRec /\ Keeps(r, r) /\ \A s \in G!Statuses("order") : s \in RowStatus
  BY StatusKnown DEF RowOK, PageKinds, Keeps
<1>2. ASSUME NEW s \in {"PREPARING", "SHIPPED", "READY_FOR_MEETUP", "DELIVERED", "COMPLETED", "CANCELLED", "DISPUTED"},
             r.status # "DISPUTED"
      PROVE  Keeps(G!To(r, s), r)
  BY <1>1, <1>2, OrderStatuses, ToRow DEF RowOK, Keeps
<1>3. Keeps(G!RefundDone(r), r)
  BY RefundDoneRow DEF Keeps
<1>4. CASE a \in G!Prepare(r)
  BY <1>1, <1>2, <1>4, AnswerRow DEF G!AcceptedIf, G!Prepare
<1>5. CASE a \in G!Deliver(r)
  BY <1>1, <1>2, <1>5, AnswerRow DEF G!AcceptedIf, G!Deliver
<1>6. CASE a \in G!Confirm(r)
  BY <1>1, <1>2, <1>6, AnswerRow DEF G!AcceptedIf, G!Confirm
<1>7. CASE a \in G!Complain(r)
  BY <1>1, <1>2, <1>7, AnswerRow DEF G!AcceptedIf, G!Complain
<1>8. ASSUME NEW withPlace \in BOOLEAN, a \in G!Ship(r, withPlace) PROVE Keeps(a.row, r)
  BY <1>1, <1>2, <1>8, AnswerRow DEF G!AcceptedIf, G!Ship
<1>9. CASE a \in G!Cancel(r)
  <2>1. Keeps(G!Mark(r, "refund"), r)
    BY <1>1, MarkRow DEF RowOK, Keeps
  <2>2. \/ a \in G!Accepted(G!To(r, "CANCELLED")) /\ r.status = "PENDING_PAYMENT"
        \/ a \in G!Accepted(G!RefundDone(r)) \cup G!Refused(G!Mark(r, "refund"))
        \/ a \in G!Accepted(r) \cup G!Refused(r)
    BY <1>9 DEF G!Cancel
  <2>3. a.row \in {G!RefundDone(r), G!Mark(r, "refund"), r} \/ (a.row = G!To(r, "CANCELLED") /\ r.status = "PENDING_PAYMENT")
    BY <2>2, AnswerRow
  <2> QED BY <1>1, <1>2, <1>3, <2>1, <2>3
<1>10. CASE a \in G!OpenDispute(r)
  <2>1. Keeps(G!Mark(G!To(r, "DISPUTED"), "dispute"), r)
    BY <1>1, OrderStatuses, ToRow, MarkRow DEF RowOK, Keeps
  <2> QED BY <1>1, <1>10, <2>1, AnswerRow DEF G!AcceptedIf, G!OpenDispute
<1>11. CASE a \in G!Rate(r)
  <2>1. Keeps(G!Mark(r, "rated"), r)
    BY <1>1, MarkRow DEF RowOK, Keeps
  <2> QED BY <1>1, <1>11, <2>1, AnswerRow DEF G!AcceptedIf, G!Rate
<1>12. CASE a \in G!RetryRefundOf(r)
  <2>1. a \in G!Accepted(r) \/ a \in G!Accepted(G!RefundDone(r))
    BY <1>12 DEF G!RetryRefundOf
  <2> QED BY <1>1, <1>3, <2>1, AnswerRow
<1>13. CASE a \in G!Refused(r)
  BY <1>1, <1>13, AnswerRow
<1> QED BY <1>4, <1>5, <1>6, <1>7, <1>8, <1>9, <1>10, <1>11, <1>12, <1>13 DEF G!OrderAnswers

(* The rules of the other rows.                                            *)
RuleKinds == {"payout", "refund", "dispute", "report", "issue", "submission"}

LEMMA RuleAnswer ==
  ASSUME NEW r, NEW op, NEW a \in G!RuleAnswers(r, op)
  PROVE  \/ a.ok = FALSE /\ a.row = r /\ \A x \in G!RulesOf(r.kind) : x.op = op => r.status \notin x.from
         \/ a.ok = TRUE /\ \E x \in G!RulesOf(r.kind) : x.op = op /\ r.status \in x.from /\ a.row = G!To(r, x.to)
<1> DEFINE fit == {x \in G!RulesOf(r.kind) : x.op = op /\ r.status \in x.from}
<1>1. CASE fit = {}
  <2>1. a \in G!Refused(r)
    BY <1>1 DEF G!RuleAnswers
  <2> QED BY <1>1, <2>1, AnswerRow
<1>2. CASE fit # {}
  <2>1. PICK x \in fit : a \in G!Accepted(G!To(r, x.to))
    BY <1>2 DEF G!RuleAnswers
  <2> QED BY <2>1, AnswerRow
<1> QED BY <1>1, <1>2

LEMMA RuleFires ==
  ASSUME NEW r, NEW x \in G!RulesOf(r.kind), r.status \in x.from
  PROVE  \E a \in G!RuleAnswers(r, x.op) : a.ok = TRUE /\ a.row = G!To(r, x.to)
<1> DEFINE fit == {y \in G!RulesOf(r.kind) : y.op = x.op /\ r.status \in y.from}
<1>1. x \in fit
  OBVIOUS
<1>2. [ok |-> TRUE, row |-> G!To(r, x.to)] \in G!RuleAnswers(r, x.op)
  BY <1>1 DEF G!RuleAnswers, G!Accepted
<1> QED BY <1>2

LEMMA RuleStatuses ==
  ASSUME NEW k \in RuleKinds
  PROVE  G!Statuses(k) = UNION {x.from \cup {x.to} : x \in G!RulesOf(k)}
  BY DEF G!Statuses, RuleKinds

LEMMA RuleAnswerKeeps ==
  ASSUME NEW r, RowOK(r), r.kind \in RuleKinds, NEW op, NEW a \in G!RuleAnswers(r, op)
  PROVE  Keeps(a.row, r)
<1>1. CASE a.row = r
  BY <1>1 DEF Keeps
<1>2. ASSUME NEW x \in G!RulesOf(r.kind), a.row = G!To(r, x.to) PROVE Keeps(a.row, r)
  <2>1. x.to \in G!Statuses(r.kind) /\ r \in RowRec /\ r.kind \in PageKinds
    BY RuleStatuses DEF RowOK, RowRec
  <2>2. x.to \in RowStatus
    BY <2>1, StatusKnown
  <2>3. r.kind # "order"
    BY DEF RuleKinds
  <2> QED BY <1>2, <2>1, <2>2, <2>3, ToRow DEF RowOK, Keeps
<1> QED BY <1>1, <1>2, RuleAnswer

LEMMA ListingStatuses == G!Statuses("listing") = {"ACTIVE", "PAUSED", "SOLD", "CANCELLED"}
  BY DEF G!Statuses

LEMMA ListingTo ==
  ASSUME NEW r, RowOK(r), r.kind = "listing", NEW s \in G!Statuses("listing") PROVE Keeps(G!To(r, s), r)
<1>1. s \in RowStatus /\ r \in RowRec
  BY StatusKnown DEF RowOK, PageKinds
<1> QED BY <1>1, ToRow DEF RowOK, Keeps

LEMMA ListingAnswer ==
  ASSUME NEW r, RowOK(r), r.kind = "listing", NEW op \in ListingOps, NEW a \in G!ListingAnswers(r, op)
  PROVE  Keeps(a.row, r)
<1>1. Keeps(r, r) /\ \A s \in {"ACTIVE", "PAUSED", "CANCELLED"} : Keeps(G!To(r, s), r)
  BY ListingStatuses, ListingTo DEF Keeps
<1>2. a \in G!Pause(r) \/ a \in G!Activate(r) \/ a \in G!Delete(r)
  BY DEF G!ListingAnswers, ListingOps
<1> QED BY <1>1, <1>2, AnswerRow DEF G!AcceptedIf, G!Pause, G!Activate, G!Delete

LEMMA AnswersKeep ==
  ASSUME NEW r, RowOK(r), NEW op, r.kind = "listing" => op \in ListingOps, NEW a \in G!Answers(r, op)
  PROVE  Keeps(a.row, r)
<1>1. r.kind \in PageKinds
  BY DEF RowOK, RowRec
<1>2. CASE r.kind = "order"
  BY <1>2, OrderAnswer DEF G!Answers
<1>3. CASE r.kind = "listing"
  BY <1>3, ListingAnswer DEF G!Answers
<1>4. CASE r.kind \in RuleKinds
  <2>1. a \in G!RuleAnswers(r, op) \/ a \in G!Refused(r)
    BY <1>4 DEF G!Answers, G!SubmissionAnswers, RuleKinds
  <2>2. a \in G!Refused(r) => Keeps(a.row, r)
    BY AnswerRow DEF Keeps
  <2> QED BY <1>4, <2>1, <2>2, RuleAnswerKeeps
<1> QED BY <1>1, <1>2, <1>3, <1>4 DEF PageKinds, RuleKinds

LEMMA ByItselfKeeps == ASSUME NEW r, RowOK(r), NEW x \in G!ByItself(r) PROVE Keeps(x, r)
<1>1. r \in RowRec /\ Keeps(r, r) /\ \A s \in G!Statuses(r.kind) : s \in RowStatus
  BY StatusKnown DEF RowOK, RowRec, Keeps
<1>2. CASE r.kind = "order"
  <2>1. x \in G!PaidOrExpired(r) \/ x \in G!PaidLate(r) \/ x \in G!RefundEnds(r) \/ x \in G!DisputeCloses(r)
    BY <1>2 DEF G!ByItself, G!OrderByItself
  <2>2. CASE x \in G!PaidOrExpired(r)
    <3>1. r.status = "PENDING_PAYMENT" /\ \E s \in {"PAID", "CANCELLED"} : x = G!To(r, s)
      BY <2>2 DEF G!PaidOrExpired, G!When
    <3> QED BY <1>1, <1>2, <3>1, OrderStatuses, ToRow DEF RowOK, Keeps
  <2>3. CASE x \in G!PaidLate(r)
    BY <1>1, <1>2, <2>3, MarkRow DEF G!PaidLate, G!When, RowOK, Keeps
  <2>4. CASE x \in G!RefundEnds(r)
    BY <1>2, <2>4, RefundDoneRow DEF G!RefundEnds, G!When, Keeps
  <2>5. CASE x \in G!DisputeCloses(r)
    BY <1>1, <1>2, <2>5, UnmarkRow DEF G!DisputeCloses, RowOK, Keeps
  <2> QED BY <2>1, <2>2, <2>3, <2>4, <2>5
<1>3. CASE r.kind = "payout"
  <2>1. x = G!To(r, "CANCELLED")
    BY <1>3 DEF G!ByItself, G!Withdrawn, G!When
  <2>2. "CANCELLED" \in G!Statuses("payout")
    <3>1. G!Rule("cancel", {"PENDING", "APPROVED"}, "CANCELLED") \in G!RulesOf("payout")
      BY DEF G!RulesOf, G!PayoutRules
    <3>2. G!Rule("cancel", {"PENDING", "APPROVED"}, "CANCELLED").to = "CANCELLED"
      BY DEF G!Rule
    <3> QED BY <3>1, <3>2, RuleStatuses DEF RuleKinds
  <2> QED BY <1>1, <1>3, <2>1, <2>2, ToRow DEF RowOK, Keeps
<1>4. CASE r.kind = "listing"
  <2>1. \A s \in {"ACTIVE", "PAUSED", "SOLD"} : Keeps(G!To(r, s), r)
    BY <1>4, ListingStatuses, ListingTo
  <2>2. x \in G!SoldOut(r) \/ x \in G!Restocked(r) \/ x \in G!SellerSuspended(r) \/ x \in G!SellerRestored(r)
    BY <1>4 DEF G!ByItself, G!ListingByItself
  <2>3. CASE x \in G!SoldOut(r) \/ x \in G!Restocked(r)
    BY <2>1, <2>3 DEF G!SoldOut, G!Restocked, G!When
  <2>4. CASE x \in G!SellerSuspended(r)
    <3>1. PICK y : Keeps(y, r) /\ x = G!Mark(y, "suspended")
      BY <1>1, <2>1, <2>4 DEF G!SellerSuspended
    <3> QED BY <1>4, <3>1, MarkRow DEF RowOK, Keeps
  <2>5. CASE x \in G!SellerRestored(r)
    BY <1>1, <1>4, <2>5, UnmarkRow DEF G!SellerRestored, RowOK, Keeps
  <2> QED BY <2>2, <2>3, <2>4, <2>5
<1>5. CASE r.kind \notin {"order", "payout", "listing"}
  BY <1>5 DEF G!ByItself
<1> QED BY <1>2, <1>3, <1>4, <1>5

(* What the pages are.                                                     *)
PageFit(p) ==
    /\ G!Pages[p].kind \in PageKinds
    /\ \A op \in DOMAIN G!Pages[p].after :
          /\ After(p, op) = "append" => G!Pages[p].kind = "dispute" /\ op \in {"message", "evidence"}
          /\ G!Pages[p].kind = "listing" => op \in ListingOps
    /\ (\A op \in DOMAIN G!Pages[p].after : After(p, op) \notin {"refetch", "push"})
       \/ \A op \in DOMAIN G!Pages[p].after : After(p, op) \in {"refetch", "push"}

LEMMA PagesAreFit == ASSUME NEW p \in G!PageName PROVE PageFit(p)
<1> USE DEF PageFit, After, PageKinds, ListingOps, G!Page, G!Each, G!++
<1>1. CASE p = "webPurchase"
  <2>1. G!Pages[p] = G!WebPurchase
    BY <1>1 DEF G!Pages
  <2> QED BY <2>1 DEF G!WebPurchase
<1>2. CASE p = "webSale"
  <2>1. G!Pages[p] = G!WebSale
    BY <1>2 DEF G!Pages
  <2> QED BY <2>1 DEF G!WebSale
<1>3. CASE p = "webDispute"
  <2>1. G!Pages[p] = G!WebDispute
    BY <1>3 DEF G!Pages
  <2> QED BY <2>1 DEF G!WebDispute
<1>4. CASE p = "webSubmission"
  <2>1. G!Pages[p] = G!WebSubmission
    BY <1>4 DEF G!Pages
  <2> QED BY <2>1 DEF G!WebSubmission
<1>5. CASE p = "webListing"
  <2>1. G!Pages[p] = G!WebListing
    BY <1>5 DEF G!Pages
  <2> QED BY <2>1 DEF G!WebListing
<1>6. CASE p = "mobilePurchase"
  <2>1. G!Pages[p] = G!MobilePurchase
    BY <1>6 DEF G!Pages
  <2> QED BY <2>1 DEF G!MobilePurchase
<1>7. CASE p = "mobileSale"
  <2>1. G!Pages[p] = G!MobileSale
    BY <1>7 DEF G!Pages
  <2> QED BY <2>1 DEF G!MobileSale
<1>8. CASE p = "mobileDispute"
  <2>1. G!Pages[p] = G!MobileDispute
    BY <1>8 DEF G!Pages
  <2> QED BY <2>1 DEF G!MobileDispute
<1>9. CASE p = "mobileListing"
  <2>1. G!Pages[p] = G!MobileListing
    BY <1>9 DEF G!Pages
  <2> QED BY <2>1 DEF G!MobileListing
<1>10. CASE p = "adminOrder"
  <2>1. G!Pages[p] = G!AdminOrder
    BY <1>10 DEF G!Pages
  <2> QED BY <2>1 DEF G!AdminOrder
<1>11. CASE p = "adminPayout"
  <2>1. G!Pages[p] = G!AdminPayout
    BY <1>11 DEF G!Pages
  <2> QED BY <2>1 DEF G!AdminPayout
<1>12. CASE p = "adminRefund"
  <2>1. G!Pages[p] = G!AdminRefund
    BY <1>12 DEF G!Pages
  <2> QED BY <2>1 DEF G!AdminRefund
<1>13. CASE p = "adminDispute"
  <2>1. G!Pages[p] = G!AdminDispute
    BY <1>13 DEF G!Pages
  <2> QED BY <2>1 DEF G!AdminDispute
<1>14. CASE p = "adminReport"
  <2>1. G!Pages[p] = G!AdminReport
    BY <1>14 DEF G!Pages
  <2> QED BY <2>1 DEF G!AdminReport
<1>15. CASE p = "adminIssue"
  <2>1. G!Pages[p] = G!AdminIssue
    BY <1>15 DEF G!Pages
  <2> QED BY <2>1 DEF G!AdminIssue
<1>16. CASE p = "adminSubmission"
  <2>1. G!Pages[p] = G!AdminSubmission
    BY <1>16 DEF G!Pages
  <2> QED BY <2>1 DEF G!AdminSubmission
<1> QED BY <1>1, <1>2, <1>3, <1>4, <1>5, <1>6, <1>7, <1>8, <1>9, <1>10, <1>11, <1>12, <1>13, <1>14, <1>15, <1>16 DEF G!PageName, G!Pages

\* A rule of a kind of row lets an operation take it from one status to another.
Moves(k, op, s, t) == \E x \in G!RulesOf(k) : x.op = op /\ s \in x.from /\ x.to = t

LEMMA RuleMoves ==
  ASSUME NEW k, NEW op, NEW from, NEW t, G!Rule(op, from, t) \in G!RulesOf(k), NEW s \in from
  PROVE  Moves(k, op, s, t)
<1>1. G!Rule(op, from, t).op = op /\ G!Rule(op, from, t).from = from /\ G!Rule(op, from, t).to = t
  BY DEF G!Rule
<1> QED BY <1>1 DEF Moves

LEMMA RuleAccepts ==
  ASSUME NEW r, NEW op, NEW t, Moves(r.kind, op, r.status, t), NEW a \in G!RuleAnswers(r, op)
  PROVE  a.ok = TRUE
BY RuleAnswer DEF Moves

LEMMA PayoutMoves ==
  /\ Moves("payout", "approve", "PENDING", "APPROVED")
  /\ \A s \in {"APPROVED", "FAILED"} : Moves("payout", "process", s, "PROCESSING")
  /\ Moves("payout", "pay", "PROCESSING", "PAID") /\ Moves("payout", "fail", "PROCESSING", "FAILED")
  /\ \A s \in {"PENDING", "APPROVED"} : Moves("payout", "cancel", s, "CANCELLED")
  /\ G!Statuses("payout") \subseteq {"PENDING", "APPROVED", "FAILED", "PROCESSING", "PAID", "CANCELLED"}
<1>1. G!RulesOf("payout") = G!PayoutRules
  BY DEF G!RulesOf
<1>2. \A x \in G!PayoutRules : x.from \cup {x.to} \subseteq {"PENDING", "APPROVED", "FAILED", "PROCESSING", "PAID", "CANCELLED"}
  BY DEF G!PayoutRules, G!Rule
<1>3. G!Statuses("payout") \subseteq {"PENDING", "APPROVED", "FAILED", "PROCESSING", "PAID", "CANCELLED"}
  BY <1>1, <1>2, RuleStatuses DEF RuleKinds
<1> QED BY <1>1, <1>3, RuleMoves DEF G!PayoutRules

LEMMA RefundMoves ==
  /\ \A s \in {"PENDING", "FAILED"} : Moves("refund", "retry", s, "COMPLETED")
  /\ G!Statuses("refund") \subseteq {"PENDING", "FAILED", "COMPLETED"}
<1>1. G!RulesOf("refund") = G!RefundRules
  BY DEF G!RulesOf
<1>2. \A x \in G!RefundRules : x.from \cup {x.to} \subseteq {"PENDING", "FAILED", "COMPLETED"}
  BY DEF G!RefundRules, G!Rule
<1>3. G!Statuses("refund") \subseteq {"PENDING", "FAILED", "COMPLETED"}
  BY <1>1, <1>2, RuleStatuses DEF RuleKinds
<1> QED BY <1>1, <1>3, RuleMoves DEF G!RefundRules

LEMMA DisputeMoves ==
  /\ \A s \in G!ActiveDispute :
        /\ Moves("dispute", "message", s, s) /\ Moves("dispute", "evidence", s, s) /\ Moves("dispute", "assign", s, s)
        /\ Moves("dispute", "forBuyer", s, "RESOLVED_BUYER") /\ Moves("dispute", "forSeller", s, "RESOLVED_SELLER")
        /\ Moves("dispute", "drop", s, "CANCELLED")
        /\ s # "UNDER_REVIEW" => Moves("dispute", "review", s, "UNDER_REVIEW")
  /\ G!Statuses("dispute") \subseteq G!ActiveDispute \cup {"RESOLVED_BUYER", "RESOLVED_SELLER", "CANCELLED"}
<1>1. G!RulesOf("dispute") = G!StatusRules \cup G!ResolveRules \cup G!NoteRules
  BY DEF G!RulesOf
<1>2. G!Statuses("dispute") = UNION {x.from \cup {x.to} : x \in G!StatusRules \cup G!ResolveRules \cup G!NoteRules}
  BY <1>1, RuleStatuses DEF RuleKinds
<1>3. \A x \in G!StatusRules \cup G!ResolveRules \cup G!NoteRules :
         x.from \cup {x.to} \subseteq G!ActiveDispute \cup {"RESOLVED_BUYER", "RESOLVED_SELLER", "CANCELLED"}
  BY DEF G!StatusRules, G!ResolveRules, G!NoteRules, G!Rule, G!ActiveDispute
<1>4. ASSUME NEW s \in G!ActiveDispute, NEW op \in {"message", "evidence", "assign"}
      PROVE  G!Rule(op, {s}, s) \in G!NoteRules
  BY SMT DEF G!NoteRules, G!Rule, G!ActiveDispute
<1>5. \A s \in G!ActiveDispute :
        /\ Moves("dispute", "message", s, s) /\ Moves("dispute", "evidence", s, s) /\ Moves("dispute", "assign", s, s)
  BY <1>1, <1>4, RuleMoves
<1>6. \A s \in G!ActiveDispute :
        /\ Moves("dispute", "forBuyer", s, "RESOLVED_BUYER") /\ Moves("dispute", "forSeller", s, "RESOLVED_SELLER")
        /\ Moves("dispute", "drop", s, "CANCELLED")
        /\ s # "UNDER_REVIEW" => Moves("dispute", "review", s, "UNDER_REVIEW")
  BY <1>1, RuleMoves DEF G!StatusRules, G!ResolveRules
<1> QED BY <1>2, <1>3, <1>5, <1>6

LEMMA ReportMoves ==
  /\ \A s \in {"OPEN", "IN_REVIEW"} :
        /\ Moves("report", "assign", s, "IN_REVIEW") /\ Moves("report", "resolve", s, "RESOLVED")
        /\ Moves("report", "dismiss", s, "DISMISSED")
  /\ G!Statuses("report") \subseteq {"OPEN", "IN_REVIEW", "RESOLVED", "DISMISSED"}
<1>1. G!RulesOf("report") = G!ReportRules
  BY DEF G!RulesOf
<1>2. \A x \in G!ReportRules : x.from \cup {x.to} \subseteq {"OPEN", "IN_REVIEW", "RESOLVED", "DISMISSED"}
  BY DEF G!ReportRules, G!Rule
<1>3. G!Statuses("report") \subseteq {"OPEN", "IN_REVIEW", "RESOLVED", "DISMISSED"}
  BY <1>1, <1>2, RuleStatuses DEF RuleKinds
<1> QED BY <1>1, <1>3, RuleMoves DEF G!ReportRules

LEMMA IssueMoves ==
  /\ \A s \in {"OPEN", "ACKNOWLEDGED"} :
        /\ Moves("issue", "acknowledge", s, "ACKNOWLEDGED") /\ Moves("issue", "resolve", s, "RESOLVED")
        /\ Moves("issue", "ignore", s, "IGNORED")
  /\ G!Statuses("issue") \subseteq {"OPEN", "ACKNOWLEDGED", "RESOLVED", "IGNORED"}
<1>1. G!RulesOf("issue") = G!IssueRules
  BY DEF G!RulesOf
<1>2. \A x \in G!IssueRules : x.from \cup {x.to} \subseteq {"OPEN", "ACKNOWLEDGED", "RESOLVED", "IGNORED"}
  BY DEF G!IssueRules, G!Rule
<1>3. G!Statuses("issue") \subseteq {"OPEN", "ACKNOWLEDGED", "RESOLVED", "IGNORED"}
  BY <1>1, <1>2, RuleStatuses DEF RuleKinds
<1> QED BY <1>1, <1>3, RuleMoves DEF G!IssueRules

LEMMA SubmissionMoves ==
  /\ \A s \in G!Reviewable :
        /\ Moves("submission", "reject", s, "REJECTED") /\ Moves("submission", "duplicate", s, "DUPLICATE")
        /\ Moves("submission", "askInfo", s, "NEEDS_INFO")
  /\ Moves("submission", "resubmit", "NEEDS_INFO", "PENDING")
  /\ G!Statuses("submission") \subseteq G!Reviewable \cup {"APPROVED", "REJECTED", "DUPLICATE"}
<1>1. G!RulesOf("submission") = G!ReviewRules \cup G!ResubmitRules
  BY DEF G!RulesOf
<1>2. \A x \in G!ReviewRules \cup G!ResubmitRules : x.from \cup {x.to} \subseteq G!Reviewable \cup {"APPROVED", "REJECTED", "DUPLICATE"}
  BY DEF G!ReviewRules, G!ResubmitRules, G!Rule, G!Reviewable
<1>3. G!Statuses("submission") \subseteq G!Reviewable \cup {"APPROVED", "REJECTED", "DUPLICATE"}
  BY <1>1, <1>2, RuleStatuses DEF RuleKinds
<1> QED BY <1>1, <1>3, RuleMoves DEF G!ReviewRules, G!ResubmitRules

LEMMA OffersAccepted ==
  ASSUME NEW p \in G!PageName, NEW r, RowOK(r), G!Pages[p].kind = r.kind,
         NEW op \in G!Offers(p, r), NEW a \in G!Answers(r, op), a.ok # TRUE
  PROVE  G!OffersTooMuch(p, op, r)
<1>1. CASE p = "webPurchase"
  <2>1. r.kind = "order" /\ op \in G!WebPurchaseOffers(r)
    BY <1>1 DEF G!Pages, G!WebPurchase, G!Page, G!Offers
  <2>2. a \in G!OrderAnswers(r, op)
    BY <2>1 DEF G!Answers
  <2> QED BY <1>1, <2>1, <2>2, AnswerRow, OrderStatuses
       DEF G!WebPurchaseOffers, G!OrderAnswers, G!AcceptedIf, G!Prepare, G!Ship, G!Deliver, G!Confirm, G!Cancel,
           G!OpenDispute, G!Rate, G!RetryRefundOf, G!OffersTooMuch, G!OpenOrderStatuses, RowOK
<1>2. CASE p = "webSale"
  <2>1. r.kind = "order" /\ op \in G!WebSaleOffers(r)
    BY <1>2 DEF G!Pages, G!WebSale, G!Page, G!Offers
  <2>2. a \in G!OrderAnswers(r, op)
    BY <2>1 DEF G!Answers
  <2> QED BY <1>2, <2>1, <2>2, AnswerRow, OrderStatuses
       DEF G!WebSaleOffers, G!OrderAnswers, G!AcceptedIf, G!Prepare, G!Ship, G!Deliver, G!Confirm, G!Cancel,
           G!OpenDispute, G!Rate, G!RetryRefundOf, G!OffersTooMuch, G!OpenOrderStatuses, RowOK
<1>3. CASE p = "webDispute"
  <2>1. r.kind = "dispute" /\ op \in G!WebDisputeOffers(r)
    BY <1>3 DEF G!Pages, G!WebDispute, G!Page, G!Offers
  <2>2. a \in G!RuleAnswers(r, op) \/ op = "approve"
    BY <2>1, AnswerRow DEF G!Answers, G!SubmissionAnswers
  <2> QED BY <1>3, <2>1, <2>2, RuleAccepts, DisputeMoves
       DEF G!WebDisputeOffers, G!OffersTooMuch, RowOK
<1>4. CASE p = "webSubmission"
  <2>1. r.kind = "submission" /\ op \in G!WebSubmissionOffers(r)
    BY <1>4 DEF G!Pages, G!WebSubmission, G!Page, G!Offers
  <2>2. a \in G!RuleAnswers(r, op) \/ op = "approve"
    BY <2>1, AnswerRow DEF G!Answers, G!SubmissionAnswers
  <2> QED BY <1>4, <2>1, <2>2, RuleAccepts, SubmissionMoves
       DEF G!WebSubmissionOffers, G!OffersTooMuch, RowOK
<1>5. CASE p = "webListing"
  <2>1. r.kind = "listing" /\ op \in G!WebListingOffers(r)
    BY <1>5 DEF G!Pages, G!WebListing, G!Page, G!Offers
  <2>2. a \in G!ListingAnswers(r, op)
    BY <2>1 DEF G!Answers
  <2> QED BY <1>5, <2>1, <2>2, AnswerRow, ListingStatuses
       DEF G!WebListingOffers, G!ListingAnswers, G!AcceptedIf, G!Pause, G!Activate, G!Delete, G!OffersTooMuch, RowOK
<1>6. CASE p = "mobilePurchase"
  <2>1. r.kind = "order" /\ op \in G!MobilePurchaseOffers(r)
    BY <1>6 DEF G!Pages, G!MobilePurchase, G!Page, G!Offers
  <2>2. a \in G!OrderAnswers(r, op)
    BY <2>1 DEF G!Answers
  <2> QED BY <1>6, <2>1, <2>2, AnswerRow, OrderStatuses
       DEF G!MobilePurchaseOffers, G!OrderAnswers, G!AcceptedIf, G!Prepare, G!Ship, G!Deliver, G!Confirm, G!Cancel,
           G!OpenDispute, G!Rate, G!RetryRefundOf, G!OffersTooMuch, G!OpenOrderStatuses, RowOK
<1>7. CASE p = "mobileSale"
  <2>1. r.kind = "order" /\ op \in G!MobileSaleOffers(r)
    BY <1>7 DEF G!Pages, G!MobileSale, G!Page, G!Offers
  <2>2. a \in G!OrderAnswers(r, op)
    BY <2>1 DEF G!Answers
  <2> QED BY <1>7, <2>1, <2>2, AnswerRow, OrderStatuses
       DEF G!MobileSaleOffers, G!OrderAnswers, G!AcceptedIf, G!Prepare, G!Ship, G!Deliver, G!Confirm, G!Cancel,
           G!OpenDispute, G!Rate, G!RetryRefundOf, G!OffersTooMuch, G!OpenOrderStatuses, RowOK
<1>8. CASE p = "mobileDispute"
  <2>1. r.kind = "dispute" /\ op \in G!MobileDisputeOffers(r)
    BY <1>8 DEF G!Pages, G!MobileDispute, G!Page, G!Offers
  <2>2. a \in G!RuleAnswers(r, op) \/ op = "approve"
    BY <2>1, AnswerRow DEF G!Answers, G!SubmissionAnswers
  <2> QED BY <1>8, <2>1, <2>2, RuleAccepts, DisputeMoves
       DEF G!MobileDisputeOffers, G!OffersTooMuch, RowOK
<1>9. CASE p = "mobileListing"
  <2>1. r.kind = "listing" /\ op \in G!MobileListingOffers(r)
    BY <1>9 DEF G!Pages, G!MobileListing, G!Page, G!Offers
  <2>2. a \in G!ListingAnswers(r, op)
    BY <2>1 DEF G!Answers
  <2> QED BY <1>9, <2>1, <2>2, AnswerRow, ListingStatuses
       DEF G!MobileListingOffers, G!ListingAnswers, G!AcceptedIf, G!Pause, G!Activate, G!Delete, G!OffersTooMuch, RowOK
<1>10. CASE p = "adminOrder"
  <2>1. r.kind = "order" /\ op \in G!AdminOrderOffers(r)
    BY <1>10 DEF G!Pages, G!AdminOrder, G!Page, G!Offers
  <2>2. a \in G!OrderAnswers(r, op)
    BY <2>1 DEF G!Answers
  <2>3. op \in {"cancel", "retry"} /\ (op = "cancel" => r.status \in {"PENDING_PAYMENT", "PAID", "PREPARING"})
    BY <2>1 DEF G!AdminOrderOffers, G!Cancelable
  <2>4. CASE op = "cancel"
    <3>1. r.status # "PENDING_PAYMENT"
      BY <2>2, <2>4, AnswerRow DEF G!OrderAnswers, G!Cancel
    <3> QED BY <2>3, <2>4, <3>1 DEF G!OffersTooMuch
  <2>5. CASE op = "retry"
    <3>1. a \in G!Accepted(r) \/ a \in G!Accepted(G!RefundDone(r))
      BY <2>2, <2>5 DEF G!OrderAnswers, G!RetryRefundOf
    <3> QED BY <3>1, AnswerRow
  <2> QED BY <2>3, <2>4, <2>5
<1>11. CASE p = "adminPayout"
  <2>1. r.kind = "payout" /\ op \in G!AdminPayoutOffers(r)
    BY <1>11 DEF G!Pages, G!AdminPayout, G!Page, G!Offers
  <2>2. a \in G!RuleAnswers(r, op) \/ op = "approve"
    BY <2>1, AnswerRow DEF G!Answers, G!SubmissionAnswers
  <2>3. \/ r.status = "PENDING" /\ op \in {"approve", "cancel"}
        \/ r.status = "APPROVED" /\ op \in {"process", "cancel"}
        \/ r.status = "FAILED" /\ op = "process"
        \/ r.status = "PROCESSING" /\ op \in {"pay", "fail"}
    BY <2>1 DEF G!AdminPayoutOffers
  <2>4. \E t : Moves("payout", op, r.status, t)
    BY <2>3, PayoutMoves
  <2>5. a \in G!RuleAnswers(r, op)
    BY <2>1 DEF G!Answers
  <2> QED BY <2>1, <2>4, <2>5, RuleAccepts
<1>12. CASE p = "adminRefund"
  <2>1. r.kind = "refund" /\ op \in G!AdminRefundOffers(r)
    BY <1>12 DEF G!Pages, G!AdminRefund, G!Page, G!Offers
  <2>2. a \in G!RuleAnswers(r, op) \/ op = "approve"
    BY <2>1, AnswerRow DEF G!Answers, G!SubmissionAnswers
  <2> QED BY <1>12, <2>1, <2>2, RuleAccepts, RefundMoves
       DEF G!AdminRefundOffers, G!OffersTooMuch, RowOK
<1>13. CASE p = "adminDispute"
  <2>1. r.kind = "dispute" /\ op \in G!AdminDisputeOffers(r)
    BY <1>13 DEF G!Pages, G!AdminDispute, G!Page, G!Offers
  <2>2. a \in G!RuleAnswers(r, op) \/ op = "approve"
    BY <2>1, AnswerRow DEF G!Answers, G!SubmissionAnswers
  <2> QED BY <1>13, <2>1, <2>2, RuleAccepts, DisputeMoves
       DEF G!AdminDisputeOffers, G!OffersTooMuch, RowOK
<1>14. CASE p = "adminReport"
  <2>1. r.kind = "report" /\ op \in G!AdminReportOffers(r)
    BY <1>14 DEF G!Pages, G!AdminReport, G!Page, G!Offers
  <2>2. a \in G!RuleAnswers(r, op) \/ op = "approve"
    BY <2>1, AnswerRow DEF G!Answers, G!SubmissionAnswers
  <2> QED BY <1>14, <2>1, <2>2, RuleAccepts, ReportMoves
       DEF G!AdminReportOffers, G!OffersTooMuch, RowOK
<1>15. CASE p = "adminIssue"
  <2>1. r.kind = "issue" /\ op \in G!AdminIssueOffers(r)
    BY <1>15 DEF G!Pages, G!AdminIssue, G!Page, G!Offers
  <2>2. a \in G!RuleAnswers(r, op) \/ op = "approve"
    BY <2>1, AnswerRow DEF G!Answers, G!SubmissionAnswers
  <2> QED BY <1>15, <2>1, <2>2, RuleAccepts, IssueMoves
       DEF G!AdminIssueOffers, G!OffersTooMuch, RowOK
<1>16. CASE p = "adminSubmission"
  <2>1. r.kind = "submission" /\ op \in G!AdminSubmissionOffers(r)
    BY <1>16 DEF G!Pages, G!AdminSubmission, G!Page, G!Offers
  <2>2. a \in G!RuleAnswers(r, op) \/ op = "approve"
    BY <2>1, AnswerRow DEF G!Answers, G!SubmissionAnswers
  <2> QED BY <1>16, <2>1, <2>2, RuleAccepts, SubmissionMoves
       DEF G!AdminSubmissionOffers, G!OffersTooMuch, RowOK
<1> QED BY <1>1, <1>2, <1>3, <1>4, <1>5, <1>6, <1>7, <1>8, <1>9, <1>10, <1>11, <1>12, <1>13, <1>14, <1>15, <1>16 DEF G!PageName, G!Pages

\* A message or an evidence leaves the dispute's row as it is.
LEMMA NoteKeeps ==
  ASSUME NEW r, RowOK(r), r.kind = "dispute", NEW op \in {"message", "evidence"}, NEW a \in G!Answers(r, op)
  PROVE  a.row = r
<1>1. a \in G!RuleAnswers(r, op)
  BY DEF G!Answers
<1>2. \A x \in G!RulesOf(r.kind) : x.op = op => x.from = {x.to}
  BY DEF G!RulesOf, G!StatusRules, G!ResolveRules, G!NoteRules, G!Rule
<1>3. G!To(r, r.status) = r
  BY DEF G!To, RowOK, RowRec
<1>4. ASSUME NEW x \in G!RulesOf(r.kind), x.op = op, r.status \in x.from PROVE G!To(r, x.to) = r
  <2>1. r.status = x.to
    BY <1>2, <1>4
  <2> QED BY <1>3, <2>1
<1>5. a.row = r \/ \E x \in G!RulesOf(r.kind) : x.op = op /\ r.status \in x.from /\ a.row = G!To(r, x.to)
  BY <1>1, RuleAnswer
<1> QED BY <1>4, <1>5

(* Someone can take every row onwards.                                     *)
LEMMA Acts ==
  ASSUME NEW p \in G!PageName, G!Pages[p].kind = row.kind, NEW op \in G!Offers(p, row), op # "dispute",
         NEW a \in G!Answers(row, op), a.ok = TRUE, a.row.status # row.status
  PROVE  G!SomeoneCanAct
BY DEF G!SomeoneCanAct

LEMMA RuleActs ==
  ASSUME RowOK(row), row.kind \in RuleKinds, NEW p \in G!PageName, G!Pages[p].kind = row.kind,
         NEW op \in G!Offers(p, row), op # "dispute", NEW t, Moves(row.kind, op, row.status, t), t # row.status
  PROVE  G!SomeoneCanAct
<1>1. PICK x \in G!RulesOf(row.kind) : x.op = op /\ row.status \in x.from /\ x.to = t
  BY DEF Moves
<1>2. PICK a \in G!RuleAnswers(row, op) : a.ok = TRUE /\ a.row = G!To(row, t)
  BY <1>1, RuleFires
<1>3. a \in G!Answers(row, op) /\ a.row.status = t
  BY <1>2 DEF G!Answers, G!SubmissionAnswers, RuleKinds, G!To, RowOK, RowRec
<1> QED BY <1>2, <1>3, Acts

LEMMA PageKind ==
  /\ \A p \in {"webPurchase", "webSale", "adminOrder"} : p \in G!PageName /\ G!Pages[p].kind = "order"
  /\ "webListing" \in G!PageName /\ G!Pages["webListing"].kind = "listing"
  /\ "adminPayout" \in G!PageName /\ G!Pages["adminPayout"].kind = "payout"
  /\ "adminRefund" \in G!PageName /\ G!Pages["adminRefund"].kind = "refund"
  /\ "adminDispute" \in G!PageName /\ G!Pages["adminDispute"].kind = "dispute"
  /\ "adminReport" \in G!PageName /\ G!Pages["adminReport"].kind = "report"
  /\ "adminIssue" \in G!PageName /\ G!Pages["adminIssue"].kind = "issue"
  /\ "adminSubmission" \in G!PageName /\ G!Pages["adminSubmission"].kind = "submission"
BY DEF G!PageName, G!Pages, G!Page, G!WebPurchase, G!WebSale, G!AdminOrder, G!WebListing, G!AdminPayout, G!AdminRefund,
       G!AdminDispute, G!AdminReport, G!AdminIssue, G!AdminSubmission

LEMMA CanAct == ASSUME RowOK(row) PROVE G!SomeoneCanAct
<1> USE PageKind
<1>1. row \in RowRec /\ row.kind \in PageKinds /\ row.status \in G!Statuses(row.kind)
  BY DEF RowOK, RowRec
<1> SUFFICES ASSUME ~G!Settled(row) PROVE G!SomeoneCanAct
  BY DEF G!SomeoneCanAct
<1>2. CASE row.kind = "order"
  <2>1. row.status \in {"PENDING_PAYMENT", "PAID", "PREPARING", "SHIPPED", "READY_FOR_MEETUP", "DELIVERED"}
    BY <1>1, <1>2, OrderStatuses DEF G!Settled
  <2>2. \A op : G!Answers(row, op) = G!OrderAnswers(row, op)
    BY <1>2 DEF G!Answers
  <2>3. ASSUME NEW x, NEW p \in {"webPurchase", "webSale", "adminOrder"}, NEW op \in G!Offers(p, row), op # "dispute",
               G!Accepted(x) \subseteq G!OrderAnswers(row, op), x.status # row.status
        PROVE  G!SomeoneCanAct
    <3>1. PICK a \in G!OrderAnswers(row, op) : a.ok = TRUE /\ a.row = x
      BY <2>3 DEF G!Accepted
    <3> QED BY <1>2, <2>2, <2>3, <3>1, Acts
  <2>4. CASE row.status = "PENDING_PAYMENT"
    <3>1. "cancel" \in G!Offers("webPurchase", row)
      BY <2>4 DEF G!Offers, G!WebPurchaseOffers
    <3>2. G!Accepted(G!To(row, "CANCELLED")) \subseteq G!OrderAnswers(row, "cancel")
      BY <2>4 DEF G!OrderAnswers, G!Cancel
    <3>3. G!To(row, "CANCELLED").status # row.status
      BY <1>1, <2>4 DEF G!To, RowRec
    <3> QED BY <2>3, <3>1, <3>2, <3>3
  <2>5. CASE row.status \in {"PAID", "PREPARING"}
    <3>1. "cancel" \in G!Offers("adminOrder", row)
      BY <2>5 DEF G!Offers, G!AdminOrderOffers, G!Cancelable
    <3>2. G!Accepted(G!RefundDone(row)) \subseteq G!OrderAnswers(row, "cancel")
      BY <2>5 DEF G!OrderAnswers, G!Cancel
    <3>3. G!RefundDone(row).status # row.status
      BY <1>2, <2>5, RefundDoneRow
    <3> QED BY <2>3, <3>1, <3>2, <3>3
  <2>6. CASE row.status \in {"SHIPPED", "READY_FOR_MEETUP"}
    <3>1. "deliver" \in G!Offers("webSale", row)
      BY <2>6 DEF G!Offers, G!WebSaleOffers
    <3>2. G!Accepted(G!To(row, "DELIVERED")) \subseteq G!OrderAnswers(row, "deliver")
      BY <2>6 DEF G!OrderAnswers, G!Deliver, G!AcceptedIf
    <3>3. G!To(row, "DELIVERED").status # row.status
      BY <1>1, <2>6 DEF G!To, RowRec
    <3> QED BY <2>3, <3>1, <3>2, <3>3
  <2>7. CASE row.status = "DELIVERED"
    <3>1. "confirm" \in G!Offers("webPurchase", row)
      BY <2>7 DEF G!Offers, G!WebPurchaseOffers
    <3>2. G!Accepted(G!To(row, "COMPLETED")) \subseteq G!OrderAnswers(row, "confirm")
      BY <2>7 DEF G!OrderAnswers, G!Confirm, G!AcceptedIf
    <3>3. G!To(row, "COMPLETED").status # row.status
      BY <1>1, <2>7 DEF G!To, RowRec
    <3> QED BY <2>3, <3>1, <3>2, <3>3
  <2> QED BY <2>1, <2>4, <2>5, <2>6, <2>7
<1>3. CASE row.kind = "listing"
  <2>1. row.status \in {"ACTIVE", "PAUSED"}
    BY <1>1, <1>3, ListingStatuses DEF G!Settled
  <2>2. "delete" \in G!Offers("webListing", row)
    BY DEF G!Offers, G!WebListingOffers
  <2>3. G!Accepted(G!To(row, "CANCELLED")) \subseteq G!Answers(row, "delete")
    BY <1>3, <2>1 DEF G!Answers, G!ListingAnswers, G!Delete, G!AcceptedIf
  <2>4. PICK a \in G!Answers(row, "delete") : a.ok = TRUE /\ a.row = G!To(row, "CANCELLED")
    BY <2>3 DEF G!Accepted
  <2>5. a.row.status # row.status
    BY <1>1, <2>1, <2>4 DEF G!To, RowRec
  <2> QED BY <1>3, <2>2, <2>4, <2>5, Acts
<1>4. CASE row.kind = "payout"
  <2>1. row.status \in {"PENDING", "APPROVED", "FAILED", "PROCESSING"}
    BY <1>1, <1>4, PayoutMoves DEF G!Settled
  <2>2. CASE row.status = "PENDING"
    <3>1. "approve" \in G!Offers("adminPayout", row)
      BY <2>2 DEF G!Offers, G!AdminPayoutOffers
    <3> QED BY <1>4, <2>2, <3>1, PayoutMoves, RuleActs DEF RuleKinds
  <2>3. CASE row.status \in {"APPROVED", "FAILED"}
    <3>1. "process" \in G!Offers("adminPayout", row)
      BY <2>3 DEF G!Offers, G!AdminPayoutOffers
    <3> QED BY <1>4, <2>3, <3>1, PayoutMoves, RuleActs DEF RuleKinds
  <2>4. CASE row.status = "PROCESSING"
    <3>1. "pay" \in G!Offers("adminPayout", row)
      BY <2>4 DEF G!Offers, G!AdminPayoutOffers
    <3> QED BY <1>4, <2>4, <3>1, PayoutMoves, RuleActs DEF RuleKinds
  <2> QED BY <2>1, <2>2, <2>3, <2>4
<1>5. CASE row.kind = "refund"
  <2>1. row.status \in {"PENDING", "FAILED"}
    BY <1>1, <1>5, RefundMoves DEF G!Settled
  <2>2. "retry" \in G!Offers("adminRefund", row)
    BY <2>1 DEF G!Offers, G!AdminRefundOffers
  <2> QED BY <1>5, <2>1, <2>2, RefundMoves, RuleActs DEF RuleKinds
<1>6. CASE row.kind = "dispute"
  <2>1. row.status \in G!ActiveDispute
    BY <1>1, <1>6, DisputeMoves DEF G!Settled
  <2>2. "drop" \in G!Offers("adminDispute", row)
    BY <2>1 DEF G!Offers, G!AdminDisputeOffers
  <2>3. row.status # "CANCELLED"
    BY <2>1 DEF G!ActiveDispute
  <2> QED BY <1>6, <2>1, <2>2, <2>3, DisputeMoves, RuleActs DEF RuleKinds
<1>7. CASE row.kind = "report"
  <2>1. row.status \in {"OPEN", "IN_REVIEW"}
    BY <1>1, <1>7, ReportMoves DEF G!Settled
  <2>2. "resolve" \in G!Offers("adminReport", row)
    BY <2>1 DEF G!Offers, G!AdminReportOffers
  <2> QED BY <1>7, <2>1, <2>2, ReportMoves, RuleActs DEF RuleKinds
<1>8. CASE row.kind = "issue"
  <2>1. row.status \in {"OPEN", "ACKNOWLEDGED"}
    BY <1>1, <1>8, IssueMoves DEF G!Settled
  <2>2. "resolve" \in G!Offers("adminIssue", row)
    BY <2>1 DEF G!Offers, G!AdminIssueOffers
  <2> QED BY <1>8, <2>1, <2>2, IssueMoves, RuleActs DEF RuleKinds
<1>9. CASE row.kind = "submission"
  <2>1. row.status \in G!Reviewable
    BY <1>1, <1>9, SubmissionMoves DEF G!Settled
  <2>2. "reject" \in G!Offers("adminSubmission", row)
    BY DEF G!Offers, G!AdminSubmissionOffers
  <2>3. row.status # "REJECTED"
    BY <2>1 DEF G!Reviewable
  <2> QED BY <1>9, <2>1, <2>2, <2>3, SubmissionMoves, RuleActs DEF RuleKinds
<1> QED BY <1>1, <1>2, <1>3, <1>4, <1>5, <1>6, <1>7, <1>8, <1>9 DEF PageKinds

(* What a step leaves of the requests in flight, and of the page.          *)
LEMMA ViewLater ==
  ASSUME NEW v, NEW r, NEW x, NEW n \in Nat, ViewOf(v, r, n), x.kind = r.kind PROVE ViewOf(v, x, n + 1)
BY DEF ViewOf

LEMMA ClickLater ==
  ASSUME NEW c, NEW p, NEW r, NEW x, NEW n \in Nat, ClickFits(c, p, r, n), x.kind = r.kind
  PROVE  ClickFits(c, p, x, n + 1)
<1>1. \A v : ViewOf(v, r, n) => ViewOf(v, x, n + 1)
  BY ViewLater
<1>2. c.fresh \in 0..n => c.fresh \in 0..(n + 1) /\ c.fresh # n + 1
  OBVIOUS
<1> QED BY <1>1, <1>2 DEF ClickFits

LEMMA IdleIs == G!Idle.stage = "IDLE" /\ "IDLE" \notin ClickStage
BY DEF G!Idle, ClickStage

\* A request that a step puts in flight, or takes further.
Started(c, p, r, n) ==
    /\ c.stage \in ClickStage
    /\ r.kind = "listing" => c.op \in ListingOps
    /\ p # G!Closed => ClickFits(c, p.name, r, n)

LEMMA RowsStep ==
  ASSUME RowsInv, RowOK(row'), row'.kind = row.kind, version' \in 1..MaxChange, made' \subseteq 2..version',
         pushed' \subseteq made',
         DOMAIN click' = Call,
         \A k \in Call : click'[k] = click[k] \/ click'[k] = G!Idle \/ Started(click'[k], page', row', version'),
         page' = G!Closed \/ (version' = version /\ row' = row) \/ version' = version + 1,
         page' = G!Closed \/ (/\ page # G!Closed /\ page' \in OpenPage /\ page'.name = page.name
                              /\ ViewOf(page'.shown, row', version'))
  PROVE  RowsInv'
<1>1. \A k \in Call : click'[k] = G!Idle \/ click'[k].stage \in ClickStage
  BY DEF RowsInv, Started
<1>2. \A k \in Call : click'[k].stage # "IDLE" /\ row'.kind = "listing" => click'[k].op \in ListingOps
  BY IdleIs DEF RowsInv, Started
<1>3. page' # G!Closed => G!Pages[page'.name].kind = row'.kind
  BY DEF RowsInv
<1>4. ASSUME page' # G!Closed, NEW k \in Call, click'[k].stage # "IDLE"
      PROVE  ClickFits(click'[k], page'.name, row', version')
  <2>1. CASE click'[k] = click[k]
    <3>1. ClickFits(click[k], page.name, row, version) /\ version \in Nat
      BY <1>4, <2>1 DEF RowsInv
    <3> QED BY <1>4, <2>1, <3>1, ClickLater
  <2>2. CASE Started(click'[k], page', row', version')
    BY <1>4, <2>2 DEF Started
  <2> QED BY <1>4, <2>1, <2>2, IdleIs
<1> QED BY <1>1, <1>2, <1>3, <1>4 DEF RowsInv

\* The page and the row stay, and the requests but one, or are given up.
LEMMA SameRowStep ==
  ASSUME RowsInv, NEW k \in Call, NEW c, G!Stay, DOMAIN click' = Call, click'[k] = c,
         \A j \in Call : j # k => click'[j] = click[j] \/ click'[j] = G!Idle,
         c = G!Idle \/ Started(c, page', row, version),
         \/ page' = page \/ page' = G!Closed
         \/ /\ page # G!Closed /\ page' \in OpenPage /\ page'.name = page.name
            /\ ViewOf(page'.shown, row, version)
  PROVE  RowsInv'
<1>1. row' = row /\ version' = version /\ made' = made /\ pushed' = pushed
  BY DEF G!Stay
<1>2. page = G!Closed \/ (page \in OpenPage /\ ViewOf(page.shown, row, version))
  BY DEF RowsInv
<1>3. RowOK(row) /\ version \in 1..MaxChange /\ made \subseteq 2..version /\ pushed \subseteq made
  BY DEF RowsInv
<1> QED BY <1>1, <1>2, <1>3, RowsStep

LEMMA OpenStep == ASSUME RowsInv, NEW p \in G!PageName, G!Open(p) PROVE RowsInv' /\ OwnInv'
<1>1. /\ G!Pages[p].kind = row.kind /\ version' = 1 /\ page' = [name |-> p, shown |-> G!View(row, {1})]
      /\ made' = {} /\ pushed' = {} /\ row' = row /\ click' = click /\ \A k \in Call : click[k] = G!Idle
  BY DEF G!Open, G!AllIdle
<1>2. page'.name = p /\ page'.shown = G!View(row, {1}) /\ page' \in [name : G!PageName, shown : {G!View(row, {1})}]
  BY <1>1
<1>3. RowOK(row) /\ row \in RowRec /\ 1 \in 1..MaxChange /\ DOMAIN click = Call
  BY PagesAssumption DEF RowsInv, RowOK
<1>4. ViewOf(G!View(row, {1}), row, 1)
  <2>1. {1} = 1..1 /\ {1} \in SUBSET Nat
    OBVIOUS
  <2> QED BY <1>3, <2>1 DEF ViewOf, PageView, G!View
<1>5. page' \in OpenPage
  BY <1>2, <1>4 DEF OpenPage, ViewOf
<1> QED BY <1>1, <1>2, <1>3, <1>4, <1>5, IdleIs DEF RowsInv, OwnInv, Reading, Due

LEMMA RequestFits ==
  ASSUME RowsInv, NEW k \in Call, click[k].stage # "IDLE"
  PROVE  /\ click[k].stage \in ClickStage /\ (row.kind = "listing" => click[k].op \in ListingOps)
         /\ page # G!Closed => /\ ClickFits(click[k], page.name, row, version)
                               /\ page.name \in G!PageName /\ PageFit(page.name)
<1>1. page # G!Closed => page.name \in G!PageName
  BY DEF RowsInv, OpenPage
<1>2. page # G!Closed => PageFit(page.name)
  BY <1>1, PagesAreFit
<1> QED BY <1>1, <1>2, IdleIs DEF RowsInv

LEMMA PressStep ==
  ASSUME RowsInv, NEW k \in Call, page # G!Closed, NEW op \in DOMAIN G!Pages[page.name].after, G!Press(k, op)
  PROVE  RowsInv'
<1> DEFINE new == [stage |-> "SENT", op |-> op, fresh |-> IF G!UpToDate THEN version ELSE 0,
                   saw |-> IF G!Mode(op) = "append" THEN page.shown ELSE G!NoView]
<1>1. click' = [click EXCEPT ![k] = new] /\ row' = row /\ version' = version /\ page' = page /\ made' = made
      /\ pushed' = pushed /\ op \in G!Offers(page.name, page.shown.r)
  BY DEF G!Press, G!Enabled
<1>2. /\ RowOK(row) /\ version \in 1..MaxChange /\ made \subseteq 2..version /\ pushed \subseteq made
      /\ DOMAIN click = Call /\ page \in OpenPage /\ G!Pages[page.name].kind = row.kind /\ ViewOf(page.shown, row, version)
  BY DEF RowsInv
<1>3. PageFit(page.name)
  BY <1>2, PagesAreFit DEF OpenPage
<1>4. new.stage = "SENT" /\ new.op = op /\ new.fresh \in {0, version} /\ (new.fresh # 0 => G!UpToDate)
      /\ (G!Mode(op) = "append" => new.saw = page.shown)
  OBVIOUS
<1> HIDE DEF new
<1>5. new.fresh = version => page.shown.r = row
  BY <1>2, <1>4 DEF G!UpToDate, ViewOf
<1>6. new.fresh \in 0..version
  BY <1>2, <1>4
<1>7. ClickFits(new, page.name, row, version)
  BY <1>1, <1>2, <1>4, <1>5, <1>6 DEF ClickFits, After, G!Mode
<1>8. Started(new, page', row', version')
  BY <1>1, <1>2, <1>3, <1>4, <1>7 DEF Started, ClickStage, PageFit
<1>9. DOMAIN click' = Call /\ \A j \in Call : click'[j] = click[j] \/ click'[j] = new
  BY <1>1, <1>2
<1> QED BY <1>1, <1>2, <1>8, <1>9, RowsStep

(* What serving a request does: the view that its answer gives.            *)
ServedView(k, a, next) ==
    IF page = G!Closed THEN G!NoView
    ELSE IF ~a.ok THEN G!View(row, IF click[k].fresh = version THEN {version} ELSE {})
    ELSE IF G!Mode(click[k].op) = "answer" THEN G!View(a.row, 1..next)
    ELSE IF G!Mode(click[k].op) = "append" THEN G!View(click[k].saw.r, click[k].saw.has \union {next})
    ELSE G!NoView

Served(k, a) ==
    /\ row' = a.row /\ version' \in {version, version + 1} /\ version' <= MaxChange
    /\ page' = page /\ muddled' = muddled
    /\ page = G!Closed => version' = version
    /\ page # G!Closed => (version' = version + 1 <=> (a.ok = TRUE \/ a.row # row))
    /\ made' = (IF a.ok = TRUE /\ page # G!Closed THEN made \cup {version'} ELSE made)
    /\ pushed' = (IF a.ok = TRUE /\ page # G!Closed /\ After(page.name, click[k].op) = "push"
                  THEN pushed \cup {version'} ELSE pushed)
    /\ \E c : /\ click' = [click EXCEPT ![k] = c] /\ c.op = click[k].op
             /\ c.stage = (IF a.ok = TRUE THEN "ACCEPTED" ELSE "REFUSED")
             /\ c.view = ServedView(k, a, version')

LEMMA ServeIs ==
  ASSUME RowsInv, NEW k \in Call, G!Serve(k)
  PROVE  click[k].stage = "SENT" /\ \E a \in G!Answers(row, click[k].op) : Served(k, a)
<1> DEFINE next(a) == IF page # G!Closed /\ (a.ok \/ a.row # row) THEN version + 1 ELSE version
<1>1. PICK a \in G!Answers(row, click[k].op) :
         /\ next(a) <= MaxChange /\ row' = a.row /\ version' = next(a)
         /\ made' = IF a.ok /\ page # G!Closed THEN made \union {next(a)} ELSE made
         /\ pushed' = IF a.ok /\ page # G!Closed /\ After(page.name, click[k].op) = "push"
                      THEN pushed \union {next(a)} ELSE pushed
         /\ click' = [click EXCEPT ![k] = [stage |-> IF a.ok THEN "ACCEPTED" ELSE "REFUSED", op |-> click[k].op,
                                          view |-> ServedView(k, a, next(a))]]
  BY DEF G!Serve, G!IsOpen, ServedView, After, G!Mode
<1>2. page' = page /\ muddled' = muddled /\ click[k].stage = "SENT"
  BY DEF G!Serve
<1>3. version \in Nat
  BY DEF RowsInv
<1> DEFINE c == [stage |-> IF a.ok THEN "ACCEPTED" ELSE "REFUSED", op |-> click[k].op,
                 view |-> ServedView(k, a, version')]
<1>4. click' = [click EXCEPT ![k] = c]
  BY <1>1
<1>5. c.op = click[k].op /\ c.stage = (IF a.ok THEN "ACCEPTED" ELSE "REFUSED") /\ c.view = ServedView(k, a, version')
  OBVIOUS
<1> HIDE DEF c
<1>6. CASE a.ok = TRUE
  BY <1>1, <1>2, <1>3, <1>4, <1>5, <1>6 DEF Served
<1>7. CASE ~a.ok
  <2>1. a.ok # TRUE /\ c.stage = "REFUSED" /\ made' = made /\ pushed' = pushed
    BY <1>1, <1>5, <1>7
  <2>2. version' \in {version, version + 1} /\ version' <= MaxChange /\ (page = G!Closed => version' = version)
    BY <1>1, <1>7
  <2>3. page # G!Closed => (version' = version + 1 <=> a.row # row)
    BY <1>1, <1>3, <1>7
  <2>4. row' = a.row
    BY <1>1
  <2> QED BY <1>2, <1>4, <1>5, <2>1, <2>2, <2>3, <2>4 DEF Served
<1> QED BY <1>6, <1>7

LEMMA ServedFits ==
  ASSUME RowsInv, NEW k \in Call, click[k].stage = "SENT", NEW a \in G!Answers(row, click[k].op), Served(k, a),
         page # G!Closed, NEW c, c.op = click[k].op, c.view = ServedView(k, a, version'),
         c.stage = (IF a.ok = TRUE THEN "ACCEPTED" ELSE "REFUSED")
  PROVE  ClickFits(c, page.name, row', version')
<1> DEFINE p == page.name
           op == click[k].op
<1>1. /\ RowOK(row) /\ row \in RowRec /\ version \in Nat \ {0} /\ p \in G!PageName /\ G!Pages[p].kind = row.kind
  BY DEF RowsInv, OpenPage, RowOK
<1>2. ClickFits(click[k], p, row, version) /\ (row.kind = "listing" => op \in ListingOps) /\ PageFit(p)
  BY RequestFits
<1>3. op \in DOMAIN G!Pages[p].after
  BY <1>2 DEF ClickFits
<1>4. RowOK(a.row) /\ a.row.kind = row.kind /\ a.row \in RowRec
  BY <1>1, <1>2, AnswersKeep DEF Keeps, RowOK
<1>5. row' = a.row
  BY DEF Served
<1>6. CASE a.ok = TRUE
  <2>1. version' = version + 1 /\ c.stage = "ACCEPTED"
    BY <1>6 DEF Served
  <2>2. CASE After(p, op) = "answer"
    <3>1. c.view = [r |-> a.row, has |-> 1..version']
      BY <1>6, <2>2 DEF ServedView, G!View, G!Mode, After
    <3>2. ViewOf(c.view, row', version')
      BY <1>4, <1>5, <2>1, <3>1, <1>1 DEF ViewOf, PageView
    <3> QED BY <1>3, <2>1, <3>2 DEF ClickFits
  <2>3. CASE After(p, op) = "append"
    <3>1. row' = row
      BY <1>1, <1>2, <1>3, <1>5, <2>3, NoteKeeps DEF PageFit
    <3>2. c.view = [r |-> click[k].saw.r, has |-> click[k].saw.has \cup {version + 1}]
      BY <1>6, <2>1, <2>3 DEF ServedView, G!View, G!Mode, After
    <3>3. ViewOf(click[k].saw, row, version)
      BY <1>2, <2>3 DEF ClickFits
    <3>4. click[k].saw.has \subseteq 1..version /\ version + 1 \notin 1..version
      BY <1>1, <3>3 DEF ViewOf
    <3>5. click[k].saw.has \cup {version + 1} = 1..(version + 1) => click[k].saw.has = 1..version
      <4>1. ASSUME click[k].saw.has \cup {version + 1} = 1..(version + 1), NEW i \in 1..version PROVE i \in click[k].saw.has
        <5>1. i \in 1..(version + 1) /\ i # version + 1
          BY <1>1
        <5> QED BY <4>1, <5>1
      <4> QED BY <3>4, <4>1
    <3>6. ViewOf(c.view, row', version')
      BY <1>1, <2>1, <3>1, <3>2, <3>3, <3>4, <3>5 DEF ViewOf, PageView
    <3> QED BY <1>3, <2>1, <3>6 DEF ClickFits
  <2>4. CASE After(p, op) \notin {"answer", "append"}
    BY <1>3, <2>1, <2>4 DEF ClickFits
  <2> QED BY <2>2, <2>3, <2>4
<1>7. CASE a.ok # TRUE
  <2>1. c.stage = "REFUSED"
    BY <1>7
  <2>2. c.view = [r |-> row, has |-> IF click[k].fresh = version THEN {version} ELSE {}]
    BY <1>7 DEF ServedView, G!View
  <2>3. CASE click[k].fresh = version
    <3>1. op \in G!Offers(p, row)
      BY <1>2, <2>3 DEF ClickFits
    <3>2. G!OffersTooMuch(p, op, row)
      BY <1>1, <1>7, <3>1, OffersAccepted
    <3> QED BY <1>3, <2>1, <2>2, <3>2 DEF ClickFits
  <2>4. CASE click[k].fresh # version
    BY <1>3, <2>1, <2>2, <2>4 DEF ClickFits
  <2> QED BY <2>3, <2>4
<1> QED BY <1>6, <1>7

LEMMA ServeStep == ASSUME RowsInv, NEW k \in Call, G!Serve(k) PROVE RowsInv'
<1>1. click[k].stage = "SENT"
  BY ServeIs
<1>2. PICK a \in G!Answers(row, click[k].op) : Served(k, a)
  BY ServeIs
<1>3. RowOK(row) /\ version \in 1..MaxChange /\ made \subseteq 2..version /\ pushed \subseteq made
      /\ DOMAIN click = Call /\ MaxChange \in Nat
  BY PagesAssumption DEF RowsInv
<1>4. row.kind = "listing" => click[k].op \in ListingOps
  BY <1>1, RequestFits
<1>5. RowOK(row') /\ row'.kind = row.kind
  BY <1>2, <1>3, <1>4, AnswersKeep DEF Served, Keeps
<1>6. version' \in 1..MaxChange /\ version <= version' /\ made' \subseteq 2..version' /\ page' = page
      /\ pushed' \subseteq made'
  BY <1>2, <1>3 DEF Served
<1>7. PICK c : /\ click' = [click EXCEPT ![k] = c] /\ c.op = click[k].op /\ c.view = ServedView(k, a, version')
               /\ c.stage = (IF a.ok = TRUE THEN "ACCEPTED" ELSE "REFUSED")
  BY <1>2 DEF Served
<1>8. Started(c, page', row', version')
  <2>1. page # G!Closed => ClickFits(c, page.name, row', version')
    BY <1>1, <1>2, <1>7, ServedFits
  <2> QED BY <1>4, <1>5, <1>6, <1>7, <2>1 DEF Started, ClickStage
<1>9. page' = G!Closed \/ (version' = version /\ row' = row) \/ version' = version + 1
  BY <1>2, <1>6 DEF Served
<1>10. page = G!Closed \/ (page \in OpenPage /\ ViewOf(page.shown, row', version'))
  <2>1. page = G!Closed \/ (page \in OpenPage /\ ViewOf(page.shown, row, version))
    BY DEF RowsInv
  <2> QED BY <1>3, <1>5, <1>6, <1>9, <2>1, ViewLater
<1>11. DOMAIN click' = Call /\ \A j \in Call : click'[j] = click[j] \/ click'[j] = c
  BY <1>3, <1>7
<1> QED BY <1>5, <1>6, <1>8, <1>9, <1>10, <1>11, RowsStep

LEMMA OthersStep == ASSUME RowsInv, G!Others PROVE RowsInv'
<1>1. RowOK(row) /\ version \in 1..MaxChange /\ made \subseteq 2..version /\ pushed \subseteq made
      /\ DOMAIN click = Call /\ MaxChange \in Nat
  BY PagesAssumption DEF RowsInv
<1>2. page' = page /\ click' = click /\ made' = made /\ pushed' = pushed
  BY DEF G!Others
<1>3. version' = (IF page # G!Closed THEN version + 1 ELSE version) /\ version' <= MaxChange
  BY DEF G!Others, G!IsOpen
<1>4. RowOK(row') /\ row'.kind = row.kind
  <2>1. CASE row' \in G!ByItself(row)
    BY <1>1, <2>1, ByItselfKeeps DEF Keeps
  <2>2. CASE \E op \in G!Ops(row.kind) : \E a \in G!Answers(row, op) : row' = a.row
    <3>1. PICK op \in G!Ops(row.kind) : \E a \in G!Answers(row, op) : row' = a.row
      BY <2>2
    <3>2. row.kind = "listing" => op \in ListingOps
      BY <3>1 DEF G!Ops, ListingOps
    <3> QED BY <1>1, <3>1, <3>2, AnswersKeep DEF Keeps
  <2> QED BY <2>1, <2>2 DEF G!Others
<1>5. version' \in 1..MaxChange /\ version <= version' /\ made' \subseteq 2..version' /\ pushed' \subseteq made'
  BY <1>1, <1>2, <1>3
<1>6. page = G!Closed \/ (page \in OpenPage /\ ViewOf(page.shown, row', version'))
  <2>1. page = G!Closed \/ (page \in OpenPage /\ ViewOf(page.shown, row, version))
    BY DEF RowsInv
  <2> QED BY <1>1, <1>3, <1>4, <2>1, ViewLater
<1> QED BY <1>1, <1>2, <1>3, <1>4, <1>5, <1>6, RowsStep

(* The steps of the page leave the row and what is in flight.              *)
LEMMA PageStep ==
  ASSUME RowsInv, NEW k \in Call,
         G!Lose(k) \/ G!ShowAnswer(k) \/ G!StartRead(k) \/ G!GoAway(k) \/ G!Push(k) \/ G!TakeRefusal(k)
           \/ G!Read(k) \/ G!ShowRead(k) \/ G!FailRead(k)
  PROVE  RowsInv'
<1>1. DOMAIN click = Call /\ (page # G!Closed => page \in OpenPage /\ page.name \in G!PageName)
      /\ RowOK(row) /\ version \in 1..MaxChange
  BY DEF RowsInv, OpenPage
<1>2. click[k].stage # "IDLE"
  BY DEF G!Lose, G!ShowAnswer, G!StartRead, G!GoAway, G!Push, G!TakeRefusal, G!Read, G!ShowRead, G!FailRead, G!Waits
<1>3. /\ row.kind = "listing" => click[k].op \in ListingOps
      /\ page # G!Closed => ClickFits(click[k], page.name, row, version)
  BY <1>2, RequestFits
<1>4. ASSUME G!Stay \/ (row' = row /\ version' = version /\ made' = made /\ pushed' = pushed), NEW c, click' = [click EXCEPT ![k] = c],
             c = G!Idle \/ Started(c, page', row, version),
             \/ page' = page \/ page' = G!Closed
             \/ /\ page # G!Closed /\ page' \in OpenPage /\ page'.name = page.name
                /\ ViewOf(page'.shown, row, version)
      PROVE  RowsInv'
  <2>1. row' = row /\ version' = version /\ made' = made /\ pushed' = pushed
    BY <1>4 DEF G!Stay
  <2>2. DOMAIN click' = Call /\ \A j \in Call : click'[j] = click[j] \/ click'[j] = c
    BY <1>1, <1>4
  <2>3. page = G!Closed \/ (page \in OpenPage /\ ViewOf(page.shown, row, version))
    BY DEF RowsInv
  <2>4. RowOK(row) /\ version \in 1..MaxChange /\ made \subseteq 2..version /\ pushed \subseteq made
    BY DEF RowsInv
  <2> QED BY <1>4, <2>1, <2>2, <2>3, <2>4, RowsStep
<1>5. ASSUME page # G!Closed, NEW v, ViewOf(v, row, version), page' = [page EXCEPT !.shown = v]
      PROVE  page' \in OpenPage /\ page'.name = page.name /\ ViewOf(page'.shown, row, version)
  <2>1. page' \in OpenPage /\ page'.name = page.name /\ page'.shown = v
    BY <1>1, <1>5 DEF OpenPage, ViewOf
  <2> QED BY <1>5, <2>1
<1>6. CASE G!Lose(k)
  BY <1>4, <1>6 DEF G!Lose
<1>7. CASE G!ShowAnswer(k)
  <2>1. page # G!Closed /\ ViewOf(click[k].view, row, version)
    BY <1>3, <1>7 DEF G!ShowAnswer, G!Waits, G!IsOpen, ClickFits, After, G!Mode
  <2>2. page' = [page EXCEPT !.shown = click[k].view] /\ G!End(k) /\ G!Stay
    BY <1>7 DEF G!ShowAnswer
  <2> QED BY <1>4, <1>5, <2>1, <2>2 DEF G!End
<1>8. CASE G!StartRead(k)
  <2> DEFINE c == [stage |-> "LOADING", op |-> click[k].op]
             given == {j \in Call \ {k} : click[j].stage \in {"LOADING", "READ"} /\ G!Mode(click[k].op) = "refetch"}
  <2>1. /\ click' = [j \in Call |-> IF j = k THEN c ELSE IF j \in given THEN G!Idle ELSE click[j]]
        /\ page' = page /\ G!Stay
    BY <1>8 DEF G!StartRead
  <2>2. page # G!Closed /\ After(page.name, click[k].op) \in {"reload", "later", "refetch"}
    BY <1>8 DEF G!StartRead, G!Waits, G!IsOpen, After, G!Mode
  <2>3. c.stage = "LOADING" /\ c.op = click[k].op
    OBVIOUS
  <2> HIDE DEF c
  <2>4. ClickFits(c, page.name, row, version)
    BY <1>3, <2>2, <2>3 DEF ClickFits
  <2>5. Started(c, page', row, version)
    BY <1>3, <2>1, <2>3, <2>4 DEF Started, ClickStage
  <2>6. DOMAIN click' = Call /\ click'[k] = c /\ \A j \in Call : j # k => click'[j] = click[j] \/ click'[j] = G!Idle
    BY <2>1
  <2> QED BY <2>1, <2>5, <2>6, SameRowStep
<1>9. CASE G!GoAway(k)
  BY <1>4, <1>9 DEF G!GoAway, G!End
<1>10. CASE G!TakeRefusal(k)
  BY <1>4, <1>10 DEF G!TakeRefusal, G!End, G!BreakIfFragile
<1>11. CASE G!Read(k)
  <2> DEFINE c == [stage |-> "READ", op |-> click[k].op, view |-> G!View(row, 1..version)]
  <2>1. click' = [click EXCEPT ![k] = c] /\ page' = page /\ G!Stay /\ click[k].stage = "LOADING"
    BY <1>11 DEF G!Read
  <2>2. c.stage = "READ" /\ c.op = click[k].op /\ c.view = [r |-> row, has |-> 1..version]
    BY DEF G!View
  <2> HIDE DEF c
  <2>3. row \in RowRec /\ 1..version \in SUBSET Nat
    BY <1>1 DEF RowOK
  <2>4. ViewOf(c.view, row, version)
    BY <2>2, <2>3 DEF ViewOf, PageView
  <2>5. page # G!Closed => ClickFits(c, page.name, row, version)
    BY <1>3, <2>1, <2>2, <2>4 DEF ClickFits
  <2>6. Started(c, page', row, version)
    BY <1>3, <2>1, <2>2, <2>5 DEF Started, ClickStage
  <2> QED BY <1>4, <2>1, <2>6
<1>12. CASE G!ShowRead(k)
  <2>1. page # G!Closed => ViewOf(click[k].view, row, version)
    BY <1>3, <1>12 DEF G!ShowRead, ClickFits
  <2>2. page' = (IF page # G!Closed THEN [page EXCEPT !.shown = click[k].view] ELSE page) /\ G!End(k) /\ G!Stay
    BY <1>12 DEF G!ShowRead, G!IsOpen
  <2> QED BY <1>4, <1>5, <2>1, <2>2 DEF G!End
<1>13. CASE G!FailRead(k)
  BY <1>4, <1>13 DEF G!FailRead, G!End, G!BreakIfFragile
<1>14. CASE G!Push(k)
  BY <1>4, <1>14 DEF G!Push, G!End
<1> QED BY <1>6, <1>7, <1>8, <1>9, <1>10, <1>11, <1>12, <1>13, <1>14

(* What was done from the page is on it, or on its way.                    *)
Mine(j) == After(page.name, click[j].op)

\* The page is open, and no requests have crossed on it nor was an answer lost.
LEMMA OwnIs ==
  ASSUME OwnInv, page # G!Closed, ~muddled
  PROVE  /\ Due \subseteq page.shown.has \/ \E k \in Call : click[k].stage \in Reading \/ Awaited(k)
         /\ \A k \in Call : click[k].stage = "READ" =>
               Due \subseteq click[k].view.has \/ \E j \in Call : Awaited(j)
         /\ \A k \in Call : click[k].stage = "ACCEPTED" /\ Mine(k) \in {"answer", "append"} =>
               Due \subseteq click[k].view.has
         /\ \A k \in Call : click[k].stage = "SENT" /\ Mine(k) = "append" => Due \subseteq click[k].saw.has
         /\ \A j, k \in Call : j # k /\ click[j].stage # "IDLE" /\ click[k].stage # "IDLE" =>
               Mine(j) \in {"refetch", "push"} /\ ~(click[j].stage \in Reading /\ click[k].stage \in Reading)
BY DEF OwnInv, Mine

\* An app's page that is left and opened again reads anew, with nothing else in flight.
LEMMA PageReturnStep == ASSUME RowsInv, OwnInv, NEW k \in Call, G!Return(k) PROVE RowsInv' /\ OwnInv'
<1>1. PICK op \in DOMAIN G!Pages[page.name].after :
         After(page.name, op) = "refetch" /\ click' = [click EXCEPT ![k] = [stage |-> "LOADING", op |-> op]]
  BY DEF G!Return, After, G!Mode
<1>2. /\ page # G!Closed /\ page' = page /\ row' = row /\ version' = version /\ made' = made /\ pushed' = pushed
      /\ muddled' = muddled /\ G!Stay /\ \A j \in Call : click[j].stage = "IDLE"
  BY IdleIs DEF G!Return, G!Stay, G!IsOpen, G!AllIdle
<1> DEFINE c == [stage |-> "LOADING", op |-> op]
<1>3. c.stage = "LOADING" /\ c.op = op /\ click' = [click EXCEPT ![k] = c]
  BY <1>1
<1> HIDE DEF c
<1>4. DOMAIN click = Call /\ page \in OpenPage /\ page.name \in G!PageName /\ G!Pages[page.name].kind = row.kind
  BY <1>2 DEF RowsInv, OpenPage
<1>5. PageFit(page.name)
  BY <1>4, PagesAreFit
<1>6. Started(c, page', row, version)
  BY <1>1, <1>2, <1>3, <1>4, <1>5 DEF Started, ClickFits, ClickStage, PageFit
<1>7. DOMAIN click' = Call /\ click'[k] = c /\ \A j \in Call : j # k => click'[j] = click[j]
  BY <1>3, <1>4
<1>8. RowsInv'
  BY <1>2, <1>6, <1>7, SameRowStep
<1>9. OwnInv'
  BY <1>2, <1>3, <1>7 DEF OwnInv, Reading
<1> QED BY <1>8, <1>9

LEMMA OwnPress ==
  ASSUME RowsInv, OwnInv, NEW k \in Call, page # G!Closed, NEW op \in DOMAIN G!Pages[page.name].after, G!Press(k, op)
  PROVE  OwnInv'
<1> SUFFICES ASSUME ~muddled' PROVE OwnInv'
  BY DEF OwnInv
<1> DEFINE new == [stage |-> "SENT", op |-> op, fresh |-> IF G!UpToDate THEN version ELSE 0,
                   saw |-> IF G!Mode(op) = "append" THEN page.shown ELSE G!NoView]
<1>1. /\ click' = [click EXCEPT ![k] = new] /\ page' = page /\ Due' = Due /\ click[k] = G!Idle /\ ~muddled
      /\ G!AllIdle \/ After(page.name, op) \in {"refetch", "push"}
  BY DEF G!Press, After, G!Mode, Due
<1>2. new.stage = "SENT" /\ new.op = op /\ (After(page.name, op) = "append" => new.saw = page.shown)
  BY DEF After, G!Mode
<1> HIDE DEF new
<1>3. DOMAIN click = Call /\ page \in OpenPage
  BY DEF RowsInv
<1>4. PageFit(page.name)
  BY <1>3, PagesAreFit DEF OpenPage
<1>5. click'[k] = new /\ click[k].stage = "IDLE" /\ \A j \in Call : j # k => click'[j] = click[j]
  BY <1>1, <1>3, IdleIs
<1>6. \A j \in Call : click[j].stage # "IDLE" => click[j].op \in DOMAIN G!Pages[page.name].after
  BY RequestFits DEF ClickFits
<1>7. CASE G!AllIdle
  <2>1. \A j \in Call : click[j].stage = "IDLE"
    BY <1>7, IdleIs DEF G!AllIdle
  <2>2. Due \subseteq page.shown.has
    BY <1>1, <2>1, OwnIs DEF Reading, Awaited
  <2>3. \A j \in Call : click'[j].stage # "IDLE" => j = k
    BY <1>5, <2>1
  <2> QED BY <1>1, <1>2, <1>5, <2>2, <2>3 DEF OwnInv
<1>8. CASE After(page.name, op) \in {"refetch", "push"}
  <2>1. \A o \in DOMAIN G!Pages[page.name].after : After(page.name, o) \in {"refetch", "push"}
    BY <1>4, <1>8 DEF PageFit
  <2>2. \A j \in Call : click'[j].stage # "IDLE" => After(page.name, click'[j].op) \in {"refetch", "push"}
    BY <1>2, <1>5, <1>6, <1>8, <2>1
  <2>3. Due' \subseteq page'.shown.has \/ \E j \in Call : click'[j].stage \in Reading \/ Awaited(j)'
    BY <1>1, <1>5, OwnIs DEF Reading, Awaited
  <2>4. \A j \in Call : click'[j].stage = "READ" =>
           Due' \subseteq click'[j].view.has \/ \E i \in Call : Awaited(i)'
    BY <1>1, <1>2, <1>5, OwnIs DEF Awaited
  <2>5. \A i, j \in Call : i # j /\ click'[i].stage # "IDLE" /\ click'[j].stage # "IDLE" =>
           ~(click'[i].stage \in Reading /\ click'[j].stage \in Reading)
    BY <1>1, <1>2, <1>5, OwnIs DEF Reading
  <2> QED BY <1>1, <2>2, <2>3, <2>4, <2>5 DEF OwnInv, Reading
<1> QED BY <1>1, <1>7, <1>8

LEMMA OwnServe == ASSUME RowsInv, OwnInv, NEW k \in Call, G!Serve(k) PROVE OwnInv'
<1>1. click[k].stage = "SENT"
  BY ServeIs
<1>2. PICK a \in G!Answers(row, click[k].op) : Served(k, a)
  BY ServeIs
<1>3. page' = page /\ muddled' = muddled
  BY <1>2 DEF Served
<1> SUFFICES ASSUME page # G!Closed, ~muddled PROVE OwnInv'
  BY <1>3 DEF OwnInv
<1>4. PICK c : /\ click' = [click EXCEPT ![k] = c] /\ c.op = click[k].op /\ c.view = ServedView(k, a, version')
               /\ c.stage = (IF a.ok = TRUE THEN "ACCEPTED" ELSE "REFUSED")
  BY <1>2 DEF Served
<1>5. DOMAIN click = Call /\ made \subseteq 2..version /\ version \in Nat \ {0} /\ pushed \subseteq made
  BY DEF RowsInv
<1>6. click'[k] = c /\ \A j \in Call : j # k => click'[j] = click[j]
  BY <1>4, <1>5
<1>7. \A j \in Call : j # k /\ click[j].stage # "IDLE" => Mine(j) \in {"refetch", "push"}
  BY <1>1, OwnIs
<1>8. \A i, j \in Call : i # j /\ click'[i].stage # "IDLE" /\ click'[j].stage # "IDLE" =>
         /\ After(page.name, click'[i].op) \in {"refetch", "push"}
         /\ ~(click'[i].stage \in Reading /\ click'[j].stage \in Reading)
  BY <1>1, <1>4, <1>6, OwnIs DEF Reading, Mine
<1>9. CASE a.ok = TRUE
  <2>1. version' = version + 1 /\ made' = made \cup {version'} /\ c.stage = "ACCEPTED"
        /\ pushed' = (IF Mine(k) = "push" THEN pushed \cup {version'} ELSE pushed)
    BY <1>2, <1>4, <1>9 DEF Served, Mine
  <2>0. Due' = (IF Mine(k) = "push" THEN Due ELSE Due \cup {version'}) /\ version' \in 1..version'
        /\ Due \subseteq 1..version'
    BY <1>5, <2>1 DEF Due
  <2>2. ASSUME Mine(k) \in {"answer", "append"} PROVE Due' \subseteq c.view.has
    <3>1. CASE Mine(k) = "answer"
      <4>1. c.view.has = 1..version'
        BY <1>4, <1>9, <3>1 DEF ServedView, G!View, G!Mode, Mine, After
      <4> QED BY <2>0, <4>1
    <3>2. CASE Mine(k) = "append"
      <4>1. c.view.has = click[k].saw.has \cup {version'}
        BY <1>4, <1>9, <3>2 DEF ServedView, G!View, G!Mode, Mine, After
      <4>2. Due \subseteq click[k].saw.has
        BY <1>1, <3>2, OwnIs
      <4> QED BY <2>0, <4>1, <4>2
    <3> QED BY <2>2, <3>1, <3>2
  <2>3. \A j \in Call : click'[j].stage = "ACCEPTED" /\ After(page.name, click'[j].op) \in {"answer", "append"} =>
           Due' \subseteq click'[j].view.has
    BY <1>4, <1>6, <1>7, <2>2 DEF Mine
  <2>4. \A j \in Call : click'[j].stage = "SENT" => After(page.name, click'[j].op) # "append"
    BY <1>6, <1>7, <2>1 DEF Mine
  <2>5. CASE Mine(k) # "push"
    <3>1. Awaited(k)'
      BY <1>3, <1>4, <1>6, <2>1, <2>5 DEF Awaited, Mine
    <3> QED BY <1>3, <1>8, <2>3, <2>4, <3>1 DEF OwnInv
  <2>6. CASE Mine(k) = "push"
    <3>1. Due' = Due /\ ~Awaited(k) /\ \A j \in Call : j # k /\ Awaited(j) => Awaited(j)'
      BY <1>1, <1>3, <1>6, <2>0, <2>6 DEF Awaited
    <3>2. Due' \subseteq page'.shown.has \/ \E j \in Call : click'[j].stage \in Reading \/ Awaited(j)'
      BY <1>1, <1>3, <1>6, <3>1, OwnIs DEF Reading
    <3>3. \A j \in Call : click'[j].stage = "READ" =>
             Due' \subseteq click'[j].view.has \/ \E i \in Call : Awaited(i)'
      BY <1>1, <1>6, <2>1, <3>1, OwnIs
    <3> QED BY <1>3, <1>8, <2>3, <2>4, <3>2, <3>3 DEF OwnInv
  <2> QED BY <2>5, <2>6
<1>10. CASE a.ok # TRUE
  <2>1. Due' = Due /\ c.stage = "REFUSED"
    BY <1>2, <1>4, <1>10 DEF Served, Due
  <2>5. ~Awaited(k) /\ \A j \in Call : j # k /\ Awaited(j) => Awaited(j)'
    BY <1>1, <1>3, <1>6 DEF Awaited
  <2>2. Due' \subseteq page'.shown.has \/ \E j \in Call : click'[j].stage \in Reading \/ Awaited(j)'
    BY <1>1, <1>3, <1>6, <2>1, <2>5, OwnIs DEF Reading
  <2>3. \A j \in Call : click'[j].stage = "READ" =>
           Due' \subseteq click'[j].view.has \/ \E i \in Call : Awaited(i)'
    BY <1>1, <1>6, <2>1, <2>5, OwnIs
  <2>4. \A j \in Call : click'[j].stage \in {"ACCEPTED", "SENT"} =>
           j # k /\ After(page.name, click'[j].op) \notin {"answer", "append"}
    BY <1>6, <1>7, <2>1 DEF Mine
  <2> QED BY <1>3, <1>8, <2>2, <2>3, <2>4 DEF OwnInv
<1> QED BY <1>9, <1>10

LEMMA OwnSteps ==
  ASSUME RowsInv, OwnInv, NEW k \in Call,
         G!Lose(k) \/ G!ShowAnswer(k) \/ G!StartRead(k) \/ G!GoAway(k) \/ G!Push(k) \/ G!TakeRefusal(k)
           \/ G!Read(k) \/ G!ShowRead(k) \/ G!FailRead(k)
  PROVE  OwnInv'
<1> SUFFICES ASSUME page' # G!Closed, ~muddled' PROVE OwnInv'
  BY DEF OwnInv
<1>1. ~(G!Lose(k) \/ G!FailRead(k) \/ G!GoAway(k)) /\ G!Stay
  BY DEF G!Lose, G!FailRead, G!GoAway, G!ShowAnswer, G!StartRead, G!Push, G!TakeRefusal, G!Read,
     G!ShowRead
<1>2. Due' = Due /\ version' = version /\ ~muddled
  BY <1>1 DEF G!Stay, Due
<1>3. page # G!Closed
  BY <1>1 DEF G!ShowAnswer, G!StartRead, G!Waits, G!IsOpen, G!Push, G!TakeRefusal, G!BreakIfFragile, G!Read,
     G!ShowRead
<1>4. DOMAIN click = Call /\ page \in OpenPage /\ made \subseteq 2..version /\ version \in Nat
  BY <1>3 DEF RowsInv
<1>5. ASSUME click[k].stage # "IDLE", NEW j \in Call, j # k, click[j].stage # "IDLE"
      PROVE  Mine(j) \in {"refetch", "push"} /\ Mine(k) \in {"refetch", "push"}
  BY <1>2, <1>3, <1>5, OwnIs
<1>6. CASE G!ShowAnswer(k)
  <2>1. click[k].stage = "ACCEPTED" /\ Mine(k) \in {"answer", "append"} /\ click' = [click EXCEPT ![k] = G!Idle]
        /\ page' = [page EXCEPT !.shown = click[k].view]
    BY <1>6 DEF G!ShowAnswer, G!Waits, Mine, After, G!Mode, G!End
  <2>2. page'.shown = click[k].view
    BY <1>4, <2>1 DEF OpenPage
  <2>3. Due \subseteq click[k].view.has
    BY <1>2, <1>3, <2>1, OwnIs
  <2>4. \A j \in Call : click'[j].stage = "IDLE"
    BY <1>4, <1>5, <2>1, IdleIs
  <2> QED BY <1>2, <2>2, <2>3, <2>4 DEF OwnInv
<1>7. CASE G!StartRead(k)
  <2> DEFINE c == [stage |-> "LOADING", op |-> click[k].op]
             given == {j \in Call \ {k} : click[j].stage \in {"LOADING", "READ"} /\ G!Mode(click[k].op) = "refetch"}
  <2>1. click' = [j \in Call |-> IF j = k THEN c ELSE IF j \in given THEN G!Idle ELSE click[j]] /\ page' = page
    BY <1>7 DEF G!StartRead
  <2>2. click[k].stage = "ACCEPTED" /\ Mine(k) \in {"reload", "later", "refetch"}
    BY <1>7 DEF G!StartRead, G!Waits, G!IsOpen, Mine, After, G!Mode
  <2>3. c.stage = "LOADING" /\ c.op = click[k].op
    OBVIOUS
  <2> HIDE DEF c
  <2>4. ASSUME NEW j \in Call, j # k, click'[j].stage # "IDLE"
        PROVE  click'[j] = click[j] /\ Mine(j) \in {"refetch", "push"} /\ Mine(k) = "refetch"
               /\ click[j].stage \notin Reading
    <3>1. click'[j] = click[j] /\ j \notin given
      BY <2>1, <2>4, IdleIs
    <3>2. Mine(j) \in {"refetch", "push"} /\ Mine(k) = "refetch"
      BY <1>5, <2>2, <2>4, <3>1
    <3> QED BY <2>4, <3>1, <3>2 DEF Reading, Mine, After, G!Mode
  <2>5. click'[k] = c
    BY <2>1
  <2> QED BY <2>1, <2>2, <2>3, <2>4, <2>5 DEF OwnInv, Reading, Mine
<1>8. CASE G!TakeRefusal(k)
  <2>1. click[k].stage = "REFUSED" /\ click' = [click EXCEPT ![k] = G!Idle] /\ page' = page
    BY <1>3, <1>8 DEF G!TakeRefusal, G!IsOpen, G!End, G!BreakIfFragile
  <2>2. click'[k].stage = "IDLE" /\ \A j \in Call : j # k => click'[j] = click[j]
    BY <1>4, <2>1, IdleIs
  <2> QED BY <1>2, <1>3, <2>1, <2>2, OwnIs DEF OwnInv, Reading, Mine, Awaited
<1>9. CASE G!Read(k)
  <2> DEFINE c == [stage |-> "READ", op |-> click[k].op, view |-> G!View(row, 1..version)]
  <2>1. click' = [click EXCEPT ![k] = c] /\ page' = page /\ click[k].stage = "LOADING"
    BY <1>9 DEF G!Read
  <2>2. c.stage = "READ" /\ c.op = click[k].op /\ c.view.has = 1..version
    BY DEF G!View
  <2> HIDE DEF c
  <2>3. Due \subseteq c.view.has
    <3>1. made \subseteq c.view.has
      BY <1>4, <2>2
    <3> QED BY <3>1 DEF Due
  <2>4. click'[k] = c /\ \A j \in Call : j # k => click'[j] = click[j]
    BY <1>4, <2>1
  <2>5. \E j \in Call : click'[j].stage \in Reading
    BY <2>2, <2>4 DEF Reading
  <2>6. \A j \in Call : click'[j].stage = "READ" =>
           Due \subseteq click'[j].view.has \/ \E i \in Call : Awaited(i)'
    <3>1. \A i \in Call : Awaited(i) => Awaited(i)'
      BY <2>1, <2>4 DEF Awaited
    <3> QED BY <1>2, <1>3, <2>2, <2>3, <2>4, <3>1, OwnIs
  <2>7. \A j \in Call : click'[j].stage \in {"ACCEPTED", "SENT"} => j # k
    BY <2>2, <2>4
  <2>8. \A i, j \in Call : i # j /\ click'[i].stage # "IDLE" /\ click'[j].stage # "IDLE" =>
           /\ After(page.name, click'[i].op) \in {"refetch", "push"}
           /\ ~(click'[i].stage \in Reading /\ click'[j].stage \in Reading)
    <3>1. click'[k].op = click[k].op /\ click'[k].stage \in Reading /\ click[k].stage \in Reading
      BY <2>1, <2>2, <2>4 DEF Reading
    <3> QED BY <1>2, <1>3, <2>1, <2>4, <3>1, OwnIs DEF Mine, Reading
  <2>9. \A j \in Call : click'[j].stage = "ACCEPTED" /\ After(page.name, click'[j].op) \in {"answer", "append"} =>
           Due \subseteq click'[j].view.has
    BY <1>2, <1>3, <2>4, <2>7, OwnIs DEF Mine
  <2>10. \A j \in Call : click'[j].stage = "SENT" /\ After(page.name, click'[j].op) = "append" =>
           Due \subseteq click'[j].saw.has
    BY <1>2, <1>3, <2>4, <2>7, OwnIs DEF Mine
  <2> QED BY <1>2, <2>1, <2>5, <2>6, <2>8, <2>9, <2>10 DEF OwnInv
<1>10. CASE G!ShowRead(k)
  <2>1. click[k].stage = "READ" /\ click' = [click EXCEPT ![k] = G!Idle]
        /\ page' = [page EXCEPT !.shown = click[k].view]
    BY <1>3, <1>10 DEF G!ShowRead, G!IsOpen, G!End
  <2>2. page'.shown = click[k].view /\ page'.name = page.name
    BY <1>4, <2>1 DEF OpenPage
  <2>3. click'[k].stage = "IDLE" /\ \A j \in Call : j # k => click'[j] = click[j]
    BY <1>4, <2>1, IdleIs
  <2>4. \A j \in Call : click'[j].stage # "READ"
    BY <1>2, <1>3, <2>1, <2>3, OwnIs DEF Reading
  <2> QED BY <1>2, <1>3, <2>1, <2>2, <2>3, <2>4, OwnIs DEF OwnInv, Reading, Mine, Awaited
<1>11. CASE G!Push(k)
  <2>1. click[k].stage = "ACCEPTED" /\ Mine(k) = "push" /\ click' = [click EXCEPT ![k] = G!Idle] /\ page' = page
    BY <1>11 DEF G!Push, G!Waits, G!End, Mine, After, G!Mode
  <2>2. click'[k].stage = "IDLE" /\ \A j \in Call : j # k => click'[j] = click[j]
    BY <1>4, <2>1, IdleIs
  <2> QED BY <1>2, <1>3, <2>1, <2>2, OwnIs DEF OwnInv, Reading, Mine, Awaited
<1> QED BY <1>1, <1>6, <1>7, <1>8, <1>9, <1>10, <1>11

LEMMA OwnOthers == ASSUME OwnInv, G!Others PROVE OwnInv'
BY DEF OwnInv, G!Others, Due, Awaited

(* The invariant, and what it says.                                        *)
LEMMA PagesStart == ASSUME G!Init PROVE PagesInv
<1>1. row \in G!InitialRows /\ version = 1 /\ page = G!Closed /\ click = [k \in Call |-> G!Idle] /\ made = {}
      /\ pushed = {}
  BY DEF G!Init
<1>2. RowOK(row)
  <2>1. \A k \in PageKinds : G!Statuses(k) \subseteq RowStatus
    BY StatusKnown
  <2>2. /\ row.marks \in {{}, {"meetup"}} /\ row = [kind |-> row.kind, status |-> row.status, marks |-> row.marks]
        /\ row.kind \in PageKinds
    BY <1>1 DEF G!InitialRows, G!Row, PageKinds
  <2>3. row.status \in G!Statuses(row.kind)
    <3>1. \/ row.kind = "order" /\ row.status = "PENDING_PAYMENT"
          \/ row.kind \in {"payout", "refund", "submission"} /\ row.status = "PENDING"
          \/ row.kind \in {"dispute", "report", "issue"} /\ row.status = "OPEN"
          \/ row.kind = "listing" /\ row.status = "ACTIVE"
      BY <1>1 DEF G!InitialRows, G!Row
    <3>2. \A k, op, s, t : k \in RuleKinds /\ Moves(k, op, s, t) => s \in G!Statuses(k)
      BY RuleStatuses DEF Moves
    <3>3. Moves("dispute", "drop", "OPEN", "CANCELLED")
      BY DisputeMoves DEF G!ActiveDispute
    <3>4. Moves("submission", "reject", "PENDING", "REJECTED")
      BY SubmissionMoves DEF G!Reviewable
    <3> QED BY <3>1, <3>2, <3>3, <3>4, OrderStatuses, ListingStatuses, PayoutMoves, RefundMoves, ReportMoves, IssueMoves
         DEF RuleKinds
  <2> QED BY <2>1, <2>2, <2>3 DEF RowOK, RowRec
<1>3. 1 \in 1..MaxChange
  BY PagesAssumption
<1> QED BY <1>1, <1>2, <1>3, IdleIs DEF PagesInv, RowsInv, OwnInv, Due, Awaited

LEMMA PagesStep == ASSUME PagesInv, G!Next PROVE PagesInv'
<1>1. RowsInv /\ OwnInv
  BY DEF PagesInv
<1>2. ASSUME NEW p \in G!PageName, G!Open(p) PROVE PagesInv'
  BY <1>1, <1>2, OpenStep DEF PagesInv
<1>3. ASSUME NEW k \in Call, page # G!Closed, NEW op \in DOMAIN G!Pages[page.name].after, G!Press(k, op) PROVE PagesInv'
  BY <1>1, <1>3, PressStep, OwnPress DEF PagesInv
<1>4. ASSUME NEW k \in Call, G!Serve(k) PROVE PagesInv'
  BY <1>1, <1>4, ServeStep, OwnServe DEF PagesInv
<1>5. ASSUME NEW k \in Call,
             G!Lose(k) \/ G!ShowAnswer(k) \/ G!StartRead(k) \/ G!GoAway(k) \/ G!Push(k) \/ G!TakeRefusal(k)
               \/ G!Read(k) \/ G!ShowRead(k) \/ G!FailRead(k)
      PROVE  PagesInv'
  BY <1>1, <1>5, PageStep, OwnSteps DEF PagesInv
<1>6. CASE G!Others
  BY <1>1, <1>6, OthersStep, OwnOthers DEF PagesInv
<1>7. ASSUME NEW k \in Call, NEW op \in (IF G!IsOpen THEN DOMAIN G!Pages[page.name].after ELSE {}), G!Press(k, op)
      PROVE  PagesInv'
  BY <1>3, <1>7 DEF G!IsOpen
<1>8. ASSUME NEW k \in Call, G!Return(k) PROVE PagesInv'
  BY <1>1, <1>8, PageReturnStep DEF PagesInv
<1> QED BY <1>2, <1>4, <1>5, <1>6, <1>7, <1>8 DEF G!Next

LEMMA PagesFitHolds ==
  ASSUME PagesInv PROVE G!PageTypeOK /\ G!OffersAreAccepted /\ G!SomeoneCanAct /\ G!OwnRequestIsShown
<1>1. RowsInv /\ OwnInv
  BY DEF PagesInv
<1>2. RowOK(row) /\ row \in RowRec /\ MaxChange \in Nat
  BY <1>1, PagesAssumption DEF RowsInv, RowOK
<1>3. G!PageTypeOK
  <2>1. G!IsOpen => /\ page.name \in G!PageName /\ page.shown.r.kind = row.kind
                    /\ page.shown.has \subseteq 1..version
    BY <1>1 DEF RowsInv, OpenPage, ViewOf, G!IsOpen
  <2>2. \A k \in Call : click[k].stage \in {"IDLE", "SENT", "ACCEPTED", "REFUSED", "LOADING", "READ"}
    BY <1>1, IdleIs DEF RowsInv, ClickStage
  <2>3. version \in 1..MaxChange /\ made \subseteq 2..MaxChange /\ pushed \subseteq made
    BY <1>1, <1>2 DEF RowsInv
  <2> QED BY <1>2, <2>1, <2>2, <2>3 DEF G!PageTypeOK, RowOK, RowRec
<1>4. G!OffersAreAccepted
  BY <1>1 DEF RowsInv, ClickFits, G!OffersAreAccepted, G!IsOpen
<1>5. G!OwnRequestIsShown
  BY <1>1, IdleIs DEF OwnInv, G!OwnRequestIsShown, G!IsOpen, G!AllIdle, Reading, Due, Awaited
<1> QED BY <1>2, <1>3, <1>4, <1>5, CanAct

----------------------------------------------------------------------------
(* CheckoutPages: while nothing that the page has read changed, what it    *)
(* shows is what the API finds, and the quotes that it shows are of what   *)
(* is chosen, or others have been asked for.                               *)

ShopRec == [price : {1, 2}, onSale : BOOLEAN, meets : BOOLEAN, ships : BOOLEAN,
            origin : {"RM", "REGIONS", V!NoPlace}, left : BOOLEAN]

\* A page from the cart to the button, and one of the outcome.
BuyerPage(pg) ==
    /\ DOMAIN pg = {"at", "cart", "addresses", "methods", "address", "quotes", "choices", "stale"}
    /\ pg.at \in {"CART", "CHECKOUT"}
    /\ pg.cart.read => DOMAIN pg.cart.group \subseteq Sale
    /\ DOMAIN pg.methods \subseteq Sale /\ pg.methods \in [DOMAIN pg.methods -> V!Method]
    /\ pg.address # V!NoAddress => pg.addresses.read

OutcomePage(pg) ==
    /\ DOMAIN pg = {"at", "seen", "told", "asking", "late", "crossed"} /\ pg.at = "RETURN"
    /\ pg.crossed \in BOOLEAN

Ready(pg) == pg.cart.read /\ (shopDevice = "web" => pg.addresses.read)

\* The rows of a quote are those of its key, but for what was refused.
RowsFit(key, rows) ==
    /\ DOMAIN rows \subseteq Sale
    /\ \A s \in DOMAIN rows :
          rows[s] \in {V!NoQuote,
                       V!QuoteFromPlaces(s, IF s \in DOMAIN key.methods THEN key.methods[s] ELSE "MEETUP",
                                         key.dest, FALSE)}

VisitRows ==
    /\ shopDevice \in {"web", "app"} /\ shop \in [Sale -> ShopRec] /\ basket \in [Sale -> 0..MaxQuantity]
    /\ place \in [Address -> V!Place \union {V!NoPlace}] /\ default \in Address
    /\ behind \subseteq {"cart", "addresses", "quotes"} /\ changed \in BOOLEAN
    /\ outcome \in V!Final \union {"PENDING"}
    /\ polls \in [Call -> V!Final \union {"IDLE", "ASKED", "PENDING"}]
    /\ put # V!NoPut => put \in [asked : {TRUE}, seller : Sale, to : 0..MaxQuantity]
    /\ placing # V!NoPut =>
         /\ placing = [asked |-> TRUE, answered |-> placing.answered, shown |-> placing.shown,
                       choice |-> placing.choice, unsure |-> placing.unsure]
         /\ placing.answered \in BOOLEAN
    /\ receipt # V!NoPut =>
         receipt = [asked |-> TRUE, total |-> receipt.total, shown |-> receipt.shown,
                    behind |-> receipt.behind, unsure |-> receipt.unsure]

VisitPage ==
    /\ \A run \in quoting : run.of \subseteq Sale /\ DOMAIN run.key.methods \subseteq Sale
    /\ IF buyerPage.at = "RETURN"
       THEN OutcomePage(buyerPage) /\ put = V!NoPut /\ placing = V!NoPut /\ quoting = {}
       ELSE BuyerPage(buyerPage) /\ \A p \in Call : polls[p] = "IDLE"

\* What was read is there as it was, unless it changed since, or the cart was bought.
ReadsFit ==
    buyerPage.at # "RETURN" =>
      /\ buyerPage.cart.read /\ "cart" \notin behind => buyerPage.cart = V!CartView \/ V!InCart = {}
      /\ buyerPage.addresses.read /\ "addresses" \notin behind => buyerPage.addresses = V!AddressView

\* Rows fit their key; the web has asked for quotes of what is chosen if it shows none.
QuotesFit ==
    buyerPage.at # "RETURN" =>
      /\ "quotes" \notin behind => /\ \A q \in buyerPage.quotes : RowsFit(q.key, q.rows)
                                   /\ \A run \in quoting : run.read => RowsFit(run.key, run.rows)
      /\ shopDevice = "web" =>
           /\ Ready(buyerPage) \/ (quoting = {} /\ buyerPage.quotes = {})
           /\ \A run \in quoting : run.key = V!KeyOf(buyerPage)
           /\ quoting # {} \/ \A q \in buyerPage.quotes : q.key = V!KeyOf(buyerPage)

\* What is asked for will be charged as it was shown.
PlacingFits ==
    /\ V!ChargedAsShown
    /\ placing.asked /\ ~placing.answered /\ behind = {} /\ ~placing.unsure /\ V!Accepts(placing.choice)
         => V!Total(placing.choice) = placing.shown

\* A read that found the end found the outcome, and reads that do not cross come one by one.
PollsFit ==
    buyerPage.at = "RETURN" =>
      /\ \A p \in Call : polls[p] \in V!Final => polls[p] = outcome
      /\ buyerPage.told # "NONE" => buyerPage.told = outcome /\ outcome \in V!Final
      /\ ~buyerPage.crossed =>
           /\ buyerPage.told \in {"NONE", buyerPage.seen}
           /\ \A p, q \in Call : polls[p] # "IDLE" /\ polls[q] # "IDLE" => p = q
           /\ \A p \in Call : polls[p] = "PENDING" => buyerPage.told = "NONE"

VisitsInv == VisitRows /\ VisitPage /\ ReadsFit /\ QuotesFit /\ PlacingFits /\ PollsFit

----------------------------------------------------------------------------
\* The sum of the model, as a total.
LEMMA SumIsTotal ==
    ASSUME NEW U, IsFiniteSet(U), NEW f \in [U -> Int]
    PROVE  \E g : IsTotal(g, f, U) /\ V!SumOver(f, U) = g[U]
<1> DEFINE Makes(h) == h = [s \in SUBSET U |-> IF s = {} THEN 0 ELSE f[Pick(s)] + h[s \ {Pick(s)}]]
<1>1. V!SumOver(f, U) = (CHOOSE h : Makes(h))[U]
  BY DEF V!SumOver, V!FoldFunctionOnSet, V!MapThenFoldSet, Pick
<1>2. \A h : Makes(h) <=> DefinesFold(h, f, U)
  BY DEF DefinesFold
<1> HIDE DEF Makes
<1>3. PICK g : SumsUp(g, f, U)
  BY FoldsAreTotal
<1> DEFINE k == CHOOSE h : Makes(h)
<1>4. Makes(k)
  BY <1>2, <1>3 DEF SumsUp
<1>5. k[U] = g[U]
  BY <1>2, <1>3, <1>4 DEF SumsUp
<1> HIDE DEF k
<1>6. IsTotal(g, f, U) /\ V!SumOver(f, U) = g[U]
  BY <1>1, <1>3, <1>5 DEF SumsUp, k
<1> QED BY <1>6

\* What is added up seller by seller, and what is added up of the lines and of the shipping.
LEMMA SumOfBoth ==
    ASSUME NEW U, IsFiniteSet(U), NEW f \in [U -> Int], NEW g \in [U -> Int], NEW h \in [U -> Int],
           \A s \in U : h[s] = f[s] + g[s]
    PROVE  V!SumOver(h, U) = V!SumOver(f, U) + V!SumOver(g, U)
<1>1. PICK a : IsTotal(a, f, U) /\ V!SumOver(f, U) = a[U]
  BY SumIsTotal
<1>2. PICK b : IsTotal(b, g, U) /\ V!SumOver(g, U) = b[U]
  BY SumIsTotal
<1>3. PICK c : IsTotal(c, h, U) /\ V!SumOver(h, U) = c[U]
  BY SumIsTotal
<1> DEFINE Good == {T \in SUBSET U : c[T] = a[T] + b[T]}
<1>4. ASSUME NEW T \in SUBSET U, \A X \in SUBSET T : X # T => X \in Good PROVE T \in Good
  <2>1. CASE T = {}
    BY <1>1, <1>2, <1>3, <2>1 DEF IsTotal
  <2>2. CASE T # {}
    <3>1. PICK x \in T : TRUE
      BY <2>2
    <3> DEFINE rest == T \ {x}
    <3>2. c[rest] = a[rest] + b[rest]
      BY <1>4, <3>1
    <3>3. rest \in SUBSET U /\ x \in U
      OBVIOUS
    <3>4. a[T] = f[x] + a[rest] /\ b[T] = g[x] + b[rest] /\ c[T] = h[x] + c[rest]
      BY <1>1, <1>2, <1>3, <3>1 DEF IsTotal
    <3>5. f[x] \in Int /\ g[x] \in Int /\ a[rest] \in Int /\ b[rest] \in Int /\ h[x] = f[x] + g[x]
      BY <1>1, <1>2, <3>3 DEF IsTotal
    <3> HIDE DEF rest
    <3>6. c[T] = a[T] + b[T]
      BY <3>2, <3>4, <3>5
    <3> QED BY <3>6
  <2> QED BY <2>1, <2>2
<1> HIDE DEF Good
<1>5. U \in Good
  BY <1>4, SubsetInduction
<1> QED BY <1>1, <1>2, <1>3, <1>5 DEF Good

\* The quotes of one shipping, with the region to fall back to and without.
LEMMA QuoteIs ==
    ASSUME NEW s, NEW p
    PROVE  /\ V!QuoteFromPlaces(s, "MEETUP", p, TRUE) = 0 /\ V!QuoteFromPlaces(s, "MEETUP", p, FALSE) = 0
           /\ V!QuoteFromPlaces(s, "COORDINATED", p, TRUE) \in {V!NoQuote, 0}
           /\ V!QuoteFromPlaces(s, "COORDINATED", p, FALSE) \in {V!NoQuote, 0}
           /\ V!QuoteFromPlaces(s, "CHILEXPRESS", p, TRUE) \in Int
           /\ V!QuoteFromPlaces(s, "CHILEXPRESS", p, FALSE) # V!NoQuote
                => V!QuoteFromPlaces(s, "CHILEXPRESS", p, TRUE) = V!QuoteFromPlaces(s, "CHILEXPRESS", p, FALSE)
<1>1. V!ZoneOf(p, FALSE) # V!NoPlace => V!ZoneOf(p, TRUE) = V!ZoneOf(p, FALSE)
  BY DEF V!ZoneOf, V!NoPlace
<1>2. V!QuoteFromPlaces(s, "MEETUP", p, TRUE) = 0 /\ V!QuoteFromPlaces(s, "MEETUP", p, FALSE) = 0
  BY DEF V!QuoteFromPlaces
<1>3. /\ V!QuoteFromPlaces(s, "COORDINATED", p, TRUE) \in {V!NoQuote, 0}
      /\ V!QuoteFromPlaces(s, "COORDINATED", p, FALSE) \in {V!NoQuote, 0}
  BY DEF V!QuoteFromPlaces
<1>4. \A from, to : V!Rate(from, to) \in Int
  BY DEF V!Rate
<1>5. V!NoQuote \in Int
  BY DEF V!NoQuote
<1> DEFINE none(to) == V!ZoneOf(shop[s].origin, TRUE) = V!NoPlace \/ to = V!NoPlace
<1>6. /\ V!QuoteFromPlaces(s, "CHILEXPRESS", p, TRUE)
           = IF none(V!ZoneOf(p, TRUE)) THEN V!NoQuote
             ELSE V!Rate(V!ZoneOf(shop[s].origin, TRUE), V!ZoneOf(p, TRUE))
      /\ V!QuoteFromPlaces(s, "CHILEXPRESS", p, FALSE)
           = IF none(V!ZoneOf(p, FALSE)) THEN V!NoQuote
             ELSE V!Rate(V!ZoneOf(shop[s].origin, TRUE), V!ZoneOf(p, FALSE))
  BY DEF V!QuoteFromPlaces
<1>7. V!QuoteFromPlaces(s, "CHILEXPRESS", p, TRUE) \in Int
  <2>1. CASE none(V!ZoneOf(p, TRUE))
    BY <1>5, <1>6, <2>1
  <2>2. CASE ~none(V!ZoneOf(p, TRUE))
    BY <1>4, <1>6, <2>2
  <2> QED BY <2>1, <2>2
<1>8. V!QuoteFromPlaces(s, "CHILEXPRESS", p, FALSE) # V!NoQuote
        => V!QuoteFromPlaces(s, "CHILEXPRESS", p, TRUE) = V!QuoteFromPlaces(s, "CHILEXPRESS", p, FALSE)
  BY <1>1, <1>6
<1> QED BY <1>2, <1>3, <1>7, <1>8

\* The quote that a page shows is of the method chosen and of where it goes.
LEMMA ShownQuoteFits ==
    ASSUME QuotesFit, buyerPage.at # "RETURN", "quotes" \notin behind, shopDevice = "web" => quoting = {},
           NEW s
    PROVE  V!ShownQuote(s) \in {V!NoQuote, V!QuoteFromPlaces(s, V!MethodOf(s), V!Destination(buyerPage), FALSE)}
<1> DEFINE fit == {q \in buyerPage.quotes : shopDevice = "web" \/ q.key = V!KeyOf(buyerPage)}
<1>1. CASE fit = {}
  BY <1>1 DEF V!Shown, V!ShownQuote
<1>2. CASE fit # {}
  <2> DEFINE q == CHOOSE x \in fit : TRUE
  <2>1. q \in fit /\ V!Shown = q.rows
    BY <1>2 DEF V!Shown
  <2>2. q \in buyerPage.quotes /\ q.key = V!KeyOf(buyerPage) /\ RowsFit(q.key, q.rows)
    BY <2>1 DEF QuotesFit
  <2> HIDE DEF q, fit
  <2>3. q.key.methods = buyerPage.methods /\ q.key.dest = V!Destination(buyerPage)
    BY <2>2 DEF V!KeyOf
  <2> QED BY <2>1, <2>2, <2>3 DEF RowsFit, V!ShownQuote, V!MethodOf
<1> QED BY <1>1, <1>2

\* With nothing changed since, the API finds what the page shows, and charges it.
LEMMA ShownIsCharged ==
    ASSUME VisitRows, VisitPage, ReadsFit, QuotesFit, V!Enabled, behind = {},
           NEW choice, choice = [s \in V!Groups |-> [method |-> V!MethodOf(s),
                                      address |-> IF V!MethodOf(s) = "MEETUP" THEN V!NoAddress
                                                  ELSE buyerPage.address]],
           shopDevice = "web" => quoting = {},
           \A s \in V!Groups : V!MethodOf(s) = "CHILEXPRESS" => V!ShownQuote(s) # V!NoQuote,
           V!Accepts(choice)
    PROVE  V!Total(choice) = V!ShownTotal
<1> DEFINE view == buyerPage.cart
           ships(s) == IF V!ShownQuote(s) = V!NoQuote THEN 0 ELSE V!ShownQuote(s)
<1>1. /\ buyerPage.at = "CHECKOUT" /\ view.read /\ BuyerPage(buyerPage)
      /\ V!InCart # {}
  BY DEF V!Enabled, V!OnCheckout, V!Accepts, VisitPage
<1>2. view = V!CartView
  BY <1>1 DEF ReadsFit
<1>3. V!Groups = V!InCart /\ \A s \in V!InCart : view.group[s].line = V!Line(s)
  BY <1>1, <1>2 DEF V!Groups, V!CartView
<1>4. V!InCart \subseteq Sale /\ IsFiniteSet(V!InCart)
  BY TradeAssumption, FS_Subset DEF V!InCart
<1>5. \A s \in V!InCart : V!Line(s) \in Int
  <2> SUFFICES ASSUME NEW s \in V!InCart PROVE V!Line(s) \in Int
    OBVIOUS
  <2>1. shop[s].price \in Int /\ basket[s] \in 0..MaxQuantity
    BY <1>4 DEF VisitRows, ShopRec
  <2>2. shop[s].price * basket[s] \in Int
    BY <2>1, TradeAssumption
  <2> QED BY <2>2 DEF V!Line
<1>6. ASSUME NEW s \in V!InCart
      PROVE  V!ShippingOf(s, choice[s]) = ships(s) /\ V!ShippingOf(s, choice[s]) \in Int
  <2> DEFINE m == V!MethodOf(s)
             quote == V!ShownQuote(s)
             to == V!Destination(buyerPage)
             charged == V!ShippingOf(s, choice[s])
  <2>1. m \in V!Method
    BY <1>1 DEF V!MethodOf, V!Method, BuyerPage
  <2>2. quote \in {V!NoQuote, V!QuoteFromPlaces(s, m, to, FALSE)}
    BY <1>1, ShownQuoteFits
  <2>3. charged # V!NoQuote
    BY DEF V!Accepts
  <2>4. CASE m = "MEETUP"
    <3>1. choice[s].method = "MEETUP"
      BY <1>3, <2>4
    <3>2. charged = 0 /\ quote \in {V!NoQuote, 0}
      BY <2>2, <2>4, <3>1, QuoteIs DEF V!ShippingOf
    <3> QED BY <3>2
  <2>5. CASE m # "MEETUP"
    <3> DEFINE a == buyerPage.address
    <3>1. choice[s].method = m /\ choice[s].address = a
      BY <1>3, <2>5
    <3>2. a # V!NoAddress /\ buyerPage.addresses.read
      <4>1. V!NeedsAddress
        BY <2>5 DEF V!MethodOf, V!NeedsAddress
      <4> QED BY <1>1, <4>1 DEF V!Enabled, BuyerPage
    <3>3. a \in V!Known
      BY <3>1, <3>2 DEF V!Accepts
    <3>4. buyerPage.addresses = V!AddressView
      BY <1>1, <3>2 DEF ReadsFit
    <3>5. to = place[a]
      BY <3>2, <3>3, <3>4 DEF V!Destination, V!AddressView
    <3>6. charged = V!QuoteFromPlaces(s, m, to, TRUE)
      BY <3>1, <3>2, <3>5 DEF V!ShippingOf
    <3> HIDE DEF m, quote, to, charged
    <3>7. ASSUME m = "COORDINATED" PROVE charged = (IF quote = V!NoQuote THEN 0 ELSE quote) /\ charged \in Int
      <4>1. charged \in {V!NoQuote, 0} /\ quote \in {V!NoQuote, 0}
        BY <2>2, <3>6, <3>7, QuoteIs
      <4> QED BY <2>3, <4>1
    <3>8. ASSUME m = "CHILEXPRESS" PROVE charged = (IF quote = V!NoQuote THEN 0 ELSE quote) /\ charged \in Int
      <4>1. quote # V!NoQuote
        BY <1>3, <3>8 DEF quote, m
      <4>2. quote = V!QuoteFromPlaces(s, "CHILEXPRESS", to, FALSE) /\ charged = V!QuoteFromPlaces(s, "CHILEXPRESS", to, TRUE)
        BY <2>2, <3>6, <3>8, <4>1
      <4> QED BY <4>1, <4>2, QuoteIs
    <3>9. charged = (IF quote = V!NoQuote THEN 0 ELSE quote) /\ charged \in Int
      <4>1. m \in {"COORDINATED", "CHILEXPRESS"}
        BY <2>1, <2>5 DEF V!Method, m
      <4> QED BY <3>7, <3>8, <4>1
    <3> QED BY <3>9 DEF quote, charged
  <2> QED BY <2>4, <2>5
<1> DEFINE lines == [s \in V!InCart |-> V!Line(s)]
           shipping == [s \in V!InCart |-> ships(s)]
           both == [s \in V!InCart |-> V!Line(s) + V!ShippingOf(s, choice[s])]
<1>7. V!Total(choice) = V!SumOver(both, V!InCart)
  BY DEF V!Total
<1>8. /\ [s \in V!Groups |-> view.group[s].line] = lines
      /\ [s \in V!Groups |-> IF V!ShownQuote(s) = V!NoQuote THEN 0 ELSE V!ShownQuote(s)] = shipping
  BY <1>3
<1>9. V!ShownTotal = V!SumOver(lines, V!InCart) + V!SumOver(shipping, V!InCart)
  BY <1>3, <1>8 DEF V!ShownTotal
<1>10. /\ lines \in [V!InCart -> Int] /\ shipping \in [V!InCart -> Int] /\ both \in [V!InCart -> Int]
       /\ \A s \in V!InCart : both[s] = lines[s] + shipping[s]
  <2> HIDE DEF ships
  <2>1. \A s \in V!InCart : ships(s) \in Int /\ V!Line(s) + ships(s) = V!Line(s) + V!ShippingOf(s, choice[s])
    BY <1>6
  <2>2. lines \in [V!InCart -> Int] /\ shipping \in [V!InCart -> Int]
    BY <1>5, <2>1
  <2>3. \A s \in V!InCart : V!Line(s) + V!ShippingOf(s, choice[s]) \in Int
    BY <1>5, <1>6
  <2>4. both \in [V!InCart -> Int]
    BY <2>3
  <2>5. \A s \in V!InCart : both[s] = lines[s] + shipping[s]
    BY <2>1
  <2> QED BY <2>2, <2>4, <2>5
<1> HIDE DEF lines, shipping, both
<1> QED BY <1>4, <1>7, <1>9, <1>10, SumOfBoth

LEMMA VisitsStart == ASSUME V!Init PROVE VisitsInv
<1> USE DEF V!Init, V!NoPut, V!Unread
<1>1. VisitRows
  <2>1. basket \in [Sale -> 0..MaxQuantity]
    BY TradeAssumption, VisitsAssumption
  <2>2. shop \in [Sale -> ShopRec]
    BY DEF V!Shops, ShopRec
  <2>3. polls \in [Call -> V!Final \union {"IDLE", "ASKED", "PENDING"}]
    BY DEF V!Final
  <2>4. place \in [Address -> V!Place \union {V!NoPlace}] /\ default \in Address
    BY DEF V!Place
  <2> QED BY <2>1, <2>2, <2>3, <2>4 DEF VisitRows
<1>2. VisitPage
  BY DEF VisitPage, BuyerPage
<1>3. ReadsFit /\ QuotesFit
  BY DEF ReadsFit, QuotesFit
<1>4. PlacingFits /\ PollsFit
  BY DEF PlacingFits, V!ChargedAsShown, PollsFit
<1> QED BY <1>1, <1>2, <1>3, <1>4 DEF VisitsInv

----------------------------------------------------------------------------
LEMMA VisitRowsStep == ASSUME VisitRows, VisitPage, V!Next PROVE VisitRows'
<1> USE DEF VisitRows, V!serverRows, V!laterRows, V!pageOnly
<1>1. ASSUME NEW s \in Sale, NEW n \in 0..MaxQuantity, V!Step(s, n) PROVE VisitRows'
  BY <1>1 DEF V!Step
<1>2. CASE V!ServePut
  <2>1. put \in [asked : {TRUE}, seller : Sale, to : 0..MaxQuantity]
    <3>1. put.asked /\ ~V!NoPut.asked
      BY <1>2 DEF V!ServePut, V!NoPut
    <3>2. put # V!NoPut
      BY <3>1
    <3> QED BY <3>2
  <2>2. basket' \in [Sale -> 0..MaxQuantity]
    BY <1>2, <2>1 DEF V!ServePut
  <2> QED BY <1>2, <2>2 DEF V!ServePut
<1>3. CASE V!GoToPay \/ V!LoadCart \/ V!LoadAddresses
  BY <1>3 DEF V!GoToPay, V!LoadCart, V!LoadAddresses
<1>4. ASSUME NEW s \in Sale, NEW m \in V!Method, V!ChooseMethod(s, m) PROVE VisitRows'
  BY <1>4 DEF V!ChooseMethod
<1>5. ASSUME NEW a \in Address, V!ChooseAddress(a) PROVE VisitRows'
  BY <1>5 DEF V!ChooseAddress
<1>6. ASSUME NEW run \in quoting, V!ServeQuotes(run) \/ V!ShowQuotes(run) PROVE VisitRows'
  BY <1>6 DEF V!ServeQuotes, V!ShowQuotes
<1>7. CASE V!Press
  BY <1>7 DEF V!Press
<1>8. CASE V!CreateCheckout
  <2>1. basket' \in [Sale -> 0..MaxQuantity]
    BY <1>8, TradeAssumption DEF V!CreateCheckout
  <2>2. placing' # V!NoPut => placing' = [placing EXCEPT !.answered = TRUE] /\ placing # V!NoPut
    BY <1>8 DEF V!CreateCheckout, V!NoPut
  <2>3. placing' # V!NoPut =>
         /\ placing' = [asked |-> TRUE, answered |-> placing'.answered, shown |-> placing'.shown,
                        choice |-> placing'.choice, unsure |-> placing'.unsure]
         /\ placing'.answered \in BOOLEAN
    <3> SUFFICES ASSUME placing' # V!NoPut
                 PROVE  /\ placing' = [asked |-> TRUE, answered |-> placing'.answered, shown |-> placing'.shown,
                                       choice |-> placing'.choice, unsure |-> placing'.unsure]
                        /\ placing'.answered \in BOOLEAN
      OBVIOUS
    <3>1. PICK a, b, c, d : placing = [asked |-> TRUE, answered |-> a, shown |-> b, choice |-> c, unsure |-> d]
      BY <2>2
    <3>2. placing' = [asked |-> TRUE, answered |-> TRUE, shown |-> b, choice |-> c, unsure |-> d]
      BY <2>2, <3>1
    <3> QED BY <3>2
  <2>4. receipt' # V!NoPut =>
         receipt' = [asked |-> TRUE, total |-> receipt'.total, shown |-> receipt'.shown,
                     behind |-> receipt'.behind, unsure |-> receipt'.unsure]
    BY <1>8 DEF V!CreateCheckout
  <2> QED BY <1>8, <2>1, <2>3, <2>4 DEF V!CreateCheckout
<1>9. CASE V!LoseAnswer \/ V!ShowReturn
  BY <1>9 DEF V!LoseAnswer, V!ShowReturn
<1>10. ASSUME NEW p \in Call, V!Ask(p) \/ V!Answer(p) \/ V!ShowStatus(p) \/ V!FailPoll(p) PROVE VisitRows'
  <2>1. UNCHANGED <<shopDevice, shop, basket, place, default, put, quoting, placing, behind, changed, receipt>>
    BY <1>10 DEF V!Ask, V!Answer, V!ShowStatus, V!FailPoll
  <2>2. outcome' \in V!Final \union {"PENDING"}
    BY <1>10 DEF V!Ask, V!Answer, V!ShowStatus, V!FailPoll, V!Final
  <2>3. polls' \in [Call -> V!Final \union {"IDLE", "ASKED", "PENDING"}]
    BY <1>10, <2>2 DEF V!Ask, V!Answer, V!ShowStatus, V!FailPoll
  <2> QED BY <2>1, <2>2, <2>3
<1>11. CASE V!TimeIsOver \/ V!Decided
  BY <1>11 DEF V!TimeIsOver, V!Decided
<1>12. CASE V!Others
  <2>1. UNCHANGED <<shopDevice, basket, default, put, quoting, placing, receipt, outcome, polls>> /\ changed' = TRUE
    BY <1>12 DEF V!Others
  <2>2. ASSUME NEW s \in Sale, V!SellerActs(s), UNCHANGED place PROVE VisitRows'
    <3>1. \E new \in ShopRec : shop' = [shop EXCEPT ![s] = new]
      <4>1. shop[s] \in ShopRec
        OBVIOUS
      <4>2. /\ \A n \in {1, 2} : [shop[s] EXCEPT !.price = n] \in ShopRec
            /\ [shop[s] EXCEPT !.onSale = FALSE] \in ShopRec
        BY <4>1 DEF ShopRec
      <4>3. [shop[s] EXCEPT !.meets = ~@] \in ShopRec /\ [shop[s] EXCEPT !.ships = ~@] \in ShopRec
        BY <4>1 DEF ShopRec
      <4>4. [shop[s] EXCEPT !.origin = "REGIONS"] \in ShopRec /\ [shop[s] EXCEPT !.left = TRUE] \in ShopRec
        BY <4>1 DEF ShopRec
      <4> QED BY <2>2, <4>2, <4>3, <4>4 DEF V!SellerActs
    <3>2. behind' \subseteq {"cart", "addresses", "quotes"}
      BY <2>2 DEF V!SellerActs
    <3> QED BY <2>1, <2>2, <3>1, <3>2, ZenonT(60)
  <2>3. CASE V!AddressActs /\ UNCHANGED shop
    <3>1. place' \in [Address -> V!Place \union {V!NoPlace}]
      BY <2>3 DEF V!AddressActs
    <3> QED BY <2>1, <2>3, <3>1 DEF V!AddressActs
  <2> QED BY <1>12, <2>2, <2>3 DEF V!Others
<1> QED BY <1>1, <1>2, <1>3, <1>4, <1>5, <1>6, <1>7, <1>8, <1>9, <1>10, <1>11, <1>12 DEF V!Next

\* After a read a page keeps what it has, but for the methods and the address.
LEMMA ChoosePage ==
    ASSUME NEW pg, BuyerPage(pg)
    PROVE  /\ BuyerPage(V!Choose(pg))
           /\ V!Choose(pg).at = pg.at /\ V!Choose(pg).cart = pg.cart
           /\ V!Choose(pg).addresses = pg.addresses /\ V!Choose(pg).quotes = pg.quotes
<1>1. CASE ~pg.cart.read \/ (shopDevice = "web" /\ ~pg.addresses.read)
  BY <1>1 DEF V!Choose
<1>2. CASE ~(~pg.cart.read \/ (shopDevice = "web" /\ ~pg.addresses.read))
  <2> DEFINE m == IF DOMAIN pg.methods = {} THEN V!FirstMethods(pg.cart) ELSE pg.methods
             x == IF pg.addresses.read /\ pg.addresses.first # V!NoAddress THEN pg.addresses.first ELSE pg.address
             new == [pg EXCEPT !.methods = m, !.address = x]
  <2>1. V!Choose(pg) = new
    BY <1>2 DEF V!Choose
  <2>2. DOMAIN m \subseteq Sale /\ m \in [DOMAIN m -> V!Method]
    BY <1>2 DEF V!FirstMethods, BuyerPage, V!Method
  <2>3. x # V!NoAddress => pg.addresses.read
    BY DEF BuyerPage
  <2> HIDE DEF m, x
  <2>4. /\ DOMAIN new = DOMAIN pg
        /\ new.at = pg.at /\ new.cart = pg.cart /\ new.addresses = pg.addresses /\ new.methods = m
        /\ new.address = x /\ new.quotes = pg.quotes
    BY DEF BuyerPage
  <2> HIDE DEF new
  <2>5. BuyerPage(new)
    BY <2>2, <2>3, <2>4 DEF BuyerPage
  <2> QED BY <2>1, <2>4, <2>5
<1> QED BY <1>1, <1>2


\* What the steps have in common that read something anew, or choose something else.
Rereads ==
    /\ buyerPage.at = "CHECKOUT" /\ BuyerPage(buyerPage') /\ buyerPage'.at = "CHECKOUT"
    /\ buyerPage'.quotes = buyerPage.quotes
    /\ buyerPage'.cart \in {buyerPage.cart, V!CartView}
    /\ buyerPage'.addresses \in {buyerPage.addresses, V!AddressView}
    /\ behind' \subseteq behind
    /\ behind \ behind' \subseteq {"cart", "addresses"} /\ (placing.asked => behind' = behind)
    /\ "cart" \in behind \ behind' => buyerPage'.cart = V!CartView
    /\ "addresses" \in behind \ behind' => buyerPage'.addresses = V!AddressView
    /\ \/ /\ quoting' = quoting
          /\ shopDevice = "web" /\ Ready(buyerPage') => V!KeyOf(buyerPage') = V!KeyOf(buyerPage)
       \/ /\ Ready(buyerPage')
          /\ quoting' = {[key |-> V!KeyOf(buyerPage'), of |-> DOMAIN buyerPage'.cart.group, read |-> FALSE]}
    /\ UNCHANGED <<shopDevice, shop, basket, place, default, put, placing, changed, receipt, outcome, polls>>

LEMMA AskedAnew ==
    ASSUME NEW pg, V!Becomes(pg, TRUE)
    PROVE  /\ buyerPage' = pg
           /\ \/ /\ quoting' = quoting
                 /\ shopDevice = "web" /\ Ready(pg) => V!KeyOf(pg) = V!KeyOf(buyerPage)
              \/ /\ Ready(pg)
                 /\ quoting' = {[key |-> V!KeyOf(pg), of |-> DOMAIN pg.cart.group, read |-> FALSE]}
<1> DEFINE key == V!KeyOf(pg)
           new == [key |-> key, of |-> DOMAIN pg.cart.group, read |-> FALSE]
           known == \E q \in pg.quotes \union quoting : q.key = key
<1>1. /\ buyerPage' = pg
      /\ quoting' = IF Ready(pg) /\ (IF shopDevice = "web" THEN TRUE ELSE ~known) THEN {} \union {new} ELSE quoting
  BY DEF V!Becomes, V!StillWanted, Ready
<1> HIDE DEF new, known
<1>2. CASE shopDevice = "web"
  <2>1. Ready(pg) => quoting' = {new}
    BY <1>1, <1>2
  <2>2. ~Ready(pg) => quoting' = quoting
    BY <1>1, <1>2
  <2> QED BY <1>1, <2>1, <2>2 DEF new
<1>3. CASE shopDevice # "web"
  <2>1. quoting' = quoting \/ (Ready(pg) /\ quoting' = {new})
    BY <1>1, <1>3
  <2> QED BY <1>1, <1>3, <2>1 DEF new
<1> QED BY <1>2, <1>3

LEMMA Rereading ==
    ASSUME VisitRows, VisitPage
    PROVE  /\ V!LoadCart => Rereads
           /\ V!LoadAddresses => Rereads
           /\ \A s \in Sale, m \in V!Method : V!ChooseMethod(s, m) => Rereads
           /\ \A a \in Address : V!ChooseAddress(a) => Rereads
<1>1. ASSUME V!LoadCart PROVE Rereads
  <2> DEFINE pg == [buyerPage EXCEPT !.cart = V!CartView, !.stale = @ \ {"cart"}]
             new == V!Choose(pg)
  <2>1. buyerPage.at = "CHECKOUT" /\ BuyerPage(buyerPage)
    BY <1>1 DEF V!LoadCart, VisitPage
  <2>2. /\ DOMAIN pg = DOMAIN buyerPage /\ pg.at = "CHECKOUT" /\ pg.cart = V!CartView
        /\ pg.addresses = buyerPage.addresses /\ pg.quotes = buyerPage.quotes
        /\ pg.methods = buyerPage.methods /\ pg.address = buyerPage.address
    BY <2>1 DEF BuyerPage
  <2>3. V!Becomes(new, TRUE)
    BY <1>1 DEF V!LoadCart
  <2>4. /\ behind' = IF placing.asked THEN behind ELSE behind \ {"cart"}
        /\ UNCHANGED <<shopDevice, shop, basket, place, default, put, placing, changed, receipt, outcome, polls>>
    BY <1>1 DEF V!LoadCart, V!serverRows, V!laterRows
  <2> HIDE DEF pg
  <2>5. BuyerPage(pg)
    BY <2>1, <2>2 DEF BuyerPage, V!CartView, V!InCart
  <2>6. BuyerPage(new) /\ new.at = "CHECKOUT" /\ new.cart = V!CartView /\ new.addresses = buyerPage.addresses
        /\ new.quotes = buyerPage.quotes
    BY <2>2, <2>5, ChoosePage
  <2> HIDE DEF new
  <2> QED BY <2>1, <2>3, <2>4, <2>6, AskedAnew DEF Rereads
<1>2. ASSUME V!LoadAddresses PROVE Rereads
  <2> DEFINE pg == [buyerPage EXCEPT !.addresses = V!AddressView, !.stale = @ \ {"addresses"}]
             new == V!Choose(pg)
  <2>1. buyerPage.at = "CHECKOUT" /\ BuyerPage(buyerPage)
    BY <1>2 DEF V!LoadAddresses, VisitPage
  <2>2. /\ DOMAIN pg = DOMAIN buyerPage /\ pg.at = "CHECKOUT" /\ pg.addresses = V!AddressView
        /\ pg.cart = buyerPage.cart /\ pg.quotes = buyerPage.quotes
        /\ pg.methods = buyerPage.methods /\ pg.address = buyerPage.address
    BY <2>1 DEF BuyerPage
  <2>3. V!Becomes(new, TRUE)
    BY <1>2 DEF V!LoadAddresses
  <2>4. /\ behind' = IF placing.asked THEN behind ELSE behind \ {"addresses"}
        /\ UNCHANGED <<shopDevice, shop, basket, place, default, put, placing, changed, receipt, outcome, polls>>
    BY <1>2 DEF V!LoadAddresses, V!serverRows, V!laterRows
  <2> HIDE DEF pg
  <2>5. BuyerPage(pg)
    BY <2>1, <2>2 DEF BuyerPage, V!AddressView
  <2>6. BuyerPage(new) /\ new.at = "CHECKOUT" /\ new.addresses = V!AddressView /\ new.cart = buyerPage.cart
        /\ new.quotes = buyerPage.quotes
    BY <2>2, <2>5, ChoosePage
  <2> HIDE DEF new
  <2> QED BY <2>1, <2>3, <2>4, <2>6, AskedAnew DEF Rereads
<1>3. ASSUME NEW s \in Sale, NEW m \in V!Method, V!ChooseMethod(s, m) PROVE Rereads
  <2> DEFINE methods == [t \in DOMAIN buyerPage.methods \union {s} |-> IF t = s THEN m ELSE buyerPage.methods[t]]
             new == [buyerPage EXCEPT !.choices = @ + 1, !.methods = methods]
  <2>1. buyerPage.at = "CHECKOUT" /\ BuyerPage(buyerPage)
    BY <1>3 DEF V!ChooseMethod, V!OnCheckout, VisitPage
  <2>2. DOMAIN methods \subseteq Sale /\ methods \in [DOMAIN methods -> V!Method]
    BY <2>1 DEF BuyerPage
  <2>3. V!Becomes(new, TRUE)
    BY <1>3 DEF V!ChooseMethod
  <2> HIDE DEF methods
  <2>4. /\ DOMAIN new = DOMAIN buyerPage /\ new.at = "CHECKOUT" /\ new.cart = buyerPage.cart
        /\ new.addresses = buyerPage.addresses /\ new.quotes = buyerPage.quotes
        /\ new.methods = methods /\ new.address = buyerPage.address
    BY <2>1 DEF BuyerPage
  <2>5. UNCHANGED <<shopDevice, shop, basket, place, default, put, placing, changed, receipt, outcome, polls, behind>>
    BY <1>3 DEF V!ChooseMethod, V!serverRows, V!laterRows
  <2> HIDE DEF new
  <2>6. BuyerPage(new)
    BY <2>1, <2>2, <2>4 DEF BuyerPage
  <2>7. /\ buyerPage' = new
        /\ \/ /\ quoting' = quoting
              /\ shopDevice = "web" /\ Ready(new) => V!KeyOf(new) = V!KeyOf(buyerPage)
           \/ /\ Ready(new)
              /\ quoting' = {[key |-> V!KeyOf(new), of |-> DOMAIN new.cart.group, read |-> FALSE]}
    BY <2>3, AskedAnew
  <2> QED BY <2>1, <2>4, <2>5, <2>6, <2>7 DEF Rereads
<1>4. ASSUME NEW a \in Address, V!ChooseAddress(a) PROVE Rereads
  <2> DEFINE new == [buyerPage EXCEPT !.address = a, !.choices = @ + 1]
             run == [key |-> V!KeyOf(new), of |-> DOMAIN new.cart.group, read |-> FALSE]
  <2>1. buyerPage.at = "CHECKOUT" /\ BuyerPage(buyerPage) /\ buyerPage.addresses.read
    BY <1>4 DEF V!ChooseAddress, V!OnCheckout, VisitPage
  <2>2. V!Becomes(new, V!Destination(new) # V!Destination(buyerPage))
    BY <1>4 DEF V!ChooseAddress
  <2>3. /\ DOMAIN new = DOMAIN buyerPage /\ new.at = "CHECKOUT" /\ new.cart = buyerPage.cart
        /\ new.addresses = buyerPage.addresses /\ new.quotes = buyerPage.quotes
        /\ new.methods = buyerPage.methods
    BY <2>1 DEF BuyerPage
  <2>4. UNCHANGED <<shopDevice, shop, basket, place, default, put, placing, changed, receipt, outcome, polls, behind>>
    BY <1>4 DEF V!ChooseAddress, V!serverRows, V!laterRows
  <2> HIDE DEF new
  <2>5. BuyerPage(new)
    BY <2>1, <2>3 DEF BuyerPage
  <2>6. buyerPage' = new
    BY <2>2 DEF V!Becomes
  <2>7. quoting' = quoting \/ (Ready(new) /\ quoting' = {run})
    BY <2>2 DEF V!Becomes, V!StillWanted, Ready
  <2>8. shopDevice = "web" /\ Ready(new) /\ V!Destination(new) # V!Destination(buyerPage) => quoting' = {run}
    BY <2>2 DEF V!Becomes, V!StillWanted, Ready
  <2>9. V!Destination(new) = V!Destination(buyerPage) => V!KeyOf(new) = V!KeyOf(buyerPage)
    BY <2>3 DEF V!KeyOf
  <2>10. \/ /\ quoting' = quoting
            /\ shopDevice = "web" /\ Ready(new) => V!KeyOf(new) = V!KeyOf(buyerPage)
         \/ Ready(new) /\ quoting' = {run}
    <3> HIDE DEF run
    <3> QED BY <2>7, <2>8, <2>9
  <2> QED BY <2>1, <2>3, <2>4, <2>5, <2>6, <2>10 DEF Rereads
<1> QED BY <1>1, <1>2, <1>3, <1>4

LEMMA RereadsKeep ==
    ASSUME VisitPage, ReadsFit, QuotesFit, Rereads PROVE VisitPage' /\ ReadsFit' /\ QuotesFit'
<1> DEFINE new == buyerPage'
<1>1. VisitPage'
  <2>1. BuyerPage(new) /\ new.at = "CHECKOUT" /\ UNCHANGED <<put, placing, polls>>
    BY DEF Rereads
  <2>2. \A p \in Call : polls'[p] = "IDLE"
    BY DEF Rereads, VisitPage
  <2>3. \A run \in quoting' : run.of \subseteq Sale /\ DOMAIN run.key.methods \subseteq Sale
    <3> SUFFICES ASSUME NEW run \in quoting', run \notin quoting
                 PROVE  run.of \subseteq Sale /\ DOMAIN run.key.methods \subseteq Sale
      BY DEF VisitPage
    <3>1. run = [key |-> V!KeyOf(new), of |-> DOMAIN new.cart.group, read |-> FALSE] /\ Ready(new)
      BY DEF Rereads
    <3> QED BY <2>1, <3>1 DEF BuyerPage, Ready, V!KeyOf
  <2> QED BY <2>1, <2>2, <2>3 DEF VisitPage, BuyerPage
<1>2. ReadsFit'
  <2>1. UNCHANGED <<shop, basket, place, default>>
    BY DEF Rereads
  <2>2. V!CartView' = V!CartView /\ V!InCart' = V!InCart /\ V!AddressView' = V!AddressView
    BY <2>1 DEF V!CartView, V!InCart, V!Line, V!AddressView, V!Known
  <2>3. new.cart.read /\ "cart" \notin behind' => new.cart = V!CartView \/ V!InCart = {}
    BY DEF Rereads, ReadsFit
  <2>4. new.addresses.read /\ "addresses" \notin behind' => new.addresses = V!AddressView
    BY DEF Rereads, ReadsFit
  <2> QED BY <2>2, <2>3, <2>4 DEF ReadsFit
<1>3. QuotesFit'
  <2> DEFINE run == [key |-> V!KeyOf(new), of |-> DOMAIN new.cart.group, read |-> FALSE]
  <2>1. shop' = shop /\ shopDevice' = shopDevice /\ new.quotes = buyerPage.quotes
        /\ ("quotes" \in behind' <=> "quotes" \in behind) /\ buyerPage.at # "RETURN"
    BY DEF Rereads
  <2>2. V!KeyOf(buyerPage)' = V!KeyOf(new)
    BY <2>1 DEF V!KeyOf, V!Destination
  <2>3. (\A q \in buyerPage.quotes : RowsFit(q.key, q.rows)) => (\A q \in buyerPage.quotes : RowsFit(q.key, q.rows))'
    BY <2>1 DEF RowsFit, V!QuoteFromPlaces
  <2>4. "quotes" \notin behind => /\ (\A q \in buyerPage.quotes : RowsFit(q.key, q.rows))'
                                  /\ (\A r \in quoting : r.read => RowsFit(r.key, r.rows))'
    <3>1. (\A r \in quoting : r.read => RowsFit(r.key, r.rows)) =>
            (\A r \in quoting : r.read => RowsFit(r.key, r.rows))'
      <4>1. quoting' \subseteq quoting \union {run} /\ ~run.read
        BY DEF Rereads
      <4> QED BY <2>1, <4>1 DEF RowsFit, V!QuoteFromPlaces
    <3> QED BY <2>1, <2>3, <3>1 DEF QuotesFit
  <2>5. ASSUME shopDevice = "web"
        PROVE  /\ Ready(new) \/ (quoting' = {} /\ new.quotes = {})
               /\ \A r \in quoting' : r.key = V!KeyOf(new)
               /\ quoting' # {} \/ \A q \in new.quotes : q.key = V!KeyOf(new)
    <3>1. CASE quoting' = {run} /\ Ready(new)
      BY <3>1
    <3>2. CASE quoting' = quoting /\ Ready(new)
      <4>1. V!KeyOf(new) = V!KeyOf(buyerPage) \/ quoting' = {run}
        BY <2>5, <3>2 DEF Rereads
      <4> QED BY <2>1, <2>5, <3>1, <3>2, <4>1 DEF QuotesFit
    <3>3. CASE ~Ready(new)
      <4>1. ~Ready(buyerPage) /\ quoting' = quoting
        BY <3>3 DEF Rereads, Ready, V!CartView, V!AddressView
      <4> QED BY <2>1, <2>5, <3>3, <4>1 DEF QuotesFit
    <3> QED BY <3>1, <3>2, <3>3 DEF Rereads
  <2> QED BY <2>1, <2>2, <2>4, <2>5 DEF QuotesFit, Ready
<1> QED BY <1>1, <1>2, <1>3

\* What the steps have in common that leave the page what it shows.
Stays ==
    /\ buyerPage.at # "RETURN" /\ BuyerPage(buyerPage')
    /\ buyerPage'.cart = buyerPage.cart /\ buyerPage'.addresses = buyerPage.addresses
    /\ buyerPage'.methods = buyerPage.methods /\ buyerPage'.address = buyerPage.address
    /\ buyerPage'.quotes = buyerPage.quotes
    /\ UNCHANGED <<shopDevice, quoting, polls>>
    /\ behind \subseteq behind'
    /\ "cart" \in behind' \/ V!InCart' = {} \/ (V!CartView' = V!CartView /\ V!InCart' = V!InCart)
    /\ "addresses" \in behind' \/ V!AddressView' = V!AddressView
    /\ "quotes" \in behind' \/ \A s \in Sale : shop'[s].origin = shop[s].origin

LEMMA StaysKeep ==
    ASSUME VisitPage, ReadsFit, QuotesFit, Stays PROVE VisitPage' /\ ReadsFit' /\ QuotesFit'
<1> DEFINE new == buyerPage'
<1>1. VisitPage'
  BY DEF Stays, VisitPage, BuyerPage
<1>2. ReadsFit'
  BY DEF Stays, ReadsFit
<1>3. QuotesFit'
  <2>1. V!KeyOf(buyerPage)' = V!KeyOf(buyerPage)
    BY DEF Stays, V!KeyOf, V!Destination
  <2>2. ASSUME "quotes" \notin behind'
        PROVE  /\ (\A q \in buyerPage.quotes : RowsFit(q.key, q.rows))'
               /\ (\A r \in quoting : r.read => RowsFit(r.key, r.rows))'
    <3>1. \A s \in Sale : shop'[s].origin = shop[s].origin
      BY <2>2 DEF Stays
    <3>2. /\ \A q \in buyerPage.quotes : RowsFit(q.key, q.rows)
          /\ \A r \in quoting : r.read => RowsFit(r.key, r.rows)
      BY <2>2 DEF Stays, QuotesFit
    <3>4. buyerPage'.quotes = buyerPage.quotes /\ quoting' = quoting
      BY DEF Stays
    <3> QED BY <3>1, <3>2, <3>4, ZenonT(60) DEF RowsFit, V!QuoteFromPlaces
  <2>3. Ready(buyerPage)' <=> Ready(buyerPage)
    BY DEF Stays, Ready
  <2> QED BY <2>1, <2>2, <2>3 DEF QuotesFit, Stays
<1> QED BY <1>1, <1>2, <1>3

LEMMA OthersAct ==
    ASSUME VisitRows, NEW s \in Sale, V!SellerActs(s), UNCHANGED <<basket, place, default>>
    PROVE  /\ behind \subseteq behind'
           /\ "cart" \in behind' \/ (V!CartView' = V!CartView /\ V!InCart' = V!InCart)
           /\ "quotes" \in behind' \/ \A t \in Sale : shop'[t].origin = shop[t].origin
<1>1. behind \subseteq behind'
  BY DEF V!SellerActs
<1>2. V!InCart' = V!InCart /\ V!InCart \subseteq Sale
  BY DEF V!InCart
<1>3. shop[s] \in ShopRec /\ DOMAIN shop = Sale
  BY DEF VisitRows
<1>4. ASSUME \/ \E n \in {1, 2} : shop' = [shop EXCEPT ![s].price = n] /\ behind' = behind \union {"cart"}
             \/ shop' = [shop EXCEPT ![s].onSale = FALSE] /\ behind' = behind \union {"cart"}
             \/ shop' = [shop EXCEPT ![s].meets = ~@] /\ behind' = behind \union {"cart"}
             \/ shop' = [shop EXCEPT ![s].ships = ~@] /\ behind' = behind \union {"cart"}
      PROVE  "cart" \in behind' /\ \A t \in Sale : shop'[t].origin = shop[t].origin
  <2>1. "cart" \in behind'
    BY <1>4
  <2>2. \A t \in Sale : t # s => shop'[t] = shop[t]
    BY <1>3, <1>4
  <2>3. shop'[s].origin = shop[s].origin
    BY <1>3, <1>4 DEF ShopRec
  <2> QED BY <2>1, <2>2, <2>3
<1>5. ASSUME \/ shop' = [shop EXCEPT ![s].origin = "REGIONS"] /\ behind' = behind \union {"quotes"}
             \/ shop' = [shop EXCEPT ![s].left = TRUE] /\ behind' = behind \union {"quotes"}
      PROVE  "quotes" \in behind' /\ V!CartView' = V!CartView
  <2>1. "quotes" \in behind'
    BY <1>5
  <2>2. \A t \in Sale : t # s => shop'[t] = shop[t]
    BY <1>3, <1>5
  <2>3. /\ shop'[s].price = shop[s].price /\ shop'[s].onSale = shop[s].onSale
        /\ shop'[s].meets = shop[s].meets /\ shop'[s].ships = shop[s].ships
    BY <1>3, <1>5 DEF ShopRec
  <2>4. \A t \in Sale : /\ shop'[t].price = shop[t].price /\ shop'[t].onSale = shop[t].onSale
                        /\ shop'[t].meets = shop[t].meets /\ shop'[t].ships = shop[t].ships
    BY <2>2, <2>3
  <2>5. V!CartView' = V!CartView
    BY <1>2, <2>4 DEF V!CartView, V!Line
  <2> QED BY <2>1, <2>5
<1>6. ("cart" \in behind' /\ \A t \in Sale : shop'[t].origin = shop[t].origin)
      \/ ("quotes" \in behind' /\ V!CartView' = V!CartView)
  BY <1>4, <1>5 DEF V!SellerActs
<1> QED BY <1>1, <1>2, <1>6

LEMMA Staying ==
    ASSUME VisitRows, VisitPage
    PROVE  /\ \A s \in Sale : \A n \in 0..MaxQuantity : V!Step(s, n) => Stays
           /\ V!ServePut => Stays
           /\ V!GoToPay => Stays
           /\ V!Press => Stays
           /\ V!CreateCheckout => Stays
           /\ V!LoseAnswer => Stays
           /\ V!Others => Stays
           /\ buyerPage.at # "RETURN" /\ V!Decided => Stays
<1> USE DEF V!serverRows, V!laterRows, V!pageOnly
<1>1. ~V!NoPut.asked
  BY DEF V!NoPut
<1>2. UNCHANGED <<shop, basket, place, default>>
        => V!CartView' = V!CartView /\ V!InCart' = V!InCart /\ V!AddressView' = V!AddressView
  BY DEF V!CartView, V!InCart, V!Line, V!AddressView, V!Known
<1>3. buyerPage.at # "RETURN" => BuyerPage(buyerPage)
  BY DEF VisitPage
<1>4. ASSUME NEW s \in Sale, NEW n \in 0..MaxQuantity, V!Step(s, n) PROVE Stays
  BY <1>2, <1>3, <1>4 DEF V!Step, Stays
<1>5. ASSUME V!ServePut PROVE Stays
  <2>1. buyerPage.at # "RETURN" /\ BuyerPage(buyerPage)
    BY <1>1, <1>3, <1>5 DEF V!ServePut, VisitPage
  <2>2. BuyerPage(buyerPage') /\ buyerPage'.cart = buyerPage.cart /\ buyerPage'.addresses = buyerPage.addresses
        /\ buyerPage'.methods = buyerPage.methods /\ buyerPage'.address = buyerPage.address
        /\ buyerPage'.quotes = buyerPage.quotes
    BY <1>5, <2>1 DEF V!ServePut, BuyerPage
  <2>3. V!AddressView' = V!AddressView
    BY <1>5 DEF V!ServePut, V!AddressView, V!Known
  <2> QED BY <1>5, <2>1, <2>2, <2>3 DEF V!ServePut, Stays
<1>6. ASSUME V!GoToPay PROVE Stays
  <2>1. buyerPage.at # "RETURN" /\ BuyerPage(buyerPage)
    BY <1>3, <1>6 DEF V!GoToPay
  <2>2. BuyerPage(buyerPage') /\ buyerPage'.cart = buyerPage.cart /\ buyerPage'.addresses = buyerPage.addresses
        /\ buyerPage'.methods = buyerPage.methods /\ buyerPage'.address = buyerPage.address
        /\ buyerPage'.quotes = buyerPage.quotes
    BY <1>6, <2>1 DEF V!GoToPay, BuyerPage
  <2> QED BY <1>2, <1>6, <2>1, <2>2 DEF V!GoToPay, Stays
<1>7. ASSUME V!Press \/ V!LoseAnswer \/ (buyerPage.at # "RETURN" /\ V!Decided) PROVE Stays
  <2>1. buyerPage.at # "RETURN"
    BY <1>1, <1>7 DEF V!Press, V!Enabled, V!OnCheckout, V!LoseAnswer, VisitPage
  <2>2. UNCHANGED <<shop, basket, place, default, shopDevice, buyerPage, quoting, polls, behind>>
    BY <1>7 DEF V!Press, V!LoseAnswer, V!Decided
  <2> QED BY <1>2, <1>3, <2>1, <2>2 DEF Stays
<1>8. ASSUME V!CreateCheckout PROVE Stays
  <2>1. buyerPage.at # "RETURN"
    BY <1>1, <1>8 DEF V!CreateCheckout, VisitPage
  <2>2. UNCHANGED <<shop, place, default, shopDevice, buyerPage, quoting, polls, behind>>
    BY <1>8 DEF V!CreateCheckout
  <2>3. V!AddressView' = V!AddressView
    BY <2>2 DEF V!AddressView, V!Known
  <2>4. V!InCart' = {} \/ UNCHANGED basket
    BY <1>8 DEF V!CreateCheckout, V!InCart
  <2> QED BY <1>2, <1>3, <2>1, <2>2, <2>3, <2>4 DEF Stays
<1>9. ASSUME V!Others PROVE Stays
  <2>1. buyerPage.at # "RETURN" /\ BuyerPage(buyerPage)
    BY <1>3, <1>9 DEF V!Others
  <2>2. BuyerPage(buyerPage') /\ buyerPage'.cart = buyerPage.cart /\ buyerPage'.addresses = buyerPage.addresses
        /\ buyerPage'.methods = buyerPage.methods /\ buyerPage'.address = buyerPage.address
        /\ buyerPage'.quotes = buyerPage.quotes
    BY <1>9, <2>1 DEF V!Others, BuyerPage
  <2>3. UNCHANGED <<shopDevice, quoting, polls, basket, default>>
    BY <1>9 DEF V!Others
  <2>4. ASSUME NEW s \in Sale, V!SellerActs(s), UNCHANGED place PROVE Stays
    <3>1. V!AddressView' = V!AddressView
      BY <2>3, <2>4 DEF V!AddressView, V!Known
    <3> QED BY <2>1, <2>2, <2>3, <2>4, <3>1, OthersAct DEF Stays
  <2>5. ASSUME V!AddressActs, UNCHANGED shop PROVE Stays
    <3>1. V!CartView' = V!CartView /\ V!InCart' = V!InCart
      BY <2>3, <2>5 DEF V!CartView, V!InCart, V!Line
    <3>2. behind' = behind \union {"addresses"}
      BY <2>5 DEF V!AddressActs
    <3> QED BY <2>1, <2>2, <2>3, <2>5, <3>1, <3>2 DEF Stays
  <2> QED BY <1>9, <2>4, <2>5 DEF V!Others
<1> QED BY <1>4, <1>5, <1>6, <1>7, <1>8, <1>9

LEMMA QuotesStep ==
    ASSUME VisitRows, VisitPage, ReadsFit, QuotesFit, NEW run \in quoting, V!ServeQuotes(run) \/ V!ShowQuotes(run)
    PROVE  VisitPage' /\ ReadsFit' /\ QuotesFit'
<1> USE DEF V!serverRows, V!laterRows
<1>1. buyerPage.at # "RETURN" /\ BuyerPage(buyerPage) /\ run.of \subseteq Sale /\ DOMAIN run.key.methods \subseteq Sale
  BY DEF VisitPage
<1>2. UNCHANGED <<shopDevice, shop, basket, place, default, polls, behind>>
  BY DEF V!ServeQuotes, V!ShowQuotes
<1>3. V!CartView' = V!CartView /\ V!InCart' = V!InCart /\ V!AddressView' = V!AddressView
  BY <1>2 DEF V!CartView, V!InCart, V!Line, V!AddressView, V!Known
<1>4. CASE V!ServeQuotes(run)
  <2> DEFINE methodOf(s) == IF s \in DOMAIN run.key.methods THEN run.key.methods[s] ELSE "MEETUP"
  <2>1. PICK refused \in SUBSET {s \in DOMAIN run.key.methods : run.key.methods[s] = "CHILEXPRESS"} :
           quoting' = (quoting \ {run}) \union
               {[key |-> run.key, of |-> run.of, read |-> TRUE,
                 rows |-> [s \in run.of |-> IF s \in refused THEN V!NoQuote
                                            ELSE V!Quote(s, methodOf(s), run.key.dest)]]}
    BY <1>4 DEF V!ServeQuotes
  <2> DEFINE rows == [s \in run.of |-> IF s \in refused THEN V!NoQuote ELSE V!Quote(s, methodOf(s), run.key.dest)]
             new == [key |-> run.key, of |-> run.of, read |-> TRUE, rows |-> rows]
  <2>2. RowsFit(run.key, rows)
    BY <1>1 DEF RowsFit, V!Quote
  <2>3. quoting' = (quoting \ {run}) \union {new} /\ buyerPage' = buyerPage
    BY <1>4, <2>1 DEF V!ServeQuotes
  <2>4. new.key = run.key /\ new.of = run.of /\ new.rows = rows
    OBVIOUS
  <2> HIDE DEF rows, new, methodOf
  <2>5. VisitPage'
    BY <1>1, <1>2, <2>3, <2>4 DEF VisitPage, BuyerPage
  <2>6. ReadsFit'
    BY <1>1, <1>2, <1>3, <2>3 DEF ReadsFit
  <2>7. V!KeyOf(buyerPage)' = V!KeyOf(buyerPage) /\ (Ready(buyerPage)' <=> Ready(buyerPage))
    BY <1>2, <2>3 DEF V!KeyOf, V!Destination, Ready
  <2>8. ASSUME "quotes" \notin behind
        PROVE  /\ \A q \in buyerPage.quotes : RowsFit(q.key, q.rows)'
               /\ \A r \in quoting' : r.read => RowsFit(r.key, r.rows)'
    <3>1. /\ \A q \in buyerPage.quotes : RowsFit(q.key, q.rows)
          /\ \A r \in quoting' : r.read => RowsFit(r.key, r.rows)
      BY <1>1, <2>2, <2>3, <2>4, <2>8 DEF QuotesFit
    <3> QED BY <1>2, <3>1 DEF RowsFit, V!QuoteFromPlaces
  <2>9. shopDevice = "web" =>
           /\ Ready(buyerPage)
           /\ \A r \in quoting' : r.key = V!KeyOf(buyerPage)
           /\ quoting' # {}
    BY <1>1, <2>3, <2>4 DEF QuotesFit
  <2> QED BY <1>2, <2>3, <2>5, <2>6, <2>7, <2>8, <2>9 DEF QuotesFit
<1>5. CASE V!ShowQuotes(run)
  <2> DEFINE q == [key |-> run.key, rows |-> run.rows]
  <2>1. run.read /\ quoting' = quoting \ {run} /\ buyerPage' = [buyerPage EXCEPT !.quotes = {q}]
    BY <1>5 DEF V!ShowQuotes
  <2>2. q.key = run.key /\ q.rows = run.rows
    OBVIOUS
  <2> HIDE DEF q
  <2>3. /\ DOMAIN buyerPage' = DOMAIN buyerPage /\ buyerPage'.at = buyerPage.at /\ buyerPage'.cart = buyerPage.cart
        /\ buyerPage'.addresses = buyerPage.addresses /\ buyerPage'.methods = buyerPage.methods
        /\ buyerPage'.address = buyerPage.address /\ buyerPage'.quotes = {q}
    BY <1>1, <2>1 DEF BuyerPage
  <2>4. VisitPage'
    BY <1>1, <1>2, <2>1, <2>3 DEF VisitPage, BuyerPage
  <2>5. ReadsFit'
    BY <1>1, <1>2, <1>3, <2>3 DEF ReadsFit
  <2>6. V!KeyOf(buyerPage)' = V!KeyOf(buyerPage) /\ (Ready(buyerPage)' <=> Ready(buyerPage))
    BY <1>2, <2>3 DEF V!KeyOf, V!Destination, Ready
  <2>7. ASSUME "quotes" \notin behind
        PROVE  /\ \A x \in buyerPage'.quotes : RowsFit(x.key, x.rows)'
               /\ \A r \in quoting' : r.read => RowsFit(r.key, r.rows)'
    <3>1. /\ \A x \in {q} : RowsFit(x.key, x.rows)
          /\ \A r \in quoting' : r.read => RowsFit(r.key, r.rows)
      BY <1>1, <2>1, <2>2, <2>7 DEF QuotesFit
    <3> QED BY <1>2, <2>3, <3>1 DEF RowsFit, V!QuoteFromPlaces
  <2>8. shopDevice = "web" =>
           /\ Ready(buyerPage)
           /\ \A r \in quoting' : r.key = V!KeyOf(buyerPage)
           /\ \A x \in buyerPage'.quotes : x.key = V!KeyOf(buyerPage)
    BY <1>1, <2>1, <2>2, <2>3 DEF QuotesFit
  <2> QED BY <1>2, <2>3, <2>4, <2>5, <2>6, <2>7, <2>8 DEF QuotesFit
<1> QED BY <1>4, <1>5

\* The page of the outcome stays.
LEMMA ReturnStep ==
    ASSUME VisitRows, VisitPage,
           \/ V!ShowReturn
           \/ buyerPage.at = "RETURN" /\ V!Decided
           \/ V!TimeIsOver
           \/ \E p \in Call : V!Ask(p) \/ V!Answer(p) \/ V!ShowStatus(p) \/ V!FailPoll(p)
    PROVE  VisitPage' /\ ReadsFit' /\ QuotesFit' /\ buyerPage'.at = "RETURN"
<1>1. VisitPage' /\ buyerPage'.at = "RETURN"
  <2>1. CASE V!ShowReturn
    BY <2>1 DEF V!ShowReturn, V!AtReturn, VisitPage, OutcomePage
  <2>2. ASSUME NEW p \in Call, V!Ask(p) PROVE VisitPage' /\ buyerPage'.at = "RETURN"
    BY <2>2 DEF V!Ask, V!Returned, V!Overlaps, V!pageOnly, VisitPage, OutcomePage
  <2>3. ASSUME NEW p \in Call, V!Answer(p) PROVE VisitPage' /\ buyerPage'.at = "RETURN"
    BY <2>3 DEF V!Answer, V!Returned, V!pageOnly, VisitPage, OutcomePage
  <2>4. ASSUME NEW p \in Call, V!ShowStatus(p) PROVE VisitPage' /\ buyerPage'.at = "RETURN"
    BY <2>4 DEF V!ShowStatus, V!Returned, V!pageOnly, VisitPage, OutcomePage
  <2>5. ASSUME NEW p \in Call, V!FailPoll(p) PROVE VisitPage' /\ buyerPage'.at = "RETURN"
    BY <2>5 DEF V!FailPoll, V!Returned, V!pageOnly, VisitPage, OutcomePage
  <2>6. CASE V!TimeIsOver
    BY <2>6 DEF V!TimeIsOver, V!Returned, V!pageOnly, VisitPage, OutcomePage
  <2>7. CASE buyerPage.at = "RETURN" /\ V!Decided
    BY <2>7 DEF V!Decided, V!pageOnly, VisitPage, OutcomePage
  <2> QED BY <2>1, <2>2, <2>3, <2>4, <2>5, <2>6, <2>7
<1> QED BY <1>1 DEF ReadsFit, QuotesFit

\* Every step is one of these.
LEMMA VisitPageStep ==
    ASSUME VisitRows, VisitPage, ReadsFit, QuotesFit, V!Next PROVE VisitPage' /\ ReadsFit' /\ QuotesFit'
<1>1. CASE Stays
  BY <1>1, StaysKeep
<1>2. CASE Rereads
  BY <1>2, RereadsKeep
<1>3. ASSUME NEW run \in quoting, V!ServeQuotes(run) \/ V!ShowQuotes(run) PROVE VisitPage' /\ ReadsFit' /\ QuotesFit'
  BY <1>3, QuotesStep
<1>4. CASE \/ V!ShowReturn
           \/ buyerPage.at = "RETURN" /\ V!Decided
           \/ V!TimeIsOver
           \/ \E p \in Call : V!Ask(p) \/ V!Answer(p) \/ V!ShowStatus(p) \/ V!FailPoll(p)
  BY <1>4, ReturnStep
<1>5. ASSUME NEW s \in Sale, NEW n \in 0..MaxQuantity, V!Step(s, n) PROVE Stays
  BY <1>5, Staying
<1>6. CASE \/ V!ServePut \/ V!GoToPay \/ V!Press \/ V!CreateCheckout \/ V!LoseAnswer \/ V!Others
           \/ (buyerPage.at # "RETURN" /\ V!Decided)
  BY <1>1, <1>6, Staying
<1>7. CASE V!LoadCart \/ V!LoadAddresses
  BY <1>2, <1>7, Rereading
<1>8. ASSUME NEW s \in Sale, NEW m \in V!Method, V!ChooseMethod(s, m) PROVE Rereads
  BY <1>8, Rereading
<1>9. ASSUME NEW a \in Address, V!ChooseAddress(a) PROVE Rereads
  BY <1>9, Rereading
<1> QED BY <1>1, <1>2, <1>3, <1>4, <1>5, <1>6, <1>7, <1>8, <1>9 DEF V!Next

\* What was asked for is what it was while nothing changes that it is charged by.
LEMMA PlacingKept ==
    ASSUME PlacingFits, UNCHANGED <<placing, receipt>>,
           placing.asked /\ behind' = {} => behind = {} /\ UNCHANGED <<shop, basket, place>>
    PROVE  PlacingFits'
<1>1. V!ChargedAsShown'
  BY DEF PlacingFits, V!ChargedAsShown
<1>2. ASSUME placing.asked, ~placing.answered, behind' = {}, ~placing.unsure, V!Accepts(placing.choice)'
      PROVE  V!Total(placing.choice)' = placing.shown
  <2>1. behind = {} /\ UNCHANGED <<shop, basket, place, placing>>
    BY <1>2
  <2>2. V!InCart' = V!InCart /\ V!Known' = V!Known
    BY <2>1 DEF V!InCart, V!Known
  <2>3. V!Accepts(placing.choice)
    BY <1>2, <2>1, <2>2 DEF V!Accepts, V!AssertShipping, V!ShippingOf, V!QuoteFromPlaces
  <2>4. V!Total(placing.choice)' = V!Total(placing.choice)
    BY <2>1, <2>2 DEF V!Total, V!Line, V!ShippingOf, V!QuoteFromPlaces
  <2> QED BY <1>2, <2>1, <2>3, <2>4 DEF PlacingFits
<1> QED BY <1>1, <1>2 DEF PlacingFits

LEMMA PlacingStep ==
    ASSUME VisitRows, VisitPage, ReadsFit, QuotesFit, PlacingFits, V!Next PROVE PlacingFits'
<1> USE DEF V!serverRows, V!laterRows, V!pageOnly
<1>1. ~V!NoPut.asked
  BY DEF V!NoPut
<1>2. ASSUME NEW s \in Sale, NEW n \in 0..MaxQuantity, V!Step(s, n) PROVE PlacingFits'
  BY <1>2, PlacingKept DEF V!Step
<1>3. CASE V!ServePut
  BY <1>3, PlacingKept DEF V!ServePut
<1>4. CASE V!GoToPay
  BY <1>4, PlacingKept DEF V!GoToPay
<1>5. CASE Rereads
  BY <1>5, PlacingKept DEF Rereads
<1>6. ASSUME NEW run \in quoting, V!ServeQuotes(run) \/ V!ShowQuotes(run) PROVE PlacingFits'
  BY <1>6, PlacingKept DEF V!ServeQuotes, V!ShowQuotes
<1>7. CASE V!Press
  <2>1. V!Enabled /\ UNCHANGED <<shopDevice, shop, basket, place, default, buyerPage, quoting, behind, receipt>>
    BY <1>7 DEF V!Press
  <2>2. V!ChargedAsShown'
    BY <2>1 DEF PlacingFits, V!ChargedAsShown
  <2>3. ASSUME behind = {}, ~placing'.unsure, V!Accepts(placing.choice)' PROVE V!Total(placing.choice)' = placing'.shown
    <3>1. placing'.shown = V!ShownTotal
      BY <1>7 DEF V!Press
    <3>2. placing'.choice = [s \in V!Groups |-> [method |-> V!MethodOf(s),
                               address |-> IF V!MethodOf(s) = "MEETUP" THEN V!NoAddress
                                           ELSE buyerPage.address]]
      BY <1>7 DEF V!Press
    <3>3. /\ shopDevice = "web" => quoting = {}
          /\ \A s \in V!Groups : V!MethodOf(s) = "CHILEXPRESS" => V!ShownQuote(s) # V!NoQuote
      BY <1>7, <2>3 DEF V!Press
    <3> DEFINE choice == placing'.choice
    <3>4. V!InCart' = V!InCart /\ V!Known' = V!Known
      BY <2>1 DEF V!InCart, V!Known
    <3>5. V!Accepts(choice)
      BY <2>1, <2>3, <3>4 DEF V!Accepts, V!AssertShipping, V!ShippingOf, V!QuoteFromPlaces
    <3>6. V!Total(placing.choice)' = V!Total(choice)
      BY <2>1, <3>4 DEF V!Total, V!Line, V!ShippingOf, V!QuoteFromPlaces
    <3> HIDE DEF choice
    <3>7. choice = [s \in V!Groups |-> [method |-> V!MethodOf(s),
                      address |-> IF V!MethodOf(s) = "MEETUP" THEN V!NoAddress ELSE buyerPage.address]]
      BY <3>2 DEF choice
    <3>8. V!Total(choice) = V!ShownTotal
      BY <2>1, <2>3, <3>3, <3>5, <3>7, ShownIsCharged
    <3> QED BY <3>1, <3>6, <3>8
  <2> QED BY <2>1, <2>2, <2>3 DEF PlacingFits
<1>8. CASE V!CreateCheckout
  <2>1. placing.asked /\ ~placing.answered /\ UNCHANGED behind
    BY <1>8 DEF V!CreateCheckout
  <2>2. CASE V!Accepts(placing.choice)
    <3>1. /\ receipt' = [asked |-> TRUE, total |-> V!Total(placing.choice), shown |-> placing.shown,
                         behind |-> behind, unsure |-> placing.unsure]
          /\ placing' = [placing EXCEPT !.answered = TRUE]
      BY <1>8, <2>2 DEF V!CreateCheckout
    <3>2. V!ChargedAsShown'
      BY <2>1, <2>2, <3>1 DEF PlacingFits, V!ChargedAsShown
    <3>3. placing'.answered
      BY <1>1, <2>1, <3>1 DEF VisitRows
    <3> QED BY <3>2, <3>3 DEF PlacingFits
  <2>3. CASE ~V!Accepts(placing.choice)
    <3>1. placing' = V!NoPut /\ receipt' = receipt
      BY <1>8, <2>3 DEF V!CreateCheckout
    <3> QED BY <1>1, <3>1 DEF PlacingFits, V!ChargedAsShown
  <2> QED BY <2>2, <2>3
<1>9. CASE V!LoseAnswer \/ V!ShowReturn
  <2>1. placing' = V!NoPut /\ receipt' = receipt
    BY <1>9 DEF V!LoseAnswer, V!ShowReturn
  <2> QED BY <1>1, <2>1 DEF PlacingFits, V!ChargedAsShown
<1>10. ASSUME NEW p \in Call, V!Ask(p) \/ V!Answer(p) \/ V!ShowStatus(p) \/ V!FailPoll(p) PROVE PlacingFits'
  <2>1. UNCHANGED <<shop, basket, place, placing, behind, receipt>>
    BY <1>10 DEF V!Ask, V!Answer, V!ShowStatus, V!FailPoll
  <2> QED BY <2>1, PlacingKept
<1>11. CASE V!TimeIsOver \/ V!Decided
  <2>1. UNCHANGED <<shop, basket, place, placing, behind, receipt>>
    BY <1>11 DEF V!TimeIsOver, V!Decided
  <2> QED BY <2>1, PlacingKept
<1>12. CASE V!Others
  <2>1. UNCHANGED <<placing, receipt>> /\ behind' # {}
    BY <1>12 DEF V!Others, V!SellerActs, V!AddressActs
  <2> QED BY <2>1, PlacingKept
<1>13. CASE V!LoadCart \/ V!LoadAddresses
  BY <1>5, <1>13, Rereading
<1>14. ASSUME NEW s \in Sale, NEW m \in V!Method, V!ChooseMethod(s, m) PROVE Rereads
  BY <1>14, Rereading
<1>15. ASSUME NEW a \in Address, V!ChooseAddress(a) PROVE Rereads
  BY <1>15, Rereading
<1> QED BY <1>2, <1>3, <1>4, <1>5, <1>6, <1>7, <1>8, <1>9, <1>10, <1>11, <1>12, <1>13, <1>14, <1>15 DEF V!Next

LEMMA PollsStep == ASSUME VisitRows, VisitPage, PollsFit, V!Next PROVE PollsFit'
<1> USE DEF V!serverRows, V!laterRows, V!pageOnly
<1>1. V!Final = {"PAID", "EXPIRED", "CANCELLED"}
  BY DEF V!Final
<1>2. CASE Stays \/ Rereads
  BY <1>2 DEF Stays, Rereads, BuyerPage, PollsFit
<1>3. ASSUME NEW run \in quoting, V!ServeQuotes(run) \/ V!ShowQuotes(run) PROVE PollsFit'
  <2>1. buyerPage.at # "RETURN"
    BY DEF VisitPage
  <2>2. buyerPage'.at = buyerPage.at
    BY <1>3, <2>1 DEF V!ServeQuotes, V!ShowQuotes, VisitPage, BuyerPage
  <2> QED BY <2>1, <2>2 DEF PollsFit
<1>4. CASE V!ShowReturn
  <2>1. ~V!NoPut.asked
    BY DEF V!NoPut
  <2>2. \A p \in Call : polls'[p] = "IDLE"
    BY <1>4, <2>1 DEF V!ShowReturn, VisitPage
  <2>3. buyerPage'.told = "NONE"
    BY <1>4 DEF V!ShowReturn, V!AtReturn
  <2> QED BY <1>1, <2>2, <2>3 DEF PollsFit
<1>5. ASSUME buyerPage.at = "RETURN"
      PROVE  /\ OutcomePage(buyerPage)
             /\ polls \in [Call -> {"PAID", "EXPIRED", "CANCELLED", "IDLE", "ASKED", "PENDING"}]
             /\ outcome \in {"PAID", "EXPIRED", "CANCELLED", "PENDING"}
             /\ \A p \in Call : polls[p] \in {"PAID", "EXPIRED", "CANCELLED"} => polls[p] = outcome
             /\ buyerPage.told # "NONE" => buyerPage.told = outcome /\ outcome \in {"PAID", "EXPIRED", "CANCELLED"}
             /\ ~buyerPage.crossed =>
                  /\ buyerPage.told \in {"NONE", buyerPage.seen}
                  /\ \A p, q \in Call : polls[p] # "IDLE" /\ polls[q] # "IDLE" => p = q
                  /\ \A p \in Call : polls[p] = "PENDING" => buyerPage.told = "NONE"
  BY <1>1, <1>5 DEF VisitPage, VisitRows, PollsFit
<1>6. ASSUME NEW p \in Call, V!Ask(p) PROVE PollsFit'
  <2> DEFINE others == \E q \in Call : polls[q] # "IDLE"
  <2>1. /\ buyerPage.at = "RETURN" /\ polls[p] = "IDLE" /\ outcome' = outcome
        /\ polls' = [polls EXCEPT ![p] = "ASKED"]
        /\ others => shopDevice = "web"
        /\ buyerPage' = [buyerPage EXCEPT !.crossed = @ \/ (others /\ shopDevice = "web")]
    BY <1>6 DEF V!Ask, V!Returned, V!Overlaps
  <2>2. /\ buyerPage'.told = buyerPage.told /\ buyerPage'.seen = buyerPage.seen
        /\ ~buyerPage'.crossed => ~buyerPage.crossed /\ ~others
    BY <1>5, <2>1 DEF OutcomePage
  <2>3. \A q \in Call : polls'[q] = IF q = p THEN "ASKED" ELSE polls[q]
    BY <1>5, <2>1
  <2> QED BY <1>1, <1>5, <2>1, <2>2, <2>3 DEF PollsFit
<1>7. ASSUME NEW p \in Call, V!Answer(p) PROVE PollsFit'
  <2>1. /\ buyerPage.at = "RETURN" /\ polls[p] = "ASKED" /\ buyerPage' = buyerPage
        /\ outcome' = outcome \/ (outcome = "PENDING" /\ outcome' = "EXPIRED")
        /\ polls' = [polls EXCEPT ![p] = outcome']
    BY <1>7 DEF V!Answer, V!Returned
  <2>2. \A q \in Call : polls'[q] = IF q = p THEN outcome' ELSE polls[q]
    BY <1>5, <2>1
  <2> QED BY <1>1, <1>5, <2>1, <2>2 DEF PollsFit
<1>8. ASSUME NEW p \in Call, V!ShowStatus(p) PROVE PollsFit'
  <2>1. /\ buyerPage.at = "RETURN" /\ outcome' = outcome
        /\ polls[p] \in {"PAID", "EXPIRED", "CANCELLED", "PENDING"}
        /\ polls' = [polls EXCEPT ![p] = "IDLE"]
    BY <1>1, <1>8 DEF V!ShowStatus, V!Returned
  <2>2. /\ buyerPage'.seen = polls[p] /\ buyerPage'.crossed = buyerPage.crossed
        /\ buyerPage'.told = IF polls[p] \in {"PAID", "EXPIRED", "CANCELLED"} THEN polls[p] ELSE buyerPage.told
    BY <1>1, <1>5, <1>8, <2>1 DEF V!ShowStatus, OutcomePage
  <2>3. \A q \in Call : polls'[q] = IF q = p THEN "IDLE" ELSE polls[q]
    BY <1>5, <2>1
  <2> QED BY <1>1, <1>5, <2>1, <2>2, <2>3 DEF PollsFit
<1>9. ASSUME NEW p \in Call, V!FailPoll(p) PROVE PollsFit'
  <2>1. /\ buyerPage.at = "RETURN" /\ outcome' = outcome /\ polls' = [polls EXCEPT ![p] = "IDLE"]
    BY <1>9 DEF V!FailPoll, V!Returned
  <2>2. /\ buyerPage'.seen = buyerPage.seen /\ buyerPage'.crossed = buyerPage.crossed
        /\ buyerPage'.told = buyerPage.told
    BY <1>5, <1>9, <2>1 DEF V!FailPoll, OutcomePage
  <2>3. \A q \in Call : polls'[q] = IF q = p THEN "IDLE" ELSE polls[q]
    BY <1>5, <2>1
  <2> QED BY <1>1, <1>5, <2>1, <2>2, <2>3 DEF PollsFit
<1>10. CASE V!TimeIsOver
  <2>1. /\ buyerPage.at = "RETURN" /\ UNCHANGED <<outcome, polls>>
    BY <1>10 DEF V!TimeIsOver, V!Returned
  <2>2. /\ buyerPage'.seen = buyerPage.seen /\ buyerPage'.crossed = buyerPage.crossed
        /\ buyerPage'.told = buyerPage.told
    BY <1>5, <1>10, <2>1 DEF V!TimeIsOver, OutcomePage
  <2> QED BY <1>1, <1>5, <2>1, <2>2 DEF PollsFit
<1>11. CASE buyerPage.at = "RETURN" /\ V!Decided
  <2>1. outcome = "PENDING" /\ UNCHANGED <<buyerPage, polls>>
    BY <1>11 DEF V!Decided
  <2> QED BY <1>1, <1>5, <1>11, <2>1 DEF PollsFit
<1>12. ASSUME NEW s \in Sale, NEW n \in 0..MaxQuantity, V!Step(s, n) PROVE Stays
  BY <1>12, Staying
<1>13. CASE \/ V!ServePut \/ V!GoToPay \/ V!Press \/ V!CreateCheckout \/ V!LoseAnswer \/ V!Others
            \/ (buyerPage.at # "RETURN" /\ V!Decided)
  BY <1>2, <1>13, Staying
<1>14. CASE V!LoadCart \/ V!LoadAddresses
  BY <1>2, <1>14, Rereading
<1>15. ASSUME NEW s \in Sale, NEW m \in V!Method, V!ChooseMethod(s, m) PROVE Rereads
  BY <1>15, Rereading
<1>16. ASSUME NEW a \in Address, V!ChooseAddress(a) PROVE Rereads
  BY <1>16, Rereading
<1> QED BY <1>2, <1>3, <1>4, <1>6, <1>7, <1>8, <1>9, <1>10, <1>11, <1>12, <1>13, <1>14, <1>15, <1>16 DEF V!Next

LEMMA VisitsStep == ASSUME VisitsInv, V!Next PROVE VisitsInv'
<1>1. VisitRows /\ VisitPage /\ ReadsFit /\ QuotesFit /\ PlacingFits /\ PollsFit
  BY DEF VisitsInv
<1> QED BY <1>1, VisitRowsStep, VisitPageStep, PlacingStep, PollsStep DEF VisitsInv

LEMMA VisitsStutter == ASSUME VisitsInv, UNCHANGED visitVars PROVE VisitsInv'
<1>1. VisitRows /\ VisitPage /\ ReadsFit /\ QuotesFit /\ PlacingFits /\ PollsFit
  BY DEF VisitsInv
<1>2. UNCHANGED <<shopDevice, shop, basket, place, default, put, buyerPage, quoting, placing, behind, changed,
                  receipt, outcome, polls>>
  BY DEF visitVars
<1>3. VisitRows' /\ VisitPage'
  BY <1>1, <1>2 DEF VisitRows, VisitPage
<1>4. ReadsFit'
  BY <1>1, <1>2 DEF ReadsFit, V!CartView, V!InCart, V!Line, V!AddressView, V!Known
<1>5. QuotesFit'
  BY <1>1, <1>2 DEF QuotesFit, Ready, RowsFit, V!QuoteFromPlaces, V!KeyOf, V!Destination
<1>6. PlacingFits' /\ PollsFit'
  BY <1>1, <1>2, PlacingKept DEF PollsFit
<1> QED BY <1>3, <1>4, <1>5, <1>6 DEF VisitsInv

LEMMA VisitsHold == ASSUME VisitsInv PROVE V!CheckoutTypeOK /\ V!ChargedAsShown /\ V!OutcomeStays
<1>1. VisitRows /\ VisitPage /\ PlacingFits /\ PollsFit
  BY DEF VisitsInv
<1>2. V!CheckoutTypeOK
  BY <1>1 DEF V!CheckoutTypeOK, VisitRows, VisitPage, BuyerPage
<1>3. V!ChargedAsShown /\ V!OutcomeStays
  BY <1>1 DEF PlacingFits, PollsFit, V!OutcomeStays, V!Returned
<1> QED BY <1>2, <1>3

----------------------------------------------------------------------------
(* The five components in Market.                                            *)

AccountInv ==
    /\ focus = "plans" => PlansInv
    /\ focus = "sessions" => SessionsInv
    /\ focus = "search" => SearchInv
    /\ focus = "pages" => PagesInv
    /\ focus = "checkout" => VisitsInv

LEMMA AccountStart == Init => AccountInv
<1> SUFFICES ASSUME Init PROVE AccountInv
  OBVIOUS
<1>1. /\ focus = "plans" => P!Init
      /\ focus = "sessions" => S!Init
      /\ focus = "search" => F!Init
      /\ focus = "pages" => G!Init
      /\ focus = "checkout" => V!Init
  BY DEF Init
<1> QED BY <1>1, PlansStart, SessionsStart, SearchStart, PagesStart, VisitsStart
        DEF AccountInv, SearchInv

LEMMA AccountStep == AccountInv /\ [Next]_vars => AccountInv'
<1> SUFFICES ASSUME AccountInv, [Next]_vars PROVE AccountInv'
  OBVIOUS
<1>1. focus' = focus
  BY DEF Next, vars, frame
<1>2. CASE UNCHANGED vars
  <2>1. PlansInv => PlansInv'
    BY <1>2 DEF vars, accountVars, planVars, PlansInv, P!PlanTypeOK, OneActive, PlanLockOK, OrdersOK, Charged
  <2>2. SessionsInv => SessionsInv'
    BY <1>2 DEF vars, accountVars, sessionVars, SessionsInv, S!SessionTypeOK, SessionsOK, Refreshes, LoginOf,
       S!Known, S!Live
  <2>3. SearchInv => SearchInv'
    <3>1. UNCHANGED <<surface, url, form, fetching, searched, box>>
      BY <1>2 DEF vars, frame, searchVars
    <3>2. FiltersInv => FiltersInv'
      BY <3>1, SameRows
    <3>3. SuggestInv => SuggestInv'
      BY <3>1 DEF SuggestInv, F!SuggestedIsTyped, F!Long
    <3> QED BY <3>2, <3>3 DEF SearchInv
  <2>4. PagesInv => PagesInv'
    BY <1>2 DEF vars, accountVars, pageVars, PagesInv, RowsInv, OwnInv, Due, Awaited
  <2>5. VisitsInv => VisitsInv'
    <3>1. UNCHANGED visitVars
      BY <1>2 DEF vars, frame
    <3> QED BY <3>1, VisitsStutter
  <2> QED BY <1>1, <2>1, <2>2, <2>3, <2>4, <2>5 DEF AccountInv
<1>3. CASE Next
  <2>1. /\ focus = "plans" => P!Next
        /\ focus = "sessions" => S!Next
        /\ focus = "search" => F!Next
        /\ focus = "pages" => G!Next
        /\ focus = "checkout" => V!Next
    BY <1>3 DEF Next
  <2>2. SearchInv /\ F!Next => SearchInv'
    BY FiltersInvStep, SuggestStep DEF SearchInv
  <2> QED BY <1>1, <2>1, <2>2, PlansStep, SessionsStep, PagesStep, VisitsStep DEF AccountInv
<1> QED BY <1>2, <1>3

(* Every order is charged by a plan that its seller had at the moment it   *)
(* was priced at, and within that plan's rate and cap, whatever            *)
(* assignments and checkouts overlap (orders.service.ts:113-121, :185,     *)
(* seller-plan.service.ts:38, :80).                                        *)
THEOREM FeesAreOfThePlan == Spec => []FeeOfPlan
<1>1. PlansInv => P!PlanTypeOK /\ P!FeeOfPlan
  BY DEF PlansInv, OrdersOK, Charged, P!FeeOfPlan
<1>2. AccountInv => FeeOfPlan
  BY <1>1 DEF AccountInv, FeeOfPlan
<1> QED BY <1>2, AccountStart, AccountStep, PTL DEF Spec

(* A login whose sessions were ended (by a new password, a revocation, the *)
(* deletion of the account, a token used twice) has no live session again, *)
(* but for a refresh that was in flight; and a login has one live session, *)
(* unless two calls refreshed one token together, whatever logins,         *)
(* refreshes and revocations interleave (auth.service.ts:131, :158).       *)
THEOREM EndedStaysEnded == Spec => []SessionsEnded
<1>1. SessionsInv => S!SessionTypeOK /\ S!SessionsEnded
  BY DEF SessionsInv, SessionsOK, LoginOf, S!SessionsEnded
<1>2. AccountInv => SessionsEnded
  BY <1>1 DEF AccountInv, SessionsEnded
<1> QED BY <1>2, AccountStart, AccountStep, PTL DEF Spec

(* The form of a search shows the filters of the game chosen on it; right  *)
(* after a page of it has loaded, and until something is entered or a link *)
(* followed on it, it shows every filter that its results were narrowed    *)
(* by; a page sends what the API accepts, but for the links of a search    *)
(* without its game and, on the app, words and "Con publicaciones"; and    *)
(* the cards suggested are of the text in the box, however the answers     *)
(* cross.  The form that a link leaves on a page already loaded may lack a *)
(* filter of the results (search-form.tsx:91, :108, search-suggest.tsx:27, *)
(* mobile search.tsx:91).                                                  *)
THEOREM SearchesFit == Spec => []SearchFits
<1>1. SearchInv => /\ F!SearchTypeOK /\ F!FiltersOfGame /\ F!SearchAccepted
                   /\ F!NarrowedIsShown /\ F!SuggestedIsTyped
  BY SearchFitsHolds DEF SearchInv
<1>2. AccountInv => SearchFits
  BY <1>1 DEF AccountInv, SearchFits
<1> QED BY <1>2, AccountStart, AccountStep, PTL DEF Spec

(* A page that shows the row as it is offers nothing that the API refuses, *)
(* but for the offers that OffersTooMuch lists, of which the app's to      *)
(* confirm a receipt and those of its sales are contrary to                *)
(* MOBILE-BETA-QA.md:71 and :77; every row that is not at an end has a     *)
(* page that offers a step onwards which the API may accept; and a page    *)
(* whose requests have ended shows what they did, but for a dispute opened *)
(* on the app, and unless they crossed or an answer was lost: for any      *)
(* number of requests in flight and of changes made elsewhere meanwhile    *)
(* (admin/orders/[id]/page.tsx:12, mobile purchases/[id].tsx:62,           *)
(* me/disputas/[id]/page.tsx:104).                                         *)
THEOREM PagesFit == Spec => []PagesFitApi
<1>1. AccountInv => PagesFitApi
  BY PagesFitHolds DEF AccountInv, PagesFitApi
<1> QED BY <1>1, AccountStart, AccountStep, PTL DEF Spec

(* A checkout charges the total that its page showed, for any number of    *)
(* sellers, addresses and choices, and in whatever order the cart, the     *)
(* addresses and the quotes were read, unless what the page had read has   *)
(* changed since, or a quote was missing.  And a buyer who was told how    *)
(* the purchase ended is not told later that it is still being confirmed,  *)
(* unless two reads crossed: the page reads every few seconds without      *)
(* waiting for the last answer, so that an older one can come last, and    *)
(* then it does tell (checkout/page.tsx:64, checkout/retorno/page.tsx:26,  *)
(* orders.service.ts:68).                                                  *)
THEOREM CheckoutsAreAsShown == Spec => []CheckoutAsShown
<1>1. AccountInv => CheckoutAsShown
  BY VisitsHold DEF AccountInv, CheckoutAsShown
<1> QED BY <1>1, AccountStart, AccountStep, PTL DEF Spec
=============================================================================

------------------------------ MODULE TradeProofs ------------------------------
(***************************************************************************)
(* What holds of the components around the listings in Market for any      *)
(* number of calls, listings, sales, reports, users, lots, orders, carts,  *)
(* printings and rows of the catalog.                                      *)
(*                                                                         *)
(* Each part is about one component: an invariant that its first states    *)
(* satisfy and its steps keep.  A behaviour of Market with that component  *)
(* in focus is one of the component.                                       *)
(***************************************************************************)
EXTENDS Market, Totals

\* An instance has a Cardinality of its own, which is the one of the library's theorems.
LEMMA InstanceCounts == \A few : R!Cardinality(few) = Cardinality(few) /\ L!Cardinality(few) = Cardinality(few)
  BY DEF R!Cardinality, L!Cardinality, Cardinality

----------------------------------------------------------------------------
(* Alerts: a hit that was mailed is in the inbox, and stops the next one.  *)

AlertsInv ==
    /\ A!TypeOK
    /\ hits \in [User -> [CardListing \X Price -> Nat]]
    /\ \A k \in Call : checking[k].on => checking[k].min \in [listing : CardListing, price : Price]
    /\ \A u \in User : \A key \in CardListing \X Price :
          /\ hits[u][key] <= 1
          /\ hits[u][key] > 0 => <<"WISHLIST_HIT", key[1], key[2]>> \in inbox[u]

LEMMA AlertsStart == ASSUME A!Init PROVE AlertsInv
<1> USE DEF AlertsInv, A!Init
<1>1. A!TypeOK
  <2>1. (CHOOSE p \in Price : TRUE) \in Price
    BY TradeAssumption
  <2>2. market \in [CardListing -> [state : A!MarketState, price : Price]]
    BY <2>1 DEF A!MarketState
  <2>3. A!NoListing \in A!Cheapest
    BY DEF A!NoListing, A!Cheapest
  <2>4. wish \in [User -> A!WishRow]
    BY <2>3 DEF A!WishRow
  <2>5. A!NoCheck \in A!CheckRow
    BY <2>3 DEF A!NoCheck, A!CheckRow
  <2> QED BY <2>2, <2>4, <2>5 DEF A!TypeOK
<1> QED BY <1>1 DEF A!NoCheck

\* What every step of a check but an emission does.
LEMMA AlertsQuietStep ==
    ASSUME AlertsInv, A!TypeOK', UNCHANGED hits,
           \A u \in User : inbox[u] \subseteq inbox'[u],
           \A k \in Call : checking'[k].on => checking'[k].min \in [listing : CardListing, price : Price]
    PROVE  AlertsInv'
  BY DEF AlertsInv

LEMMA AlertsStep == ASSUME AlertsInv, A!Next PROVE AlertsInv'
<1>1. /\ market \in [CardListing -> [state : A!MarketState, price : Price]]
      /\ wish \in [User -> A!WishRow]
      /\ inbox \in [User -> SUBSET A!Keys]
      /\ checking \in [Call -> A!CheckRow]
  BY DEF AlertsInv, A!TypeOK
<1>2. A!NoCheck \in A!CheckRow /\ A!NoListing \in A!Cheapest /\ ~A!NoCheck.on
  BY DEF A!NoCheck, A!CheckRow, A!NoListing, A!Cheapest
<1>3. ASSUME NEW l \in CardListing, NEW p \in Price, NEW state \in A!MarketState, A!Trade(l, state, p)
      PROVE  AlertsInv'
  <2>1. A!TypeOK'
    BY <1>1, <1>3 DEF A!Trade, A!TypeOK
  <2> QED BY <1>3, <2>1, AlertsQuietStep DEF A!Trade, AlertsInv
<1>4. ASSUME NEW u \in User, A!Remove(u) \/ \E p \in Price : A!Upsert(u, p) PROVE AlertsInv'
  <2>1. wish' \in [User -> A!WishRow] /\ UNCHANGED <<market, weekOld, preference, inbox, checking, hits>>
    BY <1>1, <1>2, <1>4 DEF A!Remove, A!Upsert, A!WishRow
  <2> QED BY <1>1, <2>1, AlertsQuietStep DEF A!TypeOK, AlertsInv
<1>5. ASSUME NEW u \in User, NEW type \in A!Type, NEW a \in BOOLEAN, NEW b \in BOOLEAN,
             A!PatchPreference(u, type, a, b)
      PROVE  AlertsInv'
  BY <1>1, <1>5, AlertsQuietStep DEF A!PatchPreference, A!TypeOK, AlertsInv
<1>6. ASSUME NEW k \in Call, A!EndCheck(k) PROVE AlertsInv'
  <2>1. checking' \in [Call -> A!CheckRow] /\ UNCHANGED <<market, weekOld, wish, preference, inbox, hits>>
    BY <1>1, <1>2, <1>6 DEF A!EndCheck
  <2>2. \A j \in Call : checking'[j].on => j # k /\ checking'[j] = checking[j]
    BY <1>1, <1>2, <1>6 DEF A!EndCheck
  <2> QED BY <1>1, <2>1, <2>2, AlertsQuietStep DEF A!TypeOK, AlertsInv
<1>7. ASSUME NEW k \in Call, NEW l \in CardListing, A!StartCheck(k, l) PROVE AlertsInv'
  <2> DEFINE min == [listing |-> l, price |-> market[l].price]
  <2>1. PICK todo \in SUBSET (User \X A!Type) :
          checking' = [checking EXCEPT ![k] = [on |-> TRUE, min |-> min, todo |-> todo, sent |-> {}]]
    <3> DEFINE watchers == {u \in User : wish[u].target > 0}
               todo == {<<u, "WISHLIST_HIT">> : u \in {v \in watchers : A!Hit(wish[v], min)}}
                       \cup IF A!Drops(min) THEN watchers \X {"PRICE_DROP"} ELSE {}
    <3>1. todo \in SUBSET (User \X A!Type)
      BY DEF A!Type
    <3>2. checking' = [checking EXCEPT ![k] = [on |-> TRUE, min |-> min, todo |-> todo, sent |-> {}]]
      BY <1>7 DEF A!StartCheck
    <3> HIDE DEF todo
    <3> QED BY <3>1, <3>2
  <2>2. UNCHANGED <<market, weekOld, wish, preference, inbox, hits>>
    BY <1>7 DEF A!StartCheck
  <2>3. min \in [listing : CardListing, price : Price]
    BY <1>1
  <2>4. min \in A!Cheapest
    BY <2>3 DEF A!Cheapest
  <2> HIDE DEF min
  <2>5. [on |-> TRUE, min |-> min, todo |-> todo, sent |-> {}] \in A!CheckRow
    BY <2>4 DEF A!CheckRow
  <2>6. checking' \in [Call -> A!CheckRow]
    BY <1>1, <2>1, <2>5
  <2>7. \A j \in Call : checking'[j].min = IF j = k THEN min ELSE checking[j].min
    BY <1>1, <2>1
  <2>8. \A j \in Call : j # k => checking'[j] = checking[j]
    BY <1>1, <2>1
  <2> QED BY <1>1, <2>2, <2>3, <2>6, <2>7, <2>8, AlertsQuietStep DEF A!TypeOK, AlertsInv
<1>8. ASSUME NEW k \in Call, NEW u \in User, A!Record(k, u) PROVE AlertsInv'
  <2>1. UNCHANGED <<market, weekOld, preference, inbox, hits>>
    BY <1>8 DEF A!Record
  <2>2. wish' \in [User -> A!WishRow]
    <3>1. checking[k].min \in A!Cheapest /\ wish[u] \in A!WishRow
      BY <1>1 DEF A!CheckRow
    <3>2. wish' = wish \/ wish' = [wish EXCEPT ![u] = [wish[u] EXCEPT !.last = checking[k].min]]
      BY <1>1, <1>8 DEF A!Record
    <3>3. [wish[u] EXCEPT !.last = checking[k].min] \in A!WishRow
      BY <3>1 DEF A!WishRow
    <3> QED BY <1>1, <3>2, <3>3
  <2>3. checking' = [checking EXCEPT ![k] = [checking[k] EXCEPT !.sent = {}]]
        \/ checking' = [checking EXCEPT ![k] = A!NoCheck]
    BY <1>1, <1>8 DEF A!Record
  <2>4. [checking[k] EXCEPT !.sent = {}] \in A!CheckRow
    BY <1>1 DEF A!CheckRow
  <2>5. checking' \in [Call -> A!CheckRow]
    BY <1>1, <1>2, <2>3, <2>4
  <2>6. \A j \in Call : checking'[j].on => checking[j].on /\ checking'[j].min = checking[j].min
    BY <1>1, <1>2, <2>3 DEF A!CheckRow
  <2> QED BY <1>1, <2>1, <2>2, <2>5, <2>6, AlertsQuietStep DEF A!TypeOK, AlertsInv
<1>9. ASSUME NEW k \in Call, NEW u \in User, NEW type \in A!Type, A!Emit(k, u, type) PROVE AlertsInv'
  <2> DEFINE min == checking[k].min
             key == <<type, min.listing, min.price>>
             mailed == <<min.listing, min.price>>
             keeps == A!Persists(type, preference[u][type])
             duplicate == keeps /\ key \in inbox[u]
  <2>1. checking[k].on /\ min \in [listing : CardListing, price : Price]
    BY <1>9 DEF A!Emit, AlertsInv
  <2>2. mailed \in CardListing \X Price /\ key \in A!Keys
    BY <2>1 DEF A!Keys
  <2>3. UNCHANGED <<market, weekOld, wish, preference>>
    BY <1>9 DEF A!Emit
  <2>4. inbox' = IF keeps THEN [inbox EXCEPT ![u] = @ \cup {key}] ELSE inbox
    BY <1>9 DEF A!Emit, A!Key
  <2>5. inbox' \in [User -> SUBSET A!Keys] /\ \A v \in User : inbox[v] \subseteq inbox'[v]
    <3> HIDE DEF key, keeps
    <3> QED BY <1>1, <2>2, <2>4
  <2>6. \E set \in SUBSET User :
          checking' = [checking EXCEPT ![k] = [[checking[k] EXCEPT !.todo = checking[k].todo \ {<<u, type>>}]
                                                            EXCEPT !.sent = set]]
    <3> DEFINE set == IF keeps /\ ~duplicate /\ type = "WISHLIST_HIT" THEN {u} ELSE {}
    <3>1. checking' = [checking EXCEPT ![k].todo = @ \ {<<u, type>>}, ![k].sent = set]
      BY <1>9 DEF A!Emit, A!Key
    <3>2. set \in SUBSET User
      OBVIOUS
    <3> HIDE DEF set
    <3>3. checking' = [checking EXCEPT ![k] = [[checking[k] EXCEPT !.todo = checking[k].todo \ {<<u, type>>}]
                                                            EXCEPT !.sent = set]]
      BY <1>1, <3>1
    <3> QED BY <3>2, <3>3
  <2>7. PICK set \in SUBSET User :
          checking' = [checking EXCEPT ![k] = [[checking[k] EXCEPT !.todo = checking[k].todo \ {<<u, type>>}]
                                                            EXCEPT !.sent = set]]
    BY <2>6
  <2>8. /\ checking' \in [Call -> A!CheckRow]
        /\ \A j \in Call : checking'[j].on = checking[j].on /\ checking'[j].min = checking[j].min
    <3> DEFINE half == [checking[k] EXCEPT !.todo = checking[k].todo \ {<<u, type>>}]
    <3>1. half \in A!CheckRow /\ half.on = checking[k].on /\ half.min = checking[k].min
      BY <1>1 DEF A!CheckRow
    <3> HIDE DEF half
    <3>2. [half EXCEPT !.sent = set] \in A!CheckRow /\ [half EXCEPT !.sent = set].on = half.on
          /\ [half EXCEPT !.sent = set].min = half.min
      BY <3>1 DEF A!CheckRow
    <3>3. checking' = [checking EXCEPT ![k] = [half EXCEPT !.sent = set]]
      BY <2>7 DEF half
    <3> QED BY <1>1, <3>1, <3>2, <3>3
  <2>9. A!TypeOK'
    BY <1>1, <2>3, <2>5, <2>8 DEF A!TypeOK
  <2>10. CASE UNCHANGED hits
    BY <2>5, <2>8, <2>9, <2>10, AlertsQuietStep DEF AlertsInv
  <2>11. CASE hits' # hits
    <3>1. /\ type = "WISHLIST_HIT" /\ ~duplicate
          /\ hits' = [hits EXCEPT ![u][mailed] = IF @ < 2 THEN @ + 1 ELSE @]
      BY <1>9, <2>11 DEF A!Emit, A!Key
    <3>2. keeps /\ key \notin inbox[u] /\ key = <<"WISHLIST_HIT", mailed[1], mailed[2]>>
      BY <3>1 DEF A!Persists
    <3> HIDE DEF keeps, duplicate
    <3>3. hits[u][mailed] = 0
      BY <2>2, <3>2 DEF AlertsInv
    <3>4. key \in inbox'[u]
      BY <1>1, <2>4, <3>2
    <3> HIDE DEF key, mailed
    <3>5. /\ hits' \in [User -> [CardListing \X Price -> Nat]] /\ hits'[u][mailed] = 1
          /\ \A v \in User : \A m \in CardListing \X Price :
                v # u \/ m # mailed => hits'[v][m] = hits[v][m]
      <4> DEFINE of == [hits[u] EXCEPT ![mailed] = 1]
      <4>1. /\ of \in [CardListing \X Price -> Nat] /\ of[mailed] = 1
            /\ \A m \in CardListing \X Price : m # mailed => of[m] = hits[u][m]
        BY <2>2 DEF AlertsInv
      <4>2. hits' = [hits EXCEPT ![u] = of]
        BY <3>1, <3>3 DEF AlertsInv
      <4> HIDE DEF of
      <4> QED BY <4>1, <4>2 DEF AlertsInv
    <3>6. ASSUME NEW v \in User, NEW m \in CardListing \X Price
          PROVE  hits'[v][m] <= 1 /\ (hits'[v][m] > 0 => <<"WISHLIST_HIT", m[1], m[2]>> \in inbox'[v])
      <4>1. CASE v = u /\ m = mailed
        BY <3>2, <3>4, <3>5, <4>1
      <4>2. CASE v # u \/ m # mailed
        BY <2>5, <3>5, <4>2 DEF AlertsInv
      <4> QED BY <4>1, <4>2
    <3> QED BY <2>8, <2>9, <3>5, <3>6 DEF AlertsInv
  <2> QED BY <2>10, <2>11
<1> QED BY <1>3, <1>4, <1>5, <1>6, <1>7, <1>8, <1>9 DEF A!Next

----------------------------------------------------------------------------
(* Reports: a call that has counted is as good as a report of the window.  *)

Counting == {k \in Call : handling[k].op = "create"}

ReportsInv ==
    /\ R!TypeOK /\ R!OneOpenReport
    /\ \A r \in Report : report[r].status = "NONE" => ~report[r].recent
    /\ \A k \in Call : /\ handling[k].op = "create" => handling[k].target \in Reported
                       /\ handling[k].op \in {"assign", "resolve"} => handling[k].report \in Report
    /\ Cardinality(R!Recent) + Cardinality(Counting) <= MaxReports + Cardinality(Call) - 1

LEMMA CallsAndReports ==
    /\ Cardinality(Call) \in Nat \ {0} /\ MaxReports \in Nat
    /\ \A few \in SUBSET Report : IsFiniteSet(few) /\ Cardinality(few) \in Nat
    /\ \A few \in SUBSET Call : /\ IsFiniteSet(few) /\ Cardinality(few) \in Nat
                               /\ Cardinality(few) <= Cardinality(Call)
  BY TradeAssumption, FS_Subset, FS_CardinalityType, FS_EmptySet

LEMMA ReportsStart == ASSUME R!Init PROVE ReportsInv
<1>1. R!Recent = {} /\ Counting = {}
  BY DEF R!Init, R!Recent, Counting, R!NoHandling
<1>2. Cardinality(R!Recent) + Cardinality(Counting) <= MaxReports + Cardinality(Call) - 1
  BY <1>1, CallsAndReports, FS_EmptySet
<1>3. R!TypeOK
  BY DEF R!Init, R!TypeOK, R!ReportRow, R!HandlingRow, R!Status, R!NoHandling
<1> QED BY <1>2, <1>3 DEF R!Init, ReportsInv, R!OneOpenReport, R!NoHandling

\* The call k ends or begins: its row is another.
LEMMA HandledStep ==
    ASSUME ReportsInv, NEW k \in Call, NEW task \in R!HandlingRow,
           handling' = [handling EXCEPT ![k] = task],
           task.op = "create" => task.target \in Reported,
           task.op \in {"assign", "resolve"} => task.report \in Report
    PROVE  /\ handling' \in [Call -> R!HandlingRow]
           /\ \A j \in Call : /\ handling'[j].op = "create" => handling'[j].target \in Reported
                              /\ handling'[j].op \in {"assign", "resolve"} => handling'[j].report \in Report
           /\ task.op # "create" => Counting' = Counting \ {k}
  BY DEF ReportsInv, R!TypeOK, Counting

\* A call that counted nothing begins or ends, and no report enters the window.
LEMMA FewerStep ==
    ASSUME ReportsInv, R!Recent' \subseteq R!Recent, Counting' \subseteq Counting
    PROVE  Cardinality(R!Recent') + Cardinality(Counting') <= MaxReports + Cardinality(Call) - 1
<1>1. R!Recent \in SUBSET Report /\ Counting \in SUBSET Call
  BY DEF R!Recent, Counting
<1>2. IsFiniteSet(R!Recent) /\ Cardinality(R!Recent) \in Nat /\ IsFiniteSet(Counting) /\ Cardinality(Counting) \in Nat
  BY <1>1, CallsAndReports
<1>3. Cardinality(R!Recent') <= Cardinality(R!Recent) /\ Cardinality(Counting') <= Cardinality(Counting)
      /\ Cardinality(R!Recent') \in Nat /\ Cardinality(Counting') \in Nat
  BY <1>2, FS_Subset, FS_CardinalityType
<1> QED BY <1>2, <1>3, CallsAndReports DEF ReportsInv

LEMMA ReportsStep == ASSUME ReportsInv, R!Next PROVE ReportsInv'
<1>1. /\ report \in [Report -> R!ReportRow] /\ handling \in [Call -> R!HandlingRow]
      /\ R!NoHandling \in R!HandlingRow /\ R!NoHandling.op = "none"
  BY DEF ReportsInv, R!TypeOK, R!NoHandling, R!HandlingRow
<1>2. ASSUME NEW k \in Call, NEW t \in Reported, R!Count(k, t) PROVE ReportsInv'
  <2> DEFINE task == [op |-> "create", report |-> Nothing, target |-> t]
  <2>1. task \in R!HandlingRow /\ task.op = "create" /\ task.target = t
    BY DEF R!HandlingRow
  <2>2. handling' = [handling EXCEPT ![k] = task] /\ report' = report
    BY <1>2 DEF R!Count, R!Begin
  <2>3. Counting' \in SUBSET Call /\ R!Recent \in SUBSET Report /\ R!Recent' = R!Recent
    BY <2>2 DEF Counting, R!Recent
  <2>4. Cardinality(R!Recent) < MaxReports
    BY <1>2, InstanceCounts DEF R!Count, R!MayReport
  <2>5. Cardinality(R!Recent') + Cardinality(Counting') <= MaxReports + Cardinality(Call) - 1
    BY <2>3, <2>4, CallsAndReports
  <2> HIDE DEF task
  <2> QED BY <1>1, <2>1, <2>2, <2>5, HandledStep DEF ReportsInv, R!TypeOK, R!OneOpenReport
<1>3. ASSUME NEW k \in Call, NEW r \in Report, R!Insert(k, r) PROVE ReportsInv'
  <2> DEFINE t == handling[k].target
             new == [status |-> "OPEN", target |-> t, recent |-> TRUE]
  <2>1. /\ handling[k].op = "create" /\ report[r].status = "NONE" /\ R!NoDuplicate(r, t)
        /\ report' = [report EXCEPT ![r] = new] /\ handling' = [handling EXCEPT ![k] = R!NoHandling]
    BY <1>3 DEF R!Insert, R!Finish
  <2>2. t \in Reported /\ new \in R!ReportRow
    BY <2>1 DEF ReportsInv, R!ReportRow, R!Status
  <2>3. /\ report' \in [Report -> R!ReportRow] /\ report'[r] = new
        /\ \A s \in Report : s # r => report'[s] = report[s]
    BY <1>1, <2>1, <2>2
  <2>4. R!Recent' = R!Recent \cup {r} /\ r \notin R!Recent /\ R!Recent \in SUBSET Report
    BY <2>1, <2>3 DEF R!Recent, ReportsInv
  <2>5. Counting' = Counting \ {k} /\ k \in Counting /\ Counting \in SUBSET Call
    BY <1>1, <2>1 DEF Counting
  <2>6. /\ Cardinality(R!Recent') = Cardinality(R!Recent) + 1
        /\ Cardinality(Counting') = Cardinality(Counting) - 1
        /\ Cardinality(R!Recent) \in Nat /\ Cardinality(Counting) \in Nat
    BY <2>4, <2>5, CallsAndReports, FS_AddElement, FS_RemoveElement
  <2>7. Cardinality(R!Recent') + Cardinality(Counting') <= MaxReports + Cardinality(Call) - 1
    BY <2>6, CallsAndReports DEF ReportsInv
  <2>8. R!OneOpenReport'
    BY <2>1, <2>3 DEF R!NoDuplicate, R!IsOpen, R!OneOpenReport, ReportsInv
  <2> QED BY <1>1, <2>1, <2>3, <2>7, <2>8, HandledStep DEF ReportsInv, R!TypeOK
<1>4. ASSUME NEW k \in Call, NEW r \in Report, NEW op \in {"assign", "resolve"}, R!ReadOpen(k, r, op)
      PROVE  ReportsInv'
  <2> DEFINE task == [op |-> op, report |-> r, target |-> Nothing]
  <2>1. task \in R!HandlingRow /\ task.op = op /\ task.report = r
    BY DEF R!HandlingRow
  <2>2. handling' = [handling EXCEPT ![k] = task] /\ report' = report
    BY <1>4 DEF R!ReadOpen, R!Begin
  <2> HIDE DEF task
  <2>3. Counting' \subseteq Counting /\ R!Recent' = R!Recent
    BY <2>1, <2>2, HandledStep DEF R!Recent
  <2> QED BY <1>1, <2>1, <2>2, <2>3, HandledStep, FewerStep DEF ReportsInv, R!TypeOK, R!OneOpenReport
<1>5. ASSUME NEW k \in Call, R!Assign(k) \/ \E end \in {"RESOLVED", "DISMISSED"} : R!Resolve(k, end)
      PROVE  ReportsInv'
  <2> DEFINE r == handling[k].report
  <2>1. PICK s \in {"IN_REVIEW", "RESOLVED", "DISMISSED"} :
          /\ report' = [report EXCEPT ![r].status = s] /\ handling' = [handling EXCEPT ![k] = R!NoHandling]
          /\ s = "IN_REVIEW" => R!NoDuplicate(r, report[r].target)
          /\ handling[k].op \in {"assign", "resolve"}
    BY <1>5 DEF R!Assign, R!Resolve, R!Finish
  <2>2. r \in Report
    BY <2>1 DEF ReportsInv
  <2>3. /\ report' \in [Report -> R!ReportRow] /\ report'[r].status = s /\ report'[r].target = report[r].target
        /\ report'[r].recent = report[r].recent
        /\ \A q \in Report : q # r => report'[q] = report[q]
    BY <1>1, <2>1, <2>2 DEF R!ReportRow, R!Status
  <2>4. Counting' \subseteq Counting /\ R!Recent' = R!Recent
    BY <1>1, <2>1, <2>3, HandledStep DEF R!Recent
  <2>5. R!OneOpenReport'
    BY <2>1, <2>3 DEF R!NoDuplicate, R!IsOpen, R!OneOpenReport, ReportsInv
  <2> QED BY <1>1, <2>1, <2>3, <2>4, <2>5, HandledStep, FewerStep DEF ReportsInv, R!TypeOK
<1>6. ASSUME NEW k \in Call, R!Abandon(k) PROVE ReportsInv'
  <2>1. handling' = [handling EXCEPT ![k] = R!NoHandling] /\ report' = report
    BY <1>6 DEF R!Abandon, R!Finish
  <2>2. Counting' \subseteq Counting /\ R!Recent' = R!Recent
    BY <1>1, <2>1, HandledStep DEF R!Recent
  <2> QED BY <1>1, <2>1, <2>2, HandledStep, FewerStep DEF ReportsInv, R!TypeOK, R!OneOpenReport
<1>7. ASSUME NEW r \in Report, R!Age(r) PROVE ReportsInv'
  <2>1. report' = [report EXCEPT ![r].recent = FALSE] /\ handling' = handling
    BY <1>7 DEF R!Age
  <2>2. /\ report' \in [Report -> R!ReportRow]
        /\ \A q \in Report : /\ report'[q].status = report[q].status /\ report'[q].target = report[q].target
                             /\ report'[q].recent => report[q].recent
    BY <1>1, <2>1 DEF R!ReportRow
  <2>3. Counting' = Counting /\ R!Recent' \subseteq R!Recent
    BY <2>1, <2>2 DEF R!Recent, Counting
  <2> QED BY <2>1, <2>2, <2>3, FewerStep DEF ReportsInv, R!TypeOK, R!OneOpenReport
<1> QED BY <1>2, <1>3, <1>4, <1>5, <1>6, <1>7 DEF R!Next

----------------------------------------------------------------------------
(* Listings: the reserved pieces are those of the live sales; what a call  *)
(* in flight may write depends on what was so when it read, and some of    *)
(* that still is: a row that exists goes on existing, and a seller found   *)
(* unsuspended is excused.                                                 *)

Having(status, l) == {s \in Sale : sale[s].status = status /\ sale[s].listing = l}

Rows == [status : L!Status, quantity : Nat, reserved : Nat]

StockOK(l) ==
    /\ listing[l].reserved = Cardinality(Having("RESERVED", l))
    /\ listing[l].reserved <= listing[l].quantity
    /\ listing[l].quantity <= MaxQuantity + Cardinality(Having("REFUNDED", l))

CallOK(k) ==
    /\ editing[k].op \in {"create", "edit", "pause", "activate", "cancel"} => editing[k].listing \in Listing
    /\ editing[k].op = "create" => editing[k].checked /\ listing[editing[k].listing].status = "NONE"
    /\ editing[k].op \in {"edit", "pause", "activate", "cancel"} => listing[editing[k].listing].status # "NONE"
    /\ editing[k].op \in {"pause", "activate", "cancel"} => editing[k].status \in {"ACTIVE", "PAUSED"}
    /\ editing[k].checked => /\ editing[k].op \in {"create", "activate"}
                             /\ suspended => editing[k].listing \in excused
    /\ \A l \in editing[k].targets : listing[l].status # "NONE"

ListingsInv ==
    /\ listing \in [Listing -> Rows] /\ sale \in [Sale -> L!SaleRow] /\ suspended \in BOOLEAN
    /\ editing \in [Call -> L!CallRow] /\ excused \subseteq Listing
    /\ \A l \in Listing : StockOK(l)
    /\ \A s \in Sale : IF sale[s].status = "NONE" THEN sale[s].listing = Nothing
                       ELSE sale[s].listing \in Listing /\ listing[sale[s].listing].status # "NONE"
    /\ \A k \in Call : CallOK(k)
    /\ \A j, k \in Call : /\ editing[j].op = "create" /\ editing[k].op = "create"
                          /\ editing[j].listing = editing[k].listing
                          => j = k
    /\ L!SuspendedIsOffline

LEMMA SalesFinite ==
    /\ Cardinality(Sale) \in Nat /\ MaxQuantity \in Nat
    /\ \A few \in SUBSET Sale : /\ IsFiniteSet(few) /\ Cardinality(few) \in Nat
                               /\ Cardinality(few) <= Cardinality(Sale)
  BY TradeAssumption, FS_Subset, FS_CardinalityType

\* The bounds of the columns follow from what the rows hold.
LEMMA ListingsTyped == ASSUME ListingsInv PROVE L!TypeOK /\ L!ReservedWithinStock
<1>1. \A l \in Listing, status \in {"RESERVED", "REFUNDED"} : Having(status, l) \in SUBSET Sale
  BY DEF Having
<1>2. \A l \in Listing : /\ listing[l].reserved \in 0..Cardinality(Sale)
                         /\ listing[l].quantity \in 0..(MaxQuantity + Cardinality(Sale))
  <2> SUFFICES ASSUME NEW l \in Listing
               PROVE  /\ listing[l].reserved \in 0..Cardinality(Sale)
                      /\ listing[l].quantity \in 0..(MaxQuantity + Cardinality(Sale))
    OBVIOUS
  <2>1. listing[l].reserved \in Nat /\ listing[l].quantity \in Nat /\ StockOK(l)
    BY DEF ListingsInv, Rows
  <2> QED BY <1>1, <2>1, SalesFinite DEF StockOK
<1>3. listing \in [Listing -> L!ListingRow]
  BY <1>2, InstanceCounts DEF ListingsInv, Rows, L!ListingRow
<1>4. L!ReservedWithinStock
  BY InstanceCounts DEF L!ReservedWithinStock, ListingsInv, StockOK, Having
<1> QED BY <1>3, <1>4 DEF ListingsInv, L!TypeOK

LEMMA ListingsStart == ASSUME L!Init PROVE ListingsInv
<1>1. \A l \in Listing : Having("RESERVED", l) = {} /\ Having("REFUNDED", l) = {}
  BY DEF L!Init, Having
<1>2. \A l \in Listing : StockOK(l)
  BY <1>1, FS_EmptySet, SalesFinite DEF L!Init, StockOK
<1>3. listing \in [Listing -> Rows] /\ sale \in [Sale -> L!SaleRow]
  BY DEF L!Init, Rows, L!Status, L!SaleRow
<1>4. L!NoCall \in L!CallRow
  BY SalesFinite DEF L!NoCall, L!CallRow, L!Operation, L!Status
<1> QED BY <1>2, <1>3, <1>4
        DEF ListingsInv, L!Init, CallOK, L!NoCall, L!SuspendedIsOffline

\* A call begins, goes on or ends, and writes nothing.
LEMMA ReadStep ==
    ASSUME ListingsInv, NEW k \in Call, NEW task \in L!CallRow,
           editing' = [editing EXCEPT ![k] = task], UNCHANGED <<listing, sale, suspended, excused>>,
           CallOK(k)',
           task.op = "create" => \A j \in Call \ {k} :
                                   editing[j].op = "create" => editing[j].listing # task.listing
    PROVE  ListingsInv'
<1>1. /\ editing' \in [Call -> L!CallRow] /\ editing'[k] = task
      /\ \A j \in Call : j # k => editing'[j] = editing[j]
  BY DEF ListingsInv
<1>2. \A j \in Call : CallOK(j)'
  BY <1>1 DEF ListingsInv, CallOK
<1>3. \A l \in Listing : StockOK(l)'
  BY DEF ListingsInv, StockOK, Having
<1>4. L!SuspendedIsOffline'
  BY DEF ListingsInv, L!SuspendedIsOffline, L!OnSale
<1>5. \A i, j \in Call : /\ editing'[i].op = "create" /\ editing'[j].op = "create"
                         /\ editing'[i].listing = editing'[j].listing
                         => i = j
  BY <1>1 DEF ListingsInv
<1> QED BY <1>1, <1>2, <1>3, <1>4, <1>5 DEF ListingsInv

\* A call ends, with what it writes: no count of reserved pieces, and no row goes.
LEMMA WriteStep ==
    ASSUME ListingsInv, NEW k \in Call, editing' = [editing EXCEPT ![k] = L!NoCall], sale' = sale,
           listing' \in [Listing -> Rows], suspended' \in BOOLEAN, excused' \subseteq Listing,
           \A l \in Listing :
              /\ listing'[l].reserved = listing[l].reserved /\ listing[l].reserved <= listing'[l].quantity
              /\ listing'[l].quantity = listing[l].quantity \/ listing'[l].quantity <= MaxQuantity
              /\ listing[l].status # "NONE" => listing'[l].status # "NONE",
           \A j \in Call \ {k} :
              /\ editing[j].op = "create" => listing'[editing[j].listing].status = "NONE"
              /\ editing[j].checked /\ suspended' => editing[j].listing \in excused',
           L!SuspendedIsOffline'
    PROVE  ListingsInv'
<1>1. L!NoCall \in L!CallRow
  BY SalesFinite DEF L!NoCall, L!CallRow, L!Operation, L!Status
<1>2. /\ editing' \in [Call -> L!CallRow] /\ editing'[k] = L!NoCall
      /\ \A j \in Call : j # k => editing'[j] = editing[j]
  BY <1>1 DEF ListingsInv
<1>3. \A l \in Listing : StockOK(l)'
  <2> SUFFICES ASSUME NEW l \in Listing PROVE StockOK(l)'
    OBVIOUS
  <2>1. Having("RESERVED", l)' = Having("RESERVED", l) /\ Having("REFUNDED", l)' = Having("REFUNDED", l)
        /\ Having("REFUNDED", l) \in SUBSET Sale
    BY DEF Having
  <2>2. Cardinality(Having("REFUNDED", l)) \in Nat
    BY <2>1, SalesFinite
  <2>3. listing'[l].quantity \in Nat
    BY DEF Rows
  <2>4. StockOK(l)
    BY DEF ListingsInv
  <2> QED BY <2>1, <2>2, <2>3, <2>4, SalesFinite DEF StockOK
<1>4. \A j \in Call : CallOK(j)'
  <2>1. CallOK(k)'
    BY <1>2 DEF CallOK, L!NoCall
  <2>2. ASSUME NEW j \in Call, j # k PROVE CallOK(j)'
    <3>1. CallOK(j) /\ editing'[j] = editing[j] /\ editing[j].targets \subseteq Listing
      BY <1>2, <2>2 DEF ListingsInv, L!CallRow
    <3> QED BY <2>2, <3>1 DEF CallOK
  <2> QED BY <2>1, <2>2
<1>5. \A i, j \in Call : /\ editing'[i].op = "create" /\ editing'[j].op = "create"
                         /\ editing'[i].listing = editing'[j].listing
                         => i = j
  BY <1>2 DEF ListingsInv, L!NoCall
<1>6. \A s \in Sale : IF sale'[s].status = "NONE" THEN sale'[s].listing = Nothing
                      ELSE sale'[s].listing \in Listing /\ listing'[sale'[s].listing].status # "NONE"
  BY DEF ListingsInv
<1> QED BY <1>2, <1>3, <1>4, <1>5, <1>6 DEF ListingsInv

\* A sale of the listing l gets another status.
Moves(s, l, status) ==
    /\ sale[s].status # status /\ (sale[s].listing = l \/ sale[s].status = "NONE")
    /\ sale' \in [Sale -> L!SaleRow] /\ sale'[s].status = status /\ sale'[s].listing = l
    /\ \A r \in Sale : r # s => sale'[r] = sale[r]

HavingMoves(s, l, status) ==
    \A m \in Listing, kind \in {"RESERVED", "REFUNDED"} :
    /\ Cardinality(Having(kind, m)) \in Nat
    /\ Cardinality(Having(kind, m)') =
         IF m = l /\ kind = status THEN Cardinality(Having(kind, m)) + 1
         ELSE IF m = l /\ kind = sale[s].status THEN Cardinality(Having(kind, m)) - 1
         ELSE Cardinality(Having(kind, m))

LEMMA HavingStep ==
    ASSUME ListingsInv, NEW s \in Sale, NEW l \in Listing, NEW status \in {"RESERVED", "SOLD", "RELEASED", "REFUNDED"},
           Moves(s, l, status)
    PROVE  HavingMoves(s, l, status)
<1> SUFFICES ASSUME NEW m \in Listing, NEW kind \in {"RESERVED", "REFUNDED"}
             PROVE  /\ Cardinality(Having(kind, m)) \in Nat
                    /\ Cardinality(Having(kind, m)') =
                         IF m = l /\ kind = status THEN Cardinality(Having(kind, m)) + 1
                         ELSE IF m = l /\ kind = sale[s].status THEN Cardinality(Having(kind, m)) - 1
                         ELSE Cardinality(Having(kind, m))
  BY DEF HavingMoves
<1>1. /\ sale \in [Sale -> L!SaleRow] /\ Moves(s, l, status)
      /\ sale[s].status = "NONE" => sale[s].listing = Nothing
  BY DEF ListingsInv
<1>2. Having(kind, m) \in SUBSET Sale
  BY DEF Having
<1>3. IsFiniteSet(Having(kind, m)) /\ Cardinality(Having(kind, m)) \in Nat
  BY <1>2, SalesFinite
<1>4. CASE m = l /\ kind = status
  <2>1. Having(kind, m)' = Having(kind, m) \cup {s} /\ s \notin Having(kind, m)
    BY <1>1, <1>4 DEF Having, Moves
  <2> QED BY <1>3, <1>4, <2>1, FS_AddElement
<1>5. CASE m = l /\ kind = sale[s].status
  <2>1. s \in Having(kind, m) /\ kind # status
    BY <1>1, <1>5, TradeAssumption DEF Having, Moves
  <2>2. ASSUME NEW r \in Sale PROVE r \in Having(kind, m)' <=> r \in Having(kind, m) \ {s}
    <3>1. CASE r = s
      BY <1>1, <1>5, <3>1 DEF Having, Moves
    <3>2. CASE r # s
      BY <1>1, <3>2 DEF Having, Moves
    <3> QED BY <3>1, <3>2
  <2>3. Having(kind, m)' = Having(kind, m) \ {s}
    <3>1. Having(kind, m)' \subseteq Sale /\ Having(kind, m) \subseteq Sale
      BY DEF Having
    <3> QED BY <2>2, <3>1
  <2>4. Cardinality(Having(kind, m) \ {s}) = Cardinality(Having(kind, m)) - 1
    BY <1>3, <2>1, FS_RemoveElement
  <2>5. ~(m = l /\ kind = status)
    BY <2>1
  <2> QED BY <1>3, <1>5, <2>3, <2>4, <2>5
<1>6. CASE ~(m = l /\ kind = status) /\ ~(m = l /\ kind = sale[s].status)
  <2>1. ASSUME NEW r \in Sale PROVE r \in Having(kind, m)' <=> r \in Having(kind, m)
    <3>1. CASE r = s
      <4>1. sale[s].status # "NONE" => sale[s].listing = l
        BY <1>1 DEF Moves
      <4>2. s \notin Having(kind, m)
        BY <1>6, <4>1 DEF Having
      <4>3. sale'[s].status = status /\ sale'[s].listing = l
        BY <1>1 DEF Moves
      <4>4. ~(s \in Having(kind, m)')
        BY <1>6, <4>3 DEF Having
      <4> QED BY <3>1, <4>2, <4>4
    <3>2. CASE r # s
      BY <1>1, <3>2 DEF Having, Moves
    <3> QED BY <3>1, <3>2
  <2>2. Having(kind, m)' = Having(kind, m)
    <3>1. Having(kind, m)' \subseteq Sale /\ Having(kind, m) \subseteq Sale
      BY DEF Having
    <3> QED BY <2>1, <3>1
  <2> QED BY <1>3, <1>6, <2>2
<1> QED BY <1>4, <1>5, <1>6

\* The row and the sale move together.
Trades(s, l, status) ==
    /\ Moves(s, l, status) /\ sale[s].status # "REFUNDED"
    /\ listing' \in [Listing -> Rows] /\ \A m \in Listing : m # l => listing'[m] = listing[m]
    /\ listing[l].status # "NONE" /\ listing'[l].status # "NONE"
    /\ listing'[l].reserved = listing[l].reserved + (IF status = "RESERVED" THEN 1 ELSE 0)
                              - (IF sale[s].status = "RESERVED" THEN 1 ELSE 0)
    /\ listing'[l].quantity <= listing[l].quantity + (IF status = "REFUNDED" THEN 1 ELSE 0)
    /\ listing'[l].reserved <= listing'[l].quantity
    /\ listing'[l].status = "ACTIVE" => listing[l].status = "ACTIVE" \/ l \in excused' \/ ~suspended
    /\ UNCHANGED <<suspended, editing>> /\ excused' \subseteq Listing /\ excused \subseteq excused'

LEMMA SaleStep ==
    ASSUME ListingsInv, NEW s \in Sale, NEW l \in Listing, NEW status \in {"RESERVED", "SOLD", "RELEASED", "REFUNDED"},
           Trades(s, l, status)
    PROVE  ListingsInv'
<1> DEFINE new == listing'[l]
<1>1. /\ listing' \in [Listing -> Rows] /\ new \in Rows
      /\ \A m \in Listing : m # l => listing'[m] = listing[m]
      /\ new.reserved = listing[l].reserved + (IF status = "RESERVED" THEN 1 ELSE 0)
                        - (IF sale[s].status = "RESERVED" THEN 1 ELSE 0)
      /\ new.quantity <= listing[l].quantity + (IF status = "REFUNDED" THEN 1 ELSE 0)
      /\ new.reserved <= new.quantity /\ sale[s].status # "REFUNDED" /\ sale[s].status # status
  BY DEF Trades, Moves
<1>2. /\ listing[l].status # "NONE" /\ listing'[l].status # "NONE"
      /\ listing'[l].status = "ACTIVE" => listing[l].status = "ACTIVE" \/ l \in excused' \/ ~suspended
      /\ UNCHANGED <<suspended, editing>> /\ excused' \subseteq Listing /\ excused \subseteq excused'
  BY DEF Trades
<1>3. /\ sale' \in [Sale -> L!SaleRow] /\ sale'[s].status = status /\ sale'[s].listing = l
      /\ \A r \in Sale : r # s => sale'[r] = sale[r]
  BY DEF Trades, Moves
<1>4. HavingMoves(s, l, status)
  BY HavingStep DEF Trades
<1>5. \A m \in Listing : StockOK(m)'
  <2> SUFFICES ASSUME NEW m \in Listing PROVE StockOK(m)'
    OBVIOUS
  <2>1. StockOK(m) /\ listing[m].reserved \in Nat /\ listing[m].quantity \in Nat
    BY DEF ListingsInv, Rows
  <2>2. CASE m # l
    <3>1. /\ Cardinality(Having("RESERVED", m)') = Cardinality(Having("RESERVED", m))
          /\ Cardinality(Having("REFUNDED", m)') = Cardinality(Having("REFUNDED", m))
      BY <1>4, <2>2 DEF HavingMoves
    <3> QED BY <1>1, <2>1, <2>2, <3>1 DEF StockOK
  <2>3. CASE m = l
    <3>1. /\ Cardinality(Having("RESERVED", l)) \in Nat /\ Cardinality(Having("REFUNDED", l)) \in Nat
          /\ Cardinality(Having("RESERVED", l)') =
                IF status = "RESERVED" THEN Cardinality(Having("RESERVED", l)) + 1
                ELSE IF sale[s].status = "RESERVED" THEN Cardinality(Having("RESERVED", l)) - 1
                ELSE Cardinality(Having("RESERVED", l))
      BY <1>4 DEF HavingMoves
    <3>2. Cardinality(Having("REFUNDED", l)') = Cardinality(Having("REFUNDED", l))
                                                + (IF status = "REFUNDED" THEN 1 ELSE 0)
      BY <1>1, <1>4, <3>1 DEF HavingMoves
    <3>3. new.quantity \in Nat /\ new.reserved \in Nat
      BY <1>1 DEF Rows
    <3>4. Cardinality(Having("RESERVED", l)') = new.reserved
      BY <1>1, <2>1, <2>3, <3>1, <3>3 DEF StockOK
    <3>5. new.quantity <= MaxQuantity + Cardinality(Having("REFUNDED", l)')
      BY <1>1, <2>1, <2>3, <3>1, <3>2, <3>3, SalesFinite DEF StockOK
    <3> QED BY <1>1, <2>3, <3>4, <3>5 DEF StockOK
  <2> QED BY <2>2, <2>3
<1>6. \A r \in Sale : IF sale'[r].status = "NONE" THEN sale'[r].listing = Nothing
                      ELSE sale'[r].listing \in Listing /\ listing'[sale'[r].listing].status # "NONE"
  BY <1>1, <1>2, <1>3 DEF ListingsInv
<1>7. \A j \in Call : CallOK(j)'
  <2> SUFFICES ASSUME NEW j \in Call PROVE CallOK(j)'
    OBVIOUS
  <2>1. CallOK(j) /\ editing[j].targets \subseteq Listing
    BY DEF ListingsInv, L!CallRow
  <2> QED BY <1>1, <1>2, <2>1 DEF CallOK
<1>8. L!SuspendedIsOffline'
  BY <1>1, <1>2 DEF ListingsInv, L!SuspendedIsOffline, L!OnSale
<1> QED BY <1>1, <1>2, <1>3, <1>5, <1>6, <1>7, <1>8 DEF ListingsInv

\* The rows of calls that begin, field by field.
LEMMA NoCallRow ==
    /\ L!NoCall \in L!CallRow /\ L!NoCall.listing = Nothing /\ L!NoCall.status = "NONE"
    /\ ~L!NoCall.checked /\ L!NoCall.targets = {}
  BY SalesFinite DEF L!NoCall, L!CallRow, L!Operation, L!Status

Begun(op, l) == [[L!NoCall EXCEPT !.op = op] EXCEPT !.listing = l]

LEMMA BegunRow ==
    ASSUME NEW op \in L!Operation, NEW l \in Listing
    PROVE  /\ Begun(op, l) \in L!CallRow /\ Begun(op, l).op = op /\ Begun(op, l).listing = l
           /\ ~Begun(op, l).checked /\ Begun(op, l).targets = {}
<1> DEFINE one == [L!NoCall EXCEPT !.op = op]
           task == Begun(op, l)
<1>1. one \in L!CallRow /\ one.op = op /\ ~one.checked /\ one.targets = {}
  BY NoCallRow DEF L!CallRow
<1>2. task = [one EXCEPT !.listing = l]
  BY DEF Begun
<1> HIDE DEF one
<1>3. task \in L!CallRow /\ task.op = op /\ task.listing = l /\ ~task.checked /\ task.targets = {}
  <2> HIDE DEF task
  <2> QED BY <1>1, <1>2 DEF L!CallRow
<1> QED BY <1>3

LEMMA ListingsBegin ==
    ASSUME ListingsInv, NEW k \in Call,
           \/ \E l \in Listing, n \in 1..MaxQuantity : L!BeginCreate(k, l, n) \/ L!BeginEdit(k, l, n)
           \/ \E l \in Listing, op \in {"pause", "activate", "cancel"} :
                 L!BeginMove(k, l, op) \/ L!BeginModeration(k, l, op)
           \/ L!CheckSeller(k) \/ L!GiveUp(k) \/ L!BeginSuspend(k)
    PROVE  ListingsInv'
<1>1. editing \in [Call -> L!CallRow] /\ listing \in [Listing -> Rows] /\ L!NoCall \in L!CallRow
      /\ 0 \in 0..MaxQuantity /\ \A n \in 1..MaxQuantity : n \in 0..MaxQuantity
  BY SalesFinite DEF ListingsInv, L!NoCall, L!CallRow, L!Operation, L!Status
<1>2. ASSUME NEW l \in Listing, NEW n \in 1..MaxQuantity, L!BeginCreate(k, l, n) PROVE ListingsInv'
  <2> DEFINE two == Begun("create", l)
             half == [two EXCEPT !.quantity = n]
             task == [half EXCEPT !.checked = TRUE]
  <2>1. task \in L!CallRow /\ task.op = "create" /\ task.listing = l /\ task.checked /\ task.targets = {}
    <3>1. two \in L!CallRow /\ two.op = "create" /\ two.listing = l /\ two.targets = {}
      BY BegunRow DEF L!Operation
    <3> HIDE DEF two
    <3>2. half \in L!CallRow /\ half.op = "create" /\ half.listing = l /\ half.targets = {}
      BY <1>1, <3>1 DEF L!CallRow
    <3> HIDE DEF half
    <3> QED BY <3>2 DEF L!CallRow
  <2>2. editing' = [editing EXCEPT ![k] = task] /\ UNCHANGED <<listing, sale, suspended, excused>>
    BY <1>2 DEF L!BeginCreate, Begun
  <2>3. /\ ~suspended /\ listing[l].status = "NONE"
        /\ \A j \in Call : editing[j].op = "create" => editing[j].listing # l
    BY <1>2 DEF L!BeginCreate
  <2> HIDE DEF task
  <2>4. CallOK(k)'
    BY <1>1, <2>1, <2>2, <2>3 DEF CallOK
  <2> QED BY <2>1, <2>2, <2>3, <2>4, ReadStep
<1>3. ASSUME NEW l \in Listing, NEW op \in {"edit", "pause", "activate", "cancel"}, NEW task \in L!CallRow,
             /\ task.op = op /\ task.listing = l /\ task.status = listing[l].status /\ ~task.checked
             /\ task.targets = {},
             editing' = [editing EXCEPT ![k] = task], UNCHANGED <<listing, sale, suspended, excused>>,
             listing[l].status \in {"ACTIVE", "PAUSED"}
      PROVE  ListingsInv'
  <2>1. CallOK(k)'
    BY <1>1, <1>3 DEF CallOK
  <2> QED BY <1>3, <2>1, ReadStep
<1>4. ASSUME NEW l \in Listing, NEW n \in 1..MaxQuantity, L!BeginEdit(k, l, n) PROVE ListingsInv'
  <2> DEFINE two == Begun("edit", l)
             half == [two EXCEPT !.status = listing[l].status]
             task == [half EXCEPT !.quantity = n]
  <2>1. listing[l].status \in {"ACTIVE", "PAUSED"} /\ UNCHANGED <<listing, sale, suspended, excused>>
    BY <1>1, <1>4 DEF L!BeginEdit, L!Mutable, Rows, L!Status
  <2>2. editing' = [editing EXCEPT ![k] = task]
    BY <1>4 DEF L!BeginEdit, Begun
  <2>3. /\ task \in L!CallRow /\ task.op = "edit" /\ task.listing = l /\ task.status = listing[l].status
        /\ ~task.checked /\ task.targets = {}
    <3>1. two \in L!CallRow /\ two.op = "edit" /\ two.listing = l /\ ~two.checked /\ two.targets = {}
      BY BegunRow DEF L!Operation
    <3>2. listing[l].status \in L!Status
      BY <2>1 DEF L!Status
    <3> HIDE DEF two
    <3>3. /\ half \in L!CallRow /\ half.op = "edit" /\ half.listing = l /\ half.status = listing[l].status
          /\ ~half.checked /\ half.targets = {}
      BY <3>1, <3>2 DEF L!CallRow
    <3> HIDE DEF half
    <3> QED BY <1>1, <3>3 DEF L!CallRow
  <2> HIDE DEF task
  <2> QED BY <1>3, <2>1, <2>2, <2>3
<1>5. ASSUME NEW l \in Listing, NEW op \in {"pause", "activate", "cancel"},
             L!BeginMove(k, l, op) \/ L!BeginModeration(k, l, op)
      PROVE  ListingsInv'
  <2> DEFINE two == Begun(op, l)
             task == [two EXCEPT !.status = listing[l].status]
  <2>1. listing[l].status \in {"ACTIVE", "PAUSED"} /\ UNCHANGED <<listing, sale, suspended, excused>>
    BY <1>1, <1>5 DEF L!BeginMove, L!BeginModeration, L!Mutable, Rows, L!Status
  <2>2. editing' = [editing EXCEPT ![k] = task]
    BY <1>5 DEF L!BeginMove, L!BeginModeration, Begun
  <2>3. /\ task \in L!CallRow /\ task.op = op /\ task.listing = l /\ task.status = listing[l].status
        /\ ~task.checked /\ task.targets = {}
    <3>1. two \in L!CallRow /\ two.op = op /\ two.listing = l /\ ~two.checked /\ two.targets = {}
      BY BegunRow DEF L!Operation
    <3>2. listing[l].status \in L!Status
      BY <2>1 DEF L!Status
    <3> HIDE DEF two
    <3> QED BY <3>1, <3>2 DEF L!CallRow
  <2> HIDE DEF task
  <2> QED BY <1>3, <2>1, <2>2, <2>3
<1>6. CASE L!CheckSeller(k)
  <2> DEFINE task == [editing[k] EXCEPT !.checked = TRUE]
  <2>1. /\ task \in L!CallRow /\ task.op = editing[k].op /\ task.listing = editing[k].listing
        /\ task.status = editing[k].status /\ task.targets = editing[k].targets
    BY <1>1 DEF L!CallRow
  <2>2. /\ editing' = [editing EXCEPT ![k] = task] /\ UNCHANGED <<listing, sale, suspended, excused>>
        /\ ~suspended /\ editing[k].op = "activate"
    BY <1>6 DEF L!CheckSeller
  <2> HIDE DEF task
  <2>3. CallOK(k)'
    BY <1>1, <2>1, <2>2 DEF CallOK, ListingsInv
  <2> QED BY <2>1, <2>2, <2>3, ReadStep
<1>7. CASE L!GiveUp(k)
  <2>1. editing' = [editing EXCEPT ![k] = L!NoCall] /\ UNCHANGED <<listing, sale, suspended, excused>>
    BY <1>7 DEF L!GiveUp
  <2>2. CallOK(k)' /\ L!NoCall.op # "create"
    BY <1>1, <2>1 DEF CallOK, L!NoCall
  <2> QED BY <1>1, <2>1, <2>2, ReadStep
<1>8. CASE L!BeginSuspend(k)
  <2> DEFINE task == [L!NoCall EXCEPT !.op = "suspend", !.targets = L!OnSale]
  <2>1. task \in L!CallRow /\ task.op = "suspend" /\ ~task.checked /\ task.targets = L!OnSale
    <3> DEFINE one == [L!NoCall EXCEPT !.op = "suspend"]
    <3>1. one \in L!CallRow /\ one.op = "suspend" /\ ~one.checked
      BY NoCallRow DEF L!CallRow, L!Operation
    <3>2. task = [one EXCEPT !.targets = L!OnSale] /\ L!OnSale \subseteq Listing
      BY DEF L!OnSale
    <3> HIDE DEF one, task
    <3> QED BY <3>1, <3>2 DEF L!CallRow
  <2>2. editing' = [editing EXCEPT ![k] = task] /\ UNCHANGED <<listing, sale, suspended, excused>>
    BY <1>8 DEF L!BeginSuspend
  <2> HIDE DEF task
  <2>3. CallOK(k)'
    BY <1>1, <2>1, <2>2 DEF CallOK, L!OnSale
  <2> QED BY <2>1, <2>2, <2>3, ReadStep
<1> QED BY <1>2, <1>4, <1>5, <1>6, <1>7, <1>8

LEMMA ListingsWrite ==
    ASSUME ListingsInv, NEW k \in Call,
           L!WriteCreate(k) \/ L!WriteEdit(k) \/ L!WriteMove(k) \/ L!WriteSuspend(k)
    PROVE  ListingsInv'
<1> DEFINE l == editing[k].listing
<1>1. /\ editing \in [Call -> L!CallRow] /\ listing \in [Listing -> Rows]
      /\ \A m \in Listing : StockOK(m) /\ listing[m].reserved \in Nat
      /\ \A j \in Call : CallOK(j)
  BY DEF ListingsInv, Rows
<1>2. CASE L!WriteCreate(k)
  <2> DEFINE new == [status |-> "ACTIVE", quantity |-> editing[k].quantity, reserved |-> 0]
  <2>1. /\ editing[k].op = "create" /\ listing' = [listing EXCEPT ![l] = new]
        /\ editing' = [editing EXCEPT ![k] = L!NoCall] /\ UNCHANGED <<sale, suspended, excused>>
    BY <1>2 DEF L!WriteCreate
  <2>2. editing[k].checked /\ l \in Listing /\ listing[l].status = "NONE" /\ editing[k].quantity \in 0..MaxQuantity
    BY <1>1, <2>1 DEF CallOK, L!CallRow
  <2>3. new \in Rows /\ new.quantity <= MaxQuantity
    BY <2>2, SalesFinite DEF Rows, L!Status
  <2>4. listing[l].reserved = 0
    <3>1. Having("RESERVED", l) = {}
      BY <2>2, TradeAssumption DEF Having, ListingsInv
    <3> QED BY <1>1, <2>2, <3>1, FS_EmptySet DEF StockOK
  <2>5. /\ listing' \in [Listing -> Rows] /\ listing'[l] = new
        /\ \A m \in Listing : m # l => listing'[m] = listing[m]
    BY <1>1, <2>1, <2>2, <2>3
  <2>6. \A j \in Call \ {k} : editing[j].op = "create" => listing'[editing[j].listing].status = "NONE"
    BY <1>1, <2>1, <2>5 DEF CallOK, ListingsInv
  <2>7. L!SuspendedIsOffline'
    BY <1>1, <2>1, <2>2, <2>5 DEF L!SuspendedIsOffline, L!OnSale, CallOK, ListingsInv
  <2>8. \A m \in Listing :
           /\ listing'[m].reserved = listing[m].reserved /\ listing[m].reserved <= listing'[m].quantity
           /\ listing'[m].quantity = listing[m].quantity \/ listing'[m].quantity <= MaxQuantity
           /\ listing[m].status # "NONE" => listing'[m].status # "NONE"
    BY <1>1, <2>2, <2>3, <2>4, <2>5 DEF StockOK
  <2>9. suspended \in BOOLEAN /\ excused \subseteq Listing
        /\ \A j \in Call \ {k} : editing[j].checked /\ suspended => editing[j].listing \in excused
    BY <1>1 DEF ListingsInv, CallOK
  <2> HIDE DEF new, l
  <2> QED BY <2>1, <2>5, <2>6, <2>7, <2>8, <2>9, WriteStep
<1>3. CASE L!WriteEdit(k) \/ L!WriteMove(k)
  <2>1. PICK new : /\ listing' = [listing EXCEPT ![l] = new] /\ UNCHANGED <<sale, suspended, excused>>
                   /\ editing[k].op \in {"edit", "pause", "activate", "cancel"}
                   /\ editing' = [editing EXCEPT ![k] = L!NoCall]
                   /\ \/ /\ new = [listing[l] EXCEPT !.quantity = editing[k].quantity]
                         /\ listing[l].reserved <= editing[k].quantity
                      \/ /\ new = [listing[l] EXCEPT !.status = L!Target(editing[k].op)]
                         /\ editing[k].op = "activate" => editing[k].checked
                         /\ editing[k].op \in {"pause", "activate", "cancel"}
    BY <1>3 DEF L!WriteEdit, L!WriteMove, L!RowCheck
  <2>2. l \in Listing /\ listing[l].status # "NONE" /\ editing[k].quantity \in 0..MaxQuantity
    BY <1>1, <2>1 DEF CallOK, L!CallRow
  <2>3. editing[k].op \in {"pause", "activate", "cancel"} =>
           /\ L!Target(editing[k].op) \in {"PAUSED", "ACTIVE", "CANCELLED"}
           /\ L!Target(editing[k].op) = "ACTIVE" => editing[k].op = "activate"
    BY DEF L!Target
  <2>4. /\ new \in Rows /\ new.reserved = listing[l].reserved /\ listing[l].reserved <= new.quantity
        /\ new.status # "NONE" /\ (new.quantity = listing[l].quantity \/ new.quantity <= MaxQuantity)
        /\ new.status = "ACTIVE" => listing[l].status = "ACTIVE" \/ editing[k].checked
    BY <1>1, <2>1, <2>2, <2>3, SalesFinite DEF Rows, L!Status, StockOK
  <2>5. /\ listing' \in [Listing -> Rows] /\ listing'[l] = new
        /\ \A m \in Listing : m # l => listing'[m] = listing[m]
    BY <1>1, <2>1, <2>2, <2>4
  <2>6. \A j \in Call \ {k} : editing[j].op = "create" => listing'[editing[j].listing].status = "NONE"
    BY <1>1, <2>2, <2>5 DEF CallOK
  <2>7. L!SuspendedIsOffline'
    BY <1>1, <2>1, <2>2, <2>4, <2>5 DEF L!SuspendedIsOffline, L!OnSale, CallOK, ListingsInv
  <2>8. \A m \in Listing :
           /\ listing'[m].reserved = listing[m].reserved /\ listing[m].reserved <= listing'[m].quantity
           /\ listing'[m].quantity = listing[m].quantity \/ listing'[m].quantity <= MaxQuantity
           /\ listing[m].status # "NONE" => listing'[m].status # "NONE"
    BY <1>1, <2>2, <2>4, <2>5 DEF StockOK
  <2>9. suspended \in BOOLEAN /\ excused \subseteq Listing
        /\ \A j \in Call \ {k} : editing[j].checked /\ suspended => editing[j].listing \in excused
    BY <1>1 DEF ListingsInv, CallOK
  <2> HIDE DEF l
  <2> QED BY <2>1, <2>5, <2>6, <2>7, <2>8, <2>9, WriteStep
<1>4. CASE L!WriteSuspend(k)
  <2> DEFINE targets == editing[k].targets
  <2>1. /\ editing[k].op = "suspend" /\ suspended' = TRUE /\ sale' = sale
        /\ listing' = [m \in Listing |-> IF m \in targets THEN [listing[m] EXCEPT !.status = "PAUSED"]
                                         ELSE listing[m]]
        /\ excused' = (L!OnSale \ targets) \cup {editing[c].listing : c \in {j \in Call : editing[j].checked}}
        /\ editing' = [editing EXCEPT ![k] = L!NoCall]
    BY <1>4 DEF L!WriteSuspend, L!PauseAll
  <2>2. targets \subseteq Listing /\ \A m \in targets : listing[m].status # "NONE"
    BY <1>1 DEF CallOK, L!CallRow
  <2>3. /\ listing' \in [Listing -> Rows]
        /\ \A m \in Listing : /\ listing'[m].reserved = listing[m].reserved
                              /\ listing'[m].quantity = listing[m].quantity
                              /\ listing'[m].status = IF m \in targets THEN "PAUSED" ELSE listing[m].status
    BY <1>1, <2>1 DEF Rows, L!Status
  <2>4. excused' \subseteq Listing
    BY <1>1, <2>1 DEF L!OnSale, CallOK
  <2>5. \A j \in Call \ {k} : /\ editing[j].op = "create" => listing'[editing[j].listing].status = "NONE"
                              /\ editing[j].checked => editing[j].listing \in excused'
    BY <1>1, <2>1, <2>2, <2>3 DEF CallOK
  <2>6. L!SuspendedIsOffline'
    BY <2>1, <2>3 DEF L!SuspendedIsOffline, L!OnSale
  <2>7. \A m \in Listing :
           /\ listing'[m].reserved = listing[m].reserved /\ listing[m].reserved <= listing'[m].quantity
           /\ listing'[m].quantity = listing[m].quantity \/ listing'[m].quantity <= MaxQuantity
           /\ listing[m].status # "NONE" => listing'[m].status # "NONE"
    BY <1>1, <2>3 DEF StockOK
  <2> HIDE DEF targets
  <2> QED BY <2>1, <2>3, <2>4, <2>5, <2>6, <2>7, WriteStep
<1> QED BY <1>2, <1>3, <1>4

LEMMA ListingsSale ==
    ASSUME ListingsInv, NEW s \in Sale,
           L!Release(s) \/ L!Pay(s) \/ L!Restock(s) \/ \E l \in Listing : L!Reserve(s, l)
    PROVE  ListingsInv'
<1>1. /\ sale \in [Sale -> L!SaleRow] /\ listing \in [Listing -> Rows] /\ excused \subseteq Listing
      /\ \A m \in Listing : /\ StockOK(m) /\ listing[m].quantity \in Nat /\ listing[m].reserved \in Nat
                            /\ listing[m].status \in L!Status
      /\ sale[s].status # "NONE" => sale[s].listing \in Listing /\ listing[sale[s].listing].status # "NONE"
  BY DEF ListingsInv, Rows
<1>2. ASSUME NEW l \in Listing, L!Reserve(s, l) PROVE ListingsInv'
  <2>1. /\ sale[s].status = "NONE" /\ listing[l].status # "NONE"
        /\ listing[l].quantity - listing[l].reserved >= 1
        /\ UNCHANGED <<suspended, editing, excused>>
    BY <1>2 DEF L!Reserve, L!Row!CanReserve
  <2>2. Moves(s, l, "RESERVED")
    <3>1. sale' = [sale EXCEPT ![s] = [status |-> "RESERVED", listing |-> l]]
      BY <1>2 DEF L!Reserve
    <3> QED BY <1>1, <2>1, <3>1 DEF Moves, L!SaleRow
  <2>3. /\ listing' \in [Listing -> Rows] /\ \A m \in Listing : m # l => listing'[m] = listing[m]
        /\ listing'[l].status = listing[l].status /\ listing'[l].quantity = listing[l].quantity
        /\ listing'[l].reserved = listing[l].reserved + 1
    BY <1>1, <1>2 DEF L!Reserve, L!Row!Reserve, Rows
  <2>4. Trades(s, l, "RESERVED")
    BY <1>1, <2>1, <2>2, <2>3 DEF Trades
  <2> QED BY <2>4, SaleStep
<1> DEFINE l == sale[s].listing
<1>3. CASE L!Release(s)
  <2>1. /\ sale[s].status = "RESERVED" /\ listing[l].reserved >= 1
        /\ UNCHANGED <<suspended, editing, excused>>
    BY <1>3 DEF L!Release, L!Row!CanRelease
  <2>2. l \in Listing /\ listing[l].status # "NONE" /\ StockOK(l)
    BY <1>1, <2>1
  <2>3. Moves(s, l, "RELEASED")
    BY <1>1, <1>3, <2>1 DEF L!Release, Moves, L!SaleRow
  <2>4. /\ listing' \in [Listing -> Rows] /\ \A m \in Listing : m # l => listing'[m] = listing[m]
        /\ listing'[l].status = listing[l].status /\ listing'[l].quantity = listing[l].quantity
        /\ listing'[l].reserved = listing[l].reserved - 1
    BY <1>1, <1>3, <2>1, <2>2 DEF L!Release, L!Row!Release, Rows
  <2> HIDE DEF l
  <2>5. Trades(s, l, "RELEASED")
    BY <1>1, <2>1, <2>2, <2>3, <2>4 DEF Trades, StockOK
  <2> QED BY <2>2, <2>5, SaleStep
<1>4. CASE L!Pay(s)
  <2>1. /\ sale[s].status = "RESERVED" /\ listing[l].reserved >= 1 /\ listing[l].quantity >= 1
        /\ UNCHANGED <<suspended, editing, excused>>
    BY <1>4 DEF L!Pay, L!Row!CanConsume
  <2>2. l \in Listing /\ listing[l].status # "NONE" /\ StockOK(l)
    BY <1>1, <2>1
  <2>3. Moves(s, l, "SOLD")
    BY <1>1, <1>4, <2>1 DEF L!Pay, Moves, L!SaleRow
  <2>4. /\ listing' \in [Listing -> Rows] /\ \A m \in Listing : m # l => listing'[m] = listing[m]
        /\ listing'[l].status \in {"SOLD", listing[l].status}
        /\ listing'[l].quantity = listing[l].quantity - 1 /\ listing'[l].reserved = listing[l].reserved - 1
    <3> DEFINE new == L!Row!Consume(listing[l], 1)
    <3>1. /\ new \in Rows /\ new.status \in {"SOLD", listing[l].status}
          /\ new.quantity = listing[l].quantity - 1 /\ new.reserved = listing[l].reserved - 1
      BY <1>1, <2>1, <2>2 DEF L!Row!Consume, Rows, L!Status
    <3>2. listing' = [listing EXCEPT ![l] = new]
      BY <1>4 DEF L!Pay
    <3> HIDE DEF new, l
    <3> QED BY <1>1, <2>2, <3>1, <3>2
  <2> HIDE DEF l
  <2>5. Trades(s, l, "SOLD")
    BY <1>1, <2>1, <2>2, <2>3, <2>4 DEF Trades, StockOK
  <2> QED BY <2>2, <2>5, SaleStep
<1>5. CASE L!Restock(s)
  <2>1. /\ sale[s].status = "SOLD" /\ UNCHANGED <<suspended, editing>>
        /\ excused' = IF suspended /\ listing[l].status = "SOLD" THEN excused \cup {l} ELSE excused
    BY <1>5 DEF L!Restock
  <2>2. l \in Listing /\ listing[l].status # "NONE" /\ StockOK(l)
    BY <1>1, <2>1
  <2>3. Moves(s, l, "REFUNDED")
    BY <1>1, <1>5, <2>1 DEF L!Restock, Moves, L!SaleRow
  <2>4. /\ listing' \in [Listing -> Rows] /\ \A m \in Listing : m # l => listing'[m] = listing[m]
        /\ listing'[l].status = IF listing[l].status = "SOLD" THEN "ACTIVE" ELSE listing[l].status
        /\ listing'[l].quantity = listing[l].quantity + 1 /\ listing'[l].reserved = listing[l].reserved
    <3> DEFINE new == L!Row!Restore(listing[l], 1)
               half == [listing[l] EXCEPT !.quantity = listing[l].quantity + 1]
               status == IF listing[l].status = "SOLD" THEN "ACTIVE" ELSE listing[l].status
    <3>1. half \in Rows /\ half.quantity = listing[l].quantity + 1 /\ half.reserved = listing[l].reserved
      BY <1>1, <2>2 DEF Rows
    <3>2. new = [half EXCEPT !.status = status]
      BY DEF L!Row!Restore
    <3>3. status \in L!Status
      BY <1>1, <2>2 DEF L!Status
    <3>4. listing' = [listing EXCEPT ![l] = new]
      BY <1>5 DEF L!Restock
    <3> HIDE DEF half, status
    <3>5. /\ new \in Rows /\ new.status = status /\ new.quantity = listing[l].quantity + 1
          /\ new.reserved = listing[l].reserved
      BY <3>1, <3>2, <3>3 DEF Rows
    <3> HIDE DEF new, l
    <3> QED BY <1>1, <2>2, <3>4, <3>5 DEF status
  <2> HIDE DEF l
  <2>5. Trades(s, l, "REFUNDED")
    BY <1>1, <2>1, <2>2, <2>3, <2>4 DEF Trades, StockOK
  <2> QED BY <2>2, <2>5, SaleStep
<1> QED BY <1>2, <1>3, <1>4, <1>5

LEMMA ListingsStep == ASSUME ListingsInv, L!Next PROVE ListingsInv'
<1>1. CASE L!Lift
  <2>1. suspended' = FALSE /\ excused' = {} /\ UNCHANGED <<listing, sale, editing>>
    BY <1>1 DEF L!Lift
  <2>2. \A l \in Listing : StockOK(l)'
    BY <2>1 DEF ListingsInv, StockOK, Having
  <2>3. \A k \in Call : CallOK(k)'
    BY <2>1 DEF ListingsInv, CallOK
  <2> QED BY <2>1, <2>2, <2>3 DEF ListingsInv, L!SuspendedIsOffline
<1> QED BY <1>1, ListingsBegin, ListingsWrite, ListingsSale DEF L!Next

\* Who moves a closed listing.
LEMMA ClosedListings == ASSUME ListingsInv, L!Next PROVE L!ClosedStep
<1> SUFFICES ASSUME NEW l \in Listing, listing[l].status \in {"SOLD", "CANCELLED"},
                    listing'[l].status # listing[l].status
             PROVE  \/ \E s \in Sale : /\ sale[s].listing = l /\ sale'[s].status # sale[s].status
                                       /\ sale'[s].status \in {"SOLD", "REFUNDED"}
                    \/ \E k \in Call : /\ ~L!Idle(k) /\ editing'[k].op = "none"
                                       /\ \/ editing[k].listing = l /\ editing[k].status \in {"ACTIVE", "PAUSED"}
                                          \/ l \in editing[k].targets
  BY DEF L!ClosedStep
<1>1. /\ sale \in [Sale -> L!SaleRow] /\ listing \in [Listing -> Rows] /\ editing \in [Call -> L!CallRow]
      /\ \A k \in Call : CallOK(k)
  BY DEF ListingsInv
<1>2. listing' # listing
  OBVIOUS
<1>3. ASSUME NEW k \in Call, L!WriteCreate(k) PROVE FALSE
  BY <1>1, <1>3 DEF L!WriteCreate, CallOK
<1>4. ASSUME NEW k \in Call, L!WriteEdit(k) PROVE FALSE
  BY <1>1, <1>4 DEF L!WriteEdit, CallOK, Rows
<1>5. ASSUME NEW k \in Call, L!WriteMove(k) \/ L!WriteSuspend(k)
      PROVE  /\ ~L!Idle(k) /\ editing'[k].op = "none"
             /\ \/ editing[k].listing = l /\ editing[k].status \in {"ACTIVE", "PAUSED"}
                \/ l \in editing[k].targets
  <2>1. ~L!Idle(k) /\ editing'[k].op = "none"
    BY <1>1, <1>5 DEF L!WriteMove, L!WriteSuspend, L!Idle, L!NoCall
  <2>2. CASE L!WriteMove(k)
    <3>1. editing[k].op \in {"pause", "activate", "cancel"}
          /\ listing' = [listing EXCEPT ![editing[k].listing].status = L!Target(editing[k].op)]
      BY <2>2 DEF L!WriteMove
    <3>2. editing[k].listing = l
      BY <1>1, <3>1
    <3> QED BY <1>1, <2>1, <3>1, <3>2 DEF CallOK
  <2>3. CASE L!WriteSuspend(k)
    <3>1. l \in editing[k].targets
      BY <1>1, <2>3 DEF L!WriteSuspend, L!PauseAll
    <3> QED BY <2>1, <3>1
  <2> QED BY <1>5, <2>2, <2>3
<1>6. ASSUME NEW s \in Sale, L!Release(s) \/ \E m \in Listing : L!Reserve(s, m) PROVE FALSE
  BY <1>1, <1>6 DEF L!Release, L!Reserve, L!Row!Release, L!Row!Reserve, Rows
<1>7. ASSUME NEW s \in Sale, L!Pay(s) \/ L!Restock(s)
      PROVE  /\ sale[s].listing = l /\ sale'[s].status # sale[s].status
             /\ sale'[s].status \in {"SOLD", "REFUNDED"}
  <2>1. sale[s].listing = l
    BY <1>1, <1>7 DEF L!Pay, L!Restock
  <2>2. sale'[s].status # sale[s].status /\ sale'[s].status \in {"SOLD", "REFUNDED"}
    BY <1>1, <1>7 DEF L!Pay, L!Restock, L!SaleRow
  <2> QED BY <2>1, <2>2
<1>8. ASSUME NEW k \in Call, NEW m \in Listing,
             \/ \E n \in 1..MaxQuantity : L!BeginCreate(k, m, n) \/ L!BeginEdit(k, m, n)
             \/ \E op \in {"pause", "activate", "cancel"} : L!BeginMove(k, m, op) \/ L!BeginModeration(k, m, op)
      PROVE  FALSE
  BY <1>2, <1>8 DEF L!BeginCreate, L!BeginEdit, L!BeginMove, L!BeginModeration
<1>9. ASSUME L!Lift \/ \E k \in Call : L!CheckSeller(k) \/ L!GiveUp(k) \/ L!BeginSuspend(k) PROVE FALSE
  BY <1>2, <1>9 DEF L!CheckSeller, L!GiveUp, L!BeginSuspend, L!Lift
<1> QED BY <1>3, <1>4, <1>5, <1>6, <1>7, <1>8, <1>9 DEF L!Next

----------------------------------------------------------------------------
(* Lots: what a running confirmation read of a lot that it has locked is   *)
(* the lot, less what its items took until now; and its items took nothing *)
(* of a lot that it has not locked, or there is nothing left of that.      *)

\* What the first n items of an order take from the lot l.
TakenBy(o, l, n) == D!MapThenSumSet(LAMBDA i : Items[o][i].quantity, {i \in 1..n : Items[o][i].lot = l})

LEMMA ItemsTyped ==
    ASSUME NEW o \in LotOrder
    PROVE  /\ Len(Items[o]) \in Nat /\ DOMAIN Items[o] = 1..Len(Items[o])
           /\ \A i \in 1..Len(Items[o]) : Items[o][i].lot \in Lot /\ Items[o][i].quantity \in Nat
<1> DEFINE Item == [lot : Lot, quantity : Nat]
<1>1. Items[o] \in Seq(Item)
  BY LotsAssumption
<1> HIDE DEF Item
<1>2. /\ Len(Items[o]) \in Nat /\ DOMAIN Items[o] = 1..Len(Items[o])
      /\ \A i \in 1..Len(Items[o]) : Items[o][i] \in Item
  BY <1>1
<1> QED BY <1>2 DEF Item

LEMMA TakenIsTotal ==
    ASSUME NEW o \in LotOrder
    PROVE  \E g : /\ IsTotal(g, [i \in 1..Len(Items[o]) |-> Items[o][i].quantity], 1..Len(Items[o]))
                  /\ \A T \in SUBSET (1..Len(Items[o])) :
                        D!MapThenSumSet(LAMBDA i : Items[o][i].quantity, T) = g[T]
<1> DEFINE U == 1..Len(Items[o])
           w == [i \in U |-> Items[o][i].quantity]
           Makes(h, T) == h = [s \in SUBSET T |-> IF s = {} THEN 0
                                                ELSE Items[o][Pick(s)].quantity + h[s \ {Pick(s)}]]
<1>1. w \in [U -> Int] /\ IsFiniteSet(U)
  <2>1. IsFiniteSet(U)
    BY ItemsTyped, FS_Interval
  <2>2. \A i \in U : Items[o][i].quantity \in Int
    BY ItemsTyped
  <2> HIDE DEF U
  <2> QED BY <2>1, <2>2
<1>2. \A i \in U : w[i] = Items[o][i].quantity
  OBVIOUS
<1> HIDE DEF U, w
<1>3. PICK g : SumsUp(g, w, U)
  BY <1>1, FoldsAreTotal
<1>4. ASSUME NEW T \in SUBSET U PROVE D!MapThenSumSet(LAMBDA i : Items[o][i].quantity, T) = g[T]
  <2>1. D!MapThenSumSet(LAMBDA i : Items[o][i].quantity, T) = (CHOOSE h : Makes(h, T))[T]
    BY DEF D!MapThenSumSet, D!MapThenFoldSet, Pick
  <2>2. \A s \in SUBSET T : s # {} => w[Pick(s)] = Items[o][Pick(s)].quantity
    BY <1>2, PickIsIn
  <2>3. \A h : Makes(h, T) <=> DefinesFold(h, w, T)
    BY <2>2 DEF DefinesFold
  <2> HIDE DEF Makes
  <2> DEFINE k == CHOOSE h : Makes(h, T)
  <2>4. Makes(k, T)
    BY <1>3, <2>3 DEF SumsUp
  <2> QED BY <1>3, <2>1, <2>3, <2>4 DEF SumsUp
<1> QED BY <1>3, <1>4 DEF SumsUp, U, w

\* One item more.
LEMMA TakenAdds ==
    ASSUME NEW o \in LotOrder, NEW l \in Lot
    PROVE  /\ TakenBy(o, l, 0) = 0
           /\ \A n \in 0..Len(Items[o]) : TakenBy(o, l, n) \in Nat
           /\ \A n \in 1..Len(Items[o]) :
                 TakenBy(o, l, n) = TakenBy(o, l, n - 1)
                                    + IF Items[o][n].lot = l THEN Items[o][n].quantity ELSE 0
           /\ D!Taken(o, l) = TakenBy(o, l, Len(Items[o]))
<1> DEFINE U == 1..Len(Items[o])
           w == [i \in U |-> Items[o][i].quantity]
           Of(n) == {i \in 1..n : Items[o][i].lot = l}
<1>1. PICK g : /\ IsTotal(g, w, U)
               /\ \A T \in SUBSET U : D!MapThenSumSet(LAMBDA i : Items[o][i].quantity, T) = g[T]
  BY TakenIsTotal
<1>2. Len(Items[o]) \in Nat /\ DOMAIN Items[o] = U
  BY ItemsTyped
<1>3. \A n \in 0..Len(Items[o]) : Of(n) \in SUBSET U
  BY <1>2
<1>4. \A n \in 0..Len(Items[o]) : TakenBy(o, l, n) = g[Of(n)]
  BY <1>1, <1>3 DEF TakenBy
<1>5. Of(0) = {}
  OBVIOUS
<1>6. ASSUME NEW n \in 1..Len(Items[o])
      PROVE  g[Of(n)] = g[Of(n - 1)] + IF Items[o][n].lot = l THEN Items[o][n].quantity ELSE 0
  <2>1. n \in U /\ n \notin Of(n - 1) /\ n - 1 \in 0..Len(Items[o]) /\ w[n] = Items[o][n].quantity
    BY <1>2
  <2>2. Of(n) = IF Items[o][n].lot = l THEN Of(n - 1) \cup {n} ELSE Of(n - 1)
    BY <1>2
  <2>3. g[Of(n - 1)] \in Int /\ w[n] \in Int
    BY <1>1, <1>3, <2>1 DEF IsTotal
  <2>4. g[Of(n - 1) \cup {n}] = w[n] + g[Of(n - 1)]
    <3>1. Of(n - 1) \in SUBSET U
      BY <1>3, <2>1
    <3>2. IsTotal(g, w, U)
      BY <1>1
    <3>3. n \in U /\ n \notin Of(n - 1)
      BY <2>1
    <3> HIDE DEF Of, U, w
    <3> QED BY <3>1, <3>2, <3>3, TotalAdds
  <2> HIDE DEF Of, U, w
  <2> QED BY <2>1, <2>2, <2>3, <2>4
<1>7. D!Taken(o, l) = g[Of(Len(Items[o]))]
  BY <1>1, <1>2, <1>3 DEF D!Taken
<1>8. \A n \in 0..Len(Items[o]) : g[Of(n)] \in Nat
  <2>1. IsFiniteSet(U) /\ \A i \in U : w[i] \in Nat
    <3>1. IsFiniteSet(U)
      BY ItemsTyped, FS_Interval
    <3>2. \A i \in U : Items[o][i].quantity \in Nat
      BY ItemsTyped
    <3> HIDE DEF U
    <3> QED BY <3>1, <3>2
  <2>2. IsTotal(g, w, U)
    BY <1>1
  <2> HIDE DEF U, w
  <2>3. \A T \in SUBSET U : g[T] \in Nat
    BY <2>1, <2>2, TotalOfNaturals
  <2> HIDE DEF Of
  <2> QED BY <1>3, <2>3
<1>9. g[{}] = 0
  BY <1>1 DEF IsTotal
<1> HIDE DEF Of, U, w
<1>10. TakenBy(o, l, 0) = 0
  <2>1. 0 \in 0..Len(Items[o])
    BY <1>2
  <2>2. TakenBy(o, l, 0) = g[Of(0)]
    BY <1>4, <2>1
  <2> QED BY <1>5, <1>9, <2>2
<1>11. \A n \in 0..Len(Items[o]) : TakenBy(o, l, n) \in Nat
  BY <1>4, <1>8
<1>12. ASSUME NEW n \in 1..Len(Items[o])
       PROVE  TakenBy(o, l, n) = TakenBy(o, l, n - 1)
                                 + IF Items[o][n].lot = l THEN Items[o][n].quantity ELSE 0
  <2>1. n \in 0..Len(Items[o]) /\ n - 1 \in 0..Len(Items[o])
    BY <1>2
  <2>2. TakenBy(o, l, n) = g[Of(n)] /\ TakenBy(o, l, n - 1) = g[Of(n - 1)]
    BY <1>4, <2>1
  <2> QED BY <1>6, <2>2
<1>13. D!Taken(o, l) = TakenBy(o, l, Len(Items[o]))
  BY <1>2, <1>4, <1>7
<1> QED BY <1>10, <1>11, <1>12, <1>13

\* What o knows of the lot l before it takes its item n.
DeductsOK(o, l, n) ==
    IF l \in confirming[o].locked THEN confirming[o].read[l] = D!Left(lot[l], TakenBy(o, l, n - 1))
    ELSE TakenBy(o, l, n - 1) = 0 \/ lot[l] = 0

LotsInv ==
    /\ D!TypeOK /\ D!LotMatchesSales
    /\ \A o, o2 \in LotOrder : o # o2 => confirming[o].locked \cap confirming[o2].locked = {}
    /\ \A o \in LotOrder :
          /\ confirming[o].next \in 1..(Len(Items[o]) + 1)
          /\ \A l \in Lot : DeductsOK(o, l, confirming[o].next)

\* What an order takes is no state.
LEMMA TakenIsRigid ==
    ASSUME NEW o, NEW l
    PROVE  TakenBy(o, l, confirming[o].next - 1)' = TakenBy(o, l, confirming'[o].next - 1)
  BY DEF TakenBy, D!MapThenSumSet, D!MapThenFoldSet

LEMMA IdleRow ==
    /\ D!Idle \in D!ConfirmationRow /\ [D!Idle EXCEPT !.stage = "done"] \in D!ConfirmationRow
    /\ D!Idle.next = 1 /\ D!Idle.locked = {}
  BY LotsAssumption DEF D!Idle, D!ConfirmationRow

LEMMA LotsStart == ASSUME D!Init PROVE LotsInv
<1>1. D!TypeOK /\ D!LotMatchesSales
  BY IdleRow, LotsAssumption DEF D!Init, D!TypeOK, D!LotMatchesSales
<1>2. \A o \in LotOrder : confirming[o].next = 1 /\ confirming[o].locked = {}
  BY IdleRow DEF D!Init
<1>3. ASSUME NEW o \in LotOrder
      PROVE  /\ confirming[o].next \in 1..(Len(Items[o]) + 1)
             /\ \A l \in Lot : DeductsOK(o, l, confirming[o].next)
  BY <1>2, ItemsTyped, TakenAdds DEF DeductsOK
<1> QED BY <1>1, <1>2, <1>3 DEF LotsInv

\* One confirmation moves, and no lot does.
LEMMA ConfirmationStep ==
    ASSUME LotsInv, NEW o \in LotOrder, NEW task \in D!ConfirmationRow,
           confirming' = [confirming EXCEPT ![o] = task], UNCHANGED <<lot, owed>>,
           task.next \in 1..(Len(Items[o]) + 1),
           \A o2 \in LotOrder \ {o} : task.locked \cap confirming[o2].locked = {},
           \A l \in Lot : IF l \in task.locked THEN task.read[l] = D!Left(lot[l], TakenBy(o, l, task.next - 1))
                          ELSE TakenBy(o, l, task.next - 1) = 0 \/ lot[l] = 0
    PROVE  LotsInv'
<1>1. /\ confirming \in [LotOrder -> D!ConfirmationRow] /\ lot \in [Lot -> 0..MaxLot] /\ lot = owed
  BY DEF LotsInv, D!TypeOK, D!LotMatchesSales
<1>2. /\ confirming' \in [LotOrder -> D!ConfirmationRow] /\ confirming'[o] = task
      /\ \A o2 \in LotOrder : o2 # o => confirming'[o2] = confirming[o2]
  BY <1>1
<1>3. (D!TypeOK)' /\ (D!LotMatchesSales)'
  BY <1>1, <1>2 DEF D!TypeOK, D!LotMatchesSales
<1>4. \A o1, o2 \in LotOrder : o1 # o2 => confirming'[o1].locked \cap confirming'[o2].locked = {}
  BY <1>2 DEF LotsInv
<1>5. ASSUME NEW o2 \in LotOrder
      PROVE  /\ confirming'[o2].next \in 1..(Len(Items[o2]) + 1)
             /\ \A l \in Lot : DeductsOK(o2, l, confirming[o2].next)'
  <2>1. CASE o2 = o
    BY <1>2, <2>1, TakenIsRigid DEF DeductsOK
  <2>2. CASE o2 # o
    BY <1>2, <2>2, TakenIsRigid DEF LotsInv, DeductsOK
  <2> QED BY <2>1, <2>2
<1> QED BY <1>3, <1>4, <1>5 DEF LotsInv

LEMMA LotsStep == ASSUME LotsInv, D!Next PROVE LotsInv'
<1>1. /\ confirming \in [LotOrder -> D!ConfirmationRow] /\ lot \in [Lot -> 0..MaxLot] /\ lot = owed
      /\ \A o \in LotOrder : /\ confirming[o].next \in 1..(Len(Items[o]) + 1) /\ confirming[o].locked \subseteq Lot
                             /\ \A l \in Lot : DeductsOK(o, l, confirming[o].next)
  BY DEF LotsInv, D!TypeOK, D!LotMatchesSales, D!ConfirmationRow
<1>2. MaxLot \in Nat
  BY LotsAssumption
<1>3. ASSUME NEW l \in Lot, NEW n \in 0..MaxLot, D!Enter(l, n) PROVE LotsInv'
  <2>1. /\ lot' \in [Lot -> 0..MaxLot] /\ lot' = owed' /\ confirming' = confirming
        /\ \A m \in Lot : m # l => lot'[m] = lot[m]
    BY <1>1, <1>3 DEF D!Enter
  <2>2. lot[l] # 0 /\ \A o \in LotOrder : l \notin confirming[o].locked
    BY <1>3 DEF D!Enter, D!Unlocked
  <2>3. \A o \in LotOrder, m \in Lot : DeductsOK(o, m, confirming[o].next)'
    BY <1>1, <2>1, <2>2, TakenIsRigid DEF DeductsOK
  <2> QED BY <2>1, <2>3 DEF LotsInv, D!TypeOK, D!LotMatchesSales
<1>4. ASSUME NEW o \in LotOrder, D!Begin(o) PROVE LotsInv'
  <2> DEFINE task == [confirming[o] EXCEPT !.stage = "running"]
  <2>1. confirming' = [confirming EXCEPT ![o] = task] /\ UNCHANGED <<lot, owed>>
    BY <1>4 DEF D!Begin
  <2>2. /\ task \in D!ConfirmationRow /\ task.next = confirming[o].next
        /\ task.locked = confirming[o].locked /\ task.read = confirming[o].read
    BY <1>1 DEF D!ConfirmationRow
  <2>3. \A l \in Lot : IF l \in task.locked THEN task.read[l] = D!Left(lot[l], TakenBy(o, l, task.next - 1))
                       ELSE TakenBy(o, l, task.next - 1) = 0 \/ lot[l] = 0
    BY <1>1, <2>2 DEF DeductsOK
  <2>4. \A o2 \in LotOrder \ {o} : task.locked \cap confirming[o2].locked = {}
    BY <2>2 DEF LotsInv
  <2> HIDE DEF task
  <2> QED BY <1>1, <2>1, <2>2, <2>3, <2>4, ConfirmationStep
<1>5. ASSUME NEW o \in LotOrder, D!LockAndDeduct(o) PROVE LotsInv'
  <2> DEFINE c == confirming[o]
             l == Items[o][c.next].lot
             sold == Items[o][c.next].quantity
             have == IF l \in c.locked THEN c.read[l] ELSE lot[l]
             left == D!Left(have, sold)
             held == IF have = 0 THEN c.locked ELSE c.locked \cup {l}
             task == [[[c EXCEPT !.next = c.next + 1] EXCEPT !.locked = held]
                         EXCEPT !.read = [c.read EXCEPT ![l] = left]]
  <2>1. c.next \in 1..Len(Items[o]) /\ UNCHANGED <<lot, owed>>
    <3>1. c.next <= Len(Items[o]) /\ UNCHANGED <<lot, owed>>
      BY <1>5 DEF D!LockAndDeduct
    <3>2. c.next \in 1..(Len(Items[o]) + 1)
      BY <1>1
    <3> HIDE DEF c
    <3> QED BY <3>1, <3>2, ItemsTyped
  <2>2. l \in Lot /\ sold \in Nat
    BY <2>1, ItemsTyped
  <2>3. c \in D!ConfirmationRow
    BY <1>1
  <2>4. have \in 0..MaxLot /\ left \in 0..MaxLot
    <3>1. have \in 0..MaxLot
      BY <1>1, <2>2, <2>3 DEF D!ConfirmationRow
    <3> HIDE DEF have, sold
    <3> QED BY <1>2, <2>2, <3>1 DEF D!Left
  <2>5. confirming' = [confirming EXCEPT ![o] = task]
    BY <1>1, <1>5, <2>3 DEF D!LockAndDeduct, D!ConfirmationRow
  <2>6. \A o2 \in LotOrder \ {o} : l \notin confirming[o2].locked
    BY <1>5 DEF D!LockAndDeduct, D!CanLock
  <2>7. /\ task \in D!ConfirmationRow /\ task.next = c.next + 1 /\ task.locked = held
        /\ task.read[l] = left /\ \A m \in Lot : m # l => task.read[m] = c.read[m]
    <3> DEFINE first == [c EXCEPT !.next = c.next + 1]
               second == [first EXCEPT !.locked = held]
    <3>1. c.next + 1 \in Nat /\ held \in SUBSET Lot /\ c.read \in [Lot -> 0..MaxLot]
      BY <2>1, <2>2, <2>3, ItemsTyped DEF D!ConfirmationRow
    <3> HIDE DEF c, l, left, held
    <3>2. first \in D!ConfirmationRow /\ first.next = c.next + 1
      BY <2>3, <3>1 DEF D!ConfirmationRow
    <3> HIDE DEF first
    <3>3. second \in D!ConfirmationRow /\ second.next = c.next + 1 /\ second.locked = held
      BY <3>1, <3>2 DEF D!ConfirmationRow
    <3>4. task = [second EXCEPT !.read = [c.read EXCEPT ![l] = left]]
      BY DEF first
    <3> HIDE DEF second, task
    <3>5. /\ task \in D!ConfirmationRow /\ task.next = c.next + 1 /\ task.locked = held
          /\ task.read = [c.read EXCEPT ![l] = left]
      BY <2>4, <3>1, <3>3, <3>4 DEF D!ConfirmationRow
    <3> QED BY <2>2, <3>1, <3>5
  <2>8. \A o2 \in LotOrder \ {o} : held \cap confirming[o2].locked = {}
    BY <2>6 DEF LotsInv
  <2>9. ASSUME NEW m \in Lot
        PROVE  IF m \in held THEN task.read[m] = D!Left(lot[m], TakenBy(o, m, c.next))
               ELSE TakenBy(o, m, c.next) = 0 \/ lot[m] = 0
    <3>1. TakenBy(o, m, c.next) = TakenBy(o, m, c.next - 1) + IF l = m THEN sold ELSE 0
      BY <2>1, TakenAdds
    <3>2. TakenBy(o, m, c.next - 1) \in Int
      BY <2>1, TakenAdds
    <3>3. IF m \in c.locked THEN c.read[m] = D!Left(lot[m], TakenBy(o, m, c.next - 1))
          ELSE TakenBy(o, m, c.next - 1) = 0 \/ lot[m] = 0
      BY <1>1 DEF DeductsOK
    <3>4. lot[m] \in Nat
      BY <1>1
    <3> DEFINE before == TakenBy(o, m, c.next - 1)
               after == TakenBy(o, m, c.next)
    <3>5. CASE m # l
      <4>1. after = before
        BY <3>1, <3>2, <3>5
      <4>2. m \in held <=> m \in c.locked
        BY <3>5
      <4>3. task.read[m] = c.read[m]
        BY <2>7, <3>5
      <4> QED BY <3>3, <4>1, <4>2, <4>3
    <3>6. CASE m = l
      <4>1. after = before + sold /\ task.read[m] = left
        BY <2>7, <3>1, <3>6
      <4>2. CASE m \in c.locked
        <5>1. have = D!Left(lot[m], before)
          BY <3>3, <3>6, <4>2
        <5>2. left = D!Left(lot[m], after)
          <6> HIDE DEF have, sold, before, after
          <6> QED BY <2>2, <3>2, <3>4, <4>1, <5>1 DEF D!Left, before
        <5>3. m \in held
          BY <4>2
        <5> QED BY <4>1, <5>2, <5>3
      <4>3. CASE m \notin c.locked
        <5>1. have = lot[m]
          BY <3>6, <4>3
        <5>2. CASE have = 0
          <6>1. m \notin held
            BY <4>3, <5>2
          <6> QED BY <5>1, <5>2, <6>1
        <5>3. CASE have # 0
          <6>1. m \in held /\ before = 0
            BY <3>3, <3>6, <4>3, <5>1, <5>3
          <6>2. left = D!Left(lot[m], after)
            BY <2>2, <4>1, <5>1, <6>1
          <6> QED BY <4>1, <6>1, <6>2
        <5> QED BY <5>2, <5>3
      <4> QED BY <4>2, <4>3
    <3> QED BY <3>5, <3>6
  <2>10. task.next - 1 = c.next /\ task.next \in 1..(Len(Items[o]) + 1)
    <3>1. task.next = c.next + 1 /\ c.next \in 1..Len(Items[o]) /\ Len(Items[o]) \in Nat
      BY <2>1, <2>7, ItemsTyped
    <3> HIDE DEF task, c
    <3> QED BY <3>1
  <2> HIDE DEF task, held, c
  <2> QED BY <2>1, <2>5, <2>7, <2>8, <2>9, <2>10, ConfirmationStep, ZenonT(60)
<1>6. ASSUME NEW o \in LotOrder, D!Rollback(o) PROVE LotsInv'
  <2>1. confirming' = [confirming EXCEPT ![o] = D!Idle] /\ UNCHANGED <<lot, owed>>
    BY <1>6 DEF D!Rollback
  <2>2. 1 \in 1..(Len(Items[o]) + 1) /\ \A l \in Lot : TakenBy(o, l, 1 - 1) = 0
    BY ItemsTyped, TakenAdds
  <2> QED BY <2>1, <2>2, IdleRow, ConfirmationStep
<1>7. ASSUME NEW o \in LotOrder, D!Commit(o) PROVE LotsInv'
  <2> DEFINE c == confirming[o]
             done == [D!Idle EXCEPT !.stage = "done"]
  <2>1. /\ lot' = [l \in Lot |-> IF l \in c.locked THEN c.read[l] ELSE lot[l]]
        /\ owed' = [l \in Lot |-> IF l \in c.locked THEN D!Left(owed[l], D!Taken(o, l)) ELSE owed[l]]
        /\ confirming' = [confirming EXCEPT ![o] = done]
    BY <1>7 DEF D!Commit
  <2>2. c.next = Len(Items[o]) + 1
    BY <1>1, <1>7, ItemsTyped DEF D!Commit
  <2>3. \A l \in Lot : l \in c.locked => c.read[l] = D!Left(lot[l], D!Taken(o, l)) /\ c.read[l] \in 0..MaxLot
    <3>1. c.next - 1 = Len(Items[o])
      BY <2>2, ItemsTyped
    <3>2. \A l \in Lot : D!Taken(o, l) = TakenBy(o, l, c.next - 1)
      BY <3>1, TakenAdds
    <3> QED BY <1>1, <3>2 DEF DeductsOK, D!ConfirmationRow
  <2>4. lot' \in [Lot -> 0..MaxLot] /\ lot' = owed'
    BY <1>1, <2>1, <2>3
  <2>5. /\ done \in D!ConfirmationRow /\ done.next = 1 /\ done.locked = {}
    BY IdleRow DEF D!Idle
  <2>6. /\ confirming' \in [LotOrder -> D!ConfirmationRow] /\ confirming'[o] = done
        /\ \A o2 \in LotOrder : o2 # o => confirming'[o2] = confirming[o2]
    BY <1>1, <2>1, <2>5
  <2>7. \A l \in Lot : lot[l] = 0 => lot'[l] = 0
    <3> SUFFICES ASSUME NEW l \in Lot, lot[l] = 0 PROVE lot'[l] = 0
      OBVIOUS
    <3>1. CASE l \in c.locked
      <4>1. D!Taken(o, l) \in Nat /\ lot'[l] = D!Left(0, D!Taken(o, l)) /\ lot'[l] \in 0..MaxLot
        BY <2>1, <2>3, <3>1, TakenAdds, ItemsTyped
      <4> QED BY <4>1 DEF D!Left
    <3>2. CASE l \notin c.locked
      BY <2>1, <3>2
    <3> QED BY <3>1, <3>2
  <2> HIDE DEF done
  <2>8. \A o1, o2 \in LotOrder : o1 # o2 => confirming'[o1].locked \cap confirming'[o2].locked = {}
    BY <2>5, <2>6 DEF LotsInv
  <2>9. ASSUME NEW o2 \in LotOrder
        PROVE  /\ confirming'[o2].next \in 1..(Len(Items[o2]) + 1)
               /\ \A l \in Lot : DeductsOK(o2, l, confirming[o2].next)'
    <3>1. CASE o2 = o
      <4>1. \A l \in Lot : TakenBy(o2, l, 1 - 1) = 0
        BY <3>1, TakenAdds
      <4>2. confirming'[o2].next = 1 /\ confirming'[o2].locked = {}
        BY <2>5, <2>6, <3>1
      <4> QED BY <4>1, <4>2, ItemsTyped, TakenIsRigid DEF DeductsOK
    <3>2. CASE o2 # o
      <4>1. \A l \in Lot : l \in confirming[o2].locked => lot'[l] = lot[l]
        BY <2>1, <3>2 DEF LotsInv
      <4> QED BY <1>1, <2>6, <2>7, <3>2, <4>1, TakenIsRigid DEF DeductsOK
    <3> QED BY <3>1, <3>2
  <2> QED BY <2>4, <2>6, <2>8, <2>9 DEF LotsInv, D!TypeOK, D!LotMatchesSales
<1> QED BY <1>3, <1>4, <1>5, <1>6, <1>7 DEF D!Next

----------------------------------------------------------------------------
(* Carts: the person has one guest cart and one of the account at most.    *)
(* What was put in covers what was bought and what is in both carts; what  *)
(* a checkout in flight will buy and the guest's cart; and what a merge in *)
(* flight will make of the two, as long as its guest's cart is there.      *)

\* What was bought, as far as it counts.
Spent(l) == IF overlapped THEN 0 ELSE bought[l]

Covers(l, quantity) == Spent(l) + quantity <= asked[l]

OwnersOK ==
    /\ \A c, d \in Cart : cart[c].owner # "none" /\ cart[c].owner = cart[d].owner => c = d
    /\ \A c \in Cart, l \in CartListing :
          cart[c].owner = "none" \/ (cart[c].owner = "user" /\ l \in Own) => cart[c].items[l] = 0

InCartsOK(l) ==
    /\ Covers(l, 0)
    /\ \A c \in Cart : Covers(l, cart[c].items[l])
    /\ \A c, d \in Cart : c # d => Covers(l, cart[c].items[l] + cart[d].items[l])

CheckoutOK(k) ==
    browsing[k].op = "checkout" =>
       /\ browsing[k].user \in Cart /\ cart[browsing[k].user].owner = "user"
       /\ \A l \in CartListing :
             /\ Covers(l, browsing[k].items[l])
             /\ \A c \in Cart : cart[c].owner = "guest" => Covers(l, browsing[k].items[l] + cart[c].items[l])

\* What merge k will put in the account's cart is covered, now and when checkout k2 has
\* bought; of an item row that it read there and that is gone, it will put nothing.
MergeCovered(k, l) ==
    IF browsing[k].mine[l] > 0
    THEN l \notin browsing[k].lost =>
            /\ cart[browsing[k].user].items[l] > 0
            /\ Covers(l, browsing[k].mine[l] + browsing[k].items[l])
    ELSE /\ Covers(l, cart[browsing[k].user].items[l] + browsing[k].items[l])
         /\ \A k2 \in Call : browsing[k2].op = "checkout" =>
               Covers(l, browsing[k2].items[l] + browsing[k].items[l])

MergeOK(k) ==
    browsing[k].op = "merge" =>
       /\ browsing[k].guest \in Cart
       /\ browsing[k].user # Nothing =>
             /\ browsing[k].user \in Cart /\ cart[browsing[k].user].owner = "user"
             /\ cart[browsing[k].guest].owner # "user"
             /\ cart[browsing[k].guest].owner = "guest" => \A l \in CartListing : MergeCovered(k, l)

CartsInv ==
    /\ C!TypeOK /\ bought \in [CartListing -> Nat]
    /\ OwnersOK
    /\ \A l \in CartListing : InCartsOK(l)
    /\ \A k \in Call : CheckoutOK(k) /\ MergeOK(k)

LEMMA CartTypes ==
    ASSUME CartsInv
    PROVE  /\ cart \in [Cart -> C!CartRow] /\ stock \in [CartListing -> 0..MaxQuantity]
           /\ browsing \in [Call -> C!BrowsingRow] /\ inquiry \in [Inquiry -> C!InquiryRow]
           /\ asked \in [CartListing -> 0..MaxAsked] /\ overlapped \in BOOLEAN
           /\ \A c \in Cart, l \in CartListing : cart[c].items[l] \in 0..MaxAsked
           /\ \A k \in Call, l \in CartListing :
                 browsing[k].items[l] \in 0..MaxAsked /\ browsing[k].mine[l] \in 0..MaxAsked
           /\ \A l \in CartListing : asked[l] \in Nat /\ bought[l] \in Nat /\ Spent(l) \in Nat
           /\ MaxAsked \in Nat /\ MaxQuantity \in Nat
<1>1. C!TypeOK /\ bought \in [CartListing -> Nat]
  BY DEF CartsInv
<1>2. MaxAsked \in Nat /\ MaxQuantity \in Nat
  BY CartsAssumption, TradeAssumption
<1>3. /\ cart \in [Cart -> C!CartRow] /\ stock \in [CartListing -> 0..MaxQuantity]
      /\ browsing \in [Call -> C!BrowsingRow] /\ inquiry \in [Inquiry -> C!InquiryRow]
      /\ asked \in [CartListing -> 0..MaxAsked] /\ overlapped \in BOOLEAN
  BY <1>1 DEF C!TypeOK, C!Quantities
<1>4. \A c \in Cart, l \in CartListing : cart[c].items[l] \in 0..MaxAsked
  BY <1>3 DEF C!CartRow, C!Quantities
<1>5. \A k \in Call, l \in CartListing :
         browsing[k].items[l] \in 0..MaxAsked /\ browsing[k].mine[l] \in 0..MaxAsked
  BY <1>3 DEF C!BrowsingRow, C!Quantities
<1>6. \A l \in CartListing : asked[l] \in Nat /\ bought[l] \in Nat /\ Spent(l) \in Nat
  BY <1>1, <1>2, <1>3 DEF Spent
<1> QED BY <1>2, <1>3, <1>4, <1>5, <1>6

LEMMA NoBrowsingRow ==
    /\ C!NoBrowsing \in C!BrowsingRow /\ C!NoBrowsing.op = "none"
    /\ [C!NoBrowsing EXCEPT !.op = "claim"] \in C!BrowsingRow
    /\ [C!NoBrowsing EXCEPT !.op = "claim"].op = "claim"
    /\ C!None \in C!Quantities /\ \A l \in CartListing : C!None[l] = 0
<1>1. C!None \in C!Quantities /\ C!None \in [CartListing -> 0..MaxQuantity] /\ \A l \in CartListing : C!None[l] = 0
  BY CartsAssumption, TradeAssumption DEF C!None, C!Quantities
<1> QED BY <1>1 DEF C!NoBrowsing, C!BrowsingRow

LEMMA CartsStart == ASSUME C!Init PROVE CartsInv
<1>1. C!TypeOK
  <2>1. cart \in [Cart -> C!CartRow]
    BY NoBrowsingRow DEF C!Init, C!CartRow
  <2>2. stock \in [CartListing -> 0..MaxQuantity]
    BY TradeAssumption DEF C!Init
  <2>3. browsing \in [Call -> C!BrowsingRow]
    BY NoBrowsingRow DEF C!Init
  <2>4. inquiry \in [Inquiry -> C!InquiryRow]
    BY DEF C!Init, C!InquiryRow
  <2>5. asked \in C!Quantities /\ overlapped \in BOOLEAN
    BY NoBrowsingRow DEF C!Init
  <2> QED BY <2>1, <2>2, <2>3, <2>4, <2>5 DEF C!TypeOK
<1>2. /\ \A c \in Cart : cart[c].owner = "none" /\ cart[c].items = C!None
      /\ \A k \in Call : browsing[k].op = "none"
      /\ bought = C!None /\ asked = C!None
  BY NoBrowsingRow DEF C!Init
<1>3. \A l \in CartListing : InCartsOK(l)
  BY <1>2, NoBrowsingRow DEF InCartsOK, Covers, Spent
<1>4. bought \in [CartListing -> Nat]
  BY <1>2 DEF C!None
<1> QED BY <1>1, <1>2, <1>3, <1>4, NoBrowsingRow DEF CartsInv, OwnersOK, CheckoutOK, MergeOK

\* Calls end, and nothing else that the invariant looks at moves.
CallsEnd ==
    /\ UNCHANGED <<cart, asked, bought, overlapped>> /\ (C!TypeOK)'
    /\ \A k \in Call : browsing'[k] = browsing[k] \/ browsing'[k].op \notin {"merge", "checkout"}

LEMMA EndStep == ASSUME CartsInv, CallsEnd PROVE CartsInv'
<1>1. UNCHANGED <<cart, asked, bought, overlapped>> /\ (C!TypeOK)'
  BY DEF CallsEnd
<1>2. ASSUME NEW k \in Call
      PROVE  browsing'[k] = browsing[k] \/ browsing'[k].op \notin {"merge", "checkout"}
  BY DEF CallsEnd
<1>3. OwnersOK'
  BY <1>1 DEF CartsInv, OwnersOK
<1>4. \A l \in CartListing : InCartsOK(l)'
  BY <1>1 DEF CartsInv, InCartsOK, Covers, Spent
<1>5. ASSUME NEW k \in Call PROVE CheckoutOK(k)'
  BY <1>1, <1>2 DEF CartsInv, CheckoutOK, Covers, Spent
<1>6. ASSUME NEW k \in Call PROVE MergeOK(k)'
  <2>1. CASE browsing'[k].op # "merge"
    BY <2>1 DEF MergeOK
  <2>2. CASE browsing'[k] = browsing[k]
    <3>1. MergeOK(k)
      BY DEF CartsInv
    <3>2. ASSUME NEW l \in CartListing, MergeCovered(k, l) PROVE MergeCovered(k, l)'
      BY <1>1, <1>2, <2>2, <3>2 DEF MergeCovered, Covers, Spent
    <3> QED BY <1>1, <2>2, <3>1, <3>2 DEF MergeOK
  <2> QED BY <1>2, <2>1, <2>2
<1> QED BY <1>1, <1>3, <1>4, <1>5, <1>6 DEF CartsInv

LEMMA CartsQuietStep ==
    ASSUME CartsInv,
           \/ \E l \in CartListing, n \in 0..MaxQuantity : C!ChangeStock(l, n)
           \/ \E k \in Call : C!Claim(k) \/ C!Stop(k)
           \/ \E i \in Inquiry : C!Expire(i) \/ \E c \in Cart : C!Inquire(i, c)
    PROVE  CartsInv'
<1>1. /\ cart \in [Cart -> C!CartRow] /\ stock \in [CartListing -> 0..MaxQuantity]
      /\ browsing \in [Call -> C!BrowsingRow] /\ inquiry \in [Inquiry -> C!InquiryRow]
      /\ asked \in [CartListing -> 0..MaxAsked] /\ overlapped \in BOOLEAN
  BY CartTypes
<1>2. ASSUME NEW l \in CartListing, NEW n \in 0..MaxQuantity, C!ChangeStock(l, n) PROVE CallsEnd
  BY <1>1, <1>2 DEF C!ChangeStock, CallsEnd, C!TypeOK, C!Quantities
<1>3. ASSUME NEW k \in Call, C!Claim(k) \/ C!Stop(k) PROVE CallsEnd
  <2>1. browsing' = [browsing EXCEPT ![k] = C!NoBrowsing] /\ UNCHANGED <<cart, stock, asked, bought, overlapped>>
    BY <1>3 DEF C!Claim, C!Stop
  <2>2. inquiry' \in [Inquiry -> C!InquiryRow]
    BY <1>1, <1>3, ZenonT(60) DEF C!Claim, C!Stop, C!InquiryRow
  <2>3. \A j \in Call : browsing'[j] = browsing[j] \/ browsing'[j].op = "none"
    BY <1>1, <2>1, NoBrowsingRow
  <2> QED BY <1>1, <2>1, <2>2, <2>3, NoBrowsingRow DEF CallsEnd, C!TypeOK, C!Quantities
<1>4. ASSUME NEW i \in Inquiry, C!Expire(i) \/ \E c \in Cart : C!Inquire(i, c) PROVE CallsEnd
  <2>1. UNCHANGED <<cart, stock, browsing, asked, bought, overlapped>>
    BY <1>4 DEF C!Expire, C!Inquire
  <2>2. inquiry' \in [Inquiry -> C!InquiryRow]
    <3>1. CASE C!Expire(i)
      BY <1>1, <3>1 DEF C!Expire, C!InquiryRow
    <3>2. ASSUME NEW c \in Cart, C!Inquire(i, c) PROVE inquiry' \in [Inquiry -> C!InquiryRow]
      <4> DEFINE asks == [status |-> "OPEN", guest |-> cart[c].owner = "guest",
                          buyer |-> cart[c].owner = "user"]
      <4>1. (cart[c].owner = "guest") \in BOOLEAN /\ (cart[c].owner = "user") \in BOOLEAN
        OBVIOUS
      <4>2. asks \in C!InquiryRow
        BY <4>1 DEF C!InquiryRow
      <4>3. inquiry' = [inquiry EXCEPT ![i] = asks]
        BY <3>2 DEF C!Inquire
      <4> HIDE DEF asks
      <4> QED BY <1>1, <4>2, <4>3
    <3> QED BY <1>4, <3>1, <3>2
  <2> QED BY <1>1, <2>1, <2>2 DEF CallsEnd, C!TypeOK, C!Quantities
<1> QED BY <1>2, <1>3, <1>4, EndStep

\* Item rows of the account's cart are deleted under the merges that read them.
Loses(now, gone) ==
    /\ now \in [Call -> C!BrowsingRow]
    /\ \A k \in Call :
          /\ now[k].op = browsing[k].op /\ now[k].user = browsing[k].user /\ now[k].guest = browsing[k].guest
          /\ now[k].items = browsing[k].items /\ now[k].mine = browsing[k].mine
          /\ browsing[k].lost \subseteq now[k].lost
          /\ browsing[k].op = "merge" => now[k].lost = browsing[k].lost \cup gone

LEMMA LoseRow == ASSUME CartsInv, NEW gone \in SUBSET CartListing PROVE Loses(C!Lose(gone), gone)
<1>1. browsing \in [Call -> C!BrowsingRow]
  BY CartTypes
<1>2. ASSUME NEW k \in Call
      PROVE  LET row2 == [browsing[k] EXCEPT !.lost = browsing[k].lost \cup gone]
             IN  /\ row2 \in C!BrowsingRow /\ row2.lost = browsing[k].lost \cup gone
                 /\ row2.op = browsing[k].op /\ row2.user = browsing[k].user /\ row2.guest = browsing[k].guest
                 /\ row2.items = browsing[k].items /\ row2.mine = browsing[k].mine
  BY <1>1 DEF C!BrowsingRow
<1> QED BY <1>1, <1>2 DEF C!Lose, Loses

\* The person's part: carts are made, filled and emptied by hand.
LEMMA CartsByHand ==
    ASSUME CartsInv, NEW c \in Cart,
           \/ \E owner \in {"guest", "user"} : C!EnsureCart(c, owner)
           \/ \E l \in CartListing : C!RemoveItem(c, l) \/ \E n \in 1..MaxQuantity : C!PutItem(c, l, n)
    PROVE  CartsInv'
<1>1. /\ cart \in [Cart -> C!CartRow] /\ stock \in [CartListing -> 0..MaxQuantity]
      /\ browsing \in [Call -> C!BrowsingRow] /\ inquiry \in [Inquiry -> C!InquiryRow]
      /\ asked \in [CartListing -> 0..MaxAsked] /\ overlapped \in BOOLEAN
  BY CartTypes
<1>2. OwnersOK
  BY DEF CartsInv
<1>3. ASSUME NEW owner \in {"guest", "user"}, C!EnsureCart(c, owner) PROVE CartsInv'
  <2> DEFINE fresh == [owner |-> owner, items |-> C!None]
  <2>1. /\ cart[c].owner = "none" /\ \A d \in Cart : cart[d].owner # owner
        /\ \A k \in Call : browsing[k].guest # c
        /\ cart' = [cart EXCEPT ![c] = fresh] /\ UNCHANGED <<stock, browsing, inquiry, asked, bought, overlapped>>
    BY <1>3 DEF C!EnsureCart, C!CartOf
  <2>2. fresh \in C!CartRow /\ fresh.owner = owner /\ \A l \in CartListing : fresh.items[l] = 0
    BY NoBrowsingRow DEF C!CartRow
  <2> HIDE DEF fresh
  <2>3. /\ cart' \in [Cart -> C!CartRow] /\ cart'[c] = fresh
        /\ \A d \in Cart : d # c => cart'[d] = cart[d]
        /\ \A d \in Cart, l \in CartListing : cart'[d].items[l] = cart[d].items[l]
    BY <1>1, <1>2, <2>1, <2>2 DEF OwnersOK
  <2>4. (C!TypeOK)'
    BY <1>1, <2>1, <2>3 DEF C!TypeOK, C!Quantities
  <2>5. OwnersOK'
    BY <1>2, <2>1, <2>2, <2>3 DEF OwnersOK
  <2>6. \A l \in CartListing : InCartsOK(l)'
    BY <2>1, <2>3 DEF CartsInv, InCartsOK, Covers, Spent
  <2>7. ASSUME NEW k \in Call PROVE CheckoutOK(k)'
    <3>1. CheckoutOK(k)
      BY DEF CartsInv
    <3>2. \A l \in CartListing : browsing[k].items[l] \in Nat
      BY CartTypes
    <3>3. \A d \in Cart, l \in CartListing : cart[d].owner = "none" => cart[d].items[l] = 0
      BY <1>2 DEF OwnersOK
    <3> QED BY <2>1, <2>2, <2>3, <3>1, <3>2, <3>3 DEF CheckoutOK, Covers, Spent
  <2>8. ASSUME NEW k \in Call PROVE MergeOK(k)'
    <3>1. MergeOK(k)
      BY DEF CartsInv
    <3>2. ASSUME NEW l \in CartListing, browsing[k].user \in Cart, MergeCovered(k, l) PROVE MergeCovered(k, l)'
      BY <2>1, <2>3, <3>2 DEF MergeCovered, Covers, Spent
    <3> QED BY <2>1, <2>3, <3>1, <3>2 DEF MergeOK
  <2> QED BY <2>1, <2>4, <2>5, <2>6, <2>7, <2>8 DEF CartsInv
<1>4. ASSUME NEW l \in CartListing, NEW n \in 1..MaxQuantity, C!PutItem(c, l, n) PROVE CartsInv'
  <2>1. /\ cart[c].owner # "none" /\ (cart[c].owner = "user" => l \notin Own)
        /\ n \in Nat \ {0} /\ asked[l] + n <= MaxAsked /\ asked[l] \in Nat
        /\ UNCHANGED <<stock, browsing, inquiry, bought, overlapped>>
    BY <1>4, CartTypes DEF C!PutItem
  <2>2. n \in 0..MaxAsked
    BY <2>1, CartTypes
  <2>3. /\ cart' \in [Cart -> C!CartRow]
        /\ \A d \in Cart : cart'[d].owner = cart[d].owner
        /\ \A d \in Cart, m \in CartListing :
              cart'[d].items[m] = IF d = c /\ m = l THEN n ELSE cart[d].items[m]
    BY <1>1, <1>4, <2>2 DEF C!PutItem, C!CartRow, C!Quantities
  <2>4. /\ asked' \in [CartListing -> 0..MaxAsked]
        /\ \A m \in CartListing : asked'[m] = IF m = l THEN asked[l] + n ELSE asked[m]
    BY <1>1, <1>4, <2>1, CartTypes DEF C!PutItem
  <2>5. (C!TypeOK)'
    BY <1>1, <2>1, <2>3, <2>4 DEF C!TypeOK, C!Quantities
  <2>6. OwnersOK'
    BY <1>2, <2>1, <2>3 DEF OwnersOK
  \* A quantity that was covered is so with n more, if it is of the listing.
  <2>7. ASSUME NEW m \in CartListing, NEW q \in Nat, Covers(m, q)
        PROVE  /\ Spent(m)' + q <= asked'[m]
               /\ m = l => \A r \in Nat : r <= q + n => Spent(m)' + r <= asked'[m]
    BY <2>1, <2>4, <2>7, CartTypes DEF Covers, Spent
  <2>8. ASSUME NEW m \in CartListing PROVE InCartsOK(m)'
    <3>1. InCartsOK(m)
      BY DEF CartsInv
    <3>2. \A d \in Cart : cart[d].items[m] \in Nat
      BY CartTypes
    <3>3. Covers(m, 0)'
      BY <2>7, <3>1 DEF InCartsOK, Covers
    <3>4. ASSUME NEW d \in Cart PROVE Covers(m, cart[d].items[m])'
      <4>1. CASE d = c /\ m = l
        <5>1. cart'[d].items[m] = n /\ n \in Nat /\ n <= 0 + n
          BY <2>1, <2>3, <4>1
        <5> QED BY <2>7, <3>1, <4>1, <5>1 DEF InCartsOK, Covers
      <4>2. CASE ~(d = c /\ m = l)
        BY <2>3, <2>7, <3>1, <3>2, <4>2 DEF InCartsOK, Covers
      <4> QED BY <4>1, <4>2
    <3>5. ASSUME NEW d \in Cart, NEW e \in Cart, d # e PROVE Covers(m, cart[d].items[m] + cart[e].items[m])'
      <4>1. CASE m = l /\ d = c
        <5>1. cart'[d].items[m] = n /\ cart'[e].items[m] = cart[e].items[m]
          BY <2>3, <3>5, <4>1
        <5>2. cart[e].items[m] + n \in Nat /\ cart'[d].items[m] + cart'[e].items[m] = cart[e].items[m] + n
          BY <2>1, <3>2, <5>1
        <5>3. Covers(m, cart[e].items[m])
          BY <3>1 DEF InCartsOK
        <5> QED BY <2>7, <3>2, <4>1, <5>2, <5>3 DEF Covers
      <4>2. CASE m = l /\ e = c
        <5>1. cart'[e].items[m] = n /\ cart'[d].items[m] = cart[d].items[m]
          BY <2>3, <3>5, <4>2
        <5>2. cart[d].items[m] + n \in Nat /\ cart'[d].items[m] + cart'[e].items[m] = cart[d].items[m] + n
          BY <2>1, <3>2, <5>1
        <5>3. Covers(m, cart[d].items[m])
          BY <3>1 DEF InCartsOK
        <5> QED BY <2>7, <3>2, <4>2, <5>2, <5>3 DEF Covers
      <4>3. CASE m # l \/ (d # c /\ e # c)
        <5>1. cart'[e].items[m] = cart[e].items[m] /\ cart'[d].items[m] = cart[d].items[m]
          BY <2>3, <4>3
        <5>2. Covers(m, cart[d].items[m] + cart[e].items[m]) /\ cart[d].items[m] + cart[e].items[m] \in Nat
          BY <3>1, <3>2, <3>5 DEF InCartsOK
        <5> QED BY <2>7, <5>1, <5>2 DEF Covers
      <4> QED BY <4>1, <4>2, <4>3
    <3> QED BY <3>3, <3>4, <3>5 DEF InCartsOK
  <2>9. ASSUME NEW k \in Call PROVE CheckoutOK(k)'
    <3>1. CheckoutOK(k) /\ browsing' = browsing
      BY <2>1 DEF CartsInv
    <3>2. \A m \in CartListing : browsing[k].items[m] \in Nat /\ \A d \in Cart : cart[d].items[m] \in Nat
      BY CartTypes
    <3>3. ASSUME NEW m \in CartListing, NEW d \in Cart, browsing[k].op = "checkout"
          PROVE  /\ Covers(m, browsing[k].items[m])'
                 /\ cart'[d].owner = "guest" => Covers(m, browsing[k].items[m] + cart[d].items[m])'
      <4>1. Covers(m, browsing[k].items[m])
        BY <3>1, <3>3 DEF CheckoutOK
      <4>2. cart'[d].owner = "guest" => Covers(m, browsing[k].items[m] + cart[d].items[m])
        BY <2>3, <3>1, <3>3 DEF CheckoutOK
      <4>3. CASE d = c /\ m = l
        <5>1. browsing[k].items[m] + n \in Nat /\ cart'[d].items[m] = n
          BY <2>1, <2>3, <3>2, <4>3
        <5> QED BY <2>7, <3>1, <3>2, <4>1, <4>3, <5>1 DEF Covers
      <4>4. CASE ~(d = c /\ m = l)
        <5>1. browsing[k].items[m] + cart[d].items[m] \in Nat /\ cart'[d].items[m] = cart[d].items[m]
          BY <2>3, <3>2, <4>4
        <5> QED BY <2>7, <3>1, <3>2, <4>1, <4>2, <5>1 DEF Covers
      <4> QED BY <4>3, <4>4
    <3> QED BY <2>3, <3>1, <3>3 DEF CheckoutOK
  <2>10. ASSUME NEW k \in Call PROVE MergeOK(k)'
    <3>1. MergeOK(k) /\ browsing' = browsing
      BY <2>1 DEF CartsInv
    <3>2. \A m \in CartListing : /\ browsing[k].items[m] \in Nat /\ browsing[k].mine[m] \in Nat
                                 /\ \A d \in Cart : cart[d].items[m] \in Nat
                                 /\ \A k2 \in Call : browsing[k2].items[m] \in Nat
      BY CartTypes
    <3>3. ASSUME NEW m \in CartListing, browsing[k].user \in Cart, MergeCovered(k, m) PROVE MergeCovered(k, m)'
      <4> DEFINE u == browsing[k].user
      <4>1. CASE browsing[k].mine[m] > 0
        <5>1. browsing[k].mine[m] + browsing[k].items[m] \in Nat
          BY <3>2
        <5>2. cart[u].items[m] > 0 => cart'[u].items[m] > 0
          BY <2>1, <2>3, <3>3
        <5> QED BY <2>7, <3>1, <3>3, <4>1, <5>1, <5>2 DEF MergeCovered, Covers
      <4>2. CASE ~(browsing[k].mine[m] > 0)
        <5>1. cart[u].items[m] + browsing[k].items[m] \in Nat /\ Covers(m, cart[u].items[m] + browsing[k].items[m])
          BY <3>2, <3>3, <4>2 DEF MergeCovered
        <5>2. cart'[u].items[m] + browsing[k].items[m] \in Nat
              /\ cart'[u].items[m] + browsing[k].items[m]
                   <= (cart[u].items[m] + browsing[k].items[m]) + (IF m = l THEN n ELSE 0)
          BY <2>1, <2>3, <3>2, <3>3
        <5>3. Spent(m)' + (cart'[u].items[m] + browsing[k].items[m]) <= asked'[m]
          <6>1. CASE m = l
            BY <2>7, <5>1, <5>2, <6>1
          <6>2. CASE m # l
            BY <2>3, <2>7, <3>3, <5>1, <6>2
          <6> QED BY <6>1, <6>2
        <5>4. ASSUME NEW k2 \in Call, browsing[k2].op = "checkout"
              PROVE  Spent(m)' + (browsing[k2].items[m] + browsing[k].items[m]) <= asked'[m]
          <6>1. browsing[k2].items[m] + browsing[k].items[m] \in Nat
                /\ Covers(m, browsing[k2].items[m] + browsing[k].items[m])
            BY <3>2, <3>3, <4>2, <5>4 DEF MergeCovered
          <6> QED BY <2>7, <6>1
        <5> QED BY <3>1, <4>2, <5>3, <5>4 DEF MergeCovered, Covers
      <4> QED BY <4>1, <4>2
    <3> QED BY <2>3, <3>1, <3>3 DEF MergeOK
  <2> QED BY <2>1, <2>5, <2>6, <2>8, <2>9, <2>10 DEF CartsInv
<1>5. ASSUME NEW l \in CartListing, C!RemoveItem(c, l) PROVE CartsInv'
  <2>1. /\ cart' = [cart EXCEPT ![c].items[l] = 0] /\ UNCHANGED <<stock, inquiry, asked, bought, overlapped>>
        /\ browsing' = IF cart[c].owner = "user" THEN C!Lose({l}) ELSE browsing
    BY <1>5 DEF C!RemoveItem
  <2>2. /\ cart' \in [Cart -> C!CartRow]
        /\ \A d \in Cart : cart'[d].owner = cart[d].owner
        /\ \A d \in Cart, m \in CartListing :
              cart'[d].items[m] = IF d = c /\ m = l THEN 0 ELSE cart[d].items[m]
    <3>1. 0 \in 0..MaxAsked /\ cart' = [cart EXCEPT ![c].items[l] = 0]
      BY <2>1, CartsAssumption
    <3> QED BY <1>1, <3>1 DEF C!CartRow, C!Quantities
  <2>3. Loses(browsing', IF cart[c].owner = "user" THEN {l} ELSE {})
    <3>1. CASE cart[c].owner = "user"
      BY <2>1, <3>1, LoseRow
    <3>2. CASE cart[c].owner # "user"
      BY <1>1, <2>1, <3>2 DEF Loses
    <3> QED BY <3>1, <3>2
  <2>4. \A d \in Cart, m \in CartListing :
           cart'[d].items[m] \in Nat /\ cart[d].items[m] \in Nat /\ cart'[d].items[m] <= cart[d].items[m]
    BY <2>2, CartTypes
  <2>5. (C!TypeOK)'
    BY <1>1, <2>1, <2>2, <2>3 DEF C!TypeOK, C!Quantities, Loses
  <2>6. OwnersOK'
    BY <1>2, <2>2 DEF OwnersOK
  \* What is no more than what was covered, is.
  <2>7. ASSUME NEW m \in CartListing, NEW q \in Nat, Covers(m, q), NEW r \in Nat, r <= q
        PROVE  Spent(m)' + r <= asked'[m]
    BY <2>1, <2>7, CartTypes DEF Covers, Spent
  <2>8. ASSUME NEW m \in CartListing PROVE InCartsOK(m)'
    <3>1. InCartsOK(m)
      BY DEF CartsInv
    <3>2. Covers(m, 0)'
      BY <2>7, <3>1 DEF InCartsOK, Covers
    <3>3. ASSUME NEW d \in Cart PROVE Covers(m, cart[d].items[m])'
      BY <2>4, <2>7, <3>1 DEF InCartsOK, Covers
    <3>4. ASSUME NEW d \in Cart, NEW e \in Cart, d # e PROVE Covers(m, cart[d].items[m] + cart[e].items[m])'
      <4>1. /\ cart'[d].items[m] + cart'[e].items[m] \in Nat /\ cart[d].items[m] + cart[e].items[m] \in Nat
            /\ cart'[d].items[m] + cart'[e].items[m] <= cart[d].items[m] + cart[e].items[m]
        BY <2>4
      <4>2. Covers(m, cart[d].items[m] + cart[e].items[m])
        BY <3>1, <3>4 DEF InCartsOK
      <4> QED BY <2>7, <4>1, <4>2 DEF Covers
    <3> QED BY <3>2, <3>3, <3>4 DEF InCartsOK
  <2>9. ASSUME NEW k \in Call PROVE CheckoutOK(k)'
    <3>1. CheckoutOK(k)
      BY DEF CartsInv
    <3>2. browsing'[k].op = browsing[k].op /\ browsing'[k].user = browsing[k].user
          /\ browsing'[k].items = browsing[k].items
      BY <2>3 DEF Loses
    <3>3. ASSUME NEW m \in CartListing, NEW d \in Cart, browsing[k].op = "checkout"
          PROVE  /\ Spent(m)' + browsing[k].items[m] <= asked'[m]
                 /\ cart[d].owner = "guest" => Spent(m)' + (browsing[k].items[m] + cart'[d].items[m]) <= asked'[m]
      <4>1. /\ browsing[k].items[m] \in Nat /\ browsing[k].items[m] + cart'[d].items[m] \in Nat
            /\ browsing[k].items[m] + cart[d].items[m] \in Nat
            /\ browsing[k].items[m] + cart'[d].items[m] <= browsing[k].items[m] + cart[d].items[m]
        BY <2>4, CartTypes
      <4>2. /\ Covers(m, browsing[k].items[m])
            /\ cart[d].owner = "guest" => Covers(m, browsing[k].items[m] + cart[d].items[m])
        BY <3>1, <3>3 DEF CheckoutOK
      <4> QED BY <2>7, <4>1, <4>2
    <3> QED BY <2>2, <3>1, <3>2, <3>3 DEF CheckoutOK, Covers
  <2>10. ASSUME NEW k \in Call PROVE MergeOK(k)'
    <3>1. MergeOK(k)
      BY DEF CartsInv
    <3>2. /\ browsing'[k].op = browsing[k].op /\ browsing'[k].user = browsing[k].user
          /\ browsing'[k].guest = browsing[k].guest
          /\ browsing'[k].items = browsing[k].items /\ browsing'[k].mine = browsing[k].mine
          /\ browsing[k].lost \subseteq browsing'[k].lost
          /\ \A k2 \in Call : browsing'[k2].op = browsing[k2].op /\ browsing'[k2].items = browsing[k2].items
      BY <2>3 DEF Loses
    <3>3. ASSUME NEW m \in CartListing, browsing[k].user \in Cart, cart[browsing[k].user].owner = "user",
                 browsing[k].op = "merge", MergeCovered(k, m)
          PROVE  MergeCovered(k, m)'
      <4> DEFINE u == browsing[k].user
      <4>1. CASE browsing[k].mine[m] > 0
        <5>1. browsing[k].mine[m] + browsing[k].items[m] \in Nat
          BY CartTypes
        <5>2. m \notin browsing'[k].lost => m \notin browsing[k].lost /\ ~(u = c /\ m = l)
          BY <2>3, <3>2, <3>3 DEF Loses
        <5>3. m \notin browsing'[k].lost => cart'[u].items[m] > 0
          BY <2>2, <3>3, <4>1, <5>2 DEF MergeCovered
        <5>4. m \notin browsing'[k].lost => Spent(m)' + (browsing[k].mine[m] + browsing[k].items[m]) <= asked'[m]
          BY <2>7, <3>3, <4>1, <5>1, <5>2 DEF MergeCovered
        <5> QED BY <3>2, <4>1, <5>3, <5>4 DEF MergeCovered, Covers
      <4>2. CASE ~(browsing[k].mine[m] > 0)
        <5>1. /\ cart'[u].items[m] + browsing[k].items[m] \in Nat
              /\ cart[u].items[m] + browsing[k].items[m] \in Nat
              /\ cart'[u].items[m] + browsing[k].items[m] <= cart[u].items[m] + browsing[k].items[m]
          BY <2>4, <3>3, CartTypes
        <5>2. Spent(m)' + (cart'[u].items[m] + browsing[k].items[m]) <= asked'[m]
          BY <2>7, <3>3, <4>2, <5>1 DEF MergeCovered
        <5>3. ASSUME NEW k2 \in Call, browsing[k2].op = "checkout"
              PROVE  Spent(m)' + (browsing[k2].items[m] + browsing[k].items[m]) <= asked'[m]
          <6>1. browsing[k2].items[m] + browsing[k].items[m] \in Nat
                /\ Covers(m, browsing[k2].items[m] + browsing[k].items[m])
            BY <3>3, <4>2, <5>3, CartTypes DEF MergeCovered
          <6> QED BY <2>7, <6>1
        <5> QED BY <3>2, <4>2, <5>2, <5>3 DEF MergeCovered, Covers
      <4> QED BY <4>1, <4>2
    <3> QED BY <2>2, <3>1, <3>2, <3>3 DEF MergeOK
  <2> QED BY <2>1, <2>5, <2>6, <2>8, <2>9, <2>10 DEF CartsInv
<1> QED BY <1>3, <1>4, <1>5

\* What a call reads of the carts is in them.
LEMMA CartsAreRead ==
    ASSUME CartsInv, NEW k \in Call, C!MergeRead(k) \/ C!CheckoutRead(k)
    PROVE  CartsInv'
<1>1. /\ cart \in [Cart -> C!CartRow] /\ stock \in [CartListing -> 0..MaxQuantity]
      /\ browsing \in [Call -> C!BrowsingRow] /\ inquiry \in [Inquiry -> C!InquiryRow]
      /\ asked \in [CartListing -> 0..MaxAsked] /\ overlapped \in BOOLEAN
  BY CartTypes
<1>2. /\ OwnersOK /\ \A l \in CartListing : InCartsOK(l)
      /\ \A j \in Call : CheckoutOK(j) /\ MergeOK(j)
  BY DEF CartsInv
<1>3. UNCHANGED <<cart, stock, inquiry, asked, bought, overlapped>>
  BY DEF C!MergeRead, C!CheckoutRead
<1>4. ASSUME NEW got \in C!BrowsingRow, browsing' = [browsing EXCEPT ![k] = got],
             CheckoutOK(k)', MergeOK(k)',
             \A j \in Call, l \in CartListing :
                got.op = "checkout" /\ browsing[j].op = "merge" /\ browsing[j].user # Nothing
                  /\ cart[browsing[j].guest].owner = "guest" /\ ~(browsing[j].mine[l] > 0)
                => Covers(l, got.items[l] + browsing[j].items[l])
      PROVE  CartsInv'
  <2>1. browsing'[k] = got /\ \A j \in Call : j # k => browsing'[j] = browsing[j]
    BY <1>1, <1>4
  <2>2. (C!TypeOK)'
    BY <1>1, <1>3, <1>4 DEF C!TypeOK, C!Quantities
  <2>3. OwnersOK' /\ \A l \in CartListing : InCartsOK(l)'
    BY <1>2, <1>3 DEF OwnersOK, InCartsOK, Covers, Spent
  <2>4. ASSUME NEW j \in Call PROVE CheckoutOK(j)'
    <3>1. CASE j # k
      BY <1>2, <1>3, <2>1, <3>1 DEF CheckoutOK, Covers, Spent
    <3> QED BY <1>4, <3>1
  <2>5. ASSUME NEW j \in Call PROVE MergeOK(j)'
    <3>1. CASE j # k
      <4>1. MergeOK(j) /\ browsing'[j] = browsing[j]
        BY <1>2, <2>1, <3>1
      <4>2. ASSUME NEW l \in CartListing, MergeCovered(j, l), browsing[j].op = "merge",
                   browsing[j].user # Nothing, cart[browsing[j].guest].owner = "guest"
            PROVE  MergeCovered(j, l)'
        <5>1. ASSUME NEW k2 \in Call, browsing'[k2].op = "checkout", ~(browsing[j].mine[l] > 0)
              PROVE  Covers(l, browsing'[k2].items[l] + browsing[j].items[l])
          <6>1. CASE k2 = k
            BY <1>4, <2>1, <4>2, <5>1, <6>1
          <6>2. CASE k2 # k
            BY <2>1, <4>2, <5>1, <6>2 DEF MergeCovered
          <6> QED BY <6>1, <6>2
        <5> QED BY <1>3, <4>1, <4>2, <5>1 DEF MergeCovered, Covers, Spent
      <4> QED BY <1>3, <4>1, <4>2 DEF MergeOK
    <3> QED BY <1>4, <3>1
  <2> QED BY <1>2, <1>3, <2>2, <2>3, <2>4, <2>5 DEF CartsInv
<1>5. CASE C!MergeRead(k)
  <2>1. PICK g \in Cart : /\ cart[g].owner = "guest"
                          /\ \E u \in IF C!CartOf("user") = {} THEN {Nothing} ELSE C!CartOf("user") :
                                browsing' = [browsing EXCEPT ![k] =
                                   [op |-> "merge", guest |-> g, user |-> u, items |-> cart[g].items,
                                    mine |-> IF u = Nothing THEN C!None ELSE cart[u].items,
                                    stock |-> stock, lost |-> {}]]
    BY <1>5 DEF C!MergeRead, C!CartOf
  <2>2. PICK u \in Cart \cup {Nothing} :
           /\ u # Nothing => u \in Cart /\ cart[u].owner = "user"
           /\ browsing' = [browsing EXCEPT ![k] =
                 [op |-> "merge", guest |-> g, user |-> u, items |-> cart[g].items,
                  mine |-> IF u = Nothing THEN C!None ELSE cart[u].items,
                  stock |-> stock, lost |-> {}]]
    BY <2>1 DEF C!CartOf
  <2> DEFINE theirs == IF u = Nothing THEN C!None ELSE cart[u].items
             got == [op |-> "merge", guest |-> g, user |-> u, items |-> cart[g].items,
                     mine |-> theirs, stock |-> stock, lost |-> {}]
  <2>3. theirs \in C!Quantities /\ cart[g].items \in C!Quantities
    BY <1>1, <2>2, NoBrowsingRow DEF C!CartRow
  <2>4. got \in C!BrowsingRow
    <3> HIDE DEF theirs
    <3> QED BY <1>1, <2>3 DEF C!BrowsingRow
  <2>5. /\ got.op = "merge" /\ got.guest = g /\ got.user = u /\ got.items = cart[g].items
        /\ got.mine = theirs /\ got.lost = {}
    OBVIOUS
  <2>6. browsing' = [browsing EXCEPT ![k] = got]
    BY <2>2
  <2>7. u # Nothing => theirs = cart[u].items /\ u # g
    BY <2>1, <2>2
  <2> HIDE DEF got, theirs
  <2>8. browsing'[k] = got /\ \A j \in Call : j # k => browsing'[j] = browsing[j]
    BY <1>1, <2>6
  <2>9. ASSUME NEW l \in CartListing, u # Nothing PROVE MergeCovered(k, l)'
    <3>1. cart[u].items[l] \in Nat /\ cart[g].items[l] \in Nat
      BY <2>2, <2>9, CartTypes
    <3>2. Covers(l, cart[u].items[l] + cart[g].items[l])'
      BY <1>2, <1>3, <2>2, <2>7, <2>9 DEF InCartsOK, Covers, Spent
    <3>3. ASSUME NEW k2 \in Call, browsing'[k2].op = "checkout"
          PROVE  Covers(l, browsing[k2].items[l] + cart[g].items[l])' /\ browsing'[k2] = browsing[k2]
      <4>1. browsing'[k2] = browsing[k2]
        BY <2>5, <2>8, <3>3
      <4> QED BY <1>2, <1>3, <2>1, <3>3, <4>1 DEF CheckoutOK, Covers, Spent
    <3>4. browsing'[k].mine[l] = cart'[u].items[l] /\ browsing'[k].items[l] = cart[g].items[l]
          /\ browsing'[k].user = u
      BY <1>3, <2>5, <2>7, <2>8, <2>9
    <3>5. cart'[u].items[l] > 0 \/ ~(cart'[u].items[l] > 0)
      OBVIOUS
    <3> QED BY <1>3, <3>1, <3>2, <3>3, <3>4, <3>5 DEF MergeCovered, Covers
  <2>10. CheckoutOK(k)' /\ MergeOK(k)'
    BY <1>3, <2>1, <2>2, <2>5, <2>8, <2>9 DEF CheckoutOK, MergeOK
  <2> QED BY <1>4, <2>4, <2>5, <2>6, <2>10
<1>6. CASE C!CheckoutRead(k)
  <2>1. PICK u \in Cart :
           /\ cart[u].owner = "user"
           /\ browsing' = [browsing EXCEPT ![k] = [C!NoBrowsing EXCEPT !.op = "checkout", !.user = u,
                                                                       !.items = cart[u].items]]
    BY <1>6 DEF C!CheckoutRead, C!CartOf
  <2> DEFINE got == [C!NoBrowsing EXCEPT !.op = "checkout", !.user = u, !.items = cart[u].items]
  <2>2. cart[u].items \in C!Quantities
    BY <1>1 DEF C!CartRow
  <2>3. got \in C!BrowsingRow /\ got.op = "checkout" /\ got.user = u /\ got.items = cart[u].items
    BY <2>2, NoBrowsingRow DEF C!NoBrowsing, C!BrowsingRow
  <2> HIDE DEF got
  <2>4. browsing' = [browsing EXCEPT ![k] = got]
    BY <2>1 DEF got
  <2>5. browsing'[k] = got
    BY <1>1, <2>4
  <2>6. ASSUME NEW l \in CartListing
        PROVE  /\ Covers(l, cart[u].items[l])
               /\ \A c \in Cart : cart[c].owner = "guest" => Covers(l, cart[u].items[l] + cart[c].items[l])
    BY <1>2, <2>1 DEF InCartsOK
  <2>7. CheckoutOK(k)' /\ MergeOK(k)'
    BY <1>3, <2>1, <2>3, <2>5, <2>6 DEF CheckoutOK, MergeOK, Covers, Spent
  <2>8. ASSUME NEW j \in Call, NEW l \in CartListing, browsing[j].op = "merge", browsing[j].user # Nothing,
               cart[browsing[j].guest].owner = "guest", ~(browsing[j].mine[l] > 0)
        PROVE  Covers(l, got.items[l] + browsing[j].items[l])
    <3>1. browsing[j].user \in Cart /\ cart[browsing[j].user].owner = "user" /\ MergeCovered(j, l)
      BY <1>2, <2>8 DEF MergeOK
    <3>2. browsing[j].user = u
      BY <1>2, <2>1, <3>1 DEF OwnersOK
    <3> QED BY <2>3, <2>8, <3>1, <3>2 DEF MergeCovered
  <2> QED BY <1>4, <2>3, <2>4, <2>7, <2>8
<1> QED BY <1>5, <1>6

\* The guest's cart becomes the account's, which has none: no merge and no
\* checkout is in flight with it, or it had become so before.
LEMMA CartIsAdopted == ASSUME CartsInv, NEW k \in Call, C!Adopt(k) PROVE CartsInv'
<1> DEFINE g == browsing[k].guest
           left == [l \in CartListing |-> IF l \in Own THEN 0 ELSE cart[g].items[l]]
           claims == [C!NoBrowsing EXCEPT !.op = "claim"]
<1>1. /\ cart \in [Cart -> C!CartRow] /\ stock \in [CartListing -> 0..MaxQuantity]
      /\ browsing \in [Call -> C!BrowsingRow] /\ inquiry \in [Inquiry -> C!InquiryRow]
      /\ asked \in [CartListing -> 0..MaxAsked] /\ overlapped \in BOOLEAN
  BY CartTypes
<1>2. /\ OwnersOK /\ \A l \in CartListing : InCartsOK(l)
      /\ \A j \in Call : CheckoutOK(j) /\ MergeOK(j)
  BY DEF CartsInv
<1>3. /\ cart' = [cart EXCEPT ![g] = [owner |-> "user", items |-> left]]
      /\ browsing' = [browsing EXCEPT ![k] = claims]
      /\ browsing[k].op = "merge" /\ cart[g].owner # "none" /\ \A d \in Cart : cart[d].owner = "user" => d = g
      /\ UNCHANGED <<stock, inquiry, asked, bought, overlapped>>
  BY DEF C!Adopt, C!CartOf
<1>4. g \in Cart
  BY <1>2, <1>3 DEF MergeOK
<1>5. /\ left \in C!Quantities /\ \A l \in CartListing : left[l] = IF l \in Own THEN 0 ELSE cart[g].items[l]
      /\ claims \in C!BrowsingRow /\ claims.op = "claim"
  BY <1>4, CartTypes, CartsAssumption, NoBrowsingRow DEF C!Quantities
<1> HIDE DEF left, claims
<1>6. /\ cart'[g] = [owner |-> "user", items |-> left] /\ \A d \in Cart : d # g => cart'[d] = cart[d]
      /\ cart' \in [Cart -> C!CartRow] /\ browsing' \in [Call -> C!BrowsingRow]
      /\ browsing'[k] = claims /\ \A j \in Call : j # k => browsing'[j] = browsing[j]
  <2>1. [owner |-> "user", items |-> left] \in C!CartRow
    BY <1>5 DEF C!CartRow
  <2> QED BY <1>1, <1>3, <1>4, <1>5, <2>1
<1>7. cart'[g].owner = "user" /\ \A d \in Cart : d # g => cart'[d].owner # "user"
  BY <1>3, <1>6
<1>8. ASSUME NEW d \in Cart, NEW l \in CartListing
      PROVE  /\ cart'[d].items[l] \in Nat /\ cart[d].items[l] \in Nat /\ cart'[d].items[l] <= cart[d].items[l]
             /\ d = g /\ l \in Own => cart'[d].items[l] = 0
             /\ cart[g].owner = "user" => cart'[d].items[l] = cart[d].items[l]
  <2>1. cart[d].items[l] \in Nat
    BY CartTypes
  <2>2. CASE d # g
    BY <1>6, <2>1, <2>2
  <2>3. CASE d = g
    <3>1. cart'[d].items[l] = IF l \in Own THEN 0 ELSE cart[d].items[l]
      BY <1>5, <1>6, <2>3
    <3>2. cart[g].owner = "user" /\ l \in Own => cart[d].items[l] = 0
      BY <1>2, <2>3 DEF OwnersOK
    <3> QED BY <2>1, <3>1, <3>2
  <2> QED BY <2>2, <2>3
<1>9. (C!TypeOK)'
  BY <1>1, <1>3, <1>6 DEF C!TypeOK, C!Quantities
<1>10. OwnersOK'
  <2>1. ASSUME NEW c \in Cart, NEW d \in Cart, cart'[c].owner # "none", cart'[c].owner = cart'[d].owner
        PROVE  c = d
    <3>1. CASE cart'[c].owner = "user"
      BY <1>7, <2>1, <3>1
    <3>2. CASE cart'[c].owner # "user"
      BY <1>2, <1>6, <1>7, <2>1, <3>2 DEF OwnersOK
    <3> QED BY <3>1, <3>2
  <2>2. ASSUME NEW c \in Cart, NEW l \in CartListing,
               cart'[c].owner = "none" \/ (cart'[c].owner = "user" /\ l \in Own)
        PROVE  cart'[c].items[l] = 0
    <3>1. CASE c = g
      BY <1>7, <1>8, <2>2, <3>1
    <3>2. CASE c # g
      BY <1>2, <1>6, <2>2, <3>2 DEF OwnersOK
    <3> QED BY <3>1, <3>2
  <2> QED BY <2>1, <2>2 DEF OwnersOK
<1>11. ASSUME NEW l \in CartListing, NEW q \in Nat, Covers(l, q), NEW r \in Nat, r <= q
       PROVE  Covers(l, r)'
  BY <1>3, <1>11, CartTypes DEF Covers, Spent
<1>12. ASSUME NEW l \in CartListing PROVE InCartsOK(l)'
  <2>1. Covers(l, 0)'
    BY <1>2, <1>11 DEF InCartsOK
  <2>2. ASSUME NEW d \in Cart PROVE Spent(l)' + cart'[d].items[l] <= asked'[l]
    <3>1. Covers(l, cart[d].items[l])
      BY <1>2 DEF InCartsOK
    <3> QED BY <1>3, <1>8, <3>1, CartTypes DEF Covers, Spent
  <2>3. ASSUME NEW d \in Cart, NEW e \in Cart, d # e
        PROVE  Spent(l)' + (cart'[d].items[l] + cart'[e].items[l]) <= asked'[l]
    <3>1. Covers(l, cart[d].items[l] + cart[e].items[l])
      BY <1>2, <2>3 DEF InCartsOK
    <3>2. /\ cart'[d].items[l] + cart'[e].items[l] \in Nat /\ cart[d].items[l] + cart[e].items[l] \in Nat
          /\ cart'[d].items[l] + cart'[e].items[l] <= cart[d].items[l] + cart[e].items[l]
      BY <1>8
    <3> QED BY <1>11, <3>1, <3>2 DEF Covers
  <2> QED BY <2>1, <2>2, <2>3 DEF InCartsOK, Covers
<1>13. ASSUME NEW j \in Call PROVE CheckoutOK(j)'
  <2>1. CASE j = k
    BY <1>5, <1>6, <2>1 DEF CheckoutOK
  <2>2. CASE j # k
    <3>1. CheckoutOK(j) /\ browsing'[j] = browsing[j]
      BY <1>2, <1>6, <2>2
    <3>2. \A c \in Cart : cart'[c].owner = "guest" => cart'[c] = cart[c]
      BY <1>6, <1>7
    <3>3. \A c \in Cart : cart[c].owner = "user" => cart'[c].owner = "user"
      BY <1>3, <1>7
    <3> QED BY <1>3, <3>1, <3>2, <3>3 DEF CheckoutOK, Covers, Spent
  <2> QED BY <2>1, <2>2
<1>14. ASSUME NEW j \in Call PROVE MergeOK(j)'
  <2>1. CASE j = k
    BY <1>5, <1>6, <2>1 DEF MergeOK
  <2>2. CASE j # k
    <3>1. MergeOK(j) /\ browsing'[j] = browsing[j]
      BY <1>2, <1>6, <2>2
    <3>2. ASSUME browsing[j].op = "merge", browsing[j].user # Nothing
          PROVE  /\ browsing[j].user = g /\ cart[g].owner = "user" /\ cart[browsing[j].guest].owner # "user"
                 /\ browsing[j].guest \in Cart /\ cart'[browsing[j].guest] = cart[browsing[j].guest]
      BY <1>3, <1>6, <3>1, <3>2 DEF MergeOK
    <3>3. ASSUME browsing[j].op = "merge", browsing[j].user # Nothing, NEW l \in CartListing, MergeCovered(j, l)
          PROVE  MergeCovered(j, l)'
      <4>1. cart'[browsing[j].user].items[l] = cart[browsing[j].user].items[l]
        BY <1>4, <1>8, <3>2, <3>3
      <4>2. \A k2 \in Call : browsing'[k2].op = "checkout" => browsing'[k2] = browsing[k2]
        BY <1>5, <1>6
      <4> QED BY <1>3, <3>1, <3>3, <4>1, <4>2 DEF MergeCovered, Covers, Spent
    <3> QED BY <1>4, <1>7, <3>1, <3>2, <3>3 DEF MergeOK
  <2> QED BY <2>1, <2>2
<1> QED BY <1>2, <1>3, <1>9, <1>10, <1>12, <1>13, <1>14 DEF CartsInv

\* A merge leaves no guest's cart, and puts in the account's what was covered.
LEMMA CartsAreMerged == ASSUME CartsInv, NEW k \in Call, C!Merge(k) PROVE CartsInv'
<1> DEFINE g == browsing[k].guest
           u == browsing[k].user
           filled == [l \in CartListing |-> IF l \in C!Merged(browsing[k]) THEN C!MergedQuantity(browsing[k], l)
                                                                           ELSE cart[u].items[l]]
           claims == [C!NoBrowsing EXCEPT !.op = "claim"]
<1>1. /\ cart \in [Cart -> C!CartRow] /\ stock \in [CartListing -> 0..MaxQuantity]
      /\ browsing \in [Call -> C!BrowsingRow] /\ inquiry \in [Inquiry -> C!InquiryRow]
      /\ asked \in [CartListing -> 0..MaxAsked] /\ overlapped \in BOOLEAN
  BY CartTypes
<1>2. /\ OwnersOK /\ \A l \in CartListing : InCartsOK(l)
      /\ \A j \in Call : CheckoutOK(j) /\ MergeOK(j)
  BY DEF CartsInv
<1>3. /\ cart' = [cart EXCEPT ![u].items = filled, ![g] = [owner |-> "none", items |-> C!None]]
      /\ browsing' = [browsing EXCEPT ![k] = claims]
      /\ browsing[k].op = "merge" /\ u # Nothing /\ C!CanMerge(browsing[k])
      /\ UNCHANGED <<stock, inquiry, asked, bought, overlapped>>
  BY DEF C!Merge
<1>4. /\ g \in Cart /\ u \in Cart /\ g # u /\ cart[u].owner = "user" /\ cart[g].owner = "guest"
      /\ \A l \in CartListing : MergeCovered(k, l)
  <2>1. g \in Cart /\ cart[g].owner # "none"
    BY <1>2, <1>3 DEF MergeOK, C!CanMerge
  <2>2. cart[g].owner \in {"none", "guest", "user"}
    BY <1>1, <2>1 DEF C!CartRow
  <2> QED BY <1>2, <1>3, <2>1, <2>2 DEF MergeOK
\* What the account's cart gets is covered.
<1>5. ASSUME NEW l \in CartListing
      PROVE  /\ filled[l] \in Nat /\ Spent(l) + filled[l] <= asked[l]
             /\ l \in Own => filled[l] = 0
  <2> DEFINE m == browsing[k].mine[l]
             n == browsing[k].items[l]
             s == browsing[k].stock[l]
  <2>1. /\ m \in Nat /\ n \in Nat /\ s \in Nat /\ cart[u].items[l] \in Nat
        /\ Spent(l) \in Nat /\ asked[l] \in Nat
    <3>1. browsing[k].stock \in [CartListing -> 0..MaxQuantity]
      BY <1>1 DEF C!BrowsingRow
    <3> QED BY <1>4, <3>1, CartTypes
  <2>2. CASE l \in C!Merged(browsing[k])
    <3>1. l \notin Own /\ (IF m > 0 THEN l \notin browsing[k].lost ELSE cart[u].items[l] = 0)
      BY <1>3, <2>2 DEF C!CanMerge, C!Merged
    <3>2. filled[l] = IF m + n <= s THEN m + n ELSE s
      BY <2>2 DEF C!MergedQuantity, C!Smaller
    <3> HIDE DEF filled
    <3>3. filled[l] \in Nat /\ filled[l] <= m + n
      BY <2>1, <3>2
    <3>4. Spent(l) + (m + n) <= asked[l]
      <4>1. CASE m > 0
        BY <1>4, <3>1, <4>1 DEF MergeCovered, Covers
      <4>2. CASE ~(m > 0)
        <5>1. Spent(l) + (cart[u].items[l] + n) <= asked[l] /\ cart[u].items[l] = 0
          BY <1>4, <3>1, <4>2 DEF MergeCovered, Covers
        <5> QED BY <2>1, <4>2, <5>1
      <4> QED BY <4>1, <4>2
    <3> HIDE DEF m, n
    <3> QED BY <2>1, <3>1, <3>3, <3>4
  <2>3. CASE l \notin C!Merged(browsing[k])
    <3>1. filled[l] = cart[u].items[l]
      BY <2>3
    <3> HIDE DEF filled
    <3> QED BY <1>2, <1>4, <2>1, <3>1 DEF InCartsOK, Covers, OwnersOK
  <2> QED BY <2>2, <2>3
<1>6. filled \in C!Quantities
  <2>1. \A l \in CartListing : filled[l] \in 0..MaxAsked
    <3> HIDE DEF filled
    <3> QED BY <1>5, CartTypes
  <2> QED BY <2>1 DEF C!Quantities
<1>7. claims \in C!BrowsingRow /\ claims.op = "claim"
  BY NoBrowsingRow
<1> HIDE DEF filled, claims, g, u
<1>8. /\ cart'[u] = [owner |-> "user", items |-> filled] /\ cart'[g] = [owner |-> "none", items |-> C!None]
      /\ \A d \in Cart : d # u /\ d # g => cart'[d] = cart[d]
      /\ cart' \in [Cart -> C!CartRow]
  <2> DEFINE gone == [owner |-> "none", items |-> C!None]
             fills == [cart[u] EXCEPT !.items = filled]
  <2>1. gone \in C!CartRow /\ fills \in C!CartRow /\ fills = [owner |-> "user", items |-> filled]
    BY <1>1, <1>4, <1>6, NoBrowsingRow DEF C!CartRow
  <2>2. cart' = [[cart EXCEPT ![u] = fills] EXCEPT ![g] = gone]
    BY <1>1, <1>3, <1>4
  <2>3. gone = [owner |-> "none", items |-> C!None]
    OBVIOUS
  <2> HIDE DEF gone, fills
  <2> QED BY <1>1, <1>4, <2>1, <2>2, <2>3
<1>9. /\ browsing' \in [Call -> C!BrowsingRow]
      /\ browsing'[k] = claims /\ \A j \in Call : j # k => browsing'[j] = browsing[j]
  BY <1>1, <1>3, <1>7
<1>10. ASSUME NEW d \in Cart
       PROVE  /\ d # u => cart'[d].owner = "none" /\ \A l \in CartListing : cart'[d].items[l] = 0
              /\ d = u => cart'[d].owner = "user" /\ cart'[d].items = filled
  <2>1. CASE d = g
    BY <1>4, <1>8, <2>1, NoBrowsingRow
  <2>2. CASE d # g /\ d # u
    <3>1. cart[d].owner \in {"none", "guest", "user"}
      BY <1>1 DEF C!CartRow
    <3>2. cart[d].owner = "none"
      BY <1>2, <1>4, <2>2, <3>1 DEF OwnersOK
    <3> QED BY <1>2, <1>8, <2>2, <3>2 DEF OwnersOK
  <2> QED BY <1>8, <2>1, <2>2
<1>11. (C!TypeOK)'
  BY <1>1, <1>3, <1>8, <1>9 DEF C!TypeOK, C!Quantities
<1>12. OwnersOK'
  BY <1>5, <1>10 DEF OwnersOK
<1>13. ASSUME NEW l \in CartListing PROVE InCartsOK(l)'
  <2>1. Spent(l)' = Spent(l) /\ asked'[l] = asked[l] /\ Spent(l) \in Nat /\ asked[l] \in Nat
    BY <1>3, CartTypes DEF Spent
  <2>2. Spent(l) + 0 <= asked[l]
    BY <1>2 DEF InCartsOK, Covers
  <2>3. ASSUME NEW d \in Cart
        PROVE  /\ cart'[d].items[l] \in Nat /\ (d # u => cart'[d].items[l] = 0)
               /\ Spent(l) + cart'[d].items[l] <= asked[l]
    BY <1>5, <1>10, <2>2
  <2>4. ASSUME NEW d \in Cart, NEW e \in Cart, d # e
        PROVE  Spent(l) + (cart'[d].items[l] + cart'[e].items[l]) <= asked[l]
    <3>1. CASE d # u
      BY <2>3, <3>1
    <3>2. CASE e # u
      BY <2>3, <3>2
    <3> QED BY <2>4, <3>1, <3>2
  <2> QED BY <2>1, <2>2, <2>3, <2>4 DEF InCartsOK, Covers
<1>14. ASSUME NEW j \in Call PROVE CheckoutOK(j)'
  <2>1. CASE j = k
    BY <1>7, <1>9, <2>1 DEF CheckoutOK
  <2>2. CASE j # k
    <3>1. CheckoutOK(j) /\ browsing'[j] = browsing[j]
      BY <1>2, <1>9, <2>2
    <3>2. browsing[j].op = "checkout" => browsing[j].user = u
      BY <1>2, <1>4, <3>1 DEF CheckoutOK, OwnersOK
    <3>3. \A d \in Cart : cart'[d].owner # "guest"
      BY <1>10
    <3> QED BY <1>3, <1>4, <1>10, <3>1, <3>2, <3>3 DEF CheckoutOK, Covers, Spent
  <2> QED BY <2>1, <2>2
<1>15. ASSUME NEW j \in Call PROVE MergeOK(j)'
  <2>1. CASE j = k
    BY <1>7, <1>9, <2>1 DEF MergeOK
  <2>2. CASE j # k
    <3>1. MergeOK(j) /\ browsing'[j] = browsing[j]
      BY <1>2, <1>9, <2>2
    <3>2. browsing[j].op = "merge" /\ browsing[j].user # Nothing
             => browsing[j].user = u /\ browsing[j].guest \in Cart /\ browsing[j].guest # u
      BY <1>2, <1>4, <3>1 DEF MergeOK, OwnersOK
    <3> QED BY <1>4, <1>10, <3>1, <3>2 DEF MergeOK
  <2> QED BY <2>1, <2>2
<1> QED BY <1>2, <1>3, <1>11, <1>12, <1>13, <1>14, <1>15 DEF CartsInv

\* A checkout takes what it buys out of the account's cart; what another in
\* flight will buy besides does not count, nor what a merge had read there.
LEMMA CartsAreCheckedOut == ASSUME CartsInv, NEW k \in Call, C!Checkout(k) PROVE CartsInv'
<1> DEFINE u == browsing[k].user
           buys == browsing[k].items
<1>1. /\ cart \in [Cart -> C!CartRow] /\ stock \in [CartListing -> 0..MaxQuantity]
      /\ browsing \in [Call -> C!BrowsingRow] /\ inquiry \in [Inquiry -> C!InquiryRow]
      /\ asked \in [CartListing -> 0..MaxAsked] /\ overlapped \in BOOLEAN
  BY CartTypes
<1>2. /\ OwnersOK /\ \A l \in CartListing : InCartsOK(l)
      /\ \A j \in Call : CheckoutOK(j) /\ MergeOK(j)
  BY DEF CartsInv
<1>3. /\ browsing[k].op = "checkout" /\ \A l \in CartListing : buys[l] <= stock[l]
      /\ stock' = [l \in CartListing |-> stock[l] - buys[l]]
      /\ bought' = [l \in CartListing |-> bought[l] + buys[l]]
      /\ overlapped' = (overlapped \/ \E k2 \in Call \ {k} : browsing[k2].op = "checkout")
      /\ cart' = [cart EXCEPT ![u].items = C!None]
      /\ browsing' = [C!Lose(C!Held(u)) EXCEPT ![k] = C!NoBrowsing]
      /\ UNCHANGED <<inquiry, asked>>
  BY DEF C!Checkout, C!ClearCart
<1>4. u \in Cart /\ cart[u].owner = "user"
  BY <1>2, <1>3 DEF CheckoutOK
<1>5. ASSUME NEW l \in CartListing
      PROVE  /\ buys[l] \in Nat /\ bought[l] \in Nat /\ asked[l] \in Nat /\ stock[l] \in 0..MaxQuantity
             /\ MaxQuantity \in Nat
  BY <1>1, CartTypes
<1>6. bought' \in [CartListing -> Nat] /\ stock' \in [CartListing -> 0..MaxQuantity] /\ overlapped' \in BOOLEAN
  <2>1. ASSUME NEW l \in CartListing PROVE bought'[l] \in Nat /\ stock'[l] \in 0..MaxQuantity
    BY <1>3, <1>5
  <2>2. overlapped' \in BOOLEAN
    BY <1>1, <1>3
  <2> QED BY <1>3, <2>1, <2>2
<1>7. /\ cart' \in [Cart -> C!CartRow] /\ \A d \in Cart : cart'[d].owner = cart[d].owner
      /\ \A d \in Cart : d # u => cart'[d] = cart[d]
      /\ \A l \in CartListing : cart'[u].items[l] = 0
  <2>1. [cart[u] EXCEPT !.items = C!None] \in C!CartRow
    BY <1>1, <1>4, NoBrowsingRow DEF C!CartRow
  <2>2. /\ [cart[u] EXCEPT !.items = C!None].items = C!None
        /\ [cart[u] EXCEPT !.items = C!None].owner = cart[u].owner
    BY <1>1, <1>4 DEF C!CartRow
  <2> QED BY <1>1, <1>3, <1>4, <2>1, <2>2, NoBrowsingRow
<1> DEFINE losing == C!Lose(C!Held(u))
<1>8. Loses(losing, C!Held(u))
  BY LoseRow DEF C!Held
<1>9. /\ browsing' \in [Call -> C!BrowsingRow] /\ browsing'[k] = C!NoBrowsing
      /\ \A j \in Call : j # k => browsing'[j] = losing[j]
  <2>1. losing \in [Call -> C!BrowsingRow] /\ browsing' = [losing EXCEPT ![k] = C!NoBrowsing]
    BY <1>3, <1>8 DEF Loses
  <2> HIDE DEF losing
  <2> QED BY <2>1, NoBrowsingRow
<1> HIDE DEF losing
<1>10. ASSUME NEW j \in Call, j # k
       PROVE  /\ browsing'[j].op = browsing[j].op /\ browsing'[j].user = browsing[j].user
              /\ browsing'[j].guest = browsing[j].guest
              /\ browsing'[j].items = browsing[j].items /\ browsing'[j].mine = browsing[j].mine
              /\ browsing[j].op = "merge" => browsing'[j].lost = browsing[j].lost \cup C!Held(u)
              /\ browsing[j].op = "checkout" => overlapped'
  BY <1>3, <1>8, <1>9, <1>10 DEF Loses
\* What was covered besides what is bought here is so now, and if another
\* checkout has overlapped, whatever was covered.
<1>11. ASSUME NEW l \in CartListing, NEW q \in Nat,
              Covers(l, buys[l] + q) \/ (overlapped' /\ Covers(l, q))
       PROVE  Spent(l)' + q <= asked'[l]
  <2>1. Spent(l)' = IF overlapped' THEN 0 ELSE bought[l] + buys[l]
    BY <1>3 DEF Spent
  <2>2. overlapped => overlapped'
    BY <1>3
  <2> QED BY <1>3, <1>5, <1>11, <2>1, <2>2 DEF Covers, Spent
<1>12. (C!TypeOK)'
  BY <1>1, <1>3, <1>6, <1>7, <1>9 DEF C!TypeOK, C!Quantities
<1>13. OwnersOK'
  <2>1. \A c \in Cart, l \in CartListing : cart[c].items[l] = 0 => cart'[c].items[l] = 0
    BY <1>7
  <2> QED BY <1>2, <1>7, <2>1 DEF OwnersOK
<1>14. ASSUME NEW d \in Cart, NEW l \in CartListing
       PROVE  /\ cart'[d].items[l] \in Nat /\ Covers(l, buys[l] + cart'[d].items[l])
              /\ cart[d].owner # "guest" => cart'[d].items[l] = 0
  <2>1. cart[d].owner \in {"none", "guest", "user"} /\ cart[d].items[l] \in Nat
    BY <1>1, CartTypes DEF C!CartRow
  <2>2. Covers(l, buys[l])
    BY <1>2, <1>3 DEF CheckoutOK
  <2>3. CASE cart[d].owner = "guest"
    <3>1. cart'[d] = cart[d]
      BY <1>4, <1>7, <2>3
    <3> QED BY <1>2, <1>3, <2>1, <2>3, <3>1 DEF CheckoutOK
  <2>4. CASE cart[d].owner # "guest"
    <3>1. cart'[d].items[l] = 0
      BY <1>2, <1>4, <1>7, <2>1, <2>4 DEF OwnersOK
    <3>2. buys[l] + 0 = buys[l]
      BY <1>5
    <3> QED BY <2>2, <3>1, <3>2
  <2> QED BY <2>3, <2>4
<1>15. ASSUME NEW l \in CartListing PROVE InCartsOK(l)'
  <2>1. Spent(l)' + 0 <= asked'[l]
    <3>1. Covers(l, buys[l]) /\ buys[l] + 0 = buys[l]
      BY <1>2, <1>3, <1>5 DEF CheckoutOK
    <3> QED BY <1>11, <3>1
  <2>2. ASSUME NEW d \in Cart PROVE Spent(l)' + cart'[d].items[l] <= asked'[l]
    BY <1>11, <1>14
  <2>3. ASSUME NEW d \in Cart, NEW e \in Cart, d # e
        PROVE  Spent(l)' + (cart'[d].items[l] + cart'[e].items[l]) <= asked'[l]
    <3>1. cart[d].owner # "guest" \/ cart[e].owner # "guest"
      BY <1>2, <2>3 DEF OwnersOK
    <3>2. /\ cart'[d].items[l] \in Nat /\ cart'[e].items[l] \in Nat
          /\ cart'[d].items[l] = 0 \/ cart'[e].items[l] = 0
      BY <1>14, <3>1
    <3>3. \/ cart'[d].items[l] + cart'[e].items[l] = cart'[d].items[l]
          \/ cart'[d].items[l] + cart'[e].items[l] = cart'[e].items[l]
      BY <3>2
    <3> QED BY <2>2, <3>3
  <2> QED BY <2>1, <2>2, <2>3 DEF InCartsOK, Covers
<1>16. ASSUME NEW j \in Call PROVE CheckoutOK(j)'
  <2>1. CASE j = k
    BY <1>9, <2>1, NoBrowsingRow DEF CheckoutOK
  <2>2. CASE j # k
    <3>1. ASSUME browsing[j].op = "checkout", NEW l \in CartListing, NEW c \in Cart
          PROVE  /\ Spent(l)' + browsing[j].items[l] <= asked'[l]
                 /\ cart'[c].owner = "guest" => Spent(l)' + (browsing[j].items[l] + cart'[c].items[l]) <= asked'[l]
      <4>1. /\ overlapped' /\ Covers(l, browsing[j].items[l])
            /\ cart[c].owner = "guest" => Covers(l, browsing[j].items[l] + cart[c].items[l])
        BY <1>2, <1>10, <2>2, <3>1 DEF CheckoutOK
      <4>2. /\ browsing[j].items[l] \in Nat /\ browsing[j].items[l] + cart[c].items[l] \in Nat
        BY CartTypes
      <4>3. cart'[c].owner = "guest" => cart[c].owner = "guest" /\ cart'[c] = cart[c]
        BY <1>4, <1>7
      <4> QED BY <1>11, <4>1, <4>2, <4>3
    <3>2. CheckoutOK(j)
      BY <1>2
    <3> QED BY <1>7, <1>10, <2>2, <3>1, <3>2 DEF CheckoutOK, Covers
  <2> QED BY <2>1, <2>2
<1>17. ASSUME NEW j \in Call PROVE MergeOK(j)'
  <2>1. CASE j = k
    BY <1>9, <2>1, NoBrowsingRow DEF MergeOK
  <2>2. CASE j # k
    <3>1. ASSUME browsing[j].op = "merge", browsing[j].user \in Cart, cart[browsing[j].user].owner = "user",
                 NEW l \in CartListing, MergeCovered(j, l)
          PROVE  MergeCovered(j, l)'
      <4>1. browsing[j].user = u
        BY <1>2, <1>4, <3>1 DEF OwnersOK
      <4>2. browsing'[j].user = u /\ browsing'[j].items = browsing[j].items /\ browsing'[j].mine = browsing[j].mine
            /\ browsing'[j].lost = browsing[j].lost \cup C!Held(u)
        BY <1>10, <2>2, <3>1, <4>1
      <4>3. CASE browsing[j].mine[l] > 0
        <5>1. l \in browsing'[j].lost
          BY <3>1, <4>1, <4>2, <4>3 DEF MergeCovered, C!Held
        <5> QED BY <4>2, <4>3, <5>1 DEF MergeCovered
      <4>4. CASE ~(browsing[j].mine[l] > 0)
        <5>1. browsing[j].items[l] \in Nat /\ \A k2 \in Call : browsing[k2].items[l] + browsing[j].items[l] \in Nat
          BY CartTypes
        <5>2. \A k2 \in Call : browsing[k2].op = "checkout" =>
                 Covers(l, browsing[k2].items[l] + browsing[j].items[l])
          BY <3>1, <4>4 DEF MergeCovered
        <5>3. Spent(l)' + (cart'[u].items[l] + browsing[j].items[l]) <= asked'[l]
          <6>1. Spent(l)' + browsing[j].items[l] <= asked'[l]
            BY <1>3, <1>11, <5>1, <5>2
          <6>2. cart'[u].items[l] + browsing[j].items[l] = browsing[j].items[l]
            BY <1>7, <5>1
          <6> QED BY <6>1, <6>2
        <5>4. ASSUME NEW k2 \in Call, browsing'[k2].op = "checkout"
              PROVE  Spent(l)' + (browsing'[k2].items[l] + browsing[j].items[l]) <= asked'[l]
          <6>1. k2 # k
            BY <1>9, <5>4, NoBrowsingRow
          <6>2. browsing[k2].op = "checkout" /\ browsing'[k2].items = browsing[k2].items /\ overlapped'
            BY <1>10, <5>4, <6>1
          <6> QED BY <1>11, <5>1, <5>2, <6>2
        <5> QED BY <4>2, <4>4, <5>3, <5>4 DEF MergeCovered, Covers
      <4> QED BY <4>3, <4>4
    <3>2. MergeOK(j)
      BY <1>2
    <3>3. \A d \in Cart : cart'[d].owner = cart[d].owner
      BY <1>7
    <3> QED BY <1>10, <2>2, <3>1, <3>2, <3>3 DEF MergeOK
  <2> QED BY <2>1, <2>2
<1> QED BY <1>6, <1>12, <1>13, <1>15, <1>16, <1>17 DEF CartsInv

LEMMA CartsStep == ASSUME CartsInv, C!Next PROVE CartsInv'
<1>1. CASE \E c \in Cart, owner \in {"guest", "user"} : C!EnsureCart(c, owner)
  BY <1>1, CartsByHand
<1>2. CASE \E c \in Cart, l \in CartListing :
              C!RemoveItem(c, l) \/ \E n \in 1..MaxQuantity : C!PutItem(c, l, n)
  BY <1>2, CartsByHand
<1>3. CASE \E l \in CartListing, n \in 0..MaxQuantity : C!ChangeStock(l, n)
  BY <1>3, CartsQuietStep
<1>4. CASE \E k \in Call : \/ C!MergeRead(k) \/ C!Adopt(k) \/ C!Merge(k) \/ C!Claim(k)
                           \/ C!CheckoutRead(k) \/ C!Checkout(k) \/ C!Stop(k)
  BY <1>4, CartsAreRead, CartIsAdopted, CartsAreMerged, CartsAreCheckedOut, CartsQuietStep
<1>5. CASE \E i \in Inquiry : C!Expire(i) \/ \E c \in Cart : C!Inquire(i, c)
  BY <1>5, CartsQuietStep
<1> QED BY <1>1, <1>2, <1>3, <1>4, <1>5 DEF C!Next

\* The two carts hold together no more than what was covered, and no other cart does.
LEMMA InCartsIsTotal ==
    ASSUME CartsInv, NEW l \in CartListing
    PROVE  \E g : /\ IsTotal(g, [c \in Cart |-> cart[c].items[l]], Cart)
                  /\ C!InCarts(l) = g[Cart]
<1> DEFINE w == [c \in Cart |-> cart[c].items[l]]
           Makes(h) == h = [s \in SUBSET Cart |-> IF s = {} THEN 0
                                                 ELSE cart[Pick(s)].items[l] + h[s \ {Pick(s)}]]
<1>1. w \in [Cart -> Int] /\ IsFiniteSet(Cart)
  BY CartTypes, CartsAssumption
<1>2. C!InCarts(l) = (CHOOSE h : Makes(h))[Cart]
  BY DEF C!InCarts, C!MapThenSumSet, C!MapThenFoldSet, Pick
<1>3. \A s \in SUBSET Cart : s # {} => w[Pick(s)] = cart[Pick(s)].items[l]
  BY PickIsIn
<1>4. \A h : Makes(h) <=> DefinesFold(h, w, Cart)
  BY <1>3 DEF DefinesFold
<1> HIDE DEF w, Makes
<1>5. PICK g : SumsUp(g, w, Cart)
  BY <1>1, FoldsAreTotal
<1> DEFINE k == CHOOSE h : Makes(h)
<1>6. Makes(k)
  BY <1>4, <1>5 DEF SumsUp
<1>7. k[Cart] = g[Cart]
  BY <1>4, <1>5, <1>6 DEF SumsUp
<1> HIDE DEF k
<1>8. IsTotal(g, w, Cart) /\ C!InCarts(l) = g[Cart]
  BY <1>2, <1>5, <1>7 DEF SumsUp, k
<1> QED BY <1>8 DEF w

LEMMA InCartsAreCovered == ASSUME CartsInv, NEW l \in CartListing PROVE Covers(l, C!InCarts(l))
<1> DEFINE w == [c \in Cart |-> cart[c].items[l]]
           full == {c \in Cart : w[c] # 0}
<1>1. PICK g : IsTotal(g, w, Cart) /\ C!InCarts(l) = g[Cart]
  BY InCartsIsTotal
<1>2. IsFiniteSet(Cart) /\ InCartsOK(l) /\ \A c \in Cart : w[c] = cart[c].items[l] /\ w[c] \in Nat
  BY CartsAssumption, CartTypes DEF CartsInv
<1>3. \A c \in full : cart[c].owner \in {"guest", "user"}
  <2>1. \A c \in Cart : cart[c].owner \in {"none", "guest", "user"}
    BY CartTypes DEF C!CartRow
  <2> QED BY <1>2, <2>1 DEF CartsInv, OwnersOK
<1>4. \A c, d, e \in full : c = d \/ c = e \/ d = e
  BY <1>3 DEF CartsInv, OwnersOK
<1>5. full \in SUBSET Cart /\ Cart \ full \in SUBSET Cart /\ full \cap (Cart \ full) = {}
      /\ full \cup (Cart \ full) = Cart /\ \A c \in Cart \ full : w[c] = 0
  OBVIOUS
<1> HIDE DEF w, full
<1>6. g[Cart] = g[full] + g[Cart \ full] /\ g[Cart \ full] = 0 /\ g[full] \in Int
  <2>1. IsTotal(g, w, Cart) /\ IsFiniteSet(Cart)
    BY <1>1, <1>2
  <2>2. g[Cart \ full] = 0
    BY <1>5, <2>1, TotalOfZeros
  <2>3. g[full \cup (Cart \ full)] = g[full] + g[Cart \ full]
    <3> DEFINE rest == Cart \ full
    <3>1. rest \in SUBSET Cart /\ full \cap rest = {} /\ full \in SUBSET Cart
      BY <1>5
    <3> HIDE DEF rest
    <3>2. g[full \cup rest] = g[full] + g[rest]
      BY <2>1, <3>1, TotalOfBoth
    <3> QED BY <3>2 DEF rest
  <2>4. g[full] \in Int
    BY <1>5, <2>1 DEF IsTotal
  <2> QED BY <1>5, <2>2, <2>3, <2>4
<1>7. g[{}] = 0 /\ \A T \in SUBSET full : \A c \in T : g[T] = w[c] + g[T \ {c}]
  BY <1>1, <1>5 DEF IsTotal
<1>8. Covers(l, g[full])
  <2>1. CASE full = {}
    BY <1>2, <1>7, <2>1 DEF InCartsOK
  <2>2. ASSUME NEW c \in full, full \ {c} = {} PROVE Covers(l, g[full])
    <3>1. c \in Cart /\ w[c] \in Nat /\ w[c] = cart[c].items[l]
      BY <1>2, <1>5
    <3>2. g[full] = w[c] + g[full \ {c}]
      BY <1>7
    <3>3. g[full] = w[c]
      BY <1>7, <2>2, <3>1, <3>2
    <3> QED BY <1>2, <3>1, <3>3 DEF InCartsOK
  <2>3. ASSUME NEW c \in full, NEW d \in full \ {c} PROVE Covers(l, g[full])
    <3>1. (full \ {c}) \ {d} = {}
      BY <1>4
    <3>2. g[full] = w[c] + g[full \ {c}] /\ g[full \ {c}] = w[d] + 0
      BY <1>7, <3>1
    <3>3. w[c] \in Nat /\ w[d] \in Nat /\ Covers(l, w[c] + w[d])
      BY <1>2, <1>5 DEF InCartsOK
    <3>4. g[full] = w[c] + w[d]
      BY <3>2, <3>3
    <3> QED BY <3>3, <3>4
  <2> QED BY <2>1, <2>2, <2>3
<1>9. C!InCarts(l) = g[full]
  BY <1>1, <1>6
<1> QED BY <1>8, <1>9

----------------------------------------------------------------------------
(* Imports.  The slugs of a set under one base are numbered without gaps   *)
(* where several printings share it, and a command that runs knows only    *)
(* slugs that are taken: so the upsert of an API's importer cannot rename  *)
(* a row made since it looked for one.                                     *)

Importing == {"next", "write", "variant"}

SlugSet == ({"none", "base"} \cup MylCard \cup ApiCard) \X Nat

CardRow == [of : MylCard \cup ApiCard \cup {"none"}, num : {"name", "edid"}, slug : SlugSet,
            source : I!Sources, art : BOOLEAN, rich : BOOLEAN, variant : BOOLEAN, born : SlugSet]

CommandRow == [kind : I!Kinds \cup {"none"}, force : BOOLEAN, missing : BOOLEAN,
               taken : SUBSET SlugSet, todo : SUBSET (MylCard \cup ApiCard),
               at : Importing \cup {"idle", "ended"},
               of : MylCard \cup ApiCard \cup {"none"}, row : I!Id \cup {I!NoRow},
               conflicts : SUBSET (MylCard \cup ApiCard)]

HasVariant(p) == \E i \in I!Live : cards[i].of = p /\ cards[i].variant

\* A base is a printing's own, or numbered from 1 up.
SlugOK(of, slug) ==
    /\ slug[1] = I!Base(of) /\ slug[2] \in 1..MaxSlug
    /\ game = "api" => \A n \in 1..slug[2] : n = slug[2] \/ <<"base", n>> \in I!Slugs

SlugsOK ==
    /\ \A i \in I!Id : cards[i].slug = cards[i].born
    /\ \A i \in I!Live : SlugOK(cards[i].of, cards[i].slug)

RunningOK(m) == job[m].at \in Importing =>
    /\ job[m].kind \in I!Kinds /\ (job[m].kind = "api") = (game = "api")
    /\ pruning = I!Nobody /\ job[m].taken \subseteq I!Slugs

WritingOK(m) ==
    /\ job[m].at = "next" => job[m].of = "none"
    /\ job[m].at \in {"write", "variant"} =>
         job[m].of \in I!Printing /\ (job[m].row # I!NoRow => cards[job[m].row].of = job[m].of)
    /\ job[m].at = "variant" => job[m].row # I!NoRow
    /\ (job[m].at = "write" /\ job[m].row = I!NoRow /\ game = "api") =>
         \A i \in I!ByKey(job[m].of, "edid") : cards[i].slug \notin job[m].taken

CompleteOK(m) == ~job[m].missing =>
    /\ job[m].at \in Importing =>
         \A p \in I!Printing \ (job[m].todo \cup job[m].conflicts \cup {job[m].of}) : HasVariant(p)
    /\ job[m].at = "ended" => \A p \in I!Printing \ job[m].conflicts : HasVariant(p)

ImportsTyped ==
    /\ game \in {"myl", "api"} /\ cards \in [I!Id -> CardRow] /\ ordered \subseteq I!Id
    /\ pruning \subseteq I!Id \cup I!Nobody /\ (pruning # I!Nobody => game = "myl")
    /\ job \in [Call -> CommandRow]

ImportsInv ==
    /\ ImportsTyped /\ SlugsOK
    /\ \A m \in Call : RunningOK(m) /\ WritingOK(m) /\ CompleteOK(m)

LEMMA LeastRow ==
    ASSUME NEW few \in SUBSET I!Id
    PROVE  (I!FirstOf(few) = I!NoRow /\ few = {}) \/ I!FirstOf(few) \in few
<1>1. CASE few = {}
  BY <1>1 DEF I!FirstOf
<1>2. CASE few # {}
  <2>1. few \in SUBSET Nat
    BY ImportsAssumption DEF I!Id
  <2>2. PICK n \in few : \A m \in few : ~(m < n)
    BY <1>2, <2>1, LeastNatural
  <2>3. \A m \in few : n <= m
    BY <2>1, <2>2
  <2>4. I!Min(few) \in few
    BY <2>3 DEF I!Min
  <2> QED BY <1>2, <2>4 DEF I!FirstOf
<1> QED BY <1>1, <1>2

\* A number that is free bounds the slug that is made.
LEMMA LeastSlug ==
    ASSUME NEW base, NEW taken, NEW k \in 1..MaxSlug, <<base, k>> \notin taken
    PROVE  \E n \in 1..k : /\ I!UniqueSlug(base, taken) = <<base, n>> /\ <<base, n>> \notin taken
                           /\ \A j \in 1..n : j = n \/ <<base, j>> \in taken
<1> DEFINE free == {n \in 1..MaxSlug : <<base, n>> \notin taken}
<1>1. free \in SUBSET Nat /\ k \in free /\ MaxSlug \in Nat
  BY ImportsAssumption
<1>2. PICK n \in free : \A m \in free : ~(m < n)
  <2> HIDE DEF free
  <2> QED BY <1>1, LeastNatural
<1>3. \A m \in free : n <= m
  BY <1>1, <1>2
<1>4. I!Min(free) = n
  <2>1. I!Min(free) \in free /\ \A m \in free : I!Min(free) <= m
    BY <1>2, <1>3 DEF I!Min
  <2>2. \A a, b \in Nat : a <= b /\ b <= a => a = b
    OBVIOUS
  <2> HIDE DEF free
  <2>3. I!Min(free) \in Nat /\ n \in Nat /\ I!Min(free) <= n /\ n <= I!Min(free)
    BY <1>1, <1>2, <1>3, <2>1
  <2> QED BY <2>2, <2>3
<1>5. I!UniqueSlug(base, taken) = <<base, n>>
  BY <1>4 DEF I!UniqueSlug
<1>6. n \in 1..k /\ <<base, n>> \notin taken
  BY <1>1, <1>3
<1>7. \A j \in 1..n : j = n \/ <<base, j>> \in taken
  BY <1>1, <1>3, <1>6
<1> QED BY <1>5, <1>6, <1>7

\* There are fewer slugs than rows as long as a row is unused.
LEMMA SomeSlugIsFree ==
    ASSUME ImportsTyped, I!Spare # {}, NEW base, NEW taken \in SUBSET I!Slugs
    PROVE  \E k \in 1..MaxSlug : <<base, k>> \notin taken
<1> SUFFICES ASSUME \A k \in 1..MaxSlug : <<base, k>> \in taken PROVE FALSE
  OBVIOUS
<1>1. IsFiniteSet(I!Id) /\ Cardinality(I!Id) = MaxRows
  BY ImportsAssumption, FS_Interval DEF I!Id
<1>2. IsFiniteSet(1..MaxSlug) /\ Cardinality(1..MaxSlug) = MaxSlug
  BY ImportsAssumption, FS_Interval
<1>3. I!Live \in SUBSET I!Id /\ I!Live # I!Id
  BY DEF I!Live, I!Spare
<1>4. IsFiniteSet(I!Live) /\ Cardinality(I!Live) \in Nat /\ Cardinality(I!Live) < MaxRows
  <2>1. IsFiniteSet(I!Live) /\ Cardinality(I!Live) <= MaxRows /\ Cardinality(I!Live) # MaxRows
    BY <1>1, <1>3, FS_Subset
  <2>2. Cardinality(I!Live) \in Nat
    BY <2>1, FS_CardinalityType
  <2> QED BY <2>1, <2>2, ImportsAssumption
<1>5. \A k \in 1..MaxSlug : \E i \in I!Live : cards[i].slug = <<base, k>>
  BY DEF I!Slugs
<1> DEFINE f == [k \in 1..MaxSlug |-> CHOOSE i \in I!Live : cards[i].slug = <<base, k>>]
<1>6. f \in [1..MaxSlug -> I!Live] /\ \A k \in 1..MaxSlug : cards[f[k]].slug = <<base, k>>
  BY <1>5
<1> HIDE DEF f
<1>7. Cardinality(I!Live) < Cardinality(1..MaxSlug)
  BY <1>2, <1>4, ImportsAssumption
<1>8. PICK j \in 1..MaxSlug, k \in 1..MaxSlug : j # k /\ f[j] = f[k]
  BY <1>2, <1>4, <1>6, <1>7, FS_PigeonHole
<1> QED BY <1>6, <1>8

LEMMA NewSlug ==
    ASSUME ImportsTyped, I!Spare # {}, NEW of, NEW taken \in SUBSET I!Slugs
    PROVE  LET slug == I!UniqueSlug(I!Base(of), taken)
           IN SlugOK(of, slug) /\ slug = <<I!Base(of), slug[2]>>
<1> DEFINE base == I!Base(of)
<1>1. PICK k \in 1..MaxSlug : <<base, k>> \notin taken
  BY SomeSlugIsFree
<1> HIDE DEF base
<1>2. PICK n \in 1..k : /\ I!UniqueSlug(base, taken) = <<base, n>>
                        /\ \A j \in 1..n : j = n \/ <<base, j>> \in taken
  BY <1>1, LeastSlug
<1>3. n \in 1..MaxSlug
  BY ImportsAssumption
<1>4. game = "api" => base = "base"
  BY DEF I!Base, base
<1> QED BY <1>2, <1>3, <1>4 DEF SlugOK, base

----------------------------------------------------------------------------
(* What the imports write never loses a row, nor what it is of, its slug   *)
(* and its variant.                                                        *)

Keeps(i) ==
    /\ cards'[i].of = cards[i].of /\ cards'[i].slug = cards[i].slug
    /\ cards[i].variant => cards'[i].variant
    /\ game = "api" => cards'[i].num = cards[i].num

Grows ==
    /\ \A i \in I!Live : Keeps(i)
    /\ \A i \in I!Id \ I!Live : cards'[i] = cards[i] \/ cards'[i].slug \notin I!Slugs

\* A row r that one step writes as the row i.
Writes(i, r) ==
    /\ i \in I!Id /\ r \in CardRow /\ cards' = [cards EXCEPT ![i] = r]
    /\ r.of \in I!Printing /\ r.slug = r.born /\ SlugOK(r.of, r.slug)
    /\ \/ i \in I!Spare /\ r.slug \notin I!Slugs
       \/ /\ i \in I!Live /\ r.of = cards[i].of /\ r.slug = cards[i].slug
          /\ cards[i].variant => r.variant
          /\ game = "api" => r.num = cards[i].num

LEMMA GrowsFacts ==
    ASSUME Grows, ImportsTyped, game' = game
    PROVE  /\ I!Live \subseteq I!Live' /\ I!Slugs \subseteq I!Slugs'
           /\ \A p : HasVariant(p) => HasVariant(p)'
<1>1. I!Live \subseteq I!Live'
  BY DEF Grows, Keeps, I!Live, I!Printing, I!Id
<1>2. I!Slugs \subseteq I!Slugs'
  BY <1>1 DEF Grows, Keeps, I!Slugs
<1>3. \A p : HasVariant(p) => HasVariant(p)'
  BY <1>1 DEF Grows, Keeps, HasVariant
<1> QED BY <1>1, <1>2, <1>3

LEMMA WritesGrows ==
    ASSUME ImportsTyped, SlugsOK, game' = game, NEW i, NEW r, Writes(i, r)
    PROVE  Grows /\ SlugsOK' /\ cards' \in [I!Id -> CardRow] /\ cards'[i] = r /\ i \in I!Live'
<1>1. cards' \in [I!Id -> CardRow] /\ cards'[i] = r
      /\ \A j \in I!Id : j # i => cards'[j] = cards[j]
  BY DEF ImportsTyped, Writes
<1>2. Grows
  <2>1. \A j \in I!Live : Keeps(j)
    BY <1>1 DEF Writes, Keeps, I!Live, I!Spare
  <2>2. \A j \in I!Id \ I!Live : cards'[j] = cards[j] \/ cards'[j].slug \notin I!Slugs
    BY <1>1 DEF Writes
  <2> QED BY <2>1, <2>2 DEF Grows
<1>3. i \in I!Live'
  BY <1>1 DEF Writes, I!Live, I!Printing, I!Id
<1>4. I!Slugs \subseteq I!Slugs'
  BY <1>2, GrowsFacts
<1>5. SlugsOK'
  <2>1. \A j \in I!Id : cards'[j].slug = cards'[j].born
    BY <1>1 DEF SlugsOK, Writes
  <2>2. \A of, slug : SlugOK(of, slug) => SlugOK(of, slug)'
    BY <1>4 DEF SlugOK, I!Base
  <2>3. ASSUME NEW j \in I!Live' PROVE SlugOK(cards'[j].of, cards'[j].slug)
    <3>1. CASE j = i
      BY <1>1, <3>1 DEF Writes
    <3>2. CASE j # i
      <4>1. j \in I!Live /\ cards'[j] = cards[j]
        BY <1>1, <3>2 DEF I!Live, I!Printing, I!Id
      <4> QED BY <4>1 DEF SlugsOK
    <3> QED BY <3>1, <3>2
  <2> QED BY <2>1, <2>2, <2>3 DEF SlugsOK, I!Id
<1> QED BY <1>1, <1>2, <1>3, <1>5

\* What a command knows stays true while others write.
LEMMA OthersGrow ==
    ASSUME ImportsInv, Grows, UNCHANGED <<game, pruning>>, NEW m \in Call, job'[m] = job[m]
    PROVE  (RunningOK(m) /\ WritingOK(m) /\ CompleteOK(m))'
<1>1. /\ I!Live \subseteq I!Live' /\ I!Slugs \subseteq I!Slugs'
      /\ \A p : HasVariant(p) => HasVariant(p)'
  BY GrowsFacts DEF ImportsInv
<1>2. RunningOK(m) /\ WritingOK(m) /\ CompleteOK(m)
  BY DEF ImportsInv
<1>3. RunningOK(m)'
  BY <1>1, <1>2 DEF RunningOK, I!Nobody, I!Kinds, I!NoRow
<1>4. CompleteOK(m)'
  BY <1>1, <1>2 DEF CompleteOK, I!Printing
<1>5. WritingOK(m)'
  <2>1. ASSUME job[m].at \in {"write", "variant"}, job[m].row # I!NoRow
        PROVE  cards'[job[m].row].of = job[m].of
    <3>1. job[m].row \in I!Id /\ cards[job[m].row].of = job[m].of /\ job[m].of \in I!Printing
      BY <1>2, <2>1 DEF WritingOK, ImportsInv, ImportsTyped, CommandRow
    <3>2. job[m].row \in I!Live
      BY <3>1 DEF I!Live
    <3> QED BY <3>1, <3>2 DEF Grows, Keeps
  <2>2. ASSUME job[m].at = "write", job[m].row = I!NoRow, game = "api",
               NEW i \in I!ByKey(job[m].of, "edid")'
        PROVE  cards'[i].slug \notin job[m].taken
    <3>1. i \in I!Id /\ i \in I!Live' /\ cards'[i].of = job[m].of /\ cards'[i].num = "edid"
      BY DEF I!ByKey, I!Live, I!Id
    <3>2. CASE i \in I!Live
      <4>1. i \in I!ByKey(job[m].of, "edid") /\ cards'[i].slug = cards[i].slug
        BY <2>2, <3>1, <3>2 DEF Grows, Keeps, I!ByKey
      <4> QED BY <1>2, <2>2, <4>1 DEF WritingOK
    <3>3. CASE i \notin I!Live
      <4>1. cards'[i] # cards[i]
        BY <3>1, <3>3 DEF I!Live, I!Printing
      <4>2. cards'[i].slug \notin I!Slugs
        BY <3>1, <3>3, <4>1 DEF Grows
      <4>3. job[m].taken \subseteq I!Slugs
        BY <1>2, <2>2 DEF RunningOK, Importing
      <4> QED BY <4>2, <4>3
    <3> QED BY <3>2, <3>3
  <2> QED BY <1>2, <2>1, <2>2 DEF WritingOK, I!Printing, I!NoRow
<1> QED BY <1>3, <1>4, <1>5

LEMMA IdleCommand == I!NoJob \in CommandRow
  BY DEF I!NoJob, CommandRow

LEMMA ImportsStart == ASSUME I!Init PROVE ImportsInv
<1>1. I!Unused \in CardRow
  BY DEF I!Unused, CardRow, SlugSet, I!Sources
<1>2. ImportsTyped
  BY <1>1, IdleCommand DEF I!Init, ImportsTyped
<1>3. SlugsOK
  <2>1. I!Live = {}
    BY ImportsAssumption DEF I!Init, I!Live, I!Printing, I!Unused
  <2>2. \A i \in I!Id : cards[i].slug = cards[i].born
    BY DEF I!Init, I!Unused
  <2> QED BY <2>1, <2>2 DEF SlugsOK
<1>4. \A m \in Call : job[m].at = "idle"
  BY DEF I!Init, I!NoJob
<1> QED BY <1>2, <1>3, <1>4 DEF ImportsInv, RunningOK, WritingOK, CompleteOK, Importing

\* A step of one command, that may write a row.
LEMMA CommandStep ==
    ASSUME ImportsInv, UNCHANGED <<game, pruning>>, ordered' \in SUBSET I!Id, Grows, SlugsOK',
           cards' \in [I!Id -> CardRow],
           NEW m \in Call, NEW r \in CommandRow, job' = [job EXCEPT ![m] = r],
           (RunningOK(m) /\ WritingOK(m) /\ CompleteOK(m))'
    PROVE  ImportsInv'
<1>1. job' \in [Call -> CommandRow] /\ \A k \in Call : k # m => job'[k] = job[k]
  BY DEF ImportsInv, ImportsTyped
<1>2. ImportsTyped'
  BY <1>1 DEF ImportsInv, ImportsTyped, I!Nobody, I!Id, I!NoRow
<1>3. \A k \in Call : k # m => (RunningOK(k) /\ WritingOK(k) /\ CompleteOK(k))'
  BY <1>1, OthersGrow
<1> QED BY <1>2, <1>3 DEF ImportsInv

\* A step that writes no row.
LEMMA NothingWritten ==
    ASSUME ImportsInv, UNCHANGED <<game, cards>>
    PROVE  Grows /\ SlugsOK' /\ cards' \in [I!Id -> CardRow]
<1>1. Grows
  BY DEF Grows, Keeps
<1>2. SlugsOK'
  <2>1. I!Live' = I!Live /\ I!Slugs' = I!Slugs /\ I!Id' = I!Id
    BY DEF I!Live, I!Slugs, I!Printing, I!Id
  <2>2. \A of, slug : SlugOK(of, slug)' <=> SlugOK(of, slug)
    BY <2>1 DEF SlugOK, I!Base
  <2> QED BY <2>1, <2>2 DEF SlugsOK, ImportsInv
<1> QED BY <1>1, <1>2 DEF ImportsInv, ImportsTyped

LEMMA EndedStep ==
    ASSUME ImportsInv, UNCHANGED <<game, cards, ordered, pruning>>,
           NEW m \in Call, job' = [job EXCEPT ![m] = I!NoJob]
    PROVE  ImportsInv'
<1>1. job'[m] = I!NoJob
  BY DEF ImportsInv, ImportsTyped
<1>2. (RunningOK(m) /\ WritingOK(m) /\ CompleteOK(m))'
  BY <1>1 DEF I!NoJob, RunningOK, WritingOK, CompleteOK, Importing
<1>3. ordered' \in SUBSET I!Id
  BY DEF ImportsInv, ImportsTyped
<1> QED BY <1>2, <1>3, IdleCommand, NothingWritten, CommandStep

LEMMA CommandStarts ==
    ASSUME ImportsInv, NEW m \in Call, NEW kind \in I!Kinds,
           NEW force \in BOOLEAN, NEW missing \in BOOLEAN, I!Start(m, kind, force, missing)
    PROVE  ImportsInv'
<1> DEFINE r == [I!NoJob EXCEPT !.kind = kind, !.force = force, !.missing = missing,
                                !.taken = I!Slugs, !.todo = I!Printing, !.at = "next"]
<1>1. job' = [job EXCEPT ![m] = r] /\ UNCHANGED <<game, cards, ordered, pruning>>
      /\ (kind = "api") = (game = "api") /\ pruning = I!Nobody
  BY DEF I!Start
<1>2. I!Slugs \subseteq SlugSet /\ I!Printing \subseteq MylCard \cup ApiCard
  BY DEF ImportsInv, ImportsTyped, I!Slugs, I!Live, CardRow, I!Printing
<1>3. /\ r \in CommandRow /\ r.kind = kind /\ r.missing = missing /\ r.taken = I!Slugs
      /\ r.todo = I!Printing /\ r.at = "next" /\ r.of = "none" /\ r.conflicts = {}
  <2> DEFINE a == [[I!NoJob EXCEPT !.kind = kind] EXCEPT !.force = force]
             b == [[a EXCEPT !.missing = missing] EXCEPT !.taken = I!Slugs]
  <2>1. a \in CommandRow /\ a.kind = kind /\ a.of = "none" /\ a.conflicts = {}
    <3>1. I!NoJob \in CommandRow /\ I!NoJob.of = "none" /\ I!NoJob.conflicts = {}
      BY IdleCommand DEF I!NoJob
    <3> QED BY <3>1 DEF CommandRow
  <2> HIDE DEF a
  <2>2. /\ b \in CommandRow /\ b.kind = kind /\ b.of = "none" /\ b.conflicts = {}
        /\ b.missing = missing /\ b.taken = I!Slugs
    BY <1>2, <2>1 DEF CommandRow
  <2> HIDE DEF b
  <2> DEFINE c == [[b EXCEPT !.todo = I!Printing] EXCEPT !.at = "next"]
  <2>3. /\ c \in CommandRow /\ c.kind = kind /\ c.missing = missing /\ c.taken = I!Slugs
        /\ c.todo = I!Printing /\ c.at = "next" /\ c.of = "none" /\ c.conflicts = {}
    BY <1>2, <2>2 DEF CommandRow, Importing
  <2>4. r = c
    BY DEF a, b
  <2> HIDE DEF r, c
  <2> QED BY <2>3, <2>4
<1> HIDE DEF r
<1>4. job'[m] = r
  BY <1>1 DEF ImportsInv, ImportsTyped
<1>5. I!Slugs' = I!Slugs /\ I!Printing' = I!Printing /\ I!Nobody' = I!Nobody
  BY <1>1 DEF I!Slugs, I!Live, I!Printing, I!Id, I!Nobody, I!NoRow
<1>6. (RunningOK(m) /\ WritingOK(m) /\ CompleteOK(m))'
  <2>1. RunningOK(m)'
    BY <1>1, <1>3, <1>4, <1>5 DEF RunningOK, I!Kinds
  <2>2. WritingOK(m)' /\ CompleteOK(m)'
    BY <1>3, <1>4, <1>5 DEF WritingOK, CompleteOK, Importing
  <2> QED BY <2>1, <2>2
<1>7. ordered' \in SUBSET I!Id
  BY <1>1 DEF ImportsInv, ImportsTyped
<1> QED BY <1>1, <1>3, <1>6, <1>7, NothingWritten, CommandStep

LEMMA CardLookedUp ==
    ASSUME ImportsInv, NEW m \in Call, NEW p \in I!Printing, I!Look(m, p)
    PROVE  ImportsInv'
<1> DEFINE i == I!FindExisting(job[m].kind, p)
           skipped == job[m].missing /\ ~I!NeedsEnrichment(i)
           conflict == ~skipped /\ ~I!MayWrite(job[m].kind, job[m].force, i)
           passed == [[job[m] EXCEPT !.todo = job[m].todo \ {p}]
                        EXCEPT !.conflicts = IF conflict THEN job[m].conflicts \cup {p}
                                                         ELSE job[m].conflicts]
           chosen == [[[[job[m] EXCEPT !.todo = job[m].todo \ {p}] EXCEPT !.of = p]
                        EXCEPT !.row = i] EXCEPT !.at = "write"]
<1>1. /\ job[m].at = "next" /\ UNCHANGED <<game, cards, ordered, pruning>>
      /\ job[m] \in CommandRow /\ p \in MylCard \cup ApiCard
      /\ RunningOK(m) /\ WritingOK(m) /\ CompleteOK(m)
  BY DEF I!Look, ImportsInv, ImportsTyped, I!Printing
<1>2. job' = [job EXCEPT ![m] = IF skipped \/ conflict THEN passed ELSE chosen]
  <2>1. job \in [Call -> CommandRow]
    BY DEF ImportsInv, ImportsTyped
  <2>2. CASE skipped \/ conflict
    <3>1. job' = [job EXCEPT ![m].todo = @ \ {p},
                             ![m].conflicts = IF conflict THEN @ \cup {p} ELSE @]
      BY <2>2 DEF I!Look
    <3> QED BY <2>1, <2>2, <3>1
  <2>3. CASE ~(skipped \/ conflict)
    <3>1. job' = [job EXCEPT ![m].todo = @ \ {p}, ![m].of = p, ![m].row = i, ![m].at = "write"]
      BY <2>3 DEF I!Look
    <3> HIDE DEF i, skipped, conflict
    <3> QED BY <2>1, <2>3, <3>1
  <2> QED BY <2>2, <2>3
<1>3. /\ i \in I!Id \cup {I!NoRow} /\ (i # I!NoRow => cards[i].of = p)
      /\ (game = "api" /\ i = I!NoRow => I!ByKey(p, "edid") = {})
  <2>1. I!ByKey(p, I!NumberOf(job[m].kind)) \in SUBSET I!Id
    BY DEF I!ByKey, I!Live
  <2>2. I!BySlug(<<I!Base(p), 1>>) \in SUBSET I!Id
    BY DEF I!BySlug, I!Live
  <2>3. CASE job[m].kind = "tor" /\ I!BySlug(<<I!Base(p), 1>>) # {}
    <3>1. i \in I!BySlug(<<I!Base(p), 1>>)
      BY <2>2, <2>3, LeastRow DEF I!FindExisting
    <3>2. i \in I!Live /\ cards[i].slug = <<I!Base(p), 1>> /\ game = "myl"
      BY <1>1, <2>3, <3>1 DEF I!BySlug, RunningOK, Importing, ImportsInv, ImportsTyped
    <3>3. cards[i].slug[1] = I!Base(cards[i].of)
      BY <3>2 DEF ImportsInv, SlugsOK, SlugOK
    <3> QED BY <3>2, <3>3 DEF I!Base, I!Live, I!Id, I!NoRow
  <2>4. CASE ~(job[m].kind = "tor" /\ I!BySlug(<<I!Base(p), 1>>) # {})
    <3>1. i = I!FirstOf(I!ByKey(p, I!NumberOf(job[m].kind)))
      BY <2>4 DEF I!FindExisting
    <3>2. (i = I!NoRow /\ I!ByKey(p, I!NumberOf(job[m].kind)) = {})
          \/ i \in I!ByKey(p, I!NumberOf(job[m].kind))
      BY <2>1, <3>1, LeastRow
    <3>3. game = "api" => I!NumberOf(job[m].kind) = "edid"
      BY <1>1 DEF RunningOK, Importing, I!NumberOf
    <3>4. \A num : \A j \in I!ByKey(p, num) : j \in I!Id /\ cards[j].of = p
      BY DEF I!ByKey, I!Live
    <3> HIDE DEF i
    <3>5. CASE i = I!NoRow /\ I!ByKey(p, I!NumberOf(job[m].kind)) = {}
      BY <3>3, <3>5
    <3>6. CASE i \in I!ByKey(p, I!NumberOf(job[m].kind))
      <4>1. i # I!NoRow
        BY <3>4, <3>6, ImportsAssumption DEF I!Id, I!NoRow
      <4> QED BY <3>4, <3>6, <4>1
    <3> QED BY <3>2, <3>5, <3>6
  <2> QED BY <2>3, <2>4
<1> HIDE DEF i, conflict, skipped
<1>4. passed \in CommandRow /\ chosen \in CommandRow
  <2>1. [job[m] EXCEPT !.todo = job[m].todo \ {p}] \in CommandRow
    BY <1>1 DEF CommandRow
  <2>2. passed \in CommandRow
    BY <1>1, <2>1 DEF CommandRow
  <2>3. [[job[m] EXCEPT !.todo = job[m].todo \ {p}] EXCEPT !.of = p] \in CommandRow
    BY <1>1, <2>1 DEF CommandRow
  <2>4. [[[job[m] EXCEPT !.todo = job[m].todo \ {p}] EXCEPT !.of = p] EXCEPT !.row = i] \in CommandRow
    BY <1>3, <2>3 DEF CommandRow
  <2>5. chosen \in CommandRow
    BY <2>4 DEF CommandRow, Importing
  <2> QED BY <2>2, <2>5
<1> DEFINE r == IF skipped \/ conflict THEN passed ELSE chosen
<1>5. job'[m] = r /\ r \in CommandRow
  BY <1>2, <1>4 DEF ImportsInv, ImportsTyped
<1>6. /\ \A q : HasVariant(q)' <=> HasVariant(q)
      /\ I!Printing' = I!Printing /\ I!Slugs' = I!Slugs
      /\ \A q, num : I!ByKey(q, num)' = I!ByKey(q, num)
  BY <1>1 DEF HasVariant, I!Live, I!Printing, I!Id, I!Slugs, I!ByKey
<1>7. RunningOK(m)'
  <2>1. job'[m].kind = job[m].kind /\ job'[m].taken = job[m].taken
    BY <1>1, <1>5 DEF CommandRow
  <2> QED BY <1>1, <1>6, <2>1 DEF RunningOK, Importing, I!Kinds, I!Nobody, I!NoRow
<1>8. WritingOK(m)' /\ CompleteOK(m)'
  <2>1. CASE skipped \/ conflict
    <3>1. /\ job'[m].at = "next" /\ job'[m].of = "none" /\ job'[m].todo = job[m].todo \ {p}
          /\ job'[m].missing = job[m].missing
          /\ (~job[m].missing => job'[m].conflicts = job[m].conflicts \cup {p})
      BY <1>1, <1>5, <2>1 DEF CommandRow, WritingOK, skipped
    <3>2. WritingOK(m)'
      BY <3>1 DEF WritingOK
    <3>3. CompleteOK(m)'
      <4>1. ASSUME ~job'[m].missing,
                   NEW q \in I!Printing' \ (job'[m].todo \cup job'[m].conflicts \cup {job'[m].of})
            PROVE  HasVariant(q)'
        <5>1. q \in I!Printing \ (job[m].todo \cup job[m].conflicts \cup {job[m].of})
          BY <1>1, <1>6, <3>1, <4>1 DEF WritingOK
        <5> QED BY <1>1, <1>6, <3>1, <4>1, <5>1 DEF CompleteOK, Importing
      <4> QED BY <3>1, <4>1 DEF CompleteOK
    <3> QED BY <3>2, <3>3
  <2>2. CASE ~(skipped \/ conflict)
    <3>1. /\ job'[m].at = "write" /\ job'[m].of = p /\ job'[m].row = i
          /\ job'[m].todo = job[m].todo \ {p} /\ job'[m].conflicts = job[m].conflicts
          /\ job'[m].missing = job[m].missing
      BY <1>1, <1>5, <2>2 DEF CommandRow
    <3>2. WritingOK(m)'
      BY <1>1, <1>3, <1>6, <3>1 DEF WritingOK, I!NoRow
    <3>3. CompleteOK(m)'
      <4>1. ASSUME ~job'[m].missing,
                   NEW q \in I!Printing' \ (job'[m].todo \cup job'[m].conflicts \cup {job'[m].of})
            PROVE  HasVariant(q)'
        <5>1. q \in I!Printing \ (job[m].todo \cup job[m].conflicts \cup {job[m].of})
          <6>1. q # "none" /\ q \in I!Printing
            BY <1>6, <4>1, ImportsAssumption DEF I!Printing
          <6>2. q \notin job[m].todo /\ q \notin job[m].conflicts
            BY <3>1, <4>1
          <6> QED BY <1>1, <6>1, <6>2 DEF WritingOK
        <5> QED BY <1>1, <1>6, <3>1, <4>1, <5>1 DEF CompleteOK, Importing
      <4> QED BY <3>1, <4>1 DEF CompleteOK
    <3> QED BY <3>2, <3>3
  <2> QED BY <2>1, <2>2
<1>9. ordered' \in SUBSET I!Id
  BY <1>1 DEF ImportsInv, ImportsTyped
<1>10. job' = [job EXCEPT ![m] = r]
  BY <1>2
<1> HIDE DEF r
<1> QED BY <1>1, <1>5, <1>7, <1>8, <1>9, <1>10, NothingWritten, CommandStep

\* The slug of the row that a command writes where no index refuses it.
LEMMA WrittenSlug ==
    ASSUME ImportsInv, NEW m \in Call, job[m].at = "write", NEW i, NEW slug,
           i = I!Target(m), i # I!NoRow \/ I!Spare # {},
           slug = IF i # I!NoRow /\ job[m].kind \in {"pack", "fixture"} THEN cards[i].slug
                  ELSE I!SlugFor(m),
           \A j \in I!Live \ {i} : cards[j].slug # slug
    PROVE  /\ job[m].of \in I!Printing
           /\ i # I!NoRow => i \in I!Live /\ cards[i].of = job[m].of /\ slug = cards[i].slug
                             /\ (game = "api" => cards[i].num = "edid")
           /\ i = I!NoRow => slug \notin I!Slugs /\ SlugOK(job[m].of, slug)
                             /\ slug = <<I!Base(job[m].of), slug[2]>>
<1> DEFINE p == job[m].of
<1>1. /\ RunningOK(m) /\ WritingOK(m) /\ job[m] \in CommandRow /\ ImportsTyped /\ SlugsOK
      /\ p \in I!Printing /\ job[m].kind \in I!Kinds /\ job[m].taken \subseteq I!Slugs
      /\ (job[m].kind = "api") = (game = "api")
  BY DEF ImportsInv, ImportsTyped, RunningOK, WritingOK, Importing
<1>2. job[m].row # I!NoRow => job[m].row \in I!Live /\ cards[job[m].row].of = p
                              /\ I!SlugFor(m) = cards[job[m].row].slug
  BY <1>1 DEF WritingOK, CommandRow, I!Live, I!SlugFor
<1>3. job[m].kind = "tor" => i = job[m].row
  BY DEF I!Target
<1>4. job[m].kind # "tor" =>
        \/ i = I!NoRow /\ I!ByKey(p, I!NumberOf(job[m].kind)) = {}
        \/ i \in I!ByKey(p, I!NumberOf(job[m].kind))
  <2>1. I!ByKey(p, I!NumberOf(job[m].kind)) \in SUBSET I!Id
    BY DEF I!ByKey, I!Live
  <2>2. job[m].kind # "tor" => i = I!FirstOf(I!ByKey(p, I!NumberOf(job[m].kind)))
    BY DEF I!Target
  <2> QED BY <2>1, <2>2, LeastRow
<1>5. \A num : \A j \in I!ByKey(p, num) :
        j \in I!Live /\ j # I!NoRow /\ cards[j].of = p /\ cards[j].num = num
  BY ImportsAssumption DEF I!ByKey, I!Live, I!Id, I!NoRow
<1>6. ASSUME i # I!NoRow
      PROVE  i \in I!Live /\ cards[i].of = p /\ slug = cards[i].slug
             /\ (game = "api" => cards[i].num = "edid")
  <2>1. i \in I!Live /\ cards[i].of = p
    BY <1>2, <1>3, <1>4, <1>5, <1>6
  <2>2. CASE job[m].kind \in {"pack", "fixture"}
    BY <1>1, <1>6, <2>1, <2>2
  <2>3. CASE job[m].kind = "tor"
    BY <1>1, <1>2, <1>3, <1>6, <2>1, <2>3
  <2>4. CASE job[m].kind = "api" /\ job[m].row # I!NoRow
    <3>1. slug = cards[job[m].row].slug /\ job[m].row \in I!Live
      BY <1>2, <2>4
    <3>2. job[m].row = i
      BY <3>1
    <3>3. i \in I!ByKey(p, "edid")
      BY <1>4, <1>6, <2>4 DEF I!NumberOf
    <3> QED BY <1>5, <2>1, <3>1, <3>2, <3>3
  <2>5. CASE job[m].kind = "api" /\ job[m].row = I!NoRow
    <3>1. game = "api" /\ i \in I!ByKey(p, "edid")
      BY <1>1, <1>4, <1>6, <2>5 DEF I!NumberOf
    <3>2. cards[i].slug \notin job[m].taken /\ cards[i].num = "edid"
      BY <1>1, <1>5, <2>5, <3>1 DEF WritingOK
    <3>3. PICK k \in 1..MaxSlug : cards[i].slug = <<"base", k>>
      <4>1. SlugOK(cards[i].of, cards[i].slug) /\ cards[i].slug \in SlugSet
        BY <1>1, <2>1 DEF SlugsOK, ImportsTyped, CardRow, I!Live
      <4>2. cards[i].slug[1] = "base" /\ cards[i].slug[2] \in 1..MaxSlug
        BY <3>1, <4>1 DEF SlugOK, I!Base
      <4>3. cards[i].slug = <<cards[i].slug[1], cards[i].slug[2]>>
        BY <4>1 DEF SlugSet
      <4> QED BY <4>2, <4>3
    <3>4. PICK n \in 1..k : I!UniqueSlug("base", job[m].taken) = <<"base", n>>
      <4> DEFINE base == "base"
                 taken == job[m].taken
      <4>1. <<base, k>> \notin taken
        BY <3>2, <3>3
      <4> HIDE DEF base, taken
      <4>2. \E n \in 1..k : /\ I!UniqueSlug(base, taken) = <<base, n>> /\ <<base, n>> \notin taken
                            /\ \A j \in 1..n : j = n \/ <<base, j>> \in taken
        BY <4>1, LeastSlug
      <4> QED BY <4>2 DEF base, taken
    <3>5. slug = <<"base", n>>
      BY <2>5, <3>1, <3>4 DEF I!SlugFor, I!Base
    <3>6. <<"base", n>> \in I!Slugs
      <4>1. CASE n = k
        BY <2>1, <3>3, <4>1 DEF I!Slugs
      <4>2. CASE n # k
        <5>1. SlugOK(cards[i].of, <<"base", k>>)
          BY <1>1, <2>1, <3>3 DEF SlugsOK
        <5> QED BY <3>1, <4>2, <5>1 DEF SlugOK
      <4> QED BY <4>1, <4>2
    <3>7. PICK j \in I!Live : cards[j].slug = slug
      BY <3>5, <3>6 DEF I!Slugs
    <3>8. j = i
      BY <3>7
    <3> QED BY <2>1, <3>2, <3>7, <3>8
  <2> QED BY <1>1, <2>2, <2>3, <2>4, <2>5 DEF I!Kinds
<1>7. ASSUME i = I!NoRow
      PROVE  slug \notin I!Slugs /\ SlugOK(p, slug) /\ slug = <<I!Base(p), slug[2]>>
  <2>1. I!Live \ {i} = I!Live
    BY <1>7, ImportsAssumption DEF I!Live, I!Id, I!NoRow
  <2>2. slug \notin I!Slugs
    BY <2>1 DEF I!Slugs
  <2>3. slug = I!SlugFor(m) /\ I!Spare # {}
    BY <1>7
  <2>4. job[m].row = I!NoRow
    <3> SUFFICES ASSUME job[m].row # I!NoRow PROVE FALSE
      OBVIOUS
    <3> QED BY <1>2, <2>1, <2>3
  <2>5. CASE job[m].kind = "fixture"
    <3>1. slug = <<I!Base(p), 1>>
      BY <2>3, <2>4, <2>5 DEF I!SlugFor
    <3>2. 1 \in 1..MaxSlug
      BY <2>3, ImportsAssumption DEF I!Spare, I!Id
    <3>3. game # "api"
      BY <1>1, <2>5
    <3> QED BY <2>2, <3>1, <3>2, <3>3 DEF SlugOK
  <2>6. CASE job[m].kind # "fixture"
    <3>1. slug = I!UniqueSlug(I!Base(p), job[m].taken)
      BY <2>3, <2>4, <2>6 DEF I!SlugFor
    <3> QED BY <1>1, <2>2, <2>3, <3>1, NewSlug
  <2> QED BY <2>5, <2>6
<1> QED BY <1>1, <1>6, <1>7

LEMMA CardWritten ==
    ASSUME ImportsInv, NEW m \in Call, I!WriteCard(m) PROVE ImportsInv'
<1> DEFINE i == I!Target(m)
           slug == IF i # I!NoRow /\ job[m].kind \in {"pack", "fixture"} THEN cards[i].slug
                   ELSE I!SlugFor(m)
           where == IF i = I!NoRow THEN I!Min(I!Spare) ELSE i
           one(art) == I!Written(job[m].kind, i, job[m].of, slug, art)
           written == [[[job[m] EXCEPT !.at = "variant"] EXCEPT !.row = where]
                        EXCEPT !.taken = job[m].taken \cup {slug}]
           refused == [[[[job[m] EXCEPT !.at = "next"] EXCEPT !.of = "none"] EXCEPT !.row = I!NoRow]
                        EXCEPT !.conflicts = job[m].conflicts \cup {job[m].of}]
<1>1. /\ job[m].at = "write" /\ UNCHANGED <<game, ordered, pruning>>
      /\ job[m] \in CommandRow /\ job \in [Call -> CommandRow]
      /\ RunningOK(m) /\ WritingOK(m) /\ CompleteOK(m) /\ ordered' \in SUBSET I!Id
      /\ ImportsTyped /\ SlugsOK
  BY DEF I!WriteCard, ImportsInv, ImportsTyped
<1>2. PICK art \in I!Images(job[m].kind) :
        /\ i # I!NoRow \/ I!Spare # {}
        /\ \/ /\ ~I!Clashes(i, one(art)) /\ cards' = [cards EXCEPT ![where] = one(art)]
              /\ job' = [job EXCEPT ![m].at = "variant", ![m].row = where, ![m].taken = @ \cup {slug}]
           \/ /\ UNCHANGED cards
              /\ \/ job' = [job EXCEPT ![m].at = "next", ![m].of = "none", ![m].row = I!NoRow,
                                       ![m].conflicts = @ \cup {job[m].of}]
                 \/ job' = [job EXCEPT ![m] = I!NoJob]
  BY DEF I!WriteCard, I!Abort
<1> HIDE DEF i, slug, where
<1>3. ASSUME ~I!Clashes(i, one(art)), cards' = [cards EXCEPT ![where] = one(art)],
             job' = [job EXCEPT ![m].at = "variant", ![m].row = where, ![m].taken = @ \cup {slug}]
      PROVE  ImportsInv'
  <2>1. \A j \in I!Live \ {i} : cards[j].slug # slug
    BY <1>3 DEF I!Clashes, I!Written
  <2>2. /\ job[m].of \in I!Printing
        /\ i # I!NoRow => i \in I!Live /\ cards[i].of = job[m].of /\ slug = cards[i].slug
                          /\ (game = "api" => cards[i].num = "edid")
        /\ i = I!NoRow => slug \notin I!Slugs /\ SlugOK(job[m].of, slug)
                          /\ slug = <<I!Base(job[m].of), slug[2]>>
    BY <1>1, <1>2, <2>1, WrittenSlug DEF i, slug
  <2>3. where \in I!Id /\ (i = I!NoRow => where \in I!Spare)
    <3>1. CASE i = I!NoRow
      <4>1. I!Spare \in SUBSET I!Id /\ I!Spare # {}
        BY <1>2, <3>1 DEF I!Spare
      <4>2. I!Min(I!Spare) \in I!Spare
        BY <4>1, LeastRow, ImportsAssumption DEF I!FirstOf, I!Id, I!NoRow
      <4> QED BY <3>1, <4>1, <4>2 DEF where
    <3>2. CASE i # I!NoRow
      BY <2>2, <3>2 DEF where, I!Live
    <3> QED BY <3>1, <3>2
  <2>4. slug \in SlugSet /\ SlugOK(job[m].of, slug)
    <3>1. CASE i = I!NoRow
      <4>1. slug[2] \in Nat /\ I!Base(job[m].of) \in {"none", "base"} \cup MylCard \cup ApiCard
        BY <2>2, <3>1, ImportsAssumption DEF SlugOK, I!Base, I!Printing
      <4> QED BY <2>2, <3>1, <4>1 DEF SlugSet
    <3>2. CASE i # I!NoRow
      BY <1>1, <2>2, <3>2 DEF SlugsOK, ImportsTyped, I!Live, CardRow
    <3> QED BY <3>1, <3>2
  <2>5. one(art).of = job[m].of /\ one(art).slug = slug /\ one(art).born = slug
        /\ one(art).num = I!NumberOf(job[m].kind)
        /\ one(art).variant = (i # I!NoRow /\ cards[i].variant)
    BY <1>1, <2>2 DEF I!Written, SlugsOK, I!Live
  <2>6. one(art) \in CardRow
    <3>1. i # I!NoRow => cards[i] \in CardRow
      BY <1>1, <2>2 DEF ImportsTyped, I!Live
    <3>2. art \in BOOLEAN
      BY <1>2 DEF I!Images
    <3>3. (art \/ (job[m].kind = "pack" /\ i # I!NoRow /\ cards[i].art)) \in BOOLEAN
      OBVIOUS
    <3>4. (i # I!NoRow /\ cards[i].variant) \in BOOLEAN
      OBVIOUS
    <3>5. (IF i = I!NoRow THEN slug ELSE cards[i].born) \in SlugSet
      BY <2>4, <3>1 DEF CardRow
    <3>6. job[m].of \in MylCard \cup ApiCard \cup {"none"} /\ I!NumberOf(job[m].kind) \in {"name", "edid"}
      BY <1>1 DEF CommandRow, I!NumberOf
    <3>7. (CASE job[m].kind = "pack" -> "pack" [] job[m].kind = "api" -> "api" [] OTHER -> "tor")
            \in I!Sources
      BY DEF I!Sources
    <3>8. (job[m].kind = "tor") \in BOOLEAN
      OBVIOUS
    <3> QED BY <2>4, <3>3, <3>4, <3>5, <3>6, <3>7, <3>8 DEF I!Written, CardRow
  <2>7. Writes(where, one(art))
    <3>1. CASE i = I!NoRow
      BY <1>3, <2>2, <2>3, <2>4, <2>5, <2>6, <3>1 DEF Writes
    <3>2. CASE i # I!NoRow
      <4>1. where = i /\ i \in I!Live /\ (game = "api" => one(art).num = cards[i].num)
        BY <1>1, <2>2, <2>5, <3>2 DEF where, I!NumberOf, RunningOK, Importing
      <4> QED BY <1>3, <2>2, <2>3, <2>4, <2>5, <2>6, <3>2, <4>1 DEF Writes
    <3> QED BY <3>1, <3>2
  <2> DEFINE r == one(art)
  <2> HIDE DEF r
  <2>8. Grows /\ SlugsOK' /\ cards' \in [I!Id -> CardRow] /\ cards'[where] = r /\ where \in I!Live'
    BY <1>1, <2>7, WritesGrows DEF r
  <2>9. written \in CommandRow
    <3>1. [[job[m] EXCEPT !.at = "variant"] EXCEPT !.row = where] \in CommandRow
      BY <1>1, <2>3 DEF CommandRow, Importing
    <3> QED BY <1>1, <2>4, <3>1 DEF CommandRow
  <2>10. job' = [job EXCEPT ![m] = written]
    BY <1>1, <1>3
  <2>11. /\ job'[m].kind = job[m].kind /\ job'[m].at = "variant" /\ job'[m].of = job[m].of
         /\ job'[m].row = where /\ job'[m].taken = job[m].taken \cup {slug}
         /\ job'[m].todo = job[m].todo /\ job'[m].conflicts = job[m].conflicts
         /\ job'[m].missing = job[m].missing
    BY <1>1, <2>9, <2>10 DEF CommandRow
  <2>12. I!Slugs \subseteq I!Slugs' /\ \A p : HasVariant(p) => HasVariant(p)'
    BY <1>1, <2>8, GrowsFacts
  <2>13. RunningOK(m)'
    <3>1. slug \in I!Slugs'
      BY <2>5, <2>8 DEF I!Slugs, r
    <3> QED BY <1>1, <2>11, <2>12, <3>1 DEF RunningOK, Importing, I!Kinds, I!Nobody, I!NoRow
  <2>14. WritingOK(m)'
    BY <1>1, <2>2, <2>3, <2>5, <2>8, <2>11, ImportsAssumption
       DEF WritingOK, I!Printing, I!NoRow, I!Id, r
  <2>15. CompleteOK(m)'
    BY <1>1, <2>11, <2>12 DEF CompleteOK, Importing, I!Printing
  <2> HIDE DEF written
  <2> QED BY <1>1, <2>8, <2>9, <2>10, <2>13, <2>14, <2>15, CommandStep
<1>4. ASSUME UNCHANGED cards,
             job' = [job EXCEPT ![m].at = "next", ![m].of = "none", ![m].row = I!NoRow,
                                ![m].conflicts = @ \cup {job[m].of}]
      PROVE  ImportsInv'
  <2>1. job' = [job EXCEPT ![m] = refused]
    BY <1>1, <1>4
  <2>2. job[m].of \in I!Printing /\ I!Printing \subseteq MylCard \cup ApiCard
    BY <1>1 DEF WritingOK, I!Printing
  <2>3. refused \in CommandRow
    <3>1. [[job[m] EXCEPT !.at = "next"] EXCEPT !.of = "none"] \in CommandRow
      BY <1>1 DEF CommandRow, Importing
    <3>2. [[[job[m] EXCEPT !.at = "next"] EXCEPT !.of = "none"] EXCEPT !.row = I!NoRow] \in CommandRow
      BY <3>1 DEF CommandRow
    <3> QED BY <1>1, <2>2, <3>2 DEF CommandRow
  <2>4. /\ job'[m].kind = job[m].kind /\ job'[m].at = "next" /\ job'[m].of = "none"
        /\ job'[m].taken = job[m].taken /\ job'[m].todo = job[m].todo
        /\ job'[m].conflicts = job[m].conflicts \cup {job[m].of}
        /\ job'[m].missing = job[m].missing
    BY <1>1, <2>1, <2>3 DEF CommandRow
  <2>5. /\ I!Slugs' = I!Slugs /\ I!Printing' = I!Printing
        /\ \A p : HasVariant(p) <=> HasVariant(p)'
    BY <1>1, <1>4 DEF HasVariant, I!Live, I!Printing, I!Id, I!Slugs
  <2>6. (RunningOK(m) /\ WritingOK(m) /\ CompleteOK(m))'
    <3>1. RunningOK(m)'
      BY <1>1, <2>4, <2>5 DEF RunningOK, Importing, I!Kinds, I!Nobody, I!NoRow
    <3>2. WritingOK(m)'
      BY <2>4 DEF WritingOK
    <3>3. CompleteOK(m)'
      BY <1>1, <2>4, <2>5 DEF CompleteOK, Importing
    <3> QED BY <3>1, <3>2, <3>3
  <2> HIDE DEF refused
  <2> QED BY <1>1, <1>4, <2>1, <2>3, <2>6, NothingWritten, CommandStep
<1>5. ASSUME UNCHANGED cards, job' = [job EXCEPT ![m] = I!NoJob] PROVE ImportsInv'
  BY <1>1, <1>5, EndedStep
<1> QED BY <1>2, <1>3, <1>4, <1>5

LEMMA VariantWritten ==
    ASSUME ImportsInv, NEW m \in Call, I!WriteVariant(m) PROVE ImportsInv'
<1> DEFINE i == job[m].row
           r == [cards[i] EXCEPT !.variant = TRUE]
           next == [[[job[m] EXCEPT !.at = "next"] EXCEPT !.of = "none"] EXCEPT !.row = I!NoRow]
<1>1. /\ job[m].at = "variant" /\ UNCHANGED <<game, ordered, pruning>>
      /\ job[m] \in CommandRow /\ job \in [Call -> CommandRow]
      /\ RunningOK(m) /\ WritingOK(m) /\ CompleteOK(m) /\ ordered' \in SUBSET I!Id
      /\ ImportsTyped /\ SlugsOK
  BY DEF I!WriteVariant, ImportsInv, ImportsTyped
<1>2. i \in I!Live /\ cards[i].of = job[m].of /\ cards[i] \in CardRow /\ i \in I!Id
  BY <1>1 DEF WritingOK, CommandRow, I!Live, ImportsTyped
<1>3. cards' = [cards EXCEPT ![i] = r]
  BY <1>1 DEF I!WriteVariant, ImportsTyped
<1>4. r \in CardRow /\ r.of = cards[i].of /\ r.slug = cards[i].slug /\ r.born = cards[i].born
      /\ r.num = cards[i].num /\ r.variant
  BY <1>2 DEF CardRow
<1> HIDE DEF r
<1>5. Writes(i, r)
  BY <1>1, <1>2, <1>3, <1>4 DEF Writes, SlugsOK, I!Live
<1>6. Grows /\ SlugsOK' /\ cards' \in [I!Id -> CardRow] /\ cards'[i] = r /\ i \in I!Live'
  BY <1>1, <1>5, WritesGrows
<1>7. next \in CommandRow
  <2>1. [[job[m] EXCEPT !.at = "next"] EXCEPT !.of = "none"] \in CommandRow
    BY <1>1 DEF CommandRow, Importing
  <2> QED BY <2>1 DEF CommandRow
<1>8. job' = [job EXCEPT ![m] = next]
  BY <1>1 DEF I!WriteVariant
<1>9. /\ job'[m].kind = job[m].kind /\ job'[m].at = "next" /\ job'[m].of = "none"
      /\ job'[m].taken = job[m].taken /\ job'[m].todo = job[m].todo
      /\ job'[m].conflicts = job[m].conflicts /\ job'[m].missing = job[m].missing
  BY <1>1, <1>7, <1>8 DEF CommandRow
<1>10. I!Slugs \subseteq I!Slugs' /\ \A p : HasVariant(p) => HasVariant(p)'
  BY <1>1, <1>6, GrowsFacts
<1>11. \A q : q = job[m].of => HasVariant(q)'
  BY <1>2, <1>4, <1>6 DEF HasVariant
<1>12. RunningOK(m)'
  BY <1>1, <1>9, <1>10 DEF RunningOK, Importing, I!Kinds, I!Nobody, I!NoRow
<1>13. WritingOK(m)'
  BY <1>9 DEF WritingOK
<1>14. CompleteOK(m)'
  <2> SUFFICES ASSUME ~job[m].missing,
                      NEW q \in I!Printing \ (job[m].todo \cup job[m].conflicts)
               PROVE  HasVariant(q)'
    BY <1>1, <1>9 DEF CompleteOK, Importing, I!Printing
  <2>1. CASE q = job[m].of
    BY <1>11, <2>1
  <2>2. CASE q # job[m].of
    BY <1>1, <1>10, <2>2 DEF CompleteOK, Importing
  <2> QED BY <2>1, <2>2
<1> HIDE DEF next, i
<1> QED BY <1>1, <1>6, <1>7, <1>8, <1>12, <1>13, <1>14, CommandStep

LEMMA CommandEnds ==
    ASSUME ImportsInv, NEW m \in Call, I!End(m) PROVE ImportsInv'
<1> DEFINE r == [I!NoJob EXCEPT !.at = "ended", !.missing = job[m].missing,
                                !.conflicts = job[m].conflicts]
<1>1. /\ job[m].at = "next" /\ job[m].todo = {} /\ UNCHANGED <<game, cards, ordered, pruning>>
      /\ job' = [job EXCEPT ![m] = r] /\ job[m] \in CommandRow
      /\ WritingOK(m) /\ CompleteOK(m) /\ ordered' \in SUBSET I!Id
  BY DEF I!End, ImportsInv, ImportsTyped
<1>2. r \in CommandRow /\ r.at = "ended" /\ r.missing = job[m].missing
      /\ r.conflicts = job[m].conflicts
  <2> DEFINE a == [[I!NoJob EXCEPT !.at = "ended"] EXCEPT !.missing = job[m].missing]
  <2>1. a \in CommandRow /\ a.at = "ended" /\ a.missing = job[m].missing
    BY <1>1, IdleCommand DEF CommandRow
  <2> HIDE DEF a
  <2> DEFINE b == [a EXCEPT !.conflicts = job[m].conflicts]
  <2>2. b \in CommandRow /\ b.at = "ended" /\ b.missing = job[m].missing
        /\ b.conflicts = job[m].conflicts
    BY <1>1, <2>1 DEF CommandRow
  <2>3. r = b
    BY DEF a
  <2> HIDE DEF r, b
  <2> QED BY <2>2, <2>3
<1> HIDE DEF r
<1>3. job'[m] = r
  BY <1>1 DEF ImportsInv, ImportsTyped
<1>4. /\ I!Printing' = I!Printing /\ \A p : HasVariant(p) <=> HasVariant(p)'
  BY <1>1 DEF HasVariant, I!Live, I!Printing, I!Id
<1>5. RunningOK(m)' /\ WritingOK(m)'
  BY <1>2, <1>3 DEF RunningOK, WritingOK, Importing
<1>6. CompleteOK(m)'
  <2> SUFFICES ASSUME ~job[m].missing, NEW q \in I!Printing \ job[m].conflicts PROVE HasVariant(q)'
    BY <1>2, <1>3, <1>4 DEF CompleteOK, Importing
  <2>1. q # job[m].of
    BY <1>1, ImportsAssumption DEF WritingOK, I!Printing
  <2> QED BY <1>1, <1>4, <2>1 DEF CompleteOK, Importing
<1> QED BY <1>1, <1>2, <1>5, <1>6, NothingWritten, CommandStep

LEMMA SubmissionApproved ==
    ASSUME ImportsInv, NEW p \in I!Printing, NEW num \in {"name", "edid"}, I!Approve(p, num)
    PROVE  ImportsInv'
<1> DEFINE slug == I!UniqueSlug(I!Base(p), I!Slugs)
           i == I!Min(I!Spare)
           r == [of |-> p, num |-> num, slug |-> slug, source |-> "submission",
                 art |-> FALSE, rich |-> FALSE, variant |-> TRUE, born |-> slug]
<1>1. /\ I!Spare # {} /\ cards' = [cards EXCEPT ![i] = r] /\ UNCHANGED <<game, ordered, job, pruning>>
      /\ ImportsTyped /\ SlugsOK
  BY DEF I!Approve, ImportsInv
<1>2. i \in I!Spare /\ i \in I!Id
  <2>1. I!Spare \in SUBSET I!Id
    BY DEF I!Spare
  <2>2. I!Min(I!Spare) \in I!Spare
    BY <1>1, <2>1, LeastRow, ImportsAssumption DEF I!FirstOf, I!Id, I!NoRow
  <2> QED BY <2>1, <2>2
<1>3. SlugOK(p, slug) /\ slug = <<I!Base(p), slug[2]>>
  BY <1>1, NewSlug
<1>4. slug \notin I!Slugs
  <2> DEFINE base == I!Base(p)
             taken == I!Slugs
  <2>1. PICK k \in 1..MaxSlug : <<base, k>> \notin taken
    BY <1>1, SomeSlugIsFree
  <2> HIDE DEF base, taken, slug
  <2>2. PICK n \in 1..k : /\ I!UniqueSlug(base, taken) = <<base, n>> /\ <<base, n>> \notin taken
                          /\ \A j \in 1..n : j = n \/ <<base, j>> \in taken
    BY <2>1, LeastSlug
  <2>3. I!UniqueSlug(base, taken) \notin taken
    BY <2>2
  <2> QED BY <2>3 DEF base, taken, slug
<1> HIDE DEF slug, i
<1>5. slug \in SlugSet
  <2>1. slug[2] \in Nat /\ I!Base(p) \in {"none", "base"} \cup MylCard \cup ApiCard
    BY <1>3, ImportsAssumption DEF SlugOK, I!Base, I!Printing
  <2> QED BY <1>3, <2>1 DEF SlugSet
<1>6. r \in CardRow /\ r.of = p /\ r.slug = slug /\ r.born = slug
  BY <1>5 DEF CardRow, I!Sources, I!Printing
<1> HIDE DEF r
<1>7. Writes(i, r)
  BY <1>1, <1>2, <1>3, <1>4, <1>6 DEF Writes
<1>8. Grows /\ SlugsOK' /\ cards' \in [I!Id -> CardRow]
  BY <1>1, <1>7, WritesGrows
<1>9. ImportsTyped'
  BY <1>1, <1>8 DEF ImportsTyped, I!Nobody, I!Id, I!NoRow
<1>10. \A m \in Call : (RunningOK(m) /\ WritingOK(m) /\ CompleteOK(m))'
  BY <1>1, <1>8, OthersGrow
<1> QED BY <1>8, <1>9, <1>10 DEF ImportsInv

\* What no command's row or knowledge depends on.
LEMMA CatalogUntouched ==
    ASSUME ImportsInv, UNCHANGED <<game, cards, job>>, ordered' \in SUBSET I!Id,
           pruning' \in SUBSET (I!Id \cup I!Nobody),
           pruning' # I!Nobody => game = "myl",
           pruning' = pruning \/ \A m \in Call : job[m].at \notin Importing
    PROVE  ImportsInv'
<1>1. Grows /\ SlugsOK' /\ cards' \in [I!Id -> CardRow]
  BY NothingWritten
<1>2. ImportsTyped'
  BY DEF ImportsInv, ImportsTyped, I!Nobody, I!Id, I!NoRow
<1>3. ASSUME NEW m \in Call PROVE (RunningOK(m) /\ WritingOK(m) /\ CompleteOK(m))'
  <2>1. CASE pruning' = pruning
    BY <1>1, <2>1, OthersGrow
  <2>2. CASE job[m].at \notin Importing
    <3>1. RunningOK(m)' /\ WritingOK(m)'
      BY <2>2 DEF RunningOK, WritingOK, Importing
    <3>2. I!Printing' = I!Printing /\ \A p : HasVariant(p) <=> HasVariant(p)'
      BY DEF HasVariant, I!Live, I!Printing, I!Id
    <3> QED BY <3>1, <3>2 DEF CompleteOK, ImportsInv
  <2> QED BY <2>1, <2>2
<1> QED BY <1>1, <1>2, <1>3 DEF ImportsInv

LEMMA PruneEnds == ASSUME ImportsInv, I!EndPrune PROVE ImportsInv'
<1>1. /\ job' = [m \in Call |-> I!NoJob] /\ UNCHANGED <<game, ordered>> /\ pruning' = I!Nobody
      /\ cards' = cards \/ cards' = [i \in I!Id |-> IF i \in pruning THEN I!Unused ELSE cards[i]]
      /\ game = "myl" /\ ImportsTyped /\ SlugsOK
  BY DEF I!EndPrune, ImportsInv, ImportsTyped
<1>2. /\ I!Unused \in CardRow /\ I!Unused.of = "none" /\ I!Unused.slug = I!Unused.born
  BY DEF I!Unused, CardRow, SlugSet, I!Sources
<1>3. /\ cards' \in [I!Id -> CardRow]
      /\ \A i \in I!Id : cards'[i] = cards[i] \/ cards'[i] = I!Unused
  <2>1. cards \in [I!Id -> CardRow]
    BY <1>1 DEF ImportsTyped
  <2>2. CASE cards' = cards
    BY <2>1, <2>2
  <2>3. CASE cards' = [i \in I!Id |-> IF i \in pruning THEN I!Unused ELSE cards[i]]
    BY <1>2, <2>1, <2>3
  <2> QED BY <1>1, <2>2, <2>3
<1>4. SlugsOK'
  <2>1. \A i \in I!Id : cards'[i].slug = cards'[i].born
    BY <1>1, <1>2, <1>3 DEF SlugsOK
  <2>2. ASSUME NEW i \in I!Live' PROVE SlugOK(cards'[i].of, cards'[i].slug)
    <3>1. i \in I!Live /\ cards'[i] = cards[i]
      BY <1>1, <1>2, <1>3, ImportsAssumption DEF I!Live, I!Printing, I!Id
    <3> QED BY <1>1, <3>1 DEF SlugsOK
  <2>3. \A of, slug : SlugOK(of, slug) => SlugOK(of, slug)'
    BY <1>1 DEF SlugOK, I!Base
  <2> QED BY <2>1, <2>2, <2>3 DEF SlugsOK, I!Id
<1>5. ImportsTyped'
  BY <1>1, <1>3, IdleCommand DEF ImportsTyped, I!Nobody, I!Id, I!NoRow
<1>6. \A m \in Call : job'[m].at = "idle"
  BY <1>1 DEF I!NoJob
<1> QED BY <1>4, <1>5, <1>6 DEF ImportsInv, RunningOK, WritingOK, CompleteOK, Importing

LEMMA ImportsStep == ASSUME ImportsInv, I!Next PROVE ImportsInv'
<1>1. CASE \E m \in Call : \E kind \in I!Kinds, force, missing \in BOOLEAN :
             I!Start(m, kind, force, missing)
  BY <1>1, CommandStarts
<1>2. CASE \E m \in Call : \E p \in I!Printing : I!Look(m, p)
  BY <1>2, CardLookedUp
<1>3. CASE \E m \in Call : I!WriteCard(m) \/ I!WriteVariant(m) \/ I!End(m)
  BY <1>3, CardWritten, VariantWritten, CommandEnds
<1>4. CASE \E m \in Call : I!Crash(m)
  BY <1>4, EndedStep DEF I!Crash, I!Abort
<1>5. CASE \E p \in I!Printing, num \in {"name", "edid"} : I!Approve(p, num)
  BY <1>5, SubmissionApproved
<1>6. CASE \E i \in I!Id : I!Order(i)
  <2>1. /\ UNCHANGED <<game, cards, job, pruning>> /\ ordered' \in SUBSET I!Id
        /\ pruning \in SUBSET (I!Id \cup I!Nobody)
        /\ pruning # I!Nobody => game = "myl"
    BY <1>6 DEF I!Order, ImportsInv, ImportsTyped
  <2> QED BY <2>1, CatalogUntouched
<1>7. CASE I!BeginPrune
  <2>1. /\ UNCHANGED <<game, cards, job, ordered>> /\ ordered \in SUBSET I!Id /\ game = "myl"
        /\ \A m \in Call : job[m].at \notin Importing
    BY <1>7 DEF I!BeginPrune, ImportsInv, ImportsTyped, Importing
  <2>2. pruning' \in SUBSET (I!Id \cup I!Nobody)
    BY <1>7 DEF I!BeginPrune, I!Live
  <2> QED BY <2>1, <2>2, CatalogUntouched
<1>8. CASE I!EndPrune
  BY <1>8, PruneEnds
<1> QED BY <1>1, <1>2, <1>3, <1>4, <1>5, <1>6, <1>7, <1>8 DEF I!Next

----------------------------------------------------------------------------
(* The components in Market.                                               *)

TradeInv ==
    /\ focus = "alerts" => AlertsInv
    /\ focus = "reports" => ReportsInv
    /\ focus = "listings" => ListingsInv
    /\ focus = "lots" => LotsInv
    /\ focus = "carts" => CartsInv
    /\ focus = "imports" => ImportsInv

LEMMA TradeStart == Init => TradeInv
<1> SUFFICES ASSUME Init PROVE TradeInv
  OBVIOUS
<1>1. /\ focus = "alerts" => A!Init
      /\ focus = "reports" => R!Init
      /\ focus = "listings" => L!Init
      /\ focus = "lots" => D!Init
      /\ focus = "carts" => C!Init
      /\ focus = "imports" => I!Init
  BY DEF Init
<1> QED BY <1>1, AlertsStart, ReportsStart, ListingsStart, LotsStart, CartsStart, ImportsStart
        DEF TradeInv

LEMMA TradeStep == TradeInv /\ [Next]_vars => TradeInv'
<1> SUFFICES ASSUME TradeInv, [Next]_vars PROVE TradeInv'
  OBVIOUS
<1>1. focus' = focus
  BY DEF Next, vars, frame
<1>2. CASE UNCHANGED vars
  <2>1. AlertsInv => AlertsInv'
    BY <1>2 DEF vars, tradeVars, alertVars, AlertsInv, A!TypeOK
  <2>2. ReportsInv => ReportsInv'
    BY <1>2 DEF vars, tradeVars, reportVars, ReportsInv, R!TypeOK, R!OneOpenReport, R!Recent, Counting
  <2>3. ASSUME ListingsInv PROVE ListingsInv'
    <3>1. UNCHANGED <<listing, sale, suspended, editing, excused>>
      BY <1>2 DEF vars, tradeVars, listingVars
    <3>2. \A l \in Listing : StockOK(l)'
      BY <2>3, <3>1 DEF ListingsInv, StockOK, Having
    <3>3. \A k \in Call : CallOK(k)'
      BY <2>3, <3>1 DEF ListingsInv, CallOK
    <3>4. (L!SuspendedIsOffline)'
      BY <2>3, <3>1 DEF ListingsInv, L!SuspendedIsOffline, L!OnSale
    <3> QED BY <2>3, <3>1, <3>2, <3>3, <3>4 DEF ListingsInv
  <2>4. ASSUME LotsInv PROVE LotsInv'
    <3>1. UNCHANGED <<lot, confirming, owed>>
      BY <1>2 DEF vars, tradeVars, lotVars
    <3>2. ASSUME NEW o \in LotOrder, NEW l \in Lot PROVE DeductsOK(o, l, confirming[o].next)'
      BY <2>4, <3>1, TakenIsRigid DEF LotsInv, DeductsOK
    <3> QED BY <2>4, <3>1, <3>2 DEF LotsInv, D!TypeOK, D!LotMatchesSales
  <2>5. ASSUME CartsInv PROVE CartsInv'
    <3>1. UNCHANGED <<cart, browsing, asked, bought, overlapped>> /\ (C!TypeOK)'
      BY <1>2, <2>5 DEF vars, tradeVars, cartVars, CartsInv, C!TypeOK
    <3>2. CallsEnd
      BY <3>1 DEF CallsEnd
    <3> QED BY <2>5, <3>2, EndStep
  <2>6. ASSUME ImportsInv PROVE ImportsInv'
    <3>1. UNCHANGED <<game, cards, ordered, job, pruning>>
      BY <1>2 DEF vars, tradeVars, importVars
    <3>2. /\ ordered' \in SUBSET I!Id /\ pruning' \in SUBSET (I!Id \cup I!Nobody)
          /\ pruning' # I!Nobody => game = "myl"
      BY <2>6, <3>1 DEF ImportsInv, ImportsTyped
    <3> QED BY <2>6, <3>1, <3>2, CatalogUntouched
  <2> QED BY <1>1, <2>1, <2>2, <2>3, <2>4, <2>5, <2>6 DEF TradeInv
<1>3. CASE Next
  <2>1. /\ focus = "alerts" => A!Next
        /\ focus = "reports" => R!Next
        /\ focus = "listings" => L!Next
        /\ focus = "lots" => D!Next
        /\ focus = "carts" => C!Next
        /\ focus = "imports" => I!Next
    BY <1>3 DEF Next
  <2> QED BY <1>1, <2>1, AlertsStep, ReportsStep, ListingsStep, LotsStep, CartsStep, ImportsStep
          DEF TradeInv
<1> QED BY <1>2, <1>3

(* A user is mailed about a listing at a price once, however many checks   *)
(* find it together, and whatever the user watches and prefers meanwhile   *)
(* (wishlist.service.ts:124).                                              *)
THEOREM HitsAreMailedOnce == Spec => []HitMailedOnce
<1>1. AlertsInv => A!TypeOK /\ A!HitMailedOnce
  BY DEF AlertsInv, A!HitMailedOnce
<1>2. TradeInv => HitMailedOnce
  BY <1>1 DEF TradeInv, HitMailedOnce
<1> QED BY <1>2, TradeStart, TradeStep, PTL DEF Spec

(* The limit of reports per window is exceeded by no more than the calls   *)
(* that counted together, and a target has one open report per reason,     *)
(* whatever calls open, assign and resolve it together                     *)
(* (reports.service.ts:38, :113).                                          *)
THEOREM ReportsStayBounded == Spec => []ReportsBounded
<1>1. ASSUME ReportsInv PROVE R!TypeOK /\ R!ReportLimit /\ R!OneOpenReport
  <2>1. R!Recent \in SUBSET Report /\ Counting \in SUBSET Call
    BY DEF R!Recent, Counting
  <2>2. Cardinality(R!Recent) \in Nat /\ Cardinality(Counting) \in Nat
    BY <2>1, CallsAndReports
  <2>3. Cardinality(Call) \in Nat /\ MaxReports \in Nat
    BY CallsAndReports
  <2>4. Cardinality(R!Recent) + Cardinality(Counting) <= MaxReports + Cardinality(Call) - 1
    BY <1>1 DEF ReportsInv
  <2>5. Cardinality(R!Recent) <= MaxReports + Cardinality(Call) - 1
    <3> HIDE DEF Counting
    <3> QED BY <2>2, <2>3, <2>4
  <2>6. R!ReportLimit
    BY <2>5, InstanceCounts DEF R!ReportLimit
  <2> QED BY <1>1, <2>6 DEF ReportsInv
<1>2. TradeInv => ReportsBounded
  BY <1>1 DEF TradeInv, ReportsBounded
<1> QED BY <1>2, TradeStart, TradeStep, PTL DEF Spec

(* A listing holds exactly the pieces of its live reservations, and has    *)
(* them, whatever its seller, the administrators and the checkouts write   *)
(* together (listings.service.ts:181).                                     *)
THEOREM ReservedIsWithinStock == Spec => []ReservedWithinStock
<1>1. TradeInv => ReservedWithinStock
  BY ListingsTyped DEF TradeInv, ReservedWithinStock
<1> QED BY <1>1, TradeStart, TradeStep, PTL DEF Spec

(* The listings of a suspended seller are off sale, but for those that a   *)
(* call in flight, or a refund, puts there (seller-suspension.ts:14).      *)
THEOREM SuspendedStaysOffline == Spec => []SuspendedIsOffline
<1>1. TradeInv => SuspendedIsOffline
  BY DEF TradeInv, SuspendedIsOffline, ListingsInv
<1> QED BY <1>1, TradeStart, TradeStep, PTL DEF Spec

(* No step moves a sold out or cancelled listing but a refund, a payment,  *)
(* or a call that had read it before (listings.service.ts:299).            *)
THEOREM ClosedListingsStayClosed == Spec => ClosedStaysClosed
<1>1. TradeInv /\ [Next]_vars => [focus = "listings" => L!ClosedStep]_vars
  BY ClosedListings DEF Next, TradeInv
<1> QED BY <1>1, TradeStart, TradeStep, PTL DEF Spec, ClosedStaysClosed

(* No confirmation loses the deduction of another from a lot, whatever its *)
(* owner enters meanwhile: a lot holds what was entered last, less what    *)
(* the orders confirmed since took (collections.service.ts:151).           *)
THEOREM LotsMatchSales == Spec => []LotMatchesSales
<1>1. TradeInv => LotMatchesSales
  BY DEF TradeInv, LotMatchesSales, LotsInv
<1> QED BY <1>1, TradeStart, TradeStep, PTL DEF Spec

(* The guest's cart and the account's, and what was bought, hold no more   *)
(* than the person put in a cart, however the merges of the two, the       *)
(* checkouts that empty them and the person's own changes overlap, unless  *)
(* two checkouts read the same cart (cart.service.ts:127,                  *)
(* orders.service.ts:219).                                                 *)
THEOREM BoughtIsAsked == Spec => []BoughtWasAsked
<1>1. ASSUME CartsInv PROVE C!TypeOK /\ C!BoughtWasAsked
  <2>1. ASSUME ~overlapped, NEW l \in CartListing PROVE C!InCarts(l) + bought[l] <= asked[l]
    <3>1. bought[l] + C!InCarts(l) <= asked[l]
      BY <1>1, <2>1, InCartsAreCovered DEF Covers, Spent
    <3>2. bought[l] \in Int /\ C!InCarts(l) \in Int
      <4>1. PICK g : IsTotal(g, [c \in Cart |-> cart[c].items[l]], Cart) /\ C!InCarts(l) = g[Cart]
        BY <1>1, InCartsIsTotal
      <4> QED BY <1>1, <4>1, CartTypes DEF IsTotal
    <3> QED BY <3>1, <3>2
  <2> QED BY <1>1, <2>1 DEF C!BoughtWasAsked, CartsInv
<1>2. TradeInv => BoughtWasAsked
  BY <1>1 DEF TradeInv, BoughtWasAsked
<1> QED BY <1>2, TradeStart, TradeStep, PTL DEF Spec

(* Re-run as often as they die, overlapping and with submissions approved  *)
(* and cards pruned meanwhile, the imports leave every card the address it *)
(* had, and a full one that ended has left each printing of its source,    *)
(* but for the conflicts it reports, on sale (import-myl-tor.ts:124).      *)
THEOREM ReimportsRepair == Spec => []ReimportRepairs
<1>1. ASSUME ImportsInv PROVE I!ImpTypeOK /\ I!ReimportRepairs
  <2>1. I!ImpTypeOK
    BY <1>1 DEF ImportsInv, ImportsTyped, I!ImpTypeOK, I!Live, CardRow, CommandRow, Importing
  <2>2. I!SlugsAreKept
    BY <1>1 DEF ImportsInv, SlugsOK, I!SlugsAreKept, I!Live
  <2>3. I!ImportComplete
    BY <1>1 DEF ImportsInv, CompleteOK, HasVariant, I!ImportComplete
  <2> QED BY <2>1, <2>2, <2>3 DEF I!ReimportRepairs
<1>2. TradeInv => ReimportRepairs
  BY <1>1 DEF TradeInv, ReimportRepairs
<1> QED BY <1>2, TradeStart, TradeStep, PTL DEF Spec
=============================================================================

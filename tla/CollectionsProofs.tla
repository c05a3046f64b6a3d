----------------------------- MODULE CollectionsProofs -----------------------------
(***************************************************************************)
(* The answers about the same lots agree, and the pages of a collection    *)
(* show what is there, for any lots, offers, sizes of a page and days.     *)
(*                                                                         *)
(* The first follows from the lots having their type: with sums, and with  *)
(* the prices of the offers having an n-th lowest.                         *)
(*                                                                         *)
(* The second is an invariant (CollectionInv).  What the list shows is as  *)
(* it is now, or is being read, or is known to be older (ListCurrent);     *)
(* what a load has got is as it is now unless something changed since it   *)
(* was asked for (LoadsCurrent); and the page of a lot has the row as it   *)
(* is, or as it was before the save that is not shown yet (SeenFits).      *)
(***************************************************************************)
EXTENDS Market, Totals, TLAPS

(* A collection: what its answers say of the lots there are, and what its  *)
(* pages have of them, or are about to read.                               *)

Forms == [quantity : 0..3, condition : E!Condition, cost : {E!NoPrice, 1}]

\* A day on which nothing had a price counts as 0, every other as what it was worth.
LotsFit ==
    /\ DOMAIN lots \subseteq 1..MaxLots /\ (\A l \in DOMAIN lots : lots[l] \in E!LotRow)
    /\ last \in Nat /\ DOMAIN lots \subseteq 1..last
    /\ begun \in BOOLEAN /\ onSale \subseteq Offer /\ day \in 0..MaxDay
    /\ DOMAIN history = 0..MaxDay /\ DOMAIN worth = 0..MaxDay
    /\ \A d \in 0..MaxDay : history[d] # E!NoPrice => history[d] = E!Captured(worth[d])

ScreenTyped ==
    /\ gadget \in {"web", "app"} /\ at \in {"LIST", "ITEM"} /\ query \in E!Query
    /\ older \subseteq E!Part \cup {"item"} /\ crossed \in BOOLEAN /\ thinned \in BOOLEAN

\* What the collection was worth on the days captured before this one.
Captures == {E!Captured(worth[d]) : d \in E!Past}

\* A summary says of a change what lies between two values.
ChangeFits(sum, values) == sum.change # E!NoPrice => \E x \in values : sum.change = sum.value - x

WasRead(got, p, values) == got.read /\ (p = "summary" => ChangeFits(got.of, values))

LoadFits(load, values) ==
    /\ DOMAIN load = {"query", "parts", "stage", "got", "since", "after"}
    /\ load.parts \subseteq E!Part /\ load.query \in E!Query
    /\ DOMAIN load.stage = load.parts /\ DOMAIN load.got = load.parts
    /\ load.since \in BOOLEAN /\ load.after \in BOOLEAN
    /\ \A p \in load.parts :
          load.stage[p] = "READ" => /\ WasRead(load.got[p], p, values)
                                    /\ p = "list" => load.got[p].of.query = load.query

LoadsFit == DOMAIN loads = {1, 2} /\ \A k \in E!Busy : LoadFits(loads[k], Captures)

ListTyped ==
    /\ DOMAIN listed = {"shown", "checked", "failed"} /\ listed.checked \subseteq 1..MaxLots
    /\ DOMAIN listed.shown = E!Part
    /\ \A p \in E!Part : listed.shown[p] = E!Unread \/ WasRead(listed.shown[p], p, Captures)

\* Nothing is read while lots are being deleted.
RemovingFits ==
    /\ removing.asked \in BOOLEAN
    /\ removing.asked =>
         /\ DOMAIN removing = {"asked", "ids", "query", "done", "shown"} /\ removing.query \in E!Query
         /\ removing.done \in BOOLEAN /\ removing.shown \in BOOLEAN /\ (removing.shown => removing.done)
         /\ gadget = "web" /\ at = "LIST"
         /\ ~crossed => removing.query = query /\ (removing.shown \/ E!Busy = {})

ItemDone == item.call # "NONE" /\ item.stage = "DONE"

ItemTyped ==
    /\ DOMAIN item = IF item.call = "NONE" THEN {"lot", "seen", "call"}
                     ELSE {"lot", "seen", "call", "sent", "stage"}
    /\ item.call \in {"NONE", "SAVE", "REMOVE"}
    /\ item.seen = E!Unread \/ /\ DOMAIN item.seen = {"read", "row", "form"} /\ item.seen.read
                               /\ item.seen.row \in E!LotRow /\ item.seen.form \in Forms
    /\ item.call # "NONE" => item.seen.read /\ item.sent \in Forms /\ at = "ITEM"
    /\ ItemDone => item.sent.quantity # 0
    /\ at = "LIST" => item = E!NoItem

\* The lot of the page is the one it was, which a save that is not shown yet has changed.
SeenFits ==
    item.seen.read =>
      /\ item.lot \in 1..last
      /\ item.lot \in DOMAIN lots => item.seen.row.card = lots[item.lot].card
      /\ "item" \notin older =>
           /\ ~ItemDone => item.lot \in DOMAIN lots /\ item.seen.row = lots[item.lot]
           /\ ItemDone /\ item.call = "SAVE" =>
                item.lot \in DOMAIN lots /\ lots[item.lot] = E!Saved(item.seen.row, item.sent)

\* The web's list is gone while the page of a lot is there.
ListAway == at = "ITEM" /\ gadget = "web"
AwayFits == ListAway => listed = E!Blank /\ E!Busy = {}

Pending(p) == \E k \in E!Busy : p \in loads[k].parts
Now(p) == E!Answer(p, query)

LoadsCurrent ==
    ~crossed =>
      \A k \in E!Busy :
        /\ loads[k].query = query
        /\ ~loads[k].since => \A p \in loads[k].parts : loads[k].stage[p] = "READ" => loads[k].got[p] = Now(p)

\* What is not as it is now is about to be read, or is known to be older.
Unshown(p) ==
    \/ Pending(p) \/ ListAway
    \/ p \in {"summary", "list"} /\ (ItemDone \/ (removing.asked /\ removing.done /\ ~removing.shown))

ListCurrent ==
    ~crossed =>
      /\ \A p \in E!Part :
           /\ listed.shown[p].read \/ Pending(p) \/ ListAway
           /\ p \in older \/ Unshown(p) \/ listed.shown[p] = Now(p) \/ (p = "sets" /\ thinned)
      /\ listed.shown["list"].read => listed.shown["list"].of.query = query \/ Pending("list")

CollectionInv ==
    /\ LotsFit /\ ScreenTyped /\ LoadsFit /\ ListTyped /\ RemovingFits /\ ItemTyped /\ SeenFits /\ AwayFits
    /\ LoadsCurrent /\ ListCurrent

----------------------------------------------------------------------------
\* Nothing that an answer is made from has changed: what was captured on this day counts later.
SameAnswers == /\ UNCHANGED <<lots, onSale, day>>
              /\ \A d \in 0..day - 1 : history'[d] = history[d]

LEMMA TotalsStay ==
    ASSUME SameAnswers
    PROVE  /\ \A p \in {"value", "cost", "gain"} :
                 /\ E!Total(p)' = E!Total(p) /\ E!Copies(E!Priced(p))' = E!Copies(E!Priced(p))
                 /\ E!Copies(DOMAIN lots \ E!Priced(p))' = E!Copies(DOMAIN lots \ E!Priced(p))
           /\ E!QtyByCard' = E!QtyByCard /\ E!Copies(DOMAIN lots)' = E!Copies(DOMAIN lots)
           /\ E!DuplicateStats(E!QtyByCard)' = E!DuplicateStats(E!QtyByCard)
<1>1. lots' = lots /\ onSale' = onSale
  BY DEF SameAnswers
<1>2. \A p \in {"value", "cost", "gain"} :
         /\ E!Total(p)' = E!Total(p) /\ E!Copies(E!Priced(p))' = E!Copies(E!Priced(p))
         /\ E!Copies(DOMAIN lots \ E!Priced(p))' = E!Copies(DOMAIN lots \ E!Priced(p))
  <2> TAKE p \in {"value", "cost", "gain"}
  <2>1. \A owned : E!EstimateUnit(owned)' = E!EstimateUnit(owned)
    BY <1>1 DEF E!EstimateUnit, E!MedianInt, E!Available, E!NthPrice
  <2>2. \A owned : E!ValueOf(owned)' = E!ValueOf(owned)
    BY <2>1 DEF E!ValueOf
  <2>3. \A owned : E!SumOf(owned, p)' = E!SumOf(owned, p)
    BY <2>2 DEF E!SumOf, E!CostOf, E!GainOf
  <2>4. E!Priced(p)' = E!Priced(p)
    BY <1>1, <2>3 DEF E!Priced
  <2>5. E!Total(p)' = E!Total(p)
    BY <1>1, SMTT(30) DEF E!Total, E!Priced, E!SumOf, E!ValueOf, E!CostOf, E!GainOf, E!MapThenSumSet, E!MapThenFoldSet,
       E!EstimateUnit, E!MedianInt, E!Available, E!NthPrice
  <2> QED BY <1>1, <2>4, <2>5, SMTT(30) DEF E!Copies
<1>3. /\ E!QtyByCard' = E!QtyByCard /\ E!Copies(DOMAIN lots)' = E!Copies(DOMAIN lots)
      /\ E!DuplicateStats(E!QtyByCard)' = E!DuplicateStats(E!QtyByCard)
  BY <1>1, SMTT(30) DEF E!Copies, E!QtyByCard, E!DuplicateStats, E!MapThenSumSet, E!MapThenFoldSet
<1> QED BY <1>2, <1>3

\* The last day captured before this one.
LastPast == CHOOSE d \in E!Past : \A e \in E!Past : e <= d

LEMMA LastPastIs == ASSUME day \in Nat, E!Past # {} PROVE LastPast \in E!Past
<1> DEFINE Above == {n \in Nat : \A e \in E!Past : e <= n}
<1>1. \A e \in E!Past : e \in Nat /\ e <= day
  BY DEF E!Past
<1>2. day \in Above
  BY <1>1
<1>3. PICK n \in Above : \A m \in Above : ~(m < n)
  BY <1>2, LeastNatural
<1>4. n \in E!Past
  <2> SUFFICES ASSUME n \notin E!Past PROVE FALSE
    OBVIOUS
  <2>1. PICK e \in E!Past : TRUE
    OBVIOUS
  <2>2. n - 1 \in Nat /\ \A x \in E!Past : x <= n - 1
    BY <1>1, <1>3, <2>1
  <2> QED BY <1>3, <2>2
<1>5. \A e \in E!Past : e <= n
  BY <1>3
<1> HIDE DEF Above
<1> QED BY <1>4, <1>5 DEF LastPast

LEMMA SummaryStays == ASSUME day \in Nat, SameAnswers PROVE E!Summary' = E!Summary
<1>1. E!Past' = E!Past
  BY DEF SameAnswers, E!Past
<1>2. E!Total("value")' = E!Total("value")
  BY TotalsStay
<1>3. E!Past # {} => history'[LastPast] = history[LastPast]
  <2> SUFFICES ASSUME E!Past # {} PROVE history'[LastPast] = history[LastPast]
    OBVIOUS
  <2>1. LastPast \in 0..day - 1
    BY LastPastIs DEF E!Past
  <2> QED BY <2>1 DEF SameAnswers
<1>4. E!Change30d(E!Total("value"))' = E!Change30d(E!Total("value"))
  BY <1>1, <1>2, <1>3 DEF E!Change30d, LastPast
<1> QED BY <1>4, TotalsStay DEF E!Summary

\* The n-th lot of the list of a query.
NthOf(q, n) == CHOOSE l \in E!ItemWhere(q) : E!Cardinality({k \in E!ItemWhere(q) : E!OrderBy(q.sort, k, l)}) = n - 1
ItemsOf(q) == [n \in 1..(IF E!Cardinality(E!ItemWhere(q)) < PageSize THEN E!Cardinality(E!ItemWhere(q)) ELSE PageSize)
                 |-> E!ItemView(NthOf(q, n))]

LEMMA ListOf ==
    ASSUME NEW q
    PROVE  E!ListItems(q) = [query |-> q, total |-> E!Cardinality(E!ItemWhere(q)), items |-> ItemsOf(q)]
BY Zenon DEF E!ListItems, NthOf, ItemsOf

LEMMA ListStays == ASSUME SameAnswers, query' = query PROVE E!ListItems(query)' = E!ListItems(query)
<1>1. lots' = lots /\ onSale' = onSale
  BY DEF SameAnswers
<1>2. ASSUME NEW n PROVE E!ItemView(NthOf(query, n))' = E!ItemView(NthOf(query, n))
  <2>1. NthOf(query, n)' = NthOf(query, n)
    BY <1>1, query' = query, SMTT(30) DEF NthOf, E!ItemWhere, E!DuplicateCardIds, E!QtyByCard, E!Copies, E!OrderBy, E!ValueOf,
       E!EstimateUnit, E!MedianInt, E!Available, E!NthPrice
  <2>2. E!EstimateUnit(lots[NthOf(query, n)])' = E!EstimateUnit(lots[NthOf(query, n)])
    BY <1>1, <2>1, SMTT(30) DEF E!EstimateUnit, E!MedianInt, E!Available, E!NthPrice
  <2> QED BY <1>1, <2>1, <2>2 DEF E!ItemView, E!ValueOf
<1>3. E!Cardinality(E!ItemWhere(query))' = E!Cardinality(E!ItemWhere(query))
  BY <1>1, query' = query, SMTT(30) DEF E!ItemWhere, E!DuplicateCardIds, E!QtyByCard, E!Copies
<1>4. ItemsOf(query)' = ItemsOf(query)
  BY <1>2, <1>3, SMT DEF ItemsOf
<1>5. E!ListItems(query)' = [query |-> query', total |-> E!Cardinality(E!ItemWhere(query))', items |-> ItemsOf(query)']
  BY Zenon DEF E!ListItems, NthOf, ItemsOf
<1>6. E!ListItems(query) = [query |-> query, total |-> E!Cardinality(E!ItemWhere(query)), items |-> ItemsOf(query)]
  BY ListOf
<1> QED BY <1>3, <1>4, <1>5, <1>6, query' = query

LEMMA SetsStay == ASSUME SameAnswers PROVE E!ListSetProgress' = E!ListSetProgress
<1>1. lots' = lots /\ onSale' = onSale
  BY DEF SameAnswers
<1> QED BY <1>1, SMTT(30) DEF E!ListSetProgress, E!DuplicateStats, E!SetProgress, E!WithActiveListings, E!QtyByCard, E!Copies,
        E!MapThenSumSet, E!MapThenFoldSet, E!Available

\* The answers about the same rows are the same.
LEMMA NowStays ==
    ASSUME day \in Nat, SameAnswers, query' = query
    PROVE  \A p \in E!Part : Now(p)' = Now(p)
BY SummaryStays, ListStays, SetsStay DEF Now, E!Answer

\* What an answer says.
LEMMA AnswerSays ==
    ASSUME LotsFit
    PROVE  \A p \in E!Part : \A q : /\ WasRead(E!Answer(p, q), p, Captures)
                                    /\ p = "list" => E!Answer(p, q).of.query = q
<1>1. \A q : E!ListItems(q).query = q
  BY ListOf
<1>2. ChangeFits(E!Summary, Captures)
  <2> DEFINE s == E!Summary
  <2>1. s.value = E!Total("value") /\ s.change = E!Change30d(E!Total("value"))
    BY DEF E!Summary
  <2> SUFFICES ASSUME s.change # E!NoPrice PROVE \E x \in Captures : s.change = s.value - x
    BY DEF ChangeFits
  <2>2. E!Past # {} /\ s.change = s.value - history[LastPast]
    BY <2>1 DEF E!Change30d, LastPast
  <2>3. day \in 0..MaxDay /\ MaxDay \in Nat
    BY CollectionAssumption DEF LotsFit
  <2>4. LastPast \in E!Past /\ history[LastPast] # E!NoPrice /\ LastPast \in 0..MaxDay
    BY <2>2, <2>3, LastPastIs DEF E!Past
  <2>5. history[LastPast] = E!Captured(worth[LastPast])
    BY <2>4 DEF LotsFit
  <2>6. E!Captured(worth[LastPast]) \in Captures
    BY <2>4 DEF Captures
  <2> QED BY <2>2, <2>5, <2>6
<1> QED BY <1>1, <1>2 DEF WasRead, E!Answer, E!Part

----------------------------------------------------------------------------
(* What a step leaves alone.                                               *)

LEMMA LoadStays ==
    ASSUME NEW values, NEW more, values \subseteq more
    PROVE  /\ \A got, p : WasRead(got, p, values) => WasRead(got, p, more)
           /\ \A load : LoadFits(load, values) => LoadFits(load, more)
<1>1. \A got, p : WasRead(got, p, values) => WasRead(got, p, more)
  BY DEF WasRead, ChangeFits
<1> QED BY <1>1 DEF LoadFits

\* The days captured stay.
Grows == Captures \subseteq Captures'

\* Nothing of the rows but that the collection's row is made.
RowsStay == UNCHANGED <<lots, last, onSale, day, history, worth>> /\ begun' \in BOOLEAN

LEMMA RowsKept ==
    ASSUME LotsFit, RowsStay
    PROVE  /\ LotsFit' /\ Grows /\ SameAnswers
           /\ query' = query => \A p \in E!Part : Now(p)' = Now(p)
<1>1. day \in Nat
  BY CollectionAssumption DEF LotsFit
<1>2. LotsFit'
  BY DEF LotsFit, RowsStay
<1>3. Grows /\ SameAnswers
  BY <1>1 DEF Grows, SameAnswers, RowsStay, Captures, E!Past
<1> QED BY <1>1, <1>2, <1>3, NowStays

LEMMA ItemKept ==
    ASSUME ItemTyped, SeenFits, UNCHANGED <<item, at, lots, last>>, "item" \in older => "item" \in older'
    PROVE  ItemTyped' /\ SeenFits' /\ ItemDone' = ItemDone
<1>1. ItemTyped' /\ ItemDone' = ItemDone
  BY DEF ItemTyped, ItemDone
<1>2. SeenFits'
  BY DEF SeenFits, ItemDone
<1> QED BY <1>1, <1>2

LEMMA ListKept == ASSUME ListTyped, Grows, listed' = listed PROVE ListTyped'
<1>1. \A got, p : WasRead(got, p, Captures) => WasRead(got, p, Captures')
  BY LoadStays DEF Grows
<1> QED BY <1>1 DEF ListTyped

\* Loads, one by one.
LEMMA LoadsKept == ASSUME LoadsFit, Grows, loads' = loads PROVE LoadsFit' /\ E!Busy' = E!Busy
<1>1. E!Busy' = E!Busy
  BY DEF E!Busy
<1>2. \A load : LoadFits(load, Captures) => LoadFits(load, Captures')
  BY LoadStays DEF Grows
<1> QED BY <1>1, <1>2 DEF LoadsFit

\* One slot is filled or emptied.
LEMMA SlotChanged ==
    ASSUME LoadsFit, Grows, NEW k \in {1, 2}, NEW load, loads' = [loads EXCEPT ![k] = load],
           load = E!NoLoad \/ LoadFits(load, Captures')
    PROVE  /\ LoadsFit' /\ loads'[k] = load /\ \A j \in {1, 2} : j # k => loads'[j] = loads[j]
           /\ E!Busy' = IF load = E!NoLoad THEN E!Busy \ {k} ELSE E!Busy \cup {k}
<1>1. DOMAIN loads = {1, 2}
  BY DEF LoadsFit
<1>2. DOMAIN loads' = {1, 2} /\ loads'[k] = load /\ \A j \in {1, 2} : j # k => loads'[j] = loads[j]
  BY <1>1
<1>3. E!Busy' = IF load = E!NoLoad THEN E!Busy \ {k} ELSE E!Busy \cup {k}
  BY <1>1, <1>2 DEF E!Busy
<1>4. \A x : LoadFits(x, Captures) => LoadFits(x, Captures')
  BY LoadStays DEF Grows
<1>5. ASSUME NEW j \in E!Busy' PROVE LoadFits(loads'[j], Captures')
  <2>1. CASE j = k
    BY <1>2, <1>5, <2>1 DEF E!Busy
  <2>2. CASE j # k
    <3>1. j \in E!Busy /\ loads'[j] = loads[j]
      BY <1>1, <1>2, <1>5, <2>2 DEF E!Busy
    <3>2. LoadFits(loads[j], Captures)
      BY <3>1 DEF LoadsFit
    <3> QED BY <1>4, <3>1, <3>2
  <2> QED BY <2>1, <2>2
<1> QED BY <1>2, <1>3, <1>5 DEF LoadsFit

\* What is asked for anew.
LEMMA Asked ==
    ASSUME NEW q \in E!Query, NEW parts \in SUBSET E!Part, NEW after \in BOOLEAN
    PROVE  /\ \A values : LoadFits(E!LoadOf(q, parts, after), values)
           /\ E!LoadOf(q, parts, after) # E!NoLoad
           /\ E!LoadOf(q, parts, after).query = q /\ E!LoadOf(q, parts, after).parts = parts
           /\ ~E!LoadOf(q, parts, after).since /\ E!LoadOf(q, parts, after).after = after
           /\ \A p \in parts : E!LoadOf(q, parts, after).stage[p] # "READ"
<1> DEFINE load == E!LoadOf(q, parts, after)
<1>1. /\ DOMAIN load = {"query", "parts", "stage", "got", "since", "after"}
      /\ load.query = q /\ load.parts = parts /\ load.after = after /\ load.since = FALSE
      /\ DOMAIN load.stage = parts /\ DOMAIN load.got = parts
      /\ \A p \in parts : load.stage[p] = "ASKED"
  BY DEF E!LoadOf
<1>2. DOMAIN E!NoLoad = {"parts"}
  BY DEF E!NoLoad
<1> HIDE DEF load
<1>3. load # E!NoLoad
  BY <1>1, <1>2
<1>4. \A values : LoadFits(load, values)
  BY <1>1 DEF LoadFits
<1> QED BY <1>1, <1>3, <1>4 DEF load

----------------------------------------------------------------------------
(* The list.                                                               *)

LEMMA CollectionParts ==
    ASSUME CollectionInv
    PROVE  /\ LotsFit /\ ScreenTyped /\ LoadsFit /\ ListTyped /\ RemovingFits /\ ItemTyped /\ SeenFits /\ AwayFits
           /\ LoadsCurrent /\ ListCurrent
BY DEF CollectionInv

LEMMA ServePartStep ==
    ASSUME CollectionInv, NEW k \in DOMAIN loads, NEW p \in E!Part, E!ServePart(k, p)
    PROVE  CollectionInv'
<1> USE CollectionParts
<1> DEFINE ld == loads[k]
           creating == ld.stage[p] = "CREATING"
           stage == IF begun \/ creating THEN "READ" ELSE "CREATING"
           got == IF begun \/ creating THEN E!Answer(p, ld.query) ELSE E!Unread
           new == [ld EXCEPT !.stage[p] = stage, !.got[p] = got]
<1>1. /\ k \in E!Busy /\ p \in ld.parts
      /\ loads' = [loads EXCEPT ![k] = new]
      /\ begun' = (begun \/ creating)
      /\ UNCHANGED <<lots, last, onSale, day, history, worth, gadget, at, query, listed, removing, item, turns,
                     changes, older, crossed, thinned>>
  BY DEF E!ServePart
<1>2. k \in {1, 2} /\ LoadFits(ld, Captures) /\ begun \in BOOLEAN
  BY <1>1 DEF LoadsFit, LotsFit
<1>3. /\ DOMAIN new = {"query", "parts", "stage", "got", "since", "after"}
      /\ new.query = ld.query /\ new.parts = ld.parts /\ new.since = ld.since /\ new.after = ld.after
      /\ new.stage = [ld.stage EXCEPT ![p] = stage] /\ new.got = [ld.got EXCEPT ![p] = got]
  BY <1>2 DEF LoadFits
<1>4. /\ new.stage[p] = stage /\ new.got[p] = got
      /\ DOMAIN new.stage = ld.parts /\ DOMAIN new.got = ld.parts
      /\ \A x \in ld.parts : x # p => new.stage[x] = ld.stage[x] /\ new.got[x] = ld.got[x]
  BY <1>1, <1>2, <1>3 DEF LoadFits
<1>5. stage = "READ" => got = E!Answer(p, ld.query)
  OBVIOUS
<1>6. WasRead(E!Answer(p, ld.query), p, Captures) /\ (p = "list" => E!Answer(p, ld.query).of.query = ld.query)
  BY AnswerSays
<1> HIDE DEF new, stage, got
<1>7. LoadFits(new, Captures)
  BY <1>2, <1>3, <1>4, <1>5, <1>6 DEF LoadFits
<1>8. RowsStay
  BY <1>1, <1>2 DEF RowsStay
<1>9. LotsFit' /\ Grows /\ \A x \in E!Part : Now(x)' = Now(x)
  BY <1>1, <1>8, RowsKept
<1>10. LoadFits(new, Captures')
  BY <1>7, <1>9, LoadStays DEF Grows
<1>11. new # E!NoLoad
  BY <1>3 DEF E!NoLoad
<1>12. /\ LoadsFit' /\ loads'[k] = new /\ \A j \in {1, 2} : j # k => loads'[j] = loads[j]
       /\ E!Busy' = E!Busy
  BY <1>1, <1>2, <1>9, <1>10, <1>11, SlotChanged
<1>13. ScreenTyped' /\ RemovingFits' /\ AwayFits'
  BY <1>1, <1>12 DEF ScreenTyped, RemovingFits, AwayFits, ListAway
<1>14. ListTyped' /\ ItemTyped' /\ SeenFits' /\ ItemDone' = ItemDone
  BY <1>1, <1>9, ListKept, ItemKept
<1>15. \A j \in E!Busy : /\ loads'[j].query = loads[j].query /\ loads'[j].since = loads[j].since
                         /\ loads'[j].parts = loads[j].parts
                         /\ \A x \in loads[j].parts : ~(j = k /\ x = p) => loads'[j].stage[x] = loads[j].stage[x]
                                                                           /\ loads'[j].got[x] = loads[j].got[x]
  BY <1>3, <1>4, <1>12 DEF E!Busy, LoadsFit
<1>16. LoadsCurrent'
  <2> SUFFICES ASSUME ~crossed, NEW j \in E!Busy
               PROVE  /\ loads'[j].query = query
                      /\ ~loads'[j].since => \A x \in loads'[j].parts :
                            loads'[j].stage[x] = "READ" => loads'[j].got[x] = Now(x)'
    BY <1>1, <1>12 DEF LoadsCurrent
  <2>1. loads[j].query = query /\ loads'[j].query = query
    BY <1>15 DEF LoadsCurrent
  <2>2. ASSUME ~loads'[j].since, NEW x \in loads'[j].parts, loads'[j].stage[x] = "READ" PROVE loads'[j].got[x] = Now(x)'
    <3>1. x \in loads[j].parts /\ x \in E!Part
      BY <1>15, <2>2 DEF LoadsFit, LoadFits
    <3>2. CASE j = k /\ x = p
      BY <1>4, <1>5, <1>9, <1>12, <2>1, <2>2, <3>2 DEF Now
    <3>3. CASE ~(j = k /\ x = p)
      BY <1>9, <1>15, <2>2, <3>1, <3>3 DEF LoadsCurrent
    <3> QED BY <3>2, <3>3
  <2> QED BY <2>1, <2>2
<1>17. \A x : Pending(x)' <=> Pending(x)
  BY <1>12, <1>15 DEF Pending
<1>18. ListCurrent'
  BY <1>1, <1>9, <1>14, <1>17 DEF ListCurrent, Unshown, ListAway
<1> QED BY <1>9, <1>12, <1>13, <1>14, <1>16, <1>18 DEF CollectionInv

LEMMA ShowLoadStep ==
    ASSUME CollectionInv, NEW k \in DOMAIN loads, E!ShowLoad(k)
    PROVE  CollectionInv'
<1> USE CollectionParts
<1> DEFINE ld == loads[k]
           seen == [p \in E!Part |-> IF p \in ld.parts THEN ld.got[p] ELSE listed.shown[p]]
<1>1. /\ k \in E!Busy /\ \A p \in ld.parts : ld.stage[p] = "READ"
      /\ listed' = [listed EXCEPT !.shown = seen]
      /\ older' = (IF ld.since THEN older \cup ld.parts ELSE older \ ld.parts)
      /\ loads' = [loads EXCEPT ![k] = E!NoLoad]
      /\ removing' = (IF ld.after THEN E!NoRemoval ELSE removing)
      /\ thinned' = (thinned /\ ("sets" \notin ld.parts \/ ld.since))
      /\ UNCHANGED <<lots, last, begun, onSale, day, history, worth, gadget, at, query, item, turns, changes, crossed>>
  BY DEF E!ShowLoad, E!serverRows
<1>2. k \in {1, 2} /\ LoadFits(ld, Captures) /\ begun \in BOOLEAN
  BY <1>1 DEF LoadsFit, LotsFit
<1>3. RowsStay
  BY <1>1, <1>2 DEF RowsStay
<1>4. LotsFit' /\ Grows /\ \A x \in E!Part : Now(x)' = Now(x)
  BY <1>1, <1>3, RowsKept
<1>5. /\ LoadsFit' /\ \A j \in {1, 2} : j # k => loads'[j] = loads[j]
      /\ E!Busy' = E!Busy \ {k}
  BY <1>1, <1>2, <1>4, SlotChanged
<1>6. /\ listed'.shown = seen /\ listed'.checked = listed.checked
      /\ DOMAIN listed' = {"shown", "checked", "failed"}
      /\ DOMAIN seen = E!Part
      /\ \A p \in E!Part : seen[p] = IF p \in ld.parts THEN ld.got[p] ELSE listed.shown[p]
  BY <1>1 DEF ListTyped
<1> HIDE DEF seen
<1>7. ld.parts \subseteq E!Part /\ "item" \notin ld.parts /\ ld.since \in BOOLEAN
  BY <1>2 DEF LoadFits, E!Part
<1>8. ScreenTyped'
  BY <1>1, <1>7 DEF ScreenTyped
<1>9. \A p \in ld.parts : WasRead(ld.got[p], p, Captures) /\ (p = "list" => ld.got[p].of.query = ld.query)
  BY <1>1, <1>2 DEF LoadFits
<1>10. ListTyped'
  <2>1. \A got, p : WasRead(got, p, Captures) => WasRead(got, p, Captures')
    BY <1>4, LoadStays DEF Grows
  <2> QED BY <1>6, <1>9, <2>1 DEF ListTyped
<1>11. RemovingFits'
  BY <1>1, <1>5 DEF RemovingFits, E!NoRemoval
<1>12. ItemTyped' /\ SeenFits' /\ ItemDone' = ItemDone
  BY <1>1, <1>7, ItemKept
<1>13. ~ListAway /\ ~ListAway'
  BY <1>1 DEF AwayFits, ListAway
<1>14. AwayFits'
  BY <1>13 DEF AwayFits
<1>15. \A j \in E!Busy' : j \in E!Busy /\ loads'[j] = loads[j]
  BY <1>5 DEF E!Busy, LoadsFit
<1>16. LoadsCurrent'
  <2>1. ASSUME NEW j \in E!Busy' PROVE loads'[j].parts \subseteq E!Part
    BY <1>5 DEF LoadsFit, LoadFits
  <2> QED BY <1>1, <1>4, <1>15, <2>1 DEF LoadsCurrent
<1>17. \A p : p \notin ld.parts => (Pending(p)' <=> Pending(p))
  BY <1>1, <1>5, <1>15 DEF Pending, LoadsFit, E!Busy
<1>18. ListCurrent'
  <2> SUFFICES ASSUME ~crossed PROVE ListCurrent'
    BY <1>1 DEF ListCurrent
  <2>1. ld.query = query /\ (~ld.since => \A p \in ld.parts : ld.got[p] = Now(p))
    BY <1>1 DEF LoadsCurrent
  <2>2. ~(removing.asked /\ removing.done /\ ~removing.shown)
    BY <1>1 DEF RemovingFits
  <2>3. ASSUME NEW p \in E!Part
        PROVE  /\ listed'.shown[p].read \/ Pending(p)' \/ ListAway'
               /\ p \in older' \/ Unshown(p)' \/ listed'.shown[p] = Now(p)' \/ (p = "sets" /\ thinned')
    <3>1. CASE p \in ld.parts
      BY <1>1, <1>4, <1>6, <1>9, <2>1, <3>1 DEF WasRead
    <3>2. CASE p \notin ld.parts
      <4>1. listed'.shown[p] = listed.shown[p] /\ (p \in older' <=> p \in older) /\ (Pending(p)' <=> Pending(p))
            /\ (p = "sets" => thinned' = thinned)
        BY <1>1, <1>6, <1>17, <3>2 DEF ScreenTyped
      <4>2. Unshown(p) => Unshown(p)'
        BY <1>12, <1>13, <2>2, <4>1 DEF Unshown
      <4> QED BY <1>4, <1>13, <4>1, <4>2 DEF ListCurrent
    <3> QED BY <3>1, <3>2
  <2>4. listed'.shown["list"].read => listed'.shown["list"].of.query = query' \/ Pending("list")'
    BY <1>1, <1>6, <1>9, <1>17, <2>1 DEF ListCurrent, E!Part
  <2> QED BY <2>3, <2>4 DEF ListCurrent
<1> QED BY <1>4, <1>5, <1>8, <1>10, <1>11, <1>12, <1>14, <1>16, <1>18 DEF CollectionInv

LEMMA FailLoadStep ==
    ASSUME CollectionInv, NEW k \in DOMAIN loads, E!FailLoad(k)
    PROVE  CollectionInv'
<1> USE CollectionParts
<1>1. /\ k \in E!Busy
      /\ loads' = [loads EXCEPT ![k] = E!NoLoad]
      /\ listed' = [listed EXCEPT !.failed = TRUE]
      /\ removing' = (IF loads[k].after THEN E!NoRemoval ELSE removing)
      /\ crossed' = TRUE
      /\ UNCHANGED <<lots, last, begun, onSale, day, history, worth, gadget, at, query, item, turns, changes, older,
                     thinned>>
  BY DEF E!FailLoad, E!serverRows
<1>2. k \in {1, 2} /\ begun \in BOOLEAN
  BY <1>1 DEF LoadsFit, LotsFit
<1>3. RowsStay
  BY <1>1, <1>2 DEF RowsStay
<1>4. LotsFit' /\ Grows
  BY <1>3, RowsKept
<1>5. LoadsFit' /\ E!Busy' = E!Busy \ {k}
  BY <1>1, <1>2, <1>4, SlotChanged
<1>6. ScreenTyped' /\ RemovingFits'
  BY <1>1, <1>5 DEF ScreenTyped, RemovingFits, E!NoRemoval
<1>7. ListTyped'
  <2>1. \A got, p : WasRead(got, p, Captures) => WasRead(got, p, Captures')
    BY <1>4, LoadStays DEF Grows
  <2> QED BY <1>1, <2>1 DEF ListTyped
<1>8. ItemTyped' /\ SeenFits'
  BY <1>1, ItemKept
<1>9. AwayFits'
  BY <1>1 DEF AwayFits, ListAway
<1>10. LoadsCurrent' /\ ListCurrent'
  BY <1>1 DEF LoadsCurrent, ListCurrent
<1> QED BY <1>4, <1>5, <1>6, <1>7, <1>8, <1>9, <1>10 DEF CollectionInv

LEMMA UpdateFilterStep ==
    ASSUME CollectionInv, NEW q \in E!Query, E!UpdateFilter(q)
    PROVE  CollectionInv'
<1> USE CollectionParts
<1> DEFINE new == E!LoadOf(q, E!Part, FALSE)
<1>1. PICK k \in DOMAIN loads : loads' = [loads EXCEPT ![k] = new]
  BY DEF E!UpdateFilter
<1>2. /\ at = "LIST" /\ query' = q /\ crossed' = (crossed \/ E!Busy # {} \/ removing.asked)
      /\ UNCHANGED <<lots, last, begun, onSale, day, history, worth, gadget, at, listed, removing, item, changes, older,
                     thinned>>
  BY DEF E!UpdateFilter, E!serverRows, E!OnList
<1>3. k \in {1, 2} /\ begun \in BOOLEAN
  BY DEF LoadsFit, LotsFit
<1>4. RowsStay
  BY <1>2, <1>3 DEF RowsStay
<1>5. LotsFit' /\ Grows
  BY <1>4, RowsKept
<1>6. /\ \A values : LoadFits(new, values)
      /\ new # E!NoLoad /\ new.query = q /\ new.parts = E!Part /\ \A p \in E!Part : new.stage[p] # "READ"
  <2>1. E!Part \in SUBSET E!Part /\ FALSE \in BOOLEAN
    OBVIOUS
  <2> HIDE DEF new
  <2> QED BY <2>1, Asked DEF new
<1> HIDE DEF new
<1>7. LoadsFit' /\ loads'[k] = new /\ E!Busy' = E!Busy \cup {k}
  BY <1>1, <1>3, <1>5, <1>6, SlotChanged
<1>8. ScreenTyped' /\ RemovingFits'
  BY <1>2, <1>7 DEF ScreenTyped, RemovingFits
<1>9. ListTyped' /\ ItemTyped' /\ SeenFits' /\ AwayFits'
  BY <1>2, <1>5, ListKept, ItemKept DEF AwayFits, ListAway
<1>10. LoadsCurrent'
  BY <1>2, <1>6, <1>7 DEF LoadsCurrent
<1>11. ListCurrent'
  <2>1. \A p \in E!Part : Pending(p)'
    BY <1>6, <1>7 DEF Pending
  <2> QED BY <2>1 DEF ListCurrent, Unshown, E!Part
<1> QED BY <1>5, <1>7, <1>8, <1>9, <1>10, <1>11 DEF CollectionInv

\* Only boxes are checked, or a message is shown, and nothing is read.
LEMMA BoxesStep ==
    ASSUME CollectionInv, RowsStay, DOMAIN listed' = DOMAIN listed, listed'.shown = listed.shown,
           listed'.checked \subseteq 1..MaxLots, UNCHANGED <<loads, at, gadget, query, item, older, thinned>>, ~ListAway
    PROVE  /\ LotsFit' /\ LoadsFit' /\ ListTyped' /\ ItemTyped' /\ SeenFits' /\ AwayFits'
           /\ E!Busy' = E!Busy /\ ItemDone' = ItemDone /\ \A p \in E!Part : Now(p)' = Now(p)
<1> USE CollectionParts
<1>1. LotsFit' /\ Grows /\ \A p \in E!Part : Now(p)' = Now(p)
  BY RowsKept
<1>2. LoadsFit' /\ E!Busy' = E!Busy
  BY <1>1, LoadsKept
<1>3. ListTyped'
  <2>1. \A got, p : WasRead(got, p, Captures) => WasRead(got, p, Captures')
    BY <1>1, LoadStays DEF Grows
  <2> QED BY <2>1 DEF ListTyped
<1>4. ItemTyped' /\ SeenFits' /\ ItemDone' = ItemDone
  BY ItemKept DEF RowsStay
<1>5. AwayFits'
  BY DEF AwayFits, ListAway
<1> QED BY <1>1, <1>2, <1>3, <1>4, <1>5

LEMMA CheckStep ==
    ASSUME CollectionInv, NEW l \in 1..MaxLots, E!Check(l)
    PROVE  CollectionInv'
<1> USE CollectionParts
<1>1. /\ at = "LIST"
      /\ listed' = [listed EXCEPT !.checked = IF l \in @ THEN @ \ {l} ELSE @ \cup {l}]
      /\ UNCHANGED <<lots, last, begun, onSale, day, history, worth, gadget, at, query, loads, removing, item, changes,
                     older, crossed, thinned>>
  BY DEF E!Check, E!serverRows, E!OnList
<1>2. DOMAIN listed' = DOMAIN listed /\ listed'.shown = listed.shown /\ listed'.checked \subseteq 1..MaxLots
  BY <1>1 DEF ListTyped
<1>3. RowsStay /\ ~ListAway
  BY <1>1 DEF RowsStay, LotsFit, ListAway
<1>4. /\ LotsFit' /\ LoadsFit' /\ ListTyped' /\ ItemTyped' /\ SeenFits' /\ AwayFits'
      /\ E!Busy' = E!Busy /\ ItemDone' = ItemDone /\ \A p \in E!Part : Now(p)' = Now(p)
  BY <1>1, <1>2, <1>3, BoxesStep
<1>5. ScreenTyped' /\ RemovingFits'
  BY <1>1, <1>4 DEF ScreenTyped, RemovingFits
<1>6. LoadsCurrent'
  BY <1>1, <1>4 DEF LoadsCurrent, LoadsFit, LoadFits
<1>7. ListCurrent'
  BY <1>1, <1>2, <1>4 DEF ListCurrent, Unshown, Pending, ListAway
<1> QED BY <1>4, <1>5, <1>6, <1>7 DEF CollectionInv

LEMMA PressBulkDeleteStep ==
    ASSUME CollectionInv, E!PressBulkDelete
    PROVE  CollectionInv'
<1> USE CollectionParts
<1>1. /\ at = "LIST" /\ gadget = "web" /\ ~removing.asked
      /\ removing' = [asked |-> TRUE, ids |-> listed.checked, query |-> query, done |-> FALSE, shown |-> FALSE]
      /\ crossed' = (crossed \/ E!Busy # {})
      /\ UNCHANGED <<lots, last, begun, onSale, day, history, worth, gadget, at, query, listed, loads, item, changes, older,
                     thinned>>
  BY DEF E!PressBulkDelete, E!serverRows, E!OnList
<1>2. RowsStay /\ ~ListAway /\ listed.checked \subseteq 1..MaxLots
  BY <1>1 DEF RowsStay, LotsFit, ListAway, ListTyped
<1>3. /\ LotsFit' /\ LoadsFit' /\ ListTyped' /\ ItemTyped' /\ SeenFits' /\ AwayFits'
      /\ E!Busy' = E!Busy /\ ItemDone' = ItemDone /\ \A p \in E!Part : Now(p)' = Now(p)
  BY <1>1, <1>2, BoxesStep
<1>4. ScreenTyped' /\ RemovingFits'
  BY <1>1, <1>3 DEF ScreenTyped, RemovingFits
<1>5. LoadsCurrent'
  BY <1>1, <1>3 DEF LoadsCurrent, LoadsFit, LoadFits
<1>6. ListCurrent'
  BY <1>1, <1>3 DEF ListCurrent, Unshown, Pending, ListAway
<1> QED BY <1>3, <1>4, <1>5, <1>6 DEF CollectionInv

LEMMA FailBulkDeleteStep ==
    ASSUME CollectionInv, E!FailBulkDelete
    PROVE  CollectionInv'
<1> USE CollectionParts
<1>1. /\ removing.asked /\ removing' = E!NoRemoval /\ crossed' = TRUE
      /\ listed' = [listed EXCEPT !.failed = TRUE]
      /\ UNCHANGED <<lots, last, begun, onSale, day, history, worth, gadget, at, query, loads, item, changes, older, thinned>>
  BY DEF E!FailBulkDelete, E!serverRows
<1>2. RowsStay /\ ~ListAway
  BY <1>1 DEF RowsStay, LotsFit, ListAway, RemovingFits
<1>3. DOMAIN listed' = DOMAIN listed /\ listed'.shown = listed.shown /\ listed'.checked \subseteq 1..MaxLots
  BY <1>1 DEF ListTyped
<1>4. LotsFit' /\ LoadsFit' /\ ListTyped' /\ ItemTyped' /\ SeenFits' /\ AwayFits'
  BY <1>1, <1>2, <1>3, BoxesStep
<1>5. ScreenTyped' /\ RemovingFits' /\ LoadsCurrent' /\ ListCurrent'
  BY <1>1 DEF ScreenTyped, RemovingFits, E!NoRemoval, LoadsCurrent, ListCurrent
<1> QED BY <1>4, <1>5 DEF CollectionInv

LEMMA BulkDeleteStep ==
    ASSUME CollectionInv, E!BulkDelete
    PROVE  CollectionInv'
<1> USE CollectionParts
<1>1. /\ removing.asked /\ ~removing.done
      /\ lots' = [l \in DOMAIN lots \ removing.ids |-> lots[l]]
      /\ removing' = [removing EXCEPT !.done = TRUE]
      /\ thinned' = TRUE
      /\ UNCHANGED <<last, begun, onSale, day, history, worth, gadget, at, query, listed, loads, item, turns, changes, older,
                     crossed>>
  BY DEF E!BulkDelete
<1>2. at = "LIST" /\ gadget = "web" /\ ~removing.shown /\ (~crossed => E!Busy = {})
  BY <1>1 DEF RemovingFits
<1>3. LotsFit'
  BY <1>1 DEF LotsFit
<1>4. Grows
  BY <1>1 DEF Grows, Captures, E!Past
<1>5. LoadsFit' /\ E!Busy' = E!Busy /\ ListTyped'
  BY <1>1, <1>4, LoadsKept, ListKept
<1>6. ScreenTyped'
  BY <1>1 DEF ScreenTyped
<1>7. /\ DOMAIN removing' = DOMAIN removing /\ removing'.asked /\ removing'.done /\ ~removing'.shown
      /\ removing'.query = removing.query
  BY <1>1, <1>2 DEF RemovingFits
<1>8. RemovingFits'
  BY <1>1, <1>2, <1>5, <1>7 DEF RemovingFits
<1>9. ItemTyped' /\ SeenFits' /\ AwayFits'
  BY <1>1, <1>2 DEF ItemTyped, ItemDone, SeenFits, AwayFits, ListAway, E!NoItem, E!Unread
<1>10. LoadsCurrent'
  BY <1>1, <1>2, <1>5 DEF LoadsCurrent
<1>11. ListCurrent'
  BY <1>1, <1>2, <1>5, <1>7 DEF ListCurrent, Unshown, Pending, ListAway, E!Part
<1> QED BY <1>3, <1>5, <1>6, <1>8, <1>9, <1>10, <1>11 DEF CollectionInv

LEMMA ShowBulkDeleteStep ==
    ASSUME CollectionInv, E!ShowBulkDelete
    PROVE  CollectionInv'
<1> USE CollectionParts
<1> DEFINE new == E!LoadOf(removing.query, E!Reloaded, TRUE)
<1>1. PICK k \in DOMAIN loads : loads' = [loads EXCEPT ![k] = new]
  BY DEF E!ShowBulkDelete
<1>2. /\ removing.asked /\ removing.done /\ ~removing.shown
      /\ removing' = [removing EXCEPT !.shown = TRUE]
      /\ listed' = [listed EXCEPT !.checked = {}]
      /\ crossed' = (crossed \/ E!Busy # {})
      /\ UNCHANGED <<lots, last, begun, onSale, day, history, worth, gadget, at, query, item, turns, changes, older, thinned>>
  BY DEF E!ShowBulkDelete, E!serverRows
<1>3. at = "LIST" /\ gadget = "web" /\ removing.query \in E!Query /\ (~crossed => removing.query = query)
  BY <1>2 DEF RemovingFits
<1>4. k \in {1, 2} /\ begun \in BOOLEAN
  BY DEF LoadsFit, LotsFit
<1>5. RowsStay
  BY <1>2, <1>4 DEF RowsStay
<1>6. LotsFit' /\ Grows /\ \A p \in E!Part : Now(p)' = Now(p)
  BY <1>2, <1>5, RowsKept
<1>7. E!Reloaded \in SUBSET E!Part
  BY DEF E!Reloaded, E!Part
<1>8. /\ \A values : LoadFits(new, values)
      /\ new # E!NoLoad /\ new.query = removing.query /\ new.parts = E!Reloaded
      /\ \A p \in E!Reloaded : new.stage[p] # "READ"
  <2>1. TRUE \in BOOLEAN
    OBVIOUS
  <2> HIDE DEF new
  <2> QED BY <1>3, <1>7, <2>1, Asked DEF new
<1> HIDE DEF new
<1>9. LoadsFit' /\ loads'[k] = new /\ E!Busy' = E!Busy \cup {k}
  BY <1>1, <1>4, <1>6, <1>8, SlotChanged
<1>10. ScreenTyped'
  BY <1>2 DEF ScreenTyped
<1>11. /\ DOMAIN removing' = DOMAIN removing /\ removing'.asked /\ removing'.done /\ removing'.shown
       /\ removing'.query = removing.query
  BY <1>2 DEF RemovingFits
<1>12. RemovingFits'
  BY <1>2, <1>3, <1>11 DEF RemovingFits
<1>13. ListTyped'
  <2>1. \A got, p : WasRead(got, p, Captures) => WasRead(got, p, Captures')
    BY <1>6, LoadStays DEF Grows
  <2>2. DOMAIN listed' = DOMAIN listed /\ listed'.shown = listed.shown /\ listed'.checked = {}
    BY <1>2 DEF ListTyped
  <2> QED BY <2>1, <2>2 DEF ListTyped
<1>14. ItemTyped' /\ SeenFits'
  BY <1>2, ItemKept
<1>15. AwayFits'
  BY <1>2, <1>3 DEF AwayFits, ListAway
<1>16. LoadsCurrent'
  BY <1>2, <1>3, <1>8, <1>9 DEF LoadsCurrent
<1>17. ListCurrent'
  <2> SUFFICES ASSUME ~crossed' PROVE ListCurrent'
    BY DEF ListCurrent
  <2>1. ~crossed /\ E!Busy = {}
    BY <1>2
  <2>2. Pending("summary")' /\ Pending("list")'
    BY <1>8, <1>9 DEF Pending, E!Reloaded
  <2>3. ~Pending("sets") /\ ~ListAway
    BY <1>3, <2>1 DEF Pending, ListAway
  <2>4. listed'.shown = listed.shown
    BY <1>2 DEF ListTyped
  <2>5. "sets" \in E!Part /\ \A p \in E!Part : p \in {"summary", "list", "sets"}
    BY DEF E!Part
  <2>6. listed.shown["sets"].read /\ ("sets" \in older \/ listed.shown["sets"] = Now("sets") \/ thinned)
    BY <2>1, <2>3, <2>5 DEF ListCurrent, Unshown
  <2>7. Now("sets")' = Now("sets")
    BY <1>6, <2>5
  <2> QED BY <1>2, <2>2, <2>4, <2>5, <2>6, <2>7 DEF ListCurrent, Unshown
<1> QED BY <1>6, <1>9, <1>10, <1>12, <1>13, <1>14, <1>15, <1>16, <1>17 DEF CollectionInv

----------------------------------------------------------------------------
(* The page of a lot.                                                      *)

LEMMA OpenItemStep ==
    ASSUME CollectionInv, NEW l \in 1..MaxLots, E!OpenItem(l)
    PROVE  CollectionInv'
<1> USE CollectionParts
<1>1. /\ at = "LIST" /\ at' = "ITEM" /\ item' = [E!NoItem EXCEPT !.lot = l]
      /\ UNCHANGED <<lots, last, begun, onSale, day, history, worth, gadget, query, changes>>
  BY DEF E!OpenItem, E!serverRows
<1>2. RowsStay
  BY <1>1 DEF RowsStay, LotsFit
<1>3. LotsFit' /\ Grows /\ \A p \in E!Part : Now(p)' = Now(p)
  BY <1>1, <1>2, RowsKept
<1>4. item = E!NoItem /\ ~ItemDone
  BY <1>1 DEF ItemTyped, ItemDone, E!NoItem
<1>5. item'.call = "NONE" /\ item'.seen = E!Unread /\ DOMAIN item' = {"lot", "seen", "call"}
  BY <1>1 DEF E!NoItem
<1>6. ItemTyped' /\ SeenFits' /\ ~ItemDone'
  BY <1>1, <1>5 DEF ItemTyped, SeenFits, ItemDone, E!Unread
<1>7. CASE gadget = "web"
  <2>1. /\ listed' = E!Blank /\ loads' = E!NoLoads /\ removing' = E!NoRemoval
        /\ older' = {} /\ crossed' = FALSE /\ thinned' = FALSE
    BY <1>7 DEF E!OpenItem
  <2>2. DOMAIN loads' = {1, 2} /\ loads'[1] = E!NoLoad /\ loads'[2] = E!NoLoad
    BY <2>1 DEF E!NoLoads
  <2>3. E!Busy' = {}
    BY <2>2 DEF E!Busy
  <2>4. LoadsFit' /\ LoadsCurrent'
    BY <2>2, <2>3 DEF LoadsFit, LoadsCurrent
  <2>5. ListTyped'
    BY <2>1 DEF ListTyped, E!Blank
  <2>6. ScreenTyped' /\ RemovingFits' /\ AwayFits'
    BY <1>1, <2>1, <2>3 DEF ScreenTyped, RemovingFits, AwayFits, E!NoRemoval
  <2>7. ~listed'.shown["list"].read /\ ListAway'
    BY <1>1, <1>7, <2>1 DEF E!Blank, E!Unread, E!Part, ListAway
  <2>8. ListCurrent'
    BY <2>7 DEF ListCurrent, Unshown
  <2> QED BY <1>3, <1>6, <2>4, <2>5, <2>6, <2>8 DEF CollectionInv
<1>8. CASE gadget # "web"
  <2>1. UNCHANGED <<listed, loads, removing, older, crossed, thinned>>
    BY <1>8 DEF E!OpenItem
  <2>2. LoadsFit' /\ E!Busy' = E!Busy /\ ListTyped'
    BY <1>3, <2>1, LoadsKept, ListKept
  <2>3. ScreenTyped' /\ RemovingFits' /\ AwayFits' /\ ~ListAway /\ ~ListAway'
    BY <1>1, <1>8, <2>1 DEF ScreenTyped, RemovingFits, AwayFits, ListAway
  <2>4. LoadsCurrent'
    BY <1>1, <1>3, <2>1, <2>2 DEF LoadsCurrent, LoadsFit, LoadFits
  <2>5. ListCurrent'
    BY <1>1, <1>3, <1>4, <2>1, <2>2, <2>3 DEF ListCurrent, Unshown, Pending
  <2> QED BY <1>3, <1>6, <2>2, <2>3, <2>4, <2>5 DEF CollectionInv
<1> QED BY <1>7, <1>8

\* The list stays what it is under the page of a lot.
LEMMA ListBelow ==
    ASSUME CollectionInv, LotsFit', Grows, \A p \in E!Part : Now(p)' = Now(p),
           UNCHANGED <<at, gadget, query, listed, loads, removing, crossed, thinned>>,
           older' \subseteq E!Part \cup {"item"}, \A p \in E!Part : p \in older => p \in older',
           ItemDone => ItemDone' \/ ListAway \/ {"summary", "list"} \subseteq older',
           ItemTyped', SeenFits'
    PROVE  CollectionInv'
<1> USE CollectionParts
<1>1. LoadsFit' /\ E!Busy' = E!Busy /\ ListTyped'
  BY LoadsKept, ListKept
<1>2. ScreenTyped' /\ RemovingFits' /\ AwayFits' /\ ListAway' = ListAway
  BY <1>1 DEF ScreenTyped, RemovingFits, AwayFits, ListAway
<1>3. LoadsCurrent'
  BY <1>1 DEF LoadsCurrent, LoadsFit, LoadFits
<1>4. ListCurrent'
  <2> SUFFICES ASSUME ~crossed PROVE ListCurrent'
    BY DEF ListCurrent
  <2>1. \A p : Pending(p)' <=> Pending(p)
    BY <1>1 DEF Pending
  <2>2. ASSUME NEW p \in E!Part
        PROVE  /\ listed'.shown[p].read \/ Pending(p)' \/ ListAway'
               /\ p \in older' \/ Unshown(p)' \/ listed'.shown[p] = Now(p)' \/ (p = "sets" /\ thinned')
    <3>1. Unshown(p) => Unshown(p)' \/ p \in older'
      BY <1>2, <2>1 DEF Unshown
    <3> QED BY <1>2, <2>1, <3>1 DEF ListCurrent
  <2>3. listed'.shown["list"].read => listed'.shown["list"].of.query = query' \/ Pending("list")'
    BY <2>1 DEF ListCurrent
  <2> QED BY <2>2, <2>3 DEF ListCurrent
<1> QED BY <1>1, <1>2, <1>3, <1>4 DEF CollectionInv

\* Only the page of the lot changes.
LEMMA ItemStep ==
    ASSUME CollectionInv, RowsStay, UNCHANGED <<at, gadget, query, listed, loads, removing, crossed, thinned>>,
           older' \subseteq E!Part \cup {"item"}, \A p \in E!Part : p \in older => p \in older',
           ItemDone => ItemDone' \/ ListAway \/ {"summary", "list"} \subseteq older',
           ItemTyped', SeenFits'
    PROVE  CollectionInv'
<1>1. LotsFit' /\ Grows /\ \A p \in E!Part : Now(p)' = Now(p)
  BY CollectionParts, RowsKept
<1> QED BY <1>1, ListBelow

LEMMA GetItemStep == ASSUME CollectionInv, E!GetItem PROVE CollectionInv'
<1> USE CollectionParts
<1>1. /\ at = "ITEM" /\ ~item.seen.read /\ item.lot \in DOMAIN lots
      /\ item' = [item EXCEPT !.seen = E!SeenNow]
      /\ older' = older \ {"item"}
      /\ UNCHANGED <<lots, last, begun, onSale, day, history, worth, query, listed, loads, removing, crossed, thinned,
                     gadget, at>>
  BY DEF E!GetItem, E!serverRows, E!listRows, E!OnItem, E!Gone
<1>2. item.call = "NONE"
  BY <1>1 DEF ItemTyped
<1> DEFINE own == lots[item.lot]
<1>3. own \in E!LotRow /\ item.lot \in 1..last
  BY <1>1 DEF LotsFit
<1>4. E!SeenNow = [read |-> TRUE, row |-> own, form |-> E!Form(own)] /\ E!Form(own) \in Forms
  BY <1>3 DEF E!SeenNow, E!Form, Forms, E!LotRow, E!MaxCopies
<1>5. DOMAIN item' = DOMAIN item /\ item'.call = "NONE" /\ item'.lot = item.lot /\ item'.seen = E!SeenNow
  BY <1>1, <1>2 DEF ItemTyped
<1>6. ItemTyped' /\ SeenFits'
  BY <1>1, <1>2, <1>3, <1>4, <1>5 DEF ItemTyped, SeenFits, ItemDone
<1>7. ~ItemDone
  BY <1>2 DEF ItemDone
<1>8. RowsStay
  BY <1>1 DEF RowsStay, LotsFit
<1>9. older' \subseteq E!Part \cup {"item"} /\ \A p \in E!Part : p \in older => p \in older'
  BY <1>1 DEF ScreenTyped, E!Part
<1> QED BY <1>1, <1>6, <1>7, <1>8, <1>9, ItemStep

LEMMA EditFormStep == ASSUME CollectionInv, NEW form_E \in Forms, E!EditForm(form_E) PROVE CollectionInv'
<1> USE CollectionParts
<1>1. /\ at = "ITEM" /\ item.seen.read
      /\ item' = [item EXCEPT !.seen.form = form_E]
      /\ UNCHANGED <<lots, last, begun, onSale, day, history, worth, query, listed, loads, removing, crossed, thinned,
                     gadget, at, older>>
  BY DEF E!EditForm, E!serverRows, E!listRows, E!OnItem
<1>2. item.seen # E!Unread
  BY <1>1 DEF E!Unread
<1>3. /\ DOMAIN item' = DOMAIN item /\ item'.call = item.call /\ item'.lot = item.lot
      /\ item.call # "NONE" => item'.sent = item.sent /\ item'.stage = item.stage
      /\ item'.seen = [item.seen EXCEPT !.form = form_E]
  BY <1>1 DEF ItemTyped
<1>4. /\ DOMAIN item'.seen = {"read", "row", "form"} /\ item'.seen.read = item.seen.read
      /\ item'.seen.row = item.seen.row /\ item'.seen.form = form_E
  BY <1>2, <1>3 DEF ItemTyped
<1>5. ItemDone' = ItemDone
  BY <1>3 DEF ItemDone
<1>6. ItemTyped'
  BY <1>1, <1>2, <1>3, <1>4, <1>5 DEF ItemTyped, ItemDone
<1>7. SeenFits'
  BY <1>1, <1>3, <1>4, <1>5 DEF SeenFits, ItemDone
<1>8. RowsStay /\ older' \subseteq E!Part \cup {"item"}
  BY <1>1 DEF RowsStay, LotsFit, ScreenTyped
<1> QED BY <1>1, <1>5, <1>6, <1>7, <1>8, ItemStep

LEMMA PressStep == ASSUME CollectionInv, NEW op \in {"SAVE", "REMOVE"}, E!Press(op) PROVE CollectionInv'
<1> USE CollectionParts
<1>1. /\ at = "ITEM" /\ item.seen.read /\ item.call = "NONE"
      /\ item' = [lot |-> item.lot, seen |-> item.seen, call |-> op, sent |-> item.seen.form, stage |-> "ASKED"]
      /\ UNCHANGED <<lots, last, begun, onSale, day, history, worth, query, listed, loads, removing, crossed, thinned,
                     gadget, at, older>>
  BY DEF E!Press, E!serverRows, E!listRows, E!OnItem
<1>2. ~ItemDone /\ ~ItemDone'
  BY <1>1 DEF ItemDone
<1>3. item.seen # E!Unread
  BY <1>1 DEF E!Unread
<1>4. ItemTyped'
  BY <1>1, <1>2, <1>3 DEF ItemTyped
<1>5. SeenFits'
  BY <1>1, <1>2 DEF SeenFits
<1>6. RowsStay /\ older' \subseteq E!Part \cup {"item"}
  BY <1>1 DEF RowsStay, LotsFit, ScreenTyped
<1> QED BY <1>1, <1>2, <1>4, <1>5, <1>6, ItemStep

LEMMA FindItemStep == ASSUME CollectionInv, E!FindItem PROVE CollectionInv'
<1> USE CollectionParts
<1>1. PICK stage \in {"REFUSED", "FOUND"} : item' = [item EXCEPT !.stage = stage]
  BY DEF E!FindItem
<1>2. /\ item.call # "NONE" /\ item.stage = "ASKED"
      /\ UNCHANGED <<lots, last, begun, onSale, day, history, worth, query, listed, loads, removing, crossed, thinned,
                     gadget, at, older>>
  BY DEF E!FindItem, E!serverRows, E!listRows
<1>3. /\ DOMAIN item' = DOMAIN item /\ item'.call = item.call /\ item'.lot = item.lot /\ item'.seen = item.seen
      /\ item'.sent = item.sent /\ item'.stage = stage
  BY <1>1, <1>2 DEF ItemTyped
<1>4. ~ItemDone /\ ~ItemDone'
  BY <1>2, <1>3 DEF ItemDone
<1>5. ItemTyped'
  BY <1>2, <1>3, <1>4 DEF ItemTyped, E!NoItem
<1>6. SeenFits'
  BY <1>2, <1>3, <1>4 DEF SeenFits
<1>7. RowsStay /\ older' \subseteq E!Part \cup {"item"}
  BY <1>2 DEF RowsStay, LotsFit, ScreenTyped
<1> QED BY <1>2, <1>4, <1>5, <1>6, <1>7, ItemStep

LEMMA FailItemStep == ASSUME CollectionInv, E!FailItem PROVE CollectionInv'
<1> USE CollectionParts
<1>1. /\ item.call # "NONE" /\ item' = E!Idle(item)
      /\ older' = (IF item.stage = "DONE" THEN older \cup {"item", "summary", "list"} ELSE older)
      /\ UNCHANGED <<lots, last, begun, onSale, day, history, worth, query, listed, loads, removing, crossed, thinned,
                     gadget, at>>
  BY DEF E!FailItem, E!serverRows, E!listRows
<1>2. /\ DOMAIN item' = {"lot", "seen", "call"} /\ item'.call = "NONE" /\ item'.lot = item.lot /\ item'.seen = item.seen
  BY <1>1 DEF E!Idle
<1>3. ~ItemDone' /\ at = "ITEM"
  BY <1>1, <1>2 DEF ItemDone, ItemTyped
<1>4. ItemTyped'
  BY <1>1, <1>2, <1>3 DEF ItemTyped
<1>5. SeenFits'
  BY <1>1, <1>2, <1>3 DEF SeenFits, ItemDone
<1>6. RowsStay /\ older' \subseteq E!Part \cup {"item"} /\ (\A p \in E!Part : p \in older => p \in older')
      /\ (ItemDone => {"summary", "list"} \subseteq older')
  BY <1>1 DEF RowsStay, LotsFit, ScreenTyped, ItemDone, E!Part
<1> QED BY <1>1, <1>4, <1>5, <1>6, ItemStep

\* A save writes all of the form, and leaves the card.
LEMMA SavedIs ==
    ASSUME NEW r \in E!LotRow, NEW f \in Forms
    PROVE  /\ E!Saved(r, f) = [card |-> r.card, condition |-> f.condition, quantity |-> f.quantity, cost |-> f.cost]
           /\ f.quantity # 0 => E!Saved(r, f) \in E!LotRow
<1>1. E!Saved(r, f) = [card |-> r.card, condition |-> f.condition, quantity |-> f.quantity, cost |-> f.cost]
  <2> DEFINE quantified == [r EXCEPT !.quantity = f.quantity]
             graded == [quantified EXCEPT !.condition = f.condition]
             saved == [graded EXCEPT !.cost = f.cost]
  <2>1. r = [card |-> r.card, condition |-> r.condition, quantity |-> r.quantity, cost |-> r.cost]
    BY DEF E!LotRow
  <2>2. quantified = [card |-> r.card, condition |-> r.condition, quantity |-> f.quantity, cost |-> r.cost]
    BY <2>1
  <2> HIDE DEF quantified
  <2>3. graded = [card |-> r.card, condition |-> f.condition, quantity |-> f.quantity, cost |-> r.cost]
    BY <2>2
  <2> HIDE DEF graded
  <2>4. saved = [card |-> r.card, condition |-> f.condition, quantity |-> f.quantity, cost |-> f.cost]
    BY <2>3
  <2>5. E!Saved(r, f) = saved
    BY DEF E!Saved, saved, graded, quantified
  <2> QED BY <2>4, <2>5
<1>2. f.quantity \in 0..3 /\ f.condition \in E!Condition /\ f.cost \in {E!NoPrice, 1} /\ r.card \in E!Card
  BY DEF Forms, E!LotRow
<1>3. f.quantity # 0 => f.quantity \in 1..3
  BY <1>2
<1> QED BY <1>1, <1>2, <1>3 DEF E!LotRow, E!MaxCopies

\* All that is in flight may be of before.
LEMMA OutdatedLoads ==
    ASSUME LoadsFit, Grows, loads' = E!Outdated
    PROVE  /\ LoadsFit' /\ E!Busy' = E!Busy
           /\ \A k \in E!Busy : loads'[k].since /\ loads'[k].query = loads[k].query /\ loads'[k].parts = loads[k].parts
<1>1. /\ DOMAIN loads' = {1, 2}
      /\ \A k \in {1, 2} : loads'[k] = IF loads[k] = E!NoLoad THEN E!NoLoad ELSE [loads[k] EXCEPT !.since = TRUE]
  BY DEF E!Outdated, LoadsFit
<1>2. ASSUME NEW k \in E!Busy
      PROVE  /\ k \in {1, 2} /\ DOMAIN loads'[k] = DOMAIN loads[k] /\ loads'[k].since /\ loads'[k].query = loads[k].query
             /\ loads'[k].parts = loads[k].parts /\ loads'[k].after = loads[k].after
             /\ loads'[k].stage = loads[k].stage /\ loads'[k].got = loads[k].got
             /\ loads'[k].since \in BOOLEAN /\ LoadFits(loads[k], Captures)
  <2>1. k \in {1, 2} /\ loads[k] # E!NoLoad /\ LoadFits(loads[k], Captures)
    BY <1>2 DEF E!Busy, LoadsFit
  <2>2. loads'[k] = [loads[k] EXCEPT !.since = TRUE]
    BY <1>1, <2>1
  <2> QED BY <2>1, <2>2 DEF LoadFits
<1>3. E!Busy' = E!Busy
  <2>1. \A k \in E!Busy : loads'[k] # E!NoLoad
    BY <1>2 DEF E!NoLoad, LoadFits
  <2> QED BY <1>1, <2>1 DEF E!Busy, LoadsFit
<1>4. ASSUME NEW k \in E!Busy PROVE LoadFits(loads'[k], Captures')
  <2>1. /\ DOMAIN loads'[k] = DOMAIN loads[k] /\ loads'[k].query = loads[k].query /\ loads'[k].parts = loads[k].parts
        /\ loads'[k].after = loads[k].after /\ loads'[k].stage = loads[k].stage /\ loads'[k].got = loads[k].got
        /\ loads'[k].since \in BOOLEAN /\ LoadFits(loads[k], Captures)
    BY <1>2
  <2> DEFINE old == loads[k]
             new == loads'[k]
  <2>2. /\ DOMAIN new = DOMAIN old /\ new.query = old.query /\ new.parts = old.parts
        /\ new.after = old.after /\ new.stage = old.stage /\ new.got = old.got
        /\ new.since \in BOOLEAN /\ LoadFits(old, Captures)
    BY <2>1
  <2> HIDE DEF old, new
  <2>3. LoadFits(new, Captures)
    BY <2>2 DEF LoadFits
  <2>4. LoadFits(loads'[k], Captures)
    BY <2>3 DEF new
  <2> QED BY <2>4, LoadStays DEF Grows
<1> QED BY <1>1, <1>2, <1>3, <1>4 DEF LoadsFit

LEMMA WriteItemStep == ASSUME CollectionInv, E!WriteItem PROVE CollectionInv'
<1> USE CollectionParts
<1>1. /\ item.call # "NONE" /\ item.stage = "FOUND"
      /\ older' = (IF item'.stage = "DONE" THEN older \ {"item"} ELSE older)
      /\ UNCHANGED <<last, begun, onSale, day, history, worth, gadget, at, query, listed, removing, turns, changes,
                     crossed>>
  BY DEF E!WriteItem
<1>2. /\ at = "ITEM" /\ item.seen.read /\ item.sent \in Forms /\ item.seen.row \in E!LotRow
      /\ DOMAIN item = {"lot", "seen", "call", "sent", "stage"} /\ item.seen # E!Unread
  BY <1>1 DEF ItemTyped, E!Unread
<1>3. ~ItemDone
  BY <1>1 DEF ItemDone
<1>4. ASSUME NEW stage, item' = [item EXCEPT !.stage = stage]
      PROVE  /\ DOMAIN item' = DOMAIN item /\ item'.call = item.call /\ item'.lot = item.lot /\ item'.seen = item.seen
             /\ item'.sent = item.sent /\ item'.stage = stage
  BY <1>2, <1>4
<1>5. CASE E!Gone \/ item.sent.quantity = 0
  <2>1. item' = [item EXCEPT !.stage = "REFUSED"] /\ UNCHANGED <<lots, loads, thinned>>
    BY <1>5 DEF E!WriteItem
  <2>2. /\ DOMAIN item' = DOMAIN item /\ item'.call = item.call /\ item'.lot = item.lot /\ item'.seen = item.seen
        /\ item'.sent = item.sent /\ item'.stage = "REFUSED"
    BY <1>4, <2>1
  <2>3. ~ItemDone' /\ ItemTyped'
    BY <1>1, <1>2, <2>2 DEF ItemDone, ItemTyped
  <2>4. older' = older /\ older' \subseteq E!Part \cup {"item"}
    BY <1>1, <2>2 DEF ScreenTyped
  <2>5. SeenFits'
    BY <1>1, <1>3, <2>1, <2>2, <2>3, <2>4 DEF SeenFits
  <2>6. RowsStay
    BY <1>1, <2>1 DEF RowsStay, LotsFit
  <2> QED BY <1>1, <1>3, <2>1, <2>3, <2>4, <2>5, <2>6, ItemStep
<1>6. CASE ~(E!Gone \/ item.sent.quantity = 0)
  <2>1. /\ lots' = (IF item.call = "SAVE" THEN [lots EXCEPT ![item.lot] = E!Saved(lots[item.lot], item.sent)]
                    ELSE [l \in DOMAIN lots \ {item.lot} |-> lots[l]])
        /\ item' = [item EXCEPT !.stage = "DONE"] /\ loads' = E!Outdated
        /\ thinned' = (thinned \/ gadget = "app")
    BY <1>6 DEF E!WriteItem
  <2>2. item.lot \in DOMAIN lots /\ item.sent.quantity # 0 /\ lots[item.lot] \in E!LotRow
    BY <1>6 DEF E!Gone, LotsFit
  <2>3. /\ DOMAIN item' = DOMAIN item /\ item'.call = item.call /\ item'.lot = item.lot /\ item'.seen = item.seen
        /\ item'.sent = item.sent /\ item'.stage = "DONE"
    BY <1>4, <2>1
  <2>4. ItemDone' /\ ItemTyped'
    BY <1>1, <1>2, <2>2, <2>3 DEF ItemDone, ItemTyped
  <2>5. older' = older \ {"item"}
    BY <1>1, <2>3
  <2>6. E!Saved(lots[item.lot], item.sent) \in E!LotRow
    BY <1>2, <2>2, SavedIs
  <2>7. LotsFit'
    BY <1>1, <2>1, <2>2, <2>6 DEF LotsFit
  <2>8. Grows
    BY <1>1 DEF Grows, Captures, E!Past
  <2>9. E!Saved(lots[item.lot], item.sent) = E!Saved(item.seen.row, item.sent)
        /\ E!Saved(lots[item.lot], item.sent).card = item.seen.row.card
    <3>1. item.seen.row.card = lots[item.lot].card
      BY <1>2, <2>2 DEF SeenFits
    <3> QED BY <1>2, <2>2, <3>1, SavedIs
  <2>10. SeenFits'
    <3>1. item.lot \in 1..last
      BY <1>2 DEF SeenFits
    <3>2. item.call = "SAVE" => item.lot \in DOMAIN lots' /\ lots'[item.lot] = E!Saved(item.seen.row, item.sent)
                                /\ lots'[item.lot].card = item.seen.row.card
      BY <2>1, <2>2, <2>9
    <3>3. item.call # "SAVE" => item.lot \notin DOMAIN lots'
      BY <2>1
    <3> QED BY <1>1, <2>3, <2>4, <3>1, <3>2, <3>3 DEF SeenFits
  <2>11. /\ LoadsFit' /\ E!Busy' = E!Busy
         /\ \A k \in E!Busy : loads'[k].since /\ loads'[k].query = loads[k].query /\ loads'[k].parts = loads[k].parts
    BY <2>1, <2>8, OutdatedLoads
  <2>12. ListTyped'
    BY <1>1, <2>8, ListKept
  <2>13. ScreenTyped' /\ RemovingFits' /\ AwayFits'
    BY <1>1, <1>2, <2>1, <2>5, <2>11 DEF ScreenTyped, RemovingFits, AwayFits, ListAway
  <2>14. LoadsCurrent'
    BY <1>1, <2>11 DEF LoadsCurrent
  <2>15. ListCurrent'
    <3>1. \A p : Pending(p)' <=> Pending(p)
      BY <2>11 DEF Pending
    <3>2. \A p \in E!Part : Unshown(p)' \/ (p = "sets" /\ thinned')
      BY <1>1, <1>2, <2>1, <2>4 DEF Unshown, ListAway, ScreenTyped, E!Part
    <3> QED BY <1>1, <3>1, <3>2 DEF ListCurrent, ListAway
  <2> QED BY <2>4, <2>7, <2>10, <2>11, <2>12, <2>13, <2>14, <2>15 DEF CollectionInv
<1> QED BY <1>5, <1>6

\* What is asked for after a change, but not as its follow-up.
NoneRead(load) == \A p \in load.parts : load.stage[p] # "READ"

LEMMA AskedAnew ==
    ASSUME NEW q \in E!Query, NEW parts \in SUBSET E!Part, NEW load, load = E!LoadOf(q, parts, FALSE)
    PROVE  /\ \A values : LoadFits(load, values)
           /\ load # E!NoLoad /\ load.query = q /\ load.parts = parts /\ NoneRead(load)
<1>1. FALSE \in BOOLEAN
  OBVIOUS
<1>2. \A after \in BOOLEAN :
        LET new == E!LoadOf(q, parts, after)
        IN /\ \A values : LoadFits(new, values)
           /\ new # E!NoLoad /\ new.query = q /\ new.parts = parts /\ NoneRead(new)
  BY Asked DEF NoneRead
<1> QED BY <1>1, <1>2

\* The list is asked for again: all of it, or on the app what a change makes stale and what was asked for.
LEMMA AskedAgain ==
    ASSUME CollectionInv, RowsStay, at = "ITEM", UNCHANGED <<gadget, listed, removing, crossed, thinned>>,
           NEW q \in E!Query, query' = q, NEW parts \in SUBSET E!Part,
           NEW new, new = E!LoadOf(q, parts, FALSE), loads' = <<new, E!NoLoad>>,
           {"summary", "list"} \subseteq parts, \A p \in E!Part : Pending(p) => p \in parts,
           parts = E!Part \/ (query' = query /\ gadget # "web"),
           at' \in {"LIST", "ITEM"}, at' = "ITEM" => gadget # "web",
           older' \subseteq E!Part \cup {"item"}, \A p \in E!Part : p \in older => p \in older',
           ItemTyped', SeenFits'
    PROVE  CollectionInv'
<1> USE CollectionParts
<1>1. LotsFit' /\ Grows /\ (query' = query => \A p \in E!Part : Now(p)' = Now(p))
  BY RowsKept
<1>2. /\ \A values : LoadFits(new, values)
      /\ new # E!NoLoad /\ new.query = q /\ new.parts = parts /\ NoneRead(new)
  BY AskedAnew
<1>3. DOMAIN loads' = {1, 2} /\ loads'[1] = new /\ loads'[2] = E!NoLoad
  OBVIOUS
<1>4. E!Busy' = {1}
  BY <1>2, <1>3 DEF E!Busy
<1>5. LoadsFit' /\ LoadsCurrent'
  <2>1. \A k \in E!Busy' : loads'[k] = new
    BY <1>3, <1>4
  <2>2. LoadsFit'
    BY <1>2, <1>3, <2>1 DEF LoadsFit
  <2>3. LoadsCurrent'
    BY <1>2, <2>1 DEF LoadsCurrent, NoneRead
  <2> QED BY <2>2, <2>3
<1>6. ListTyped'
  BY <1>1, ListKept
<1>7. ScreenTyped' /\ RemovingFits' /\ AwayFits' /\ ~ListAway'
  BY DEF ScreenTyped, RemovingFits, AwayFits, ListAway
<1>8. \A p \in parts : Pending(p)'
  BY <1>2, <1>3, <1>4 DEF Pending
<1>9. ListCurrent'
  <2> SUFFICES ASSUME ~crossed PROVE ListCurrent'
    BY DEF ListCurrent
  <2>1. ASSUME NEW p \in E!Part, p \notin parts
        PROVE  /\ listed'.shown[p].read
               /\ p \in older' \/ listed'.shown[p] = Now(p)' \/ (p = "sets" /\ thinned')
    <3>1. query' = query /\ gadget # "web" /\ ~Pending(p) /\ p \notin {"summary", "list"} /\ ~Unshown(p) /\ ~ListAway
      BY <2>1 DEF Unshown, ListAway
    <3> QED BY <1>1, <3>1 DEF ListCurrent
  <2>2. "list" \in parts
    OBVIOUS
  <2> QED BY <1>8, <2>1, <2>2 DEF ListCurrent, Unshown
<1> QED BY <1>1, <1>5, <1>6, <1>7, <1>9 DEF CollectionInv

LEMMA AnsweredItem ==
    ASSUME CollectionInv, ItemDone
    PROVE  /\ item.lot \in 1..last /\ item.seen.row \in E!LotRow /\ item.sent \in Forms /\ item.sent.quantity # 0
           /\ DOMAIN item.seen = {"read", "row", "form"} /\ item.seen.read /\ item.seen.form \in Forms /\ at = "ITEM"
<1>1. item.call # "NONE" /\ ItemTyped /\ SeenFits
  BY CollectionParts DEF ItemDone
<1>2. item.seen.read /\ item.seen # E!Unread
  BY <1>1 DEF ItemTyped, E!Unread
<1> QED BY <1>1, <1>2 DEF ItemTyped, SeenFits

\* What was being read is read again.
LEMMA PendingParts ==
    ASSUME LoadsFit, NEW parts \in SUBSET E!Part
    PROVE  LET again == parts \cup UNION {loads[k].parts : k \in E!Busy}
           IN again \in SUBSET E!Part /\ \A p \in E!Part : Pending(p) => p \in again
BY DEF LoadsFit, LoadFits, Pending

LEMMA ShowSavedStep == ASSUME CollectionInv, E!ShowSaved PROVE CollectionInv'
<1> USE CollectionParts
<1>1. /\ item.call = "SAVE" /\ item.stage = "DONE"
      /\ UNCHANGED <<lots, last, begun, onSale, day, history, worth, gadget, at, query, listed, removing, crossed,
                     thinned, older>>
  BY DEF E!ShowSaved, E!serverRows
<1>2. ItemDone
  BY <1>1 DEF ItemDone
<1>3. /\ item.lot \in 1..last /\ item.seen.row \in E!LotRow /\ item.sent \in Forms /\ item.sent.quantity # 0
      /\ DOMAIN item.seen = {"read", "row", "form"} /\ item.seen.read /\ item.seen.form \in Forms /\ at = "ITEM"
  BY <1>2, AnsweredItem
<1>4. RowsStay /\ older' \subseteq E!Part \cup {"item"}
  BY <1>1 DEF RowsStay, LotsFit, ScreenTyped
<1>5. CASE gadget = "web"
  <2> DEFINE shown == E!Saved(item.seen.row, item.sent)
  <2>1. item' = [E!Idle(item) EXCEPT !.seen.row = shown] /\ loads' = loads
    BY <1>5 DEF E!ShowSaved
  <2>2. shown \in E!LotRow /\ shown.card = item.seen.row.card
    BY <1>3, SavedIs
  <2> HIDE DEF shown
  <2>3. /\ DOMAIN item' = {"lot", "seen", "call"} /\ item'.call = "NONE" /\ item'.lot = item.lot
        /\ item'.seen = [item.seen EXCEPT !.row = shown]
    BY <2>1 DEF E!Idle
  <2>4. /\ DOMAIN item'.seen = {"read", "row", "form"} /\ item'.seen.read /\ item'.seen.row = shown
        /\ item'.seen.form = item.seen.form
    BY <1>3, <2>3
  <2>5. ItemTyped' /\ ~ItemDone'
    BY <1>1, <1>3, <2>2, <2>3, <2>4 DEF ItemTyped, ItemDone
  <2>6. SeenFits'
    <3>1. item.lot \in DOMAIN lots => item.seen.row.card = lots[item.lot].card
      BY <1>3 DEF SeenFits
    <3>2. "item" \notin older => item.lot \in DOMAIN lots /\ lots[item.lot] = shown
      BY <1>1, <1>2, <1>3 DEF SeenFits, shown
    <3> QED BY <1>1, <1>3, <2>2, <2>3, <2>4, <2>5, <3>1, <3>2 DEF SeenFits
  <2>7. ListAway
    BY <1>3, <1>5 DEF ListAway
  <2> QED BY <1>1, <1>4, <2>1, <2>5, <2>6, <2>7, ItemStep
<1>6. CASE gadget # "web"
  <2> DEFINE again == E!InvalidatedKeys \cup UNION {loads[k].parts : k \in E!Busy}
             new == E!LoadOf(query, again, FALSE)
  <2>1. item' = [E!Idle(item) EXCEPT !.seen = E!Unread] /\ loads' = <<new, E!NoLoad>>
    BY <1>6 DEF E!ShowSaved, E!AppReload
  <2>2. E!InvalidatedKeys \in SUBSET E!Part /\ {"summary", "list"} \subseteq again
    BY DEF E!InvalidatedKeys, E!Part
  <2>3. again \in SUBSET E!Part /\ \A p \in E!Part : Pending(p) => p \in again
    BY <2>2, PendingParts
  <2>4. DOMAIN item' = {"lot", "seen", "call"} /\ item'.call = "NONE" /\ item'.lot = item.lot /\ item'.seen = E!Unread
    BY <2>1 DEF E!Idle
  <2>5. ItemTyped' /\ SeenFits'
    BY <1>1, <1>3, <2>4 DEF ItemTyped, SeenFits, ItemDone, E!Unread
  <2>6. query \in E!Query /\ query' = query
    BY <1>1 DEF ScreenTyped
  <2> HIDE DEF again, new
  <2>7. new = E!LoadOf(query, again, FALSE)
    BY DEF new
  <2> QED BY <1>1, <1>3, <1>4, <1>6, <2>1, <2>2, <2>3, <2>5, <2>6, <2>7, AskedAgain
<1> QED BY <1>5, <1>6

\* Back at the list the page of a lot has nothing.
LEMMA NothingOpen ==
    ASSUME item' = E!NoItem, at' = "LIST", CollectionInv, older' = older \ {"item"}
    PROVE  /\ ItemTyped' /\ SeenFits' /\ ~ItemDone' /\ at' \in {"LIST", "ITEM"} /\ older' \subseteq E!Part \cup {"item"}
           /\ \A p \in E!Part : p \in older => p \in older'
<1>1. DOMAIN item' = {"lot", "seen", "call"} /\ item'.call = "NONE" /\ item'.seen = E!Unread /\ ~item'.seen.read
  BY DEF E!NoItem, E!Unread
<1>2. ItemTyped' /\ SeenFits' /\ ~ItemDone'
  BY <1>1 DEF ItemTyped, SeenFits, ItemDone
<1>3. older' \subseteq E!Part \cup {"item"} /\ \A p \in E!Part : p \in older => p \in older'
  BY CollectionParts DEF ScreenTyped, E!Part
<1> QED BY <1>2, <1>3

\* On the web the list comes up anew.
LEMMA WebListAnew ==
    ASSUME CollectionInv, RowsStay, at = "ITEM", at' = "LIST", item' = E!NoItem, query' = E!AllLots,
           loads' = <<E!LoadOf(E!AllLots, E!Part, FALSE), E!NoLoad>>, older' = older \ {"item"},
           UNCHANGED <<gadget, listed, removing, crossed, thinned>>
    PROVE  CollectionInv'
<1> DEFINE new == E!LoadOf(E!AllLots, E!Part, FALSE)
<1>1. /\ ItemTyped' /\ SeenFits' /\ at' \in {"LIST", "ITEM"} /\ older' \subseteq E!Part \cup {"item"}
      /\ \A p \in E!Part : p \in older => p \in older'
  BY NothingOpen
<1>2. E!AllLots \in E!Query /\ E!Part \in SUBSET E!Part /\ {"summary", "list"} \subseteq E!Part
  BY DEF E!Query, E!Part
<1>3. \A p \in E!Part : Pending(p) => p \in E!Part
  OBVIOUS
<1>4. at' = "ITEM" => gadget # "web"
  OBVIOUS
<1> HIDE DEF new
<1>5. new = E!LoadOf(E!AllLots, E!Part, FALSE) /\ loads' = <<new, E!NoLoad>>
  BY DEF new
<1> QED BY <1>1, <1>2, <1>3, <1>4, <1>5, AskedAgain

LEMMA ShowRemovedStep == ASSUME CollectionInv, E!ShowRemoved PROVE CollectionInv'
<1> USE CollectionParts
<1>1. /\ item.call = "REMOVE" /\ item.stage = "DONE" /\ at' = "LIST" /\ item' = E!NoItem
      /\ older' = older \ {"item"}
      /\ UNCHANGED <<lots, last, begun, onSale, day, history, worth, gadget, listed, removing, crossed, thinned>>
  BY DEF E!ShowRemoved, E!serverRows
<1>2. RowsStay /\ at = "ITEM"
  BY <1>1 DEF RowsStay, LotsFit, ItemTyped
<1>3. CASE gadget = "web"
  <2>1. query' = E!AllLots /\ loads' = <<E!LoadOf(E!AllLots, E!Part, FALSE), E!NoLoad>>
    BY <1>3 DEF E!ShowRemoved
  <2> QED BY <1>1, <1>2, <2>1, WebListAnew
<1>4. CASE gadget # "web"
  <2>1. PICK asked_E \in {E!InvalidatedKeys, E!Part} :
           loads' = <<E!LoadOf(query, asked_E \cup UNION {loads[k].parts : k \in E!Busy}, FALSE), E!NoLoad>>
    BY <1>4 DEF E!ShowRemoved, E!AppReload
  <2> DEFINE again == asked_E \cup UNION {loads[k].parts : k \in E!Busy}
             new == E!LoadOf(query, again, FALSE)
  <2>2. asked_E \in SUBSET E!Part /\ {"summary", "list"} \subseteq again
    BY DEF E!InvalidatedKeys, E!Part
  <2>3. again \in SUBSET E!Part /\ \A p \in E!Part : Pending(p) => p \in again
    BY <2>2, PendingParts
  <2>4. /\ ItemTyped' /\ SeenFits' /\ at' \in {"LIST", "ITEM"} /\ older' \subseteq E!Part \cup {"item"}
        /\ \A p \in E!Part : p \in older => p \in older'
    BY <1>1, NothingOpen
  <2>5. query \in E!Query /\ query' = query
    BY <1>4 DEF ScreenTyped, E!ShowRemoved
  <2>6. new = E!LoadOf(query, again, FALSE) /\ loads' = <<new, E!NoLoad>>
    BY <2>1
  <2> HIDE DEF again, new
  <2> QED BY <1>1, <1>2, <1>4, <2>2, <2>3, <2>4, <2>5, <2>6, AskedAgain
<1> QED BY <1>3, <1>4

LEMMA BackToListStep == ASSUME CollectionInv, E!BackToList PROVE CollectionInv'
<1> USE CollectionParts
<1>1. /\ at = "ITEM" /\ item.call = "NONE" /\ at' = "LIST" /\ item' = E!NoItem
      /\ older' = older \ {"item"}
      /\ UNCHANGED <<lots, last, begun, onSale, day, history, worth, gadget, listed, removing, crossed, thinned>>
  BY DEF E!BackToList, E!serverRows, E!OnItem
<1>2. RowsStay /\ ~ItemDone
  BY <1>1 DEF RowsStay, LotsFit, ItemDone
<1>3. CASE gadget = "web"
  <2>1. query' = E!AllLots /\ loads' = <<E!LoadOf(E!AllLots, E!Part, FALSE), E!NoLoad>>
    BY <1>3 DEF E!BackToList
  <2> QED BY <1>1, <1>2, <2>1, WebListAnew
<1>4. CASE gadget # "web"
  <2>1. UNCHANGED <<query, loads>>
    BY <1>4 DEF E!BackToList
  <2>2. /\ ItemTyped' /\ SeenFits' /\ ~ItemDone' /\ older' \subseteq E!Part \cup {"item"}
        /\ \A p \in E!Part : p \in older => p \in older'
    BY <1>1, NothingOpen
  <2>3. LotsFit' /\ Grows /\ \A p \in E!Part : Now(p)' = Now(p)
    BY <1>2, <2>1, RowsKept
  <2>4. LoadsFit' /\ E!Busy' = E!Busy /\ ListTyped'
    BY <1>1, <2>1, <2>3, LoadsKept, ListKept
  <2>5. ScreenTyped' /\ RemovingFits' /\ AwayFits' /\ ~ListAway /\ ~ListAway'
    BY <1>1, <1>4, <2>1, <2>2 DEF ScreenTyped, RemovingFits, AwayFits, ListAway
  <2>6. LoadsCurrent'
    BY <1>1, <2>1, <2>3, <2>4 DEF LoadsCurrent, LoadsFit, LoadFits
  <2>7. ListCurrent'
    BY <1>1, <1>2, <2>1, <2>2, <2>3, <2>4, <2>5 DEF ListCurrent, Unshown, Pending
  <2> QED BY <2>2, <2>3, <2>4, <2>5, <2>6, <2>7 DEF CollectionInv
<1> QED BY <1>3, <1>4

----------------------------------------------------------------------------
(* Elsewhere.                                                              *)

\* What the pages show, and what is in flight, is known to be of before.
LEMMA ElsewhereStep ==
    ASSUME CollectionInv, E!Elsewhere, LotsFit', Grows, last <= last',
           \A l \in 1..last : l \in DOMAIN lots' => l \in DOMAIN lots /\ lots'[l].card = lots[l].card
    PROVE  CollectionInv'
<1> USE CollectionParts
<1>1. /\ older' = {p \in E!Part : listed.shown[p].read} \cup (IF at = "ITEM" THEN {"item"} ELSE {})
      /\ loads' = E!Outdated
      /\ UNCHANGED <<gadget, at, query, listed, removing, item, crossed, thinned>>
  BY DEF E!Elsewhere, E!OnItem
<1>2. /\ LoadsFit' /\ E!Busy' = E!Busy
      /\ \A k \in E!Busy : loads'[k].since /\ loads'[k].query = loads[k].query /\ loads'[k].parts = loads[k].parts
  BY <1>1, OutdatedLoads
<1>3. ListTyped' /\ ItemTyped' /\ ItemDone' = ItemDone
  BY <1>1, ListKept DEF ItemTyped, ItemDone
<1>4. SeenFits'
  <2>1. CASE at = "ITEM"
    <3>1. "item" \in older' /\ item' = item
      BY <1>1, <2>1
    <3>2. last \in Nat /\ last' \in Nat
      BY DEF LotsFit
    <3>3. item.seen.read => item.lot \in 1..last' /\ (item.lot \in DOMAIN lots' => item.seen.row.card = lots'[item.lot].card)
      BY <3>2 DEF SeenFits
    <3> QED BY <3>1, <3>3 DEF SeenFits
  <2>2. CASE at # "ITEM"
    <3>1. item' = E!NoItem
      BY <1>1, <2>2 DEF ItemTyped, ScreenTyped
    <3> QED BY <3>1 DEF SeenFits, E!NoItem, E!Unread
  <2> QED BY <2>1, <2>2
<1>5. ScreenTyped' /\ RemovingFits' /\ AwayFits' /\ ListAway' = ListAway
  BY <1>1, <1>2 DEF ScreenTyped, RemovingFits, AwayFits, ListAway
<1>6. LoadsCurrent'
  BY <1>1, <1>2 DEF LoadsCurrent
<1>7. ListCurrent'
  <2>1. \A p : Pending(p)' <=> Pending(p)
    BY <1>2 DEF Pending
  <2>2. \A p \in E!Part : listed.shown[p].read => p \in older'
    BY <1>1
  <2> QED BY <1>1, <1>5, <2>1, <2>2 DEF ListCurrent, Unshown
<1> QED BY <1>2, <1>3, <1>4, <1>5, <1>6, <1>7 DEF CollectionInv

LEMMA AddItemStep == ASSUME CollectionInv, NEW new \in E!LotRow, E!AddItem(new) PROVE CollectionInv'
<1> USE CollectionParts
<1>1. /\ E!Elsewhere /\ last < MaxLots /\ last' = last + 1 /\ begun' = TRUE
      /\ lots' = [l \in DOMAIN lots \cup {last'} |-> IF l = last' THEN new ELSE lots[l]]
      /\ UNCHANGED <<onSale, day, history, worth>>
  BY DEF E!AddItem
<1>2. last \in Nat /\ MaxLots \in Nat /\ DOMAIN lots \subseteq 1..last /\ DOMAIN lots \subseteq 1..MaxLots
  BY CollectionAssumption DEF LotsFit
<1>3. DOMAIN lots' \subseteq 1..last' /\ DOMAIN lots' \subseteq 1..MaxLots /\ last' \in Nat
  BY <1>1, <1>2
<1>4. \A l \in DOMAIN lots' : lots'[l] \in E!LotRow
  BY <1>1 DEF LotsFit
<1>5. LotsFit'
  BY <1>1, <1>3, <1>4 DEF LotsFit
<1>6. Grows
  BY <1>1 DEF Grows, Captures, E!Past
<1>7. last <= last' /\ \A l \in 1..last : l \in DOMAIN lots' => l \in DOMAIN lots /\ lots'[l].card = lots[l].card
  BY <1>1, <1>2
<1> QED BY <1>1, <1>5, <1>6, <1>7, ElsewhereStep

LEMMA SellOneStep == ASSUME CollectionInv, NEW l_E \in 1..MaxLots, E!SellOne(l_E) PROVE CollectionInv'
<1> USE CollectionParts
<1>1. /\ E!Elsewhere /\ l_E \in DOMAIN lots
      /\ lots' = IF lots[l_E].quantity = 1 THEN [k \in DOMAIN lots \ {l_E} |-> lots[k]]
                 ELSE [lots EXCEPT ![l_E].quantity = @ - 1]
      /\ UNCHANGED <<last, begun, onSale, day, history, worth>>
  BY DEF E!SellOne
<1> DEFINE sold == [lots[l_E] EXCEPT !.quantity = @ - 1]
<1>2. lots[l_E] \in E!LotRow
  BY <1>1 DEF LotsFit
<1>3. lots[l_E].quantity # 1 => sold \in E!LotRow /\ sold.card = lots[l_E].card
  BY <1>2 DEF E!LotRow, E!MaxCopies
<1>4. /\ DOMAIN lots' \subseteq DOMAIN lots
      /\ \A k \in DOMAIN lots' : lots'[k] \in E!LotRow /\ lots'[k].card = lots[k].card
  <2>1. CASE lots[l_E].quantity = 1
    BY <1>1, <2>1 DEF LotsFit
  <2>2. CASE lots[l_E].quantity # 1
    <3>1. lots' = [lots EXCEPT ![l_E] = sold]
      BY <1>1, <2>2
    <3>2. \A k \in DOMAIN lots : lots[k] \in E!LotRow
      BY DEF LotsFit
    <3> HIDE DEF sold
    <3> QED BY <1>3, <2>2, <3>1, <3>2
  <2> QED BY <2>1, <2>2
<1>5. LotsFit'
  BY <1>1, <1>4 DEF LotsFit
<1>6. Grows
  BY <1>1 DEF Grows, Captures, E!Past
<1>7. last <= last' /\ \A k \in 1..last : k \in DOMAIN lots' => k \in DOMAIN lots /\ lots'[k].card = lots[k].card
  BY <1>1, <1>4 DEF LotsFit
<1> QED BY <1>1, <1>5, <1>6, <1>7, ElsewhereStep

LEMMA TradeStep == ASSUME CollectionInv, NEW o_E \in Offer, E!Trade(o_E) PROVE CollectionInv'
<1> USE CollectionParts
<1>1. /\ E!Elsewhere
      /\ onSale' = IF o_E \in onSale THEN onSale \ {o_E} ELSE onSale \cup {o_E}
      /\ UNCHANGED <<lots, last, begun, day, history, worth>>
  BY DEF E!Trade
<1>2. LotsFit' /\ Grows
  BY <1>1 DEF LotsFit, Grows, Captures, E!Past
<1>3. last <= last' /\ \A l \in 1..last : l \in DOMAIN lots' => l \in DOMAIN lots /\ lots'[l].card = lots[l].card
  BY <1>1 DEF LotsFit
<1> QED BY <1>1, <1>2, <1>3, ElsewhereStep

LEMMA NextDayStep == ASSUME CollectionInv, E!NextDay PROVE CollectionInv'
<1> USE CollectionParts
<1>1. /\ E!Elsewhere /\ day < MaxDay /\ day' = day + 1
      /\ UNCHANGED <<lots, last, begun, onSale, history, worth>>
  BY DEF E!NextDay
<1>2. day \in 0..MaxDay /\ MaxDay \in Nat
  BY CollectionAssumption DEF LotsFit
<1>3. LotsFit'
  BY <1>1, <1>2 DEF LotsFit
<1>4. Grows
  BY <1>1, <1>2 DEF Grows, Captures, E!Past
<1>5. last <= last' /\ \A l \in 1..last : l \in DOMAIN lots' => l \in DOMAIN lots /\ lots'[l].card = lots[l].card
  BY <1>1 DEF LotsFit
<1> QED BY <1>1, <1>3, <1>4, <1>5, ElsewhereStep

LEMMA CaptureDailyValuesStep == ASSUME CollectionInv, E!CaptureDailyValues PROVE CollectionInv'
<1> USE CollectionParts
<1>1. /\ worth[day] = E!NoPrice /\ history[day] = E!NoPrice
      /\ history' = [history EXCEPT ![day] = E!Captured(E!Total("value"))]
      /\ worth' = [worth EXCEPT ![day] = E!Total("value")]
      /\ UNCHANGED <<lots, last, begun, onSale, day, gadget, at, query, listed, loads, removing, crossed, thinned, item,
                     older>>
  BY DEF E!CaptureDailyValues, E!listRows
<1>2. day \in 0..MaxDay /\ DOMAIN history = 0..MaxDay /\ DOMAIN worth = 0..MaxDay /\ day \in Nat
  BY CollectionAssumption DEF LotsFit
<1> DEFINE total == E!Total("value")
<1>3. /\ history' = [history EXCEPT ![day] = E!Captured(total)] /\ worth' = [worth EXCEPT ![day] = total]
  BY <1>1
<1> HIDE DEF total
<1>4. \A d \in 0..MaxDay : history'[d] # E!NoPrice => history'[d] = E!Captured(worth'[d])
  BY <1>2, <1>3 DEF LotsFit
<1>5. LotsFit'
  BY <1>1, <1>2, <1>3, <1>4 DEF LotsFit
<1>6. \A d \in 0..day - 1 : history'[d] = history[d] /\ worth'[d] = worth[d]
  BY <1>2, <1>3
<1>7. Grows /\ SameAnswers
  BY <1>1, <1>6 DEF Grows, SameAnswers, Captures, E!Past
<1>8. \A p \in E!Part : Now(p)' = Now(p)
  BY <1>1, <1>2, <1>7, NowStays
<1>9. ItemTyped' /\ SeenFits' /\ ItemDone' = ItemDone
  BY <1>1, ItemKept
<1>10. older' \subseteq E!Part \cup {"item"}
  BY <1>1 DEF ScreenTyped
<1> QED BY <1>1, <1>5, <1>7, <1>8, <1>9, <1>10, ListBelow

----------------------------------------------------------------------------
LEMMA CollectionStart == ASSUME E!Init PROVE CollectionInv
<1> DEFINE new == E!LoadOf(E!AllLots, E!Part, FALSE)
<1>1. /\ lots \in FirstLots /\ last = E!Cardinality(DOMAIN lots) /\ begun \in BOOLEAN /\ onSale \subseteq Offer
      /\ day = 1 /\ history = [d \in 0..MaxDay |-> E!NoPrice] /\ worth = history
      /\ gadget \in {"web", "app"} /\ at = "LIST" /\ query = E!AllLots
      /\ listed = E!Blank /\ loads = <<new, E!NoLoad>> /\ removing = E!NoRemoval /\ item = E!NoItem
      /\ older = {} /\ crossed = FALSE /\ thinned = FALSE
  BY DEF E!Init
<1>2. PICK n \in 0..MaxLots : lots \in [1..n -> E!LotRow]
  BY <1>1, CollectionAssumption
<1>3. last = n
  <2>1. n \in Nat /\ DOMAIN lots = 1..n
    BY <1>2, CollectionAssumption
  <2>2. E!Cardinality(DOMAIN lots) = Cardinality(1..n)
    BY <2>1 DEF E!Cardinality, Cardinality
  <2>3. Cardinality(1..n) = n
    BY <2>1, FS_Interval
  <2> QED BY <1>1, <2>2, <2>3
<1>4. LotsFit
  <2>1. MaxLots \in Nat /\ MaxDay \in Nat \ {0}
    BY CollectionAssumption
  <2>2. DOMAIN lots \subseteq 1..MaxLots /\ last \in Nat /\ DOMAIN lots \subseteq 1..last
        /\ \A l \in DOMAIN lots : lots[l] \in E!LotRow
    BY <1>2, <1>3, <2>1
  <2>3. DOMAIN history = 0..MaxDay /\ DOMAIN worth = 0..MaxDay /\ \A d \in 0..MaxDay : history[d] = E!NoPrice
    BY <1>1
  <2> QED BY <1>1, <2>1, <2>2, <2>3 DEF LotsFit
<1>5. E!AllLots \in E!Query /\ E!Part \in SUBSET E!Part
  BY DEF E!Query
<1> HIDE DEF new
<1>6. (\A values : LoadFits(new, values)) /\ new # E!NoLoad /\ new.query = E!AllLots /\ new.parts = E!Part /\ NoneRead(new)
  BY <1>5, AskedAnew DEF new
<1>7. DOMAIN loads = {1, 2} /\ loads[1] = new /\ loads[2] = E!NoLoad
  BY <1>1
<1>8. E!Busy = {1}
  BY <1>6, <1>7 DEF E!Busy
<1>9. LoadsFit /\ LoadsCurrent
  <2>1. \A k \in E!Busy : loads[k] = new
    BY <1>7, <1>8
  <2>2. LoadsFit
    BY <1>6, <1>7, <2>1 DEF LoadsFit
  <2>3. LoadsCurrent
    BY <1>1, <1>6, <2>1 DEF LoadsCurrent, NoneRead
  <2> QED BY <2>2, <2>3
<1>10. ScreenTyped /\ ~ListAway
  BY <1>1, <1>5 DEF ScreenTyped, ListAway
<1>11. ListTyped /\ RemovingFits /\ AwayFits
  BY <1>1, <1>10 DEF ListTyped, RemovingFits, AwayFits, E!Blank, E!NoRemoval
<1>12. DOMAIN item = {"lot", "seen", "call"} /\ item.call = "NONE" /\ item.seen = E!Unread /\ ~item.seen.read
  BY <1>1 DEF E!NoItem, E!Unread
<1>13. ItemTyped /\ SeenFits
  BY <1>1, <1>12 DEF ItemTyped, SeenFits, ItemDone
<1>14. ListCurrent
  <2>1. \A p \in E!Part : Pending(p)
    BY <1>6, <1>7, <1>8 DEF Pending
  <2>2. "list" \in E!Part
    BY DEF E!Part
  <2> QED BY <2>1, <2>2 DEF ListCurrent, Unshown
<1> QED BY <1>4, <1>9, <1>10, <1>11, <1>13, <1>14 DEF CollectionInv

LEMMA CollectionStep == ASSUME CollectionInv, E!Next PROVE CollectionInv'
<1> USE CollectionParts
<1>1. CASE \E k \in DOMAIN loads : (\E p \in E!Part : E!ServePart(k, p)) \/ E!ShowLoad(k) \/ E!FailLoad(k)
  BY <1>1, ServePartStep, ShowLoadStep, FailLoadStep
<1>2. CASE \E q \in E!Query : E!UpdateFilter(q)
  BY <1>2, UpdateFilterStep
<1>3. CASE \E l \in 1..MaxLots : E!Check(l) \/ E!OpenItem(l) \/ E!SellOne(l)
  BY <1>3, CheckStep, OpenItemStep, SellOneStep
<1>4. CASE E!PressBulkDelete \/ E!BulkDelete \/ E!ShowBulkDelete \/ E!FailBulkDelete
  BY <1>4, PressBulkDeleteStep, BulkDeleteStep, ShowBulkDeleteStep, FailBulkDeleteStep
<1>5. CASE E!GetItem \/ E!Press("SAVE") \/ E!Press("REMOVE") \/ E!FindItem \/ E!WriteItem
  BY <1>5, GetItemStep, PressStep, FindItemStep, WriteItemStep
<1>6. CASE \E form_E \in [quantity : {IF gadget = "app" THEN 0 ELSE 1, 3}, condition : {"NM"}, cost : {E!NoPrice}] :
              E!EditForm(form_E)
  <2>1. \A form_E \in [quantity : {IF gadget = "app" THEN 0 ELSE 1, 3}, condition : {"NM"}, cost : {E!NoPrice}] :
           form_E \in Forms
    BY DEF Forms, E!Condition
  <2> QED BY <1>6, <2>1, EditFormStep
<1>7. CASE E!ShowSaved \/ E!ShowRemoved \/ E!FailItem \/ E!BackToList
  BY <1>7, ShowSavedStep, ShowRemovedStep, FailItemStep, BackToListStep
<1>8. CASE E!AddItem([card |-> "y", condition |-> "LP", quantity |-> 1, cost |-> 1])
  <2>1. [card |-> "y", condition |-> "LP", quantity |-> 1, cost |-> 1] \in E!LotRow
    BY DEF E!LotRow, E!Card, E!Condition, E!MaxCopies
  <2> QED BY <1>8, <2>1, AddItemStep
<1>9. CASE \E o \in Offer : E!Trade(o)
  BY <1>9, TradeStep
<1>10. CASE E!NextDay \/ E!CaptureDailyValues
  BY <1>10, NextDayStep, CaptureDailyValuesStep
<1> QED BY <1>1, <1>2, <1>3, <1>4, <1>5, <1>6, <1>7, <1>8, <1>9, <1>10, Zenon DEF E!Next

LEMMA CollectionStutter == ASSUME CollectionInv, UNCHANGED collectionVars PROVE CollectionInv'
<1> USE CollectionParts
<1>1. UNCHANGED <<lots, last, begun, onSale, day, history, worth, gadget, at, query, listed, loads, removing, item, older,
                  crossed, thinned>>
  BY DEF collectionVars
<1>2. RowsStay
  BY <1>1 DEF RowsStay, LotsFit
<1>3. ItemTyped' /\ SeenFits' /\ ItemDone' = ItemDone
  BY <1>1, ItemKept
<1>4. older' \subseteq E!Part \cup {"item"}
  BY <1>1 DEF ScreenTyped
<1> QED BY <1>1, <1>2, <1>3, <1>4, ItemStep

----------------------------------------------------------------------------
LEMMA CollectionScreensFit == ASSUME CollectionInv PROVE E!ChangeIsOfValues /\ E!ListFits /\ E!ItemFits /\ E!CollectionTypeOK
<1> USE CollectionParts
<1>1. E!ChangeIsOfValues
  <2> SUFFICES ASSUME listed.shown["summary"].read, listed.shown["summary"].of.change # E!NoPrice
               PROVE  \E d \in 0..day - 1 :
                        /\ history[d] # E!NoPrice
                           /\ listed.shown["summary"].of.change = listed.shown["summary"].of.value - history[d]
                        /\ worth[d] # E!NoPrice => history[d] = worth[d]
    BY Zenon DEF E!ChangeIsOfValues
  <2>1. "summary" \in E!Part /\ listed.shown["summary"] # E!Unread
    BY DEF E!Part, E!Unread
  <2>2. ChangeFits(listed.shown["summary"].of, Captures)
    BY <2>1 DEF ListTyped, WasRead
  <2>3. PICK d \in E!Past : listed.shown["summary"].of.change = listed.shown["summary"].of.value - E!Captured(worth[d])
    BY <2>2 DEF ChangeFits, Captures
  <2>4. d \in 0..day - 1 /\ day \in 0..MaxDay /\ history[d] # E!NoPrice
    BY <2>3 DEF E!Past, LotsFit
  <2>5. history[d] = E!Captured(worth[d])
    <3>1. d \in 0..MaxDay
      BY <2>4, CollectionAssumption
    <3> QED BY <2>4, <3>1 DEF LotsFit
  <2>6. worth[d] # E!NoPrice => history[d] = worth[d]
    BY <2>5 DEF E!Captured
  <2> QED BY <2>3, <2>4, <2>5, <2>6
<1>2. E!ListFits
  <2> SUFFICES ASSUME at = "LIST", E!Busy = {}, ~removing.asked, ~crossed
               PROVE  /\ listed.shown["list"].read => listed.shown["list"].of.query = query
                      /\ \A p \in E!Part \ older : listed.shown[p] = E!Answer(p, query) \/ (p = "sets" /\ thinned)
    BY Zenon DEF E!ListFits
  <2>1. (\A p : ~Pending(p)) /\ ~ListAway /\ ~ItemDone
    BY DEF Pending, ListAway, ItemDone, ItemTyped, E!NoItem
  <2> QED BY <2>1 DEF ListCurrent, Unshown, Now
<1>3. E!ItemFits
  <2> SUFFICES ASSUME at = "ITEM", item.call = "NONE", item.seen.read, "item" \notin older
               PROVE  item.lot \in DOMAIN lots /\ item.seen.row = lots[item.lot]
    BY DEF E!ItemFits, E!OnItem, E!Gone
  <2> QED BY DEF SeenFits, ItemDone
<1>4. E!CollectionTypeOK
  BY DEF E!CollectionTypeOK, LotsFit, ScreenTyped, ListTyped
<1> QED BY <1>1, <1>2, <1>3, <1>4

----------------------------------------------------------------------------
(* What the answers about the same lots say of each other.                 *)

LEMMA SizeIs == \A some : E!Cardinality(some) = Cardinality(some)
<1> TAKE some
<1> QED BY DEF E!Cardinality, Cardinality

LEMMA OffersAre == /\ IsFiniteSet(Offer) /\ \A o \in Offer : o.price \in Nat
                   /\ \E b \in Nat : \A o \in Offer : o.price <= b
<1> DEFINE Good == {some \in SUBSET Offer : \E b \in Nat : \A o \in some : o.price <= b}
<1>1. IsFiniteSet(Offer) /\ \A o \in Offer : o.price \in Nat
  BY CollectionAssumption
<1>2. ASSUME NEW some \in SUBSET Offer, \A few \in SUBSET some : few # some => few \in Good PROVE some \in Good
  <2>1. CASE some = {}
    BY <2>1
  <2>2. CASE some # {}
    <3>1. PICK x \in some : TRUE
      BY <2>2
    <3>2. some \ {x} \in Good
      BY <1>2
    <3>3. PICK b \in Nat : \A o \in some \ {x} : o.price <= b
      BY <3>2
    <3>4. x.price \in Nat
      BY <1>1
    <3>5. \A o \in some : o.price <= b + x.price
      BY <1>1, <3>3, <3>4
    <3> QED BY <3>3, <3>4, <3>5
  <2> QED BY <2>1, <2>2
<1> HIDE DEF Good
<1>3. Offer \in Good
  BY <1>1, <1>2, SubsetInduction
<1> QED BY <1>1, <1>3 DEF Good

\* There is an n-th lowest price, and it is a price.
LEMMA NthPriceIs ==
    ASSUME NEW some \in SUBSET Offer, NEW n \in 1..Cardinality(some)
    PROVE  E!NthPrice(some, n) \in Nat
<1> DEFINE UpTo(p) == {o \in some : o.price <= p}
           Below(p) == {o \in some : o.price < p}
           Enough == {p \in Nat : n <= Cardinality(UpTo(p))}
<1>1. IsFiniteSet(some) /\ Cardinality(some) \in Nat /\ n \in Nat /\ n >= 1 /\ n <= Cardinality(some)
  BY OffersAre, FS_Subset, FS_CardinalityType
<1>2. \A o \in some : o.price \in Nat
  BY OffersAre
<1>3. PICK b \in Nat : \A o \in some : o.price <= b
  BY OffersAre
<1>4. UpTo(b) = some
  BY <1>3
<1>5. b \in Enough
  BY <1>1, <1>3, <1>4
<1>6. PICK p \in Enough : \A m \in Enough : ~(m < p)
  <2>1. Enough \in SUBSET Nat /\ Enough # {}
    BY <1>5
  <2> HIDE DEF Enough
  <2> QED BY <2>1, LeastNatural
<1>7. /\ p \in Nat /\ n <= Cardinality(UpTo(p))
      /\ \A m \in Nat : m < p => ~(n <= Cardinality(UpTo(m)))
  BY <1>6
<1>8. \A m : IsFiniteSet(UpTo(m)) /\ Cardinality(UpTo(m)) \in Nat
  BY <1>1, FS_Subset, FS_CardinalityType
<1>9. Cardinality(Below(p)) < n
  <2>1. CASE p = 0
    <3>1. Below(p) = {}
      BY <1>2, <2>1
    <3> HIDE DEF Below
    <3> QED BY <1>1, <3>1, FS_EmptySet
  <2>2. CASE p # 0
    <3>1. p - 1 \in Nat /\ p - 1 < p
      BY <1>7, <2>2
    <3>2. Below(p) = UpTo(p - 1)
      BY <1>2, <1>7, <2>2
    <3>3. ~(n <= Cardinality(UpTo(p - 1))) /\ Cardinality(UpTo(p - 1)) \in Nat
      BY <1>7, <1>8, <3>1
    <3> HIDE DEF Below, UpTo
    <3> QED BY <1>1, <3>2, <3>3
  <2> QED BY <2>1, <2>2
<1>10. \E o \in some : o.price = p
  <2> SUFFICES ASSUME \A o \in some : o.price # p PROVE FALSE
    OBVIOUS
  <2>1. UpTo(p) = Below(p)
    BY <1>2, <1>7
  <2> HIDE DEF UpTo, Below
  <2> QED BY <1>1, <1>7, <1>8, <1>9, <2>1
<1>11. p \in {o.price : o \in some}
  BY <1>10
<1>12. E!Cardinality({o \in some : o.price < p}) < n /\ n <= E!Cardinality({o \in some : o.price <= p})
  BY <1>7, <1>9, SizeIs
<1>13. E!NthPrice(some, n) \in {o.price : o \in some}
  BY <1>11, <1>12 DEF E!NthPrice
<1> QED BY <1>2, <1>13

LEMMA MedianIs == ASSUME NEW some \in SUBSET Offer PROVE E!MedianInt(some) \in Nat \cup {E!NoPrice}
<1> DEFINE mid == Cardinality(some) \div 2
<1>1. IsFiniteSet(some) /\ Cardinality(some) \in Nat /\ (Cardinality(some) = 0 <=> some = {})
  BY OffersAre, FS_Subset, FS_CardinalityType, FS_EmptySet
<1>2. E!Cardinality(some) = Cardinality(some)
  BY SizeIs
<1> SUFFICES ASSUME some # {} PROVE E!MedianInt(some) \in Nat
  BY <1>2 DEF E!MedianInt
<1>3. mid + 1 \in 1..Cardinality(some) /\ (Cardinality(some) % 2 = 0 => mid \in 1..Cardinality(some))
  BY <1>1
<1>4. E!NthPrice(some, mid + 1) \in Nat /\ (Cardinality(some) % 2 = 0 => E!NthPrice(some, mid) \in Nat)
  BY <1>3, NthPriceIs
<1>5. \A a, b \in Nat : (a + b + 1) \div 2 \in Nat
  OBVIOUS
<1>6. E!MedianInt(some) = IF Cardinality(some) % 2 = 0 THEN (E!NthPrice(some, mid) + E!NthPrice(some, mid + 1) + 1) \div 2
                          ELSE E!NthPrice(some, mid + 1)
  BY <1>2 DEF E!MedianInt
<1> QED BY <1>4, <1>5, <1>6

\* Nothing is worth less than nothing, or cost more than one for each copy.
LEMMA ValuesAre ==
    ASSUME LotsFit, NEW l \in DOMAIN lots
    PROVE  /\ E!ValueOf(lots[l]) \in Nat \cup {E!NoPrice} /\ E!CostOf(lots[l]) \in (0..3) \cup {E!NoPrice}
           /\ E!NoPrice \notin {E!ValueOf(lots[l]), E!CostOf(lots[l])} =>
                E!GainOf(lots[l]) = E!ValueOf(lots[l]) - E!CostOf(lots[l]) /\ E!GainOf(lots[l]) # E!NoPrice
           /\ \A part : E!SumOf(lots[l], part) \in Int
<1>1. /\ lots[l].quantity \in {1, 2, 3} /\ lots[l].cost \in {E!NoPrice, 1}
  BY DEF LotsFit, E!LotRow, E!MaxCopies
<1>2. E!EstimateUnit(lots[l]) \in Nat \cup {E!NoPrice}
  <2>1. \A some \in SUBSET Offer : E!MedianInt(some) \in Nat \cup {E!NoPrice}
    BY MedianIs
  <2>2. E!Available \in SUBSET Offer
    BY DEF E!Available, LotsFit
  <2> QED BY <2>1, <2>2 DEF E!EstimateUnit
<1>3. E!ValueOf(lots[l]) \in Nat \cup {E!NoPrice}
  BY <1>1, <1>2 DEF E!ValueOf, E!Times
<1>4. E!CostOf(lots[l]) \in (0..3) \cup {E!NoPrice}
  BY <1>1 DEF E!CostOf, E!Times
<1>5. E!GainOf(lots[l]) = IF E!NoPrice \in {E!ValueOf(lots[l]), E!CostOf(lots[l])} THEN E!NoPrice
                          ELSE E!ValueOf(lots[l]) - E!CostOf(lots[l])
  BY DEF E!GainOf, E!Minus
<1>6. E!NoPrice = -99
  BY DEF E!NoPrice
<1>7. E!GainOf(lots[l]) \in Int
  BY <1>3, <1>4, <1>5, <1>6
<1> QED BY <1>3, <1>4, <1>5, <1>6, <1>7 DEF E!SumOf

LEMMA CopiesAdd ==
    ASSUME NEW some, NEW more, IsFiniteSet(some), IsFiniteSet(more), some \cap more = {}
    PROVE  /\ E!Copies(some \cup more) = E!Copies(some) + E!Copies(more)
           /\ E!Copies(some) \in Nat /\ E!Copies(more) \in Nat
<1> DEFINE Of(rows) == {copy \in rows \X (1..E!MaxCopies) : copy[2] <= lots[copy[1]].quantity}
<1>1. \A rows : E!Copies(rows) = Cardinality(Of(rows))
  BY SizeIs DEF E!Copies
<1>2. IsFiniteSet(1..E!MaxCopies)
  <2>1. 1 \in Int /\ 3 \in Int /\ E!MaxCopies = 3
    BY DEF E!MaxCopies
  <2>2. IsFiniteSet(1..3)
    BY <2>1, FS_Interval
  <2> QED BY <2>1, <2>2
<1>3. IsFiniteSet(Of(some)) /\ IsFiniteSet(Of(more))
  BY <1>2, FS_Product, FS_Subset
<1>4. Of(some \cup more) = Of(some) \cup Of(more) /\ Of(some) \cap Of(more) = {}
  OBVIOUS
<1> HIDE DEF Of
<1>5. Cardinality(Of(some)) \in Nat /\ Cardinality(Of(more)) \in Nat /\ Cardinality({}) = 0
  BY <1>3, FS_CardinalityType, FS_EmptySet
<1>6. Cardinality(Of(some) \cup Of(more)) = Cardinality(Of(some)) + Cardinality(Of(more)) - Cardinality(Of(some) \cap Of(more))
  BY <1>3, FS_Union
<1>7. E!Copies(some \cup more) = Cardinality(Of(some) \cup Of(more))
  BY <1>1, <1>4, Zenon
<1>8. E!Copies(some) = Cardinality(Of(some)) /\ E!Copies(more) = Cardinality(Of(more))
  BY <1>1, Zenon
<1>9. Cardinality(Of(some) \cup Of(more)) = Cardinality(Of(some)) + Cardinality(Of(more))
  <2>1. Cardinality(Of(some) \cap Of(more)) = 0
    BY <1>4, <1>5, Zenon
  <2> QED BY <1>5, <1>6, <2>1
<1> QED BY <1>5, <1>7, <1>8, <1>9

LEMMA CopiesOfNone ==
    ASSUME LotsFit, NEW some \in SUBSET DOMAIN lots, IsFiniteSet(some), E!Copies(some) = 0
    PROVE  some = {}
<1> DEFINE all == {copy \in some \X (1..E!MaxCopies) : copy[2] <= lots[copy[1]].quantity}
<1>1. E!Copies(some) = Cardinality(all)
  BY SizeIs DEF E!Copies
<1>2. IsFiniteSet(1..E!MaxCopies)
  <2>1. 1 \in Int /\ 3 \in Int /\ E!MaxCopies = 3
    BY DEF E!MaxCopies
  <2>2. IsFiniteSet(1..3)
    BY <2>1, FS_Interval
  <2> QED BY <2>1, <2>2
<1>3. IsFiniteSet(all)
  BY <1>2, FS_Product, FS_Subset
<1>4. all = {}
  <2> HIDE DEF all
  <2> QED BY <1>1, <1>3, FS_EmptySet
<1> SUFFICES ASSUME NEW l \in some PROVE FALSE
  OBVIOUS
<1>5. lots[l].quantity \in 1..3
  BY DEF LotsFit, E!LotRow, E!MaxCopies
<1>6. <<l, 1>> \in all
  BY <1>5 DEF E!MaxCopies
<1> QED BY <1>4, <1>6

\* The cards of the lots, and those there is more than one copy of.
Held == {lots[l].card : l \in DOMAIN lots}
Repeated == {c \in Held : E!QtyByCard[c] > 1}
OfSet(s) == {c \in E!Card : E!SetOf[c] = s}

LEMMA LotsAre ==
    ASSUME LotsFit
    PROVE  /\ IsFiniteSet(DOMAIN lots) /\ IsFiniteSet(Held) /\ Held \subseteq E!Card
           /\ DOMAIN E!QtyByCard = Held /\ \A c \in Held : E!QtyByCard[c] \in Nat
<1>1. IsFiniteSet(DOMAIN lots)
  <2>1. 1 \in Int /\ MaxLots \in Int
    BY CollectionAssumption
  <2>2. IsFiniteSet(1..MaxLots)
    BY <2>1, FS_Interval
  <2> QED BY <2>2, FS_Subset DEF LotsFit
<1>2. Held \subseteq E!Card
  BY DEF Held, LotsFit, E!LotRow
<1>3. IsFiniteSet(E!Card)
  <2>1. IsFiniteSet({}) /\ \A some, x : IsFiniteSet(some) => IsFiniteSet(some \cup {x})
    BY FS_EmptySet, FS_AddElement
  <2>2. E!Card = (({} \cup {"x"}) \cup {"y"}) \cup {"z"}
    BY DEF E!Card
  <2> QED BY <2>1, <2>2, Zenon
<1>4. IsFiniteSet(Held)
  BY <1>2, <1>3, FS_Subset
<1>5. E!QtyByCard = [c \in Held |-> E!Copies({l \in DOMAIN lots : lots[l].card = c})]
  BY DEF E!QtyByCard, Held
<1>6. \A c : E!Copies({l \in DOMAIN lots : lots[l].card = c}) \in Nat
  <2> TAKE c
  <2> DEFINE rows == {l \in DOMAIN lots : lots[l].card = c}
  <2>1. IsFiniteSet(rows) /\ IsFiniteSet({}) /\ rows \cap {} = {}
    BY <1>1, FS_Subset, FS_EmptySet
  <2> HIDE DEF rows
  <2>2. E!Copies(rows) \in Nat
    BY <2>1, CopiesAdd
  <2> QED BY <2>2 DEF rows
<1> QED BY <1>1, <1>2, <1>4, <1>5, <1>6

SumOver(part, rows) == E!MapThenSumSet(LAMBDA l : E!SumOf(lots[l], part), rows)
OwnedIn(sets, codes) == E!MapThenSumSet(LAMBDA s : sets[s].owned, codes)
ExtraIn(sets, codes) == E!MapThenSumSet(LAMBDA s : sets[s].extra, codes)

\* The sums of the answers are totals: of the lots' values, ...
LEMMA PartIsTotal ==
    ASSUME NEW part, NEW rows, IsFiniteSet(rows), \A l \in rows : E!SumOf(lots[l], part) \in Int
    PROVE  \E g : /\ IsTotal(g, [l \in rows |-> E!SumOf(lots[l], part)], rows)
                  /\ SumOver(part, rows) = g[rows]
<1> DEFINE w == [l \in rows |-> E!SumOf(lots[l], part)]
           Makes(h) == h = [s \in SUBSET rows |-> IF s = {} THEN 0 ELSE E!SumOf(lots[Pick(s)], part) + h[s \ {Pick(s)}]]
<1>1. w \in [rows -> Int] /\ \A l \in rows : w[l] = E!SumOf(lots[l], part)
  OBVIOUS
<1>2. SumOver(part, rows) = (CHOOSE h : Makes(h))[rows]
  BY DEF SumOver, E!MapThenSumSet, E!MapThenFoldSet, Pick
<1> HIDE DEF w
<1>3. PICK g : SumsUp(g, w, rows)
  BY <1>1, FoldsAreTotal
<1>4. \A s \in SUBSET rows : s # {} => w[Pick(s)] = E!SumOf(lots[Pick(s)], part)
  BY <1>1, PickIsIn
<1>5. \A h : Makes(h) <=> DefinesFold(h, w, rows)
  BY <1>4 DEF DefinesFold
<1> HIDE DEF Makes
<1> DEFINE k == CHOOSE h : Makes(h)
<1>6. Makes(k)
  BY <1>3, <1>5 DEF SumsUp
<1>7. k[rows] = g[rows]
  BY <1>3, <1>5, <1>6 DEF SumsUp
<1> QED BY <1>2, <1>3, <1>7 DEF SumsUp, w

\* ... of the copies too many of some cards, ...
LEMMA ExtraIsTotal ==
    ASSUME NEW qty, NEW cards_E, IsFiniteSet(cards_E), NEW w \in [cards_E -> Int], NEW g, SumsUp(g, w, cards_E),
           DOMAIN qty \subseteq cards_E, \A c \in DOMAIN qty : w[c] = qty[c] - 1
    PROVE  E!DuplicateStats(qty).extra = g[{c \in DOMAIN qty : qty[c] > 1}]
<1> DEFINE more == {c \in DOMAIN qty : qty[c] > 1}
           Makes(h) == h = [s \in SUBSET more |-> IF s = {} THEN 0 ELSE (qty[Pick(s)] - 1) + h[s \ {Pick(s)}]]
<1>1. E!DuplicateStats(qty).extra = E!MapThenSumSet(LAMBDA c : qty[c] - 1, more)
  BY DEF E!DuplicateStats
<1>2. E!MapThenSumSet(LAMBDA c : qty[c] - 1, more) = (CHOOSE h : Makes(h))[more]
  BY DEF E!MapThenSumSet, E!MapThenFoldSet, Pick
<1>3. more \in SUBSET cards_E /\ \A s \in SUBSET more : s # {} => w[Pick(s)] = qty[Pick(s)] - 1
  BY PickIsIn
<1>4. \A h : Makes(h) <=> DefinesFold(h, w, more)
  BY <1>3 DEF DefinesFold
<1> HIDE DEF Makes, more
<1> DEFINE k == CHOOSE h : Makes(h)
<1>5. Makes(k)
  BY <1>3, <1>4 DEF SumsUp
<1>6. k[more] = g[more]
  BY <1>3, <1>4, <1>5 DEF SumsUp
<1> QED BY <1>1, <1>2, <1>6 DEF more

\* ... and of what is said of each set.
LEMMA SetsAreTotal ==
    ASSUME NEW sets, NEW codes, IsFiniteSet(codes)
    PROVE  /\ (\A s \in codes : sets[s].owned \in Int) =>
                \E g : /\ IsTotal(g, [s \in codes |-> sets[s].owned], codes)
                       /\ OwnedIn(sets, codes) = g[codes]
           /\ (\A s \in codes : sets[s].extra \in Int) =>
                \E g : /\ IsTotal(g, [s \in codes |-> sets[s].extra], codes)
                       /\ ExtraIn(sets, codes) = g[codes]
<1>1. ASSUME \A s \in codes : sets[s].owned \in Int
      PROVE  \E g : /\ IsTotal(g, [s \in codes |-> sets[s].owned], codes)
                    /\ OwnedIn(sets, codes) = g[codes]
  <2> DEFINE w == [s \in codes |-> sets[s].owned]
             Makes(h) == h = [some \in SUBSET codes |-> IF some = {} THEN 0
                                                      ELSE sets[Pick(some)].owned + h[some \ {Pick(some)}]]
  <2>1. w \in [codes -> Int] /\ \A s \in codes : w[s] = sets[s].owned
    BY <1>1
  <2>2. OwnedIn(sets, codes) = (CHOOSE h : Makes(h))[codes]
    BY DEF OwnedIn, E!MapThenSumSet, E!MapThenFoldSet, Pick
  <2> HIDE DEF w
  <2>3. PICK g : SumsUp(g, w, codes)
    BY <2>1, FoldsAreTotal
  <2>4. \A some \in SUBSET codes : some # {} => w[Pick(some)] = sets[Pick(some)].owned
    BY <2>1, PickIsIn
  <2>5. \A h : Makes(h) <=> DefinesFold(h, w, codes)
    BY <2>4 DEF DefinesFold
  <2> HIDE DEF Makes
  <2> DEFINE k == CHOOSE h : Makes(h)
  <2>6. Makes(k)
    BY <2>3, <2>5 DEF SumsUp
  <2>7. k[codes] = g[codes]
    BY <2>3, <2>5, <2>6 DEF SumsUp
  <2> QED BY <2>2, <2>3, <2>7 DEF SumsUp, w
<1>2. ASSUME \A s \in codes : sets[s].extra \in Int
      PROVE  \E g : /\ IsTotal(g, [s \in codes |-> sets[s].extra], codes)
                    /\ ExtraIn(sets, codes) = g[codes]
  <2> DEFINE w == [s \in codes |-> sets[s].extra]
             Makes(h) == h = [some \in SUBSET codes |-> IF some = {} THEN 0
                                                      ELSE sets[Pick(some)].extra + h[some \ {Pick(some)}]]
  <2>1. w \in [codes -> Int] /\ \A s \in codes : w[s] = sets[s].extra
    BY <1>2
  <2>2. ExtraIn(sets, codes) = (CHOOSE h : Makes(h))[codes]
    BY DEF ExtraIn, E!MapThenSumSet, E!MapThenFoldSet, Pick
  <2> HIDE DEF w
  <2>3. PICK g : SumsUp(g, w, codes)
    BY <2>1, FoldsAreTotal
  <2>4. \A some \in SUBSET codes : some # {} => w[Pick(some)] = sets[Pick(some)].extra
    BY <2>1, PickIsIn
  <2>5. \A h : Makes(h) <=> DefinesFold(h, w, codes)
    BY <2>4 DEF DefinesFold
  <2> HIDE DEF Makes
  <2> DEFINE k == CHOOSE h : Makes(h)
  <2>6. Makes(k)
    BY <2>3, <2>5 DEF SumsUp
  <2>7. k[codes] = g[codes]
    BY <2>3, <2>5, <2>6 DEF SumsUp
  <2> QED BY <2>2, <2>3, <2>7 DEF SumsUp, w
<1> QED BY <1>1, <1>2

LEMMA SetSays ==
    ASSUME LotsFit, NEW s
    PROVE  /\ E!SetProgress(s).owned = Cardinality(Held \cap OfSet(s))
           /\ E!SetProgress(s).missing = E!Cardinality(E!SetDetail(s).missing)
           /\ E!SetProgress(s).offered = E!Cardinality(E!SetDetail(s).offered)
           /\ \A w, g : (/\ w \in [Held -> Int] /\ SumsUp(g, w, Held)
                         /\ \A c \in Held : w[c] = E!QtyByCard[c] - 1) =>
                 E!SetProgress(s).extra = g[Repeated \cap OfSet(s)]
<1> DEFINE all == E!QtyByCard
           qty == [c \in DOMAIN all \cap OfSet(s) |-> all[c]]
           missing == OfSet(s) \ DOMAIN qty
<1>1. /\ E!SetProgress(s).owned = E!Cardinality(DOMAIN qty)
      /\ E!SetProgress(s).missing = E!Cardinality(missing)
      /\ E!SetProgress(s).extra = E!DuplicateStats(qty).extra
      /\ E!SetProgress(s).offered = E!Cardinality(E!WithActiveListings(missing))
  BY DEF E!SetProgress, OfSet
<1>2. DOMAIN all = Held /\ IsFiniteSet(Held)
  BY LotsAre
<1> HIDE DEF all
<1>3. DOMAIN qty = Held \cap OfSet(s) /\ \A c \in DOMAIN qty : qty[c] = all[c]
  BY <1>2
<1>4. E!SetProgress(s).owned = Cardinality(Held \cap OfSet(s))
  <2>1. E!SetProgress(s).owned = E!Cardinality(Held \cap OfSet(s))
    BY <1>1, <1>3
  <2> QED BY <2>1, SizeIs
<1>5. E!SetDetail(s).missing = missing /\ E!SetDetail(s).offered = E!WithActiveListings(missing)
  <2>1. {c \in E!Card : E!SetOf[c] = s /\ \A l \in DOMAIN lots : lots[l].card # c} = missing
    BY <1>3 DEF Held, OfSet
  <2> HIDE DEF missing
  <2> QED BY <2>1 DEF E!SetDetail
<1>6. ASSUME NEW w \in [Held -> Int], NEW g, SumsUp(g, w, Held), \A c \in Held : w[c] = E!QtyByCard[c] - 1
      PROVE  E!SetProgress(s).extra = g[Repeated \cap OfSet(s)]
  <2>1. \A c \in DOMAIN qty : w[c] = qty[c] - 1
    BY <1>3, <1>6 DEF all
  <2>2. {c \in DOMAIN qty : qty[c] > 1} = Repeated \cap OfSet(s)
    BY <1>3 DEF Repeated, all
  <2>3. DOMAIN qty \subseteq Held
    BY <1>3
  <2> HIDE DEF qty
  <2>4. E!DuplicateStats(qty).extra = g[{c \in DOMAIN qty : qty[c] > 1}]
    BY <1>2, <1>6, <2>1, <2>3, ExtraIsTotal
  <2> QED BY <1>1, <2>2, <2>4
<1> HIDE DEF qty, missing
<1> QED BY <1>1, <1>4, <1>5, <1>6

\* The summary and the progress of the sets count the same cards.
LEMMA SetsAgree ==
    ASSUME LotsFit
    PROVE  LET sets == E!ListSetProgress
           IN /\ E!Summary.unique = OwnedIn(sets, DOMAIN sets)
              /\ E!Summary.extra = ExtraIn(sets, DOMAIN sets)
<1> DEFINE sets == E!ListSetProgress
           codes == {E!SetOf[c] : c \in Held}
           parts == [s \in codes |-> Held \cap OfSet(s)]
           more == [s \in codes |-> Repeated \cap OfSet(s)]
<1>1. /\ IsFiniteSet(Held) /\ Held \subseteq E!Card /\ DOMAIN E!QtyByCard = Held
      /\ \A c \in Held : E!QtyByCard[c] \in Nat
  BY LotsAre
<1>2. sets = [s \in codes |-> E!SetProgress(s)]
  BY <1>1 DEF E!ListSetProgress
<1>3. IsFiniteSet(codes)
  <2>1. codes \subseteq {"A", "B"}
    BY <1>1 DEF E!SetOf
  <2>2. IsFiniteSet({}) /\ \A some, x : IsFiniteSet(some) => IsFiniteSet(some \cup {x})
    BY FS_EmptySet, FS_AddElement
  <2>3. {"A", "B"} = ({} \cup {"A"}) \cup {"B"}
    OBVIOUS
  <2>4. IsFiniteSet({"A", "B"})
    BY <2>2, <2>3, Zenon
  <2> QED BY <2>1, <2>4, FS_Subset
<1>4. /\ UNION {parts[s] : s \in codes} = Held /\ UNION {more[s] : s \in codes} = Repeated
      /\ \A x, y \in codes : x # y => parts[x] \cap parts[y] = {}
      /\ \A x, y \in codes : x # y => more[x] \cap more[y] = {}
  <2>1. \A s \in codes : parts[s] = Held \cap OfSet(s) /\ more[s] = Repeated \cap OfSet(s)
    OBVIOUS
  <2>2. \A c \in Held : E!SetOf[c] \in codes /\ c \in OfSet(E!SetOf[c])
    BY <1>1 DEF OfSet
  <2>3. Repeated \subseteq Held /\ \A x, y : x # y => OfSet(x) \cap OfSet(y) = {}
    BY DEF Repeated, OfSet
  <2> HIDE DEF parts, more, codes
  <2>4. UNION {parts[s] : s \in codes} = Held
    BY <2>1, <2>2
  <2>5. UNION {more[s] : s \in codes} = Repeated
    BY <2>1, <2>2, <2>3
  <2> QED BY <2>1, <2>3, <2>4, <2>5
<1>5. parts \in [codes -> SUBSET Held] /\ more \in [codes -> SUBSET Held] /\ Repeated \in SUBSET Held
  BY DEF Repeated
<1>6. \A s \in codes : sets[s].owned = Cardinality(parts[s]) /\ sets[s].owned \in Int
  <2> SUFFICES ASSUME NEW s \in codes PROVE sets[s].owned = Cardinality(parts[s]) /\ sets[s].owned \in Int
    OBVIOUS
  <2>1. E!SetProgress(s).owned = Cardinality(Held \cap OfSet(s))
    BY SetSays
  <2>2. Cardinality(Held \cap OfSet(s)) \in Nat
    BY <1>1, FS_Intersection, FS_CardinalityType
  <2> QED BY <1>2, <2>1, <2>2
<1> HIDE DEF parts, more, codes
<1>7. E!Summary.unique = OwnedIn(sets, DOMAIN sets)
  <2> DEFINE one == [c \in Held |-> 1]
             size == [some \in SUBSET Held |-> Cardinality(some)]
  <2>1. IsTotal(size, one, Held)
    <3>1. \A some \in SUBSET Held : IsFiniteSet(some) /\ Cardinality(some) \in Nat
      BY <1>1, FS_Subset, FS_CardinalityType
    <3>2. Cardinality({}) = 0
      BY FS_EmptySet
    <3>3. ASSUME NEW some \in SUBSET Held, NEW x \in some
          PROVE  Cardinality(some) = 1 + Cardinality(some \ {x}) /\ some \ {x} \in SUBSET Held
      BY <3>1, FS_RemoveElement
    <3>4. size \in [SUBSET Held -> Int] /\ one \in [Held -> Int] /\ size[{}] = 0
      BY <3>1, <3>2
    <3> QED BY <3>3, <3>4 DEF IsTotal
  <2>2. PICK g : /\ IsTotal(g, [s \in codes |-> sets[s].owned], codes)
                 /\ OwnedIn(sets, codes) = g[codes]
    BY <1>3, <1>6, SetsAreTotal
  <2>3. \A s \in codes : size[parts[s]] = [x \in codes |-> sets[x].owned][s]
    BY <1>5, <1>6
  <2> DEFINE v == [x \in codes |-> sets[x].owned]
  <2> HIDE DEF size, one, v
  <2>4. size[UNION {parts[s] : s \in codes}] = g[codes]
    <3>1. IsTotal(g, v, codes) /\ \A s \in codes : size[parts[s]] = v[s]
      BY <2>2, <2>3 DEF v
    <3>2. codes \in SUBSET codes
      OBVIOUS
    <3> QED BY <1>1, <1>3, <1>4, <1>5, <2>1, <3>1, <3>2, TotalOfUnion
  <2>5. size[Held] = Cardinality(Held)
    BY DEF size
  <2>6. E!Summary.unique = Cardinality(Held)
    BY <1>1, SizeIs DEF E!Summary
  <2>7. DOMAIN sets = codes
    BY <1>2
  <2> QED BY <1>4, <2>2, <2>4, <2>5, <2>6, <2>7
<1>8. E!Summary.extra = ExtraIn(sets, DOMAIN sets)
  <2> DEFINE w == [c \in Held |-> E!QtyByCard[c] - 1]
  <2>1. w \in [Held -> Int] /\ \A c \in Held : w[c] = E!QtyByCard[c] - 1
    BY <1>1
  <2> HIDE DEF w
  <2>2. PICK g : SumsUp(g, w, Held)
    BY <1>1, <2>1, FoldsAreTotal
  <2>3. \A s \in codes : sets[s].extra = g[more[s]] /\ sets[s].extra \in Int
    <3> SUFFICES ASSUME NEW s \in codes PROVE sets[s].extra = g[more[s]] /\ sets[s].extra \in Int
      OBVIOUS
    <3>1. E!SetProgress(s).extra = g[Repeated \cap OfSet(s)]
      BY <2>1, <2>2, SetSays
    <3>2. sets[s].extra = g[more[s]]
      BY <1>2, <3>1 DEF more
    <3> QED BY <1>5, <2>2, <3>2 DEF SumsUp, IsTotal
  <2>4. PICK h : /\ IsTotal(h, [s \in codes |-> sets[s].extra], codes)
                 /\ ExtraIn(sets, codes) = h[codes]
    BY <1>3, <2>3, SetsAreTotal
  <2> DEFINE v == [x \in codes |-> sets[x].extra]
  <2>5. g[UNION {more[s] : s \in codes}] = h[codes]
    <3>1. IsTotal(g, w, Held)
      BY <2>2 DEF SumsUp
    <3>2. IsTotal(h, v, codes) /\ \A s \in codes : g[more[s]] = v[s]
      BY <2>3, <2>4
    <3>3. codes \in SUBSET codes
      OBVIOUS
    <3>4. more \in [codes -> SUBSET Held] /\ \A x, y \in codes : x # y => more[x] \cap more[y] = {}
      BY <1>4, <1>5
    <3> HIDE DEF v
    <3> QED BY <1>1, <1>3, <3>1, <3>2, <3>3, <3>4, TotalOfUnion
  <2>6. E!DuplicateStats(E!QtyByCard).extra = g[Repeated]
    <3> DEFINE qty == E!QtyByCard
    <3>1. DOMAIN qty \subseteq Held /\ (\A c \in DOMAIN qty : w[c] = qty[c] - 1)
          /\ {c \in DOMAIN qty : qty[c] > 1} = Repeated
      BY <1>1, <2>1 DEF Repeated
    <3> HIDE DEF qty
    <3>2. E!DuplicateStats(qty).extra = g[{c \in DOMAIN qty : qty[c] > 1}]
      BY <1>1, <2>1, <2>2, <3>1, ExtraIsTotal
    <3> QED BY <3>1, <3>2 DEF qty
  <2>7. E!Summary.extra = g[Repeated]
    BY <2>6 DEF E!Summary
  <2>8. DOMAIN sets = codes
    BY <1>2
  <2> QED BY <1>4, <2>4, <2>5, <2>7, <2>8
<1> QED BY <1>7, <1>8

\* With every lot priced, the gain is what the value is over the cost.
LEMMA GainAgrees ==
    ASSUME LotsFit, E!Summary.withoutValue + E!Summary.withoutCost = 0
    PROVE  E!Summary.gain \in {E!NoPrice, E!Summary.value - E!Summary.cost}
<1> DEFINE rows == DOMAIN lots
<1>1. IsFiniteSet(rows)
  BY LotsAre
<1>2. \A part \in {"value", "cost"} : /\ E!Copies(rows \ E!Priced(part)) \in Nat
                                      /\ E!Copies(rows \ E!Priced(part)) = 0 => rows \ E!Priced(part) = {}
  <2> TAKE part \in {"value", "cost"}
  <2> DEFINE some == rows \ E!Priced(part)
  <2>1. some \in SUBSET DOMAIN lots /\ IsFiniteSet(some) /\ IsFiniteSet({}) /\ some \cap {} = {}
    BY <1>1, FS_Subset, FS_EmptySet
  <2> HIDE DEF some
  <2>2. E!Copies(some) \in Nat /\ (E!Copies(some) = 0 => some = {})
    BY <2>1, CopiesAdd, CopiesOfNone
  <2> QED BY <2>2 DEF some
<1>3. E!Summary.withoutValue = E!Copies(rows \ E!Priced("value")) /\ E!Summary.withoutCost = E!Copies(rows \ E!Priced("cost"))
      /\ E!Summary.value = E!Total("value") /\ E!Summary.cost = E!Total("cost") /\ E!Summary.gain = E!Total("gain")
  BY DEF E!Summary
<1>4. rows \ E!Priced("value") = {} /\ rows \ E!Priced("cost") = {}
  BY <1>2, <1>3
<1>5. \A l \in rows : /\ E!SumOf(lots[l], "value") = E!ValueOf(lots[l]) /\ E!SumOf(lots[l], "cost") = E!CostOf(lots[l])
                      /\ E!SumOf(lots[l], "gain") = E!GainOf(lots[l])
  BY DEF E!SumOf
<1>6. \A l \in rows : /\ E!SumOf(lots[l], "gain") = E!SumOf(lots[l], "value") - E!SumOf(lots[l], "cost")
                      /\ E!SumOf(lots[l], "gain") # E!NoPrice
  <2> TAKE l \in rows
  <2>1. l \in E!Priced("value") /\ l \in E!Priced("cost")
    BY <1>4
  <2>2. E!ValueOf(lots[l]) # E!NoPrice /\ E!CostOf(lots[l]) # E!NoPrice
    BY <1>5, <2>1 DEF E!Priced
  <2> QED BY <1>5, <2>2, ValuesAre
<1>7. \A part \in {"value", "cost", "gain"} : E!Priced(part) = rows
  BY <1>4, <1>6 DEF E!Priced
<1>8. CASE rows = {}
  BY <1>3, <1>7, <1>8 DEF E!Total
<1>9. CASE rows # {}
  <2>1. \A part \in {"value", "cost", "gain"} : E!Total(part) = SumOver(part, E!Priced(part))
    BY <1>7, <1>9 DEF E!Total, SumOver
  <2>2. \A part \in {"value", "cost", "gain"} : E!Total(part) = SumOver(part, rows)
    BY <1>7, <2>1
  <2>3. \A part : \A l \in rows : E!SumOf(lots[l], part) \in Int
    BY ValuesAre
  <2> DEFINE weight(part) == [l \in rows |-> E!SumOf(lots[l], part)]
  <2> HIDE DEF rows
  <2>4. \A part : \E g : IsTotal(g, weight(part), rows) /\ SumOver(part, rows) = g[rows]
    BY <1>1, <2>3, PartIsTotal
  <2>5. PICK value_E : IsTotal(value_E, weight("value"), rows) /\ SumOver("value", rows) = value_E[rows]
    BY <2>4
  <2>6. PICK cost_E : IsTotal(cost_E, weight("cost"), rows) /\ SumOver("cost", rows) = cost_E[rows]
    BY <2>4
  <2>7. PICK gain_E : IsTotal(gain_E, weight("gain"), rows) /\ SumOver("gain", rows) = gain_E[rows]
    BY <2>4
  <2>8. \A l \in rows : /\ weight("value")[l] \in Int /\ weight("cost")[l] \in Int
                        /\ weight("gain")[l] = weight("value")[l] - weight("cost")[l]
    BY <1>6, <2>3
  <2> HIDE DEF weight
  <2> DEFINE Good == {some \in SUBSET rows : gain_E[some] = value_E[some] - cost_E[some]}
  <2>9. ASSUME NEW some \in SUBSET rows, \A few \in SUBSET some : few # some => few \in Good PROVE some \in Good
    <3>1. CASE some = {}
      <4>1. gain_E[{}] = 0 /\ value_E[{}] = 0 /\ cost_E[{}] = 0
        BY <2>5, <2>6, <2>7 DEF IsTotal
      <4> QED BY <3>1, <4>1
    <3>2. CASE some # {}
      <4>1. PICK x \in some : TRUE
        BY <3>2
      <4> DEFINE rest == some \ {x}
      <4>2. rest \in Good /\ rest \in SUBSET rows /\ x \in rows
        BY <2>9
      <4>3. /\ gain_E[some] = weight("gain")[x] + gain_E[rest] /\ value_E[some] = weight("value")[x] + value_E[rest]
            /\ cost_E[some] = weight("cost")[x] + cost_E[rest]
        BY <2>5, <2>6, <2>7 DEF IsTotal
      <4>4. value_E[rest] \in Int /\ cost_E[rest] \in Int
        BY <2>5, <2>6, <4>2 DEF IsTotal
      <4>5. gain_E[rest] = value_E[rest] - cost_E[rest]
        BY <4>2
      <4> HIDE DEF rest
      <4>6. gain_E[some] = value_E[some] - cost_E[some]
        BY <2>8, <4>2, <4>3, <4>4, <4>5
      <4> QED BY <4>6
    <3> QED BY <3>1, <3>2
  <2> HIDE DEF Good
  <2>10. rows \in Good
    BY <1>1, <2>9, SubsetInduction
  <2>11. gain_E[rows] = value_E[rows] - cost_E[rows]
    BY <2>10 DEF Good
  <2> QED BY <1>3, <2>2, <2>5, <2>6, <2>7, <2>11
<1> QED BY <1>8, <1>9

LEMMA AnswersSayTheSame == ASSUME LotsFit PROVE E!AnswersAgree
<1> DEFINE sum == E!Summary
           sets == E!ListSetProgress
           duplicates == {lots[l].card : l \in E!ItemWhere([E!AllLots EXCEPT !.duplicates = TRUE])}
<1>1. sum.unique = E!MapThenSumSet(LAMBDA s : sets[s].owned, DOMAIN sets)
  <2>1. sum.unique = OwnedIn(sets, DOMAIN sets)
    BY SetsAgree
  <2> QED BY <2>1 DEF OwnedIn
<1>2. sum.extra = E!MapThenSumSet(LAMBDA s : sets[s].extra, DOMAIN sets)
  <2>1. sum.extra = ExtraIn(sets, DOMAIN sets)
    BY SetsAgree
  <2> QED BY <2>1 DEF ExtraIn
<1>3. sum.duplicates = E!Cardinality(duplicates)
  <2> DEFINE q_E == [E!AllLots EXCEPT !.duplicates = TRUE]
             more == {c \in DOMAIN E!QtyByCard : E!QtyByCard[c] > 1}
  <2>1. q_E.condition = "" /\ q_E.text = "" /\ q_E.duplicates
    BY DEF E!AllLots
  <2> HIDE DEF q_E
  <2>2. E!ItemWhere(q_E) = {l \in DOMAIN lots : lots[l].card \in more}
    BY <2>1 DEF E!ItemWhere, E!DuplicateCardIds
  <2>3. more \subseteq {lots[l].card : l \in DOMAIN lots}
    BY DEF E!QtyByCard
  <2>4. sum.duplicates = E!Cardinality(more)
    BY DEF E!Summary, E!DuplicateStats
  <2>5. duplicates = {lots[l].card : l \in E!ItemWhere(q_E)}
    BY DEF q_E
  <2> HIDE DEF more, duplicates
  <2>6. duplicates = more
    BY <2>2, <2>3, <2>5
  <2> QED BY <2>4, <2>6
<1>4. sum.totalCards = sum.withoutValue + E!Copies(E!Priced("value"))
  <2> DEFINE priced_E == E!Priced("value")
             unpriced == DOMAIN lots \ priced_E
  <2>1. priced_E \subseteq DOMAIN lots
    BY DEF E!Priced
  <2>2. sum.totalCards = E!Copies(DOMAIN lots) /\ sum.withoutValue = E!Copies(unpriced)
    BY DEF E!Summary
  <2>3. IsFiniteSet(priced_E) /\ IsFiniteSet(unpriced)
    BY <2>1, LotsAre, FS_Subset
  <2>4. unpriced \cap priced_E = {} /\ unpriced \cup priced_E = DOMAIN lots
    BY <2>1
  <2> HIDE DEF priced_E, unpriced
  <2>5. E!Copies(unpriced \cup priced_E) = E!Copies(unpriced) + E!Copies(priced_E)
    BY <2>3, <2>4, CopiesAdd
  <2> QED BY <2>2, <2>4, <2>5 DEF priced_E
<1>5. sum.withoutValue + sum.withoutCost = 0 => sum.gain \in {E!NoPrice, sum.value - sum.cost}
  BY GainAgrees
<1>6. \A s \in DOMAIN sets : /\ E!Cardinality(E!SetDetail(s).missing) = sets[s].missing
                             /\ E!Cardinality(E!SetDetail(s).offered) = sets[s].offered
  <2>1. \A s \in DOMAIN sets : sets[s] = E!SetProgress(s)
    BY DEF E!ListSetProgress
  <2> QED BY <2>1, SetSays
<1> QED BY <1>1, <1>2, <1>3, <1>4, <1>5, <1>6 DEF E!AnswersAgree, E!Agree

LEMMA CollectionHolds ==
    ASSUME CollectionInv
    PROVE  E!CollectionTypeOK /\ E!AnswersAgree /\ E!ChangeIsOfValues /\ E!ListFits /\ E!ItemFits
BY CollectionParts, CollectionScreensFit, AnswersSayTheSame

----------------------------------------------------------------------------
CollectionPart == focus = "collection" => CollectionInv

LEMMA CollectionPartHolds == Spec => []CollectionPart
<1>1. Init => CollectionPart
  BY CollectionStart DEF Init, CollectionPart
<1>2. CollectionPart /\ [Next]_vars => CollectionPart'
  <2> SUFFICES ASSUME CollectionPart, [Next]_vars, focus = "collection" PROVE CollectionPart'
    BY DEF CollectionPart, Next, vars, frame
  <2>1. CASE Next
    <3>1. E!Next
      BY <2>1 DEF Next
    <3> QED BY <3>1, CollectionStep DEF CollectionPart
  <2>2. CASE UNCHANGED vars
    <3>1. UNCHANGED collectionVars
      BY <2>2 DEF vars, frame
    <3> QED BY <3>1, CollectionStutter DEF CollectionPart
  <2> QED BY <2>1, <2>2
<1> QED BY <1>1, <1>2, PTL DEF Spec

(* The summary, the sets, the filter of duplicates and the values of the   *)
(* list agree about the same lots; the change of a month lies between the  *)
(* value shown and what was captured on an earlier day, which is what the  *)
(* collection was worth on it, unless nothing had a price then; and the    *)
(* list and the page of a lot show what is there, but for what changed     *)
(* elsewhere, requests that crossed or were lost, and the sets after a     *)
(* deletion or a save: for any number of lots, offers, days and turns      *)
(* (collections.service.ts:91, :123, me/coleccion/page.tsx:57,             *)
(* collection/[id].tsx:51).                                                *)
THEOREM CollectionsFit == Spec => []CollectionFits
<1>1. CollectionPart => CollectionFits
  BY CollectionHolds DEF CollectionPart, CollectionFits
<1> QED BY <1>1, CollectionPartHolds, PTL
=============================================================================

------------------------------ MODULE Collections ------------------------------
(***************************************************************************)
(* A person's collection of cards: its lots, what the API answers about    *)
(* them (apps/api/src/collections), and the pages that list and edit them  *)
(* (apps/web/app/me/coleccion, apps/mobile/app/(tabs)/collection).         *)
(*                                                                         *)
(* An answer is worked out from the lots and from what is on sale then;    *)
(* pages ask for three at once, which may see different lots.  A day       *)
(* stands for a month.  Lots' sales are in Lots.                           *)
(***************************************************************************)
EXTENDS Integers, Sequences, FiniteSets, FiniteSetsExt

CONSTANTS Offer,        \* listings that may be on sale: [card, condition, price, free]
          FirstLots,    \* what a collection may start from
          PageSize,     \* lots of a page of the list
          MaxLots, MaxDay,
          MaxTurns,     \* bound: what the person does on the pages and what happens elsewhere
          MaxChanges    \* bound: what happens elsewhere

VARIABLES
  lots,      \* the lots by number, in the order they were made
  last,      \* the last number given
  begun,     \* the collection's row is there
  market,    \* offers
  day,
  history,   \* [day -> value captured, or NoPrice]
  worth,     \* [day -> what the collection was worth when it was captured]
  surface,   \* "web" or "app"
  at,        \* "LIST" or "ITEM"
  url,       \* the list's query
  page,      \* what the list shows
  loads,     \* reads of the list in flight
  removing,  \* a deletion of the lots checked
  item,      \* what the page of a lot shows
  turns, changes,
  behind,    \* parts of the pages read before something changed elsewhere
  muddled,   \* the list's requests crossed, or one was lost
  thinned    \* the person has deleted lots since the sets were read

collectionVars == <<lots, last, begun, market, day, history, worth, surface, at, url, page, loads,
                    removing, item, turns, changes, behind, muddled, thinned>>
serverRows == <<lots, last, begun, market, day, history, worth>>
listRows == <<url, page, loads, removing, muddled, thinned>>

NoPrice == -99
Card == {"x", "y", "z"}
SetOf == [c \in Card |-> IF c = "z" THEN "B" ELSE "A"]
Condition == {"NM", "LP"}
MaxCopies == 3 \* bound: of a lot
LotRow == [card : Card, condition : Condition, quantity : 1..MaxCopies, cost : {NoPrice, 1}]

----------------------------------------------------------------------------
(* Values.                                                                 *)

\* The n-th lowest of the offers of S.
NthPrice(S, n) ==
    CHOOSE p \in {o.price : o \in S} : /\ Cardinality({o \in S : o.price < p}) < n
                                      /\ n <= Cardinality({o \in S : o.price <= p})

MedianInt(S) ==
    LET mid == Cardinality(S) \div 2
    IN IF S = {} THEN NoPrice
       ELSE IF Cardinality(S) % 2 = 0 THEN (NthPrice(S, mid) + NthPrice(S, mid + 1) + 1) \div 2
       ELSE NthPrice(S, mid + 1)

Available == {o \in market : o.free}

\* estimatesFor: of the condition, or else of any.
EstimateUnit(row) ==
    LET fallback == {o \in Available : o.card = row.card}
        comparable == {o \in fallback : o.condition = row.condition}
    IN MedianInt(IF comparable # {} THEN comparable ELSE fallback)

Times(quantity, unit) == IF unit = NoPrice THEN NoPrice ELSE quantity * unit
Minus(value, cost) == IF NoPrice \in {value, cost} THEN NoPrice ELSE value - cost

ValueOf(row) == Times(row.quantity, EstimateUnit(row))
CostOf(row) == Times(row.quantity, row.cost)
GainOf(row) == Minus(ValueOf(row), CostOf(row))

Copies(S) == Cardinality({copy \in S \X (1..MaxCopies) : copy[2] <= lots[copy[1]].quantity})
SumOf(row, part) ==
    CASE part = "value" -> ValueOf(row) [] part = "cost" -> CostOf(row) [] OTHER -> GainOf(row)
Priced(part) == {l \in DOMAIN lots : SumOf(lots[l], part) # NoPrice}
Total(part) ==
    LET priced == Priced(part)
    IN IF priced = {} THEN NoPrice ELSE MapThenSumSet(LAMBDA l : SumOf(lots[l], part), priced)

QtyByCard == LET owned == {lots[l].card : l \in DOMAIN lots}
             IN [c \in owned |-> Copies({l \in DOMAIN lots : lots[l].card = c})]

DuplicateStats(qty) ==
    LET more == {c \in DOMAIN qty : qty[c] > 1}
    IN [cards |-> Cardinality(more), extra |-> MapThenSumSet(LAMBDA c : qty[c] - 1, more)]

(* What it was worth a month ago, or before that if nothing was captured   *)
(* on that day.                                                            *)
Past == {d \in 0..day - 1 : history[d] # NoPrice}

Change30d(current) ==
    IF current = NoPrice \/ Past = {} THEN NoPrice
    ELSE current - history[CHOOSE d \in Past : \A e \in Past : e <= d]

Summary ==
    LET qty == QtyByCard
        dups == DuplicateStats(qty)
        value == Total("value")
    IN [totalCards |-> Copies(DOMAIN lots), unique |-> Cardinality(DOMAIN qty),
        duplicates |-> dups.cards, extra |-> dups.extra,
        value |-> value, withoutValue |-> Copies(DOMAIN lots \ Priced("value")),
        cost |-> Total("cost"), withoutCost |-> Copies(DOMAIN lots \ Priced("cost")),
        gain |-> Total("gain"), inGain |-> Copies(Priced("gain")),
        change |-> Change30d(value)]

----------------------------------------------------------------------------
(* The list, and the progress of each set.                                 *)

DuplicateCardIds == LET qty == QtyByCard IN {c \in DOMAIN qty : qty[c] > 1}

AllLots == [text |-> "", condition |-> "", duplicates |-> FALSE, sort |-> "recent"]
Query == {AllLots,
          [AllLots EXCEPT !.duplicates = TRUE],
          [AllLots EXCEPT !.condition = "NM", !.sort = "estimatedValue"],
          [AllLots EXCEPT !.text = "x", !.sort = "quantity"]}

ItemWhere(q) ==
    LET repeated == DuplicateCardIds
    IN {l \in DOMAIN lots : /\ q.condition \in {"", lots[l].condition}
                            /\ q.text \in {"", lots[l].card}
                            /\ q.duplicates => lots[l].card \in repeated}

\* Of lots as good as each other the newest is first.
OrderBy(sort, a, b) ==
    LET rank(l) == CASE sort = "recent" -> 0
                     [] sort = "quantity" -> lots[l].quantity
                     [] OTHER -> IF ValueOf(lots[l]) = NoPrice THEN -1 ELSE ValueOf(lots[l])
    IN rank(a) > rank(b) \/ (rank(a) = rank(b) /\ a > b)

ItemView(l) == [lot |-> l, row |-> lots[l], value |-> ValueOf(lots[l])]

ListItems(q) ==
    LET found == ItemWhere(q)
        total == Cardinality(found)
        Nth(n) == CHOOSE l \in found : Cardinality({k \in found : OrderBy(q.sort, k, l)}) = n - 1
    IN [query |-> q, total |-> total,
        items |-> [n \in 1..(IF total < PageSize THEN total ELSE PageSize) |-> ItemView(Nth(n))]]

WithActiveListings(S) == {c \in S : \E o \in Available : o.card = c}

SetProgress(s) ==
    LET cards == {c \in Card : SetOf[c] = s}
        all == QtyByCard
        qty == [c \in DOMAIN all \intersect cards |-> all[c]]
        missing == cards \ DOMAIN qty
    IN [owned |-> Cardinality(DOMAIN qty), missing |-> Cardinality(missing),
        extra |-> DuplicateStats(qty).extra,
        offered |-> Cardinality(WithActiveListings(missing))]

ListSetProgress == [s \in {SetOf[c] : c \in DOMAIN QtyByCard} |-> SetProgress(s)]

SetDetail(s) ==
    LET missing == {c \in Card : SetOf[c] = s /\ \A l \in DOMAIN lots : lots[l].card # c}
    IN [missing |-> missing, offered |-> WithActiveListings(missing)]

Part == {"summary", "list", "sets"}
Unread == [read |-> FALSE]
Answer(p, q) ==
    [read |-> TRUE, of |-> CASE p = "summary" -> Summary [] p = "list" -> ListItems(q)
                             [] OTHER -> ListSetProgress]

----------------------------------------------------------------------------
Blank == [shown |-> [p \in Part |-> Unread], checked |-> {}, failed |-> FALSE]
NoLoad == [parts |-> {}]
NoRemoval == [asked |-> FALSE]
NoItem == [lot |-> 0, seen |-> Unread, call |-> "NONE"]

\* since: something changed elsewhere since the load was asked for.
LoadOf(q, parts, after) ==
    [query |-> q, parts |-> parts, stage |-> [p \in parts |-> "ASKED"],
     got |-> [p \in parts |-> Unread], since |-> FALSE, after |-> after]

Outdated == [k \in DOMAIN loads |->
                IF loads[k] = NoLoad THEN NoLoad ELSE [loads[k] EXCEPT !.since = TRUE]]

Busy == {k \in DOMAIN loads : loads[k] # NoLoad}
FreeLoad(k) == k \notin Busy /\ \A j \in 1..k - 1 : j \in Busy
NoLoads == <<NoLoad, NoLoad>>

Init ==
    /\ lots \in FirstLots /\ last = Cardinality(DOMAIN lots)
    /\ begun \in (IF lots = <<>> THEN BOOLEAN ELSE {TRUE})
    /\ market \in SUBSET Offer
    /\ day = 1 /\ history = [d \in 0..MaxDay |-> NoPrice] /\ worth = history
    /\ surface \in {"web", "app"} /\ at = "LIST" /\ url = AllLots
    /\ page = Blank /\ loads = <<LoadOf(AllLots, Part, FALSE), NoLoad>>
    /\ removing = NoRemoval /\ item = NoItem
    /\ turns = 0 /\ changes = 0 /\ behind = {} /\ muddled = FALSE /\ thinned = FALSE

InBound == turns + changes < MaxTurns
Turn == InBound /\ turns' = turns + 1

----------------------------------------------------------------------------
(* Reads of the list.  Each asks for the collection first, and makes it if *)
(* there is none; user_id is unique, and who comes second reads the row.   *)

ServePart(k, p) ==
    /\ k \in Busy /\ p \in loads[k].parts /\ loads[k].stage[p] \in {"ASKED", "CREATING"}
    /\ LET q == loads[k].query
           next == IF begun \/ loads[k].stage[p] = "CREATING"
                   THEN [stage |-> "READ", got |-> Answer(p, q)]
                   ELSE [stage |-> "CREATING", got |-> Unread]
       IN loads' = [loads EXCEPT ![k].stage[p] = next.stage, ![k].got[p] = next.got]
    /\ begun' = (begun \/ loads[k].stage[p] = "CREATING")
    /\ UNCHANGED <<lots, last, market, day, history, worth, surface, at, url, page, removing, item, turns,
                   changes, behind, muddled, thinned>>

\* Promise.all; on the app the parts come one by one, which changes nothing here.
ShowLoad(k) ==
    /\ k \in Busy /\ \A p \in loads[k].parts : loads[k].stage[p] = "READ"
    /\ page' = [page EXCEPT !.shown = [p \in Part |-> IF p \in loads[k].parts THEN loads[k].got[p] ELSE @[p]]]
    /\ behind' = IF loads[k].since THEN behind \union loads[k].parts ELSE behind \ loads[k].parts
    /\ loads' = [loads EXCEPT ![k] = NoLoad]
    /\ removing' = IF loads[k].after THEN NoRemoval ELSE removing
    /\ thinned' = (thinned /\ ("sets" \notin loads[k].parts \/ loads[k].since))
    /\ UNCHANGED <<serverRows, surface, at, url, item, turns, changes, muddled>>

\* One that fails takes the others with it; the message stays.
FailLoad(k) ==
    /\ k \in Busy
    /\ loads' = [loads EXCEPT ![k] = NoLoad]
    /\ page' = [page EXCEPT !.failed = TRUE]
    /\ removing' = IF loads[k].after THEN NoRemoval ELSE removing
    /\ muddled' = TRUE
    /\ UNCHANGED <<serverRows, surface, at, url, item, turns, changes, behind, thinned>>

----------------------------------------------------------------------------
(* The list of the web: its query is in the address, and the boxes that    *)
(* are checked stay checked when it changes.                               *)

Listed == {page.shown["list"].of.items[n].lot : n \in DOMAIN page.shown["list"].of.items}
OnList == at = "LIST" /\ surface = "web" /\ \A p \in Part : page.shown[p].read

UpdateFilter(q) ==
    /\ OnList /\ q # url /\ Turn
    /\ \E k \in DOMAIN loads : FreeLoad(k) /\ loads' = [loads EXCEPT ![k] = LoadOf(q, Part, FALSE)]
    /\ url' = q
    /\ muddled' = (muddled \/ Busy # {} \/ removing.asked)
    /\ UNCHANGED <<serverRows, surface, at, page, removing, item, changes, behind, thinned>>

Check(l) ==
    /\ OnList /\ l \in Listed /\ Turn
    /\ page' = [page EXCEPT !.checked = IF l \in @ THEN @ \ {l} ELSE @ \union {l}]
    /\ UNCHANGED <<serverRows, surface, at, url, loads, removing, item, changes, behind, muddled, thinned>>

PressBulkDelete ==
    /\ OnList /\ page.checked # {} /\ ~removing.asked
    /\ removing' = [asked |-> TRUE, ids |-> page.checked, query |-> url, done |-> FALSE, shown |-> FALSE]
    /\ muddled' = (muddled \/ Busy # {})
    /\ UNCHANGED <<serverRows, surface, at, url, page, loads, item, turns, changes, behind, thinned>>

BulkDelete ==
    /\ removing.asked /\ ~removing.done
    /\ lots' = [l \in DOMAIN lots \ removing.ids |-> lots[l]]
    /\ removing' = [removing EXCEPT !.done = TRUE]
    /\ thinned' = TRUE
    /\ UNCHANGED <<last, begun, market, day, history, worth, surface, at, url, page, loads, item, turns,
                   changes, behind, muddled>>

\* The boxes are cleared, and the query read again is the one it was pressed with.
Reloaded_List == {"list"}

Reloaded == {"summary", "list"}

ShowBulkDelete ==
    /\ removing.asked /\ removing.done /\ ~removing.shown
    /\ \E k \in DOMAIN loads :
          FreeLoad(k) /\ loads' = [loads EXCEPT ![k] = LoadOf(removing.query, Reloaded, TRUE)]
    /\ removing' = [removing EXCEPT !.shown = TRUE]
    /\ page' = [page EXCEPT !.checked = {}]
    /\ muddled' = (muddled \/ Busy # {})
    /\ UNCHANGED <<serverRows, surface, at, url, item, turns, changes, behind, thinned>>

FailBulkDelete ==
    /\ removing.asked /\ ~removing.shown
    /\ removing' = NoRemoval /\ page' = [page EXCEPT !.failed = TRUE]
    /\ muddled' = TRUE
    /\ UNCHANGED <<serverRows, surface, at, url, loads, item, turns, changes, behind, thinned>>

----------------------------------------------------------------------------
(* The page of a lot.  On the web the list is gone with its requests; on   *)
(* the app it stays below.                                                 *)

OpenItem(l) ==
    /\ at = "LIST" /\ page.shown["list"].read /\ l \in Listed /\ Turn
    /\ at' = "ITEM" /\ item' = [NoItem EXCEPT !.lot = l]
    /\ IF surface = "web"
       THEN page' = Blank /\ loads' = NoLoads /\ removing' = NoRemoval /\ behind' = {} /\ muddled' = FALSE
            /\ thinned' = FALSE
       ELSE UNCHANGED <<page, loads, removing, behind, muddled, thinned>>
    /\ UNCHANGED <<serverRows, surface, url, changes>>

OnItem == at = "ITEM"
Gone == item.lot \notin DOMAIN lots
Form(row) == [quantity |-> row.quantity, condition |-> row.condition, cost |-> row.cost]
SeenNow == [read |-> TRUE, row |-> lots[item.lot], form |-> Form(lots[item.lot])]

\* A lot that is gone is not found, and stays so.
GetItem ==
    /\ OnItem /\ ~item.seen.read /\ ~Gone
    /\ item' = [item EXCEPT !.seen = SeenNow]
    /\ behind' = behind \ {"item"}
    /\ UNCHANGED <<serverRows, listRows, surface, at, turns, changes>>

EditForm(form) ==
    /\ OnItem /\ item.seen.read /\ Turn
    /\ form # item.seen.form
    /\ item' = [item EXCEPT !.seen.form = form]
    /\ UNCHANGED <<serverRows, listRows, surface, at, changes, behind>>

Press(op) ==
    /\ OnItem /\ item.seen.read /\ item.call = "NONE"
    /\ item' = [lot |-> item.lot, seen |-> item.seen, call |-> op, sent |-> item.seen.form, stage |-> "ASKED"]
    /\ UNCHANGED <<serverRows, listRows, surface, at, turns, changes, behind>>

Saved(row, form) == [row EXCEPT !.quantity = form.quantity, !.condition = form.condition, !.cost = form.cost]

\* requireOwnedItem, and then the write, which finds no row if it was deleted in between.
FindItem ==
    /\ item.call # "NONE" /\ item.stage = "ASKED"
    /\ item' = IF Gone THEN [item EXCEPT !.stage = "REFUSED"] ELSE [item EXCEPT !.stage = "FOUND"]
    /\ UNCHANGED <<serverRows, listRows, surface, at, turns, changes, behind>>

WriteItem ==
    /\ item.call # "NONE" /\ item.stage = "FOUND"
    /\ IF Gone \/ item.sent.quantity = 0
       THEN item' = [item EXCEPT !.stage = "REFUSED"] /\ UNCHANGED <<lots, loads, thinned>>
       ELSE /\ lots' = IF item.call = "SAVE" THEN [lots EXCEPT ![item.lot] = Saved(@, item.sent)]
                       ELSE [l \in DOMAIN lots \ {item.lot} |-> lots[l]]
            /\ item' = [item EXCEPT !.stage = "DONE"] /\ loads' = Outdated
            /\ thinned' = (thinned \/ surface = "app")
    /\ behind' = IF item'.stage = "DONE" THEN behind \ {"item"} ELSE behind
    /\ UNCHANGED <<last, begun, market, day, history, worth, surface, at, url, page, removing, turns,
                   changes, muddled>>

Idle(i) == [lot |-> i.lot, seen |-> i.seen, call |-> "NONE"]

\* A query that is asked again before it came is asked anew; what was typed is lost when the lot comes.
InvalidatedKeys == {"summary", "list"}
AppReload(parts) ==
    LET pending == UNION {loads[k].parts : k \in Busy}
    IN loads' = <<LoadOf(url, parts \union pending, FALSE), NoLoad>>

ShowSaved ==
    /\ item.call = "SAVE" /\ item.stage = "DONE"
    /\ IF surface = "web"
       THEN item' = [Idle(item) EXCEPT !.seen.row = Saved(item.seen.row, item.sent)] /\ UNCHANGED loads
       ELSE item' = [Idle(item) EXCEPT !.seen = Unread] /\ AppReload(InvalidatedKeys)
    /\ UNCHANGED <<serverRows, surface, at, url, page, removing, muddled, thinned, turns, changes, behind>>

\* The app reads what is older than 20 seconds too.
ShowRemoved ==
    /\ item.call = "REMOVE" /\ item.stage = "DONE"
    /\ at' = "LIST" /\ item' = NoItem
    /\ IF surface = "web" THEN loads' = <<LoadOf(AllLots, Part, FALSE), NoLoad>> /\ url' = AllLots
       ELSE (AppReload(InvalidatedKeys) \/ AppReload(Part)) /\ UNCHANGED url
    /\ behind' = behind \ {"item"}
    /\ UNCHANGED <<serverRows, surface, page, removing, muddled, thinned, turns, changes>>

\* Refused, or the answer is lost.
FailItem ==
    /\ item.call # "NONE"
    /\ item' = Idle(item)
    /\ behind' = IF item.stage = "DONE" THEN behind \union {"item", "summary", "list"} ELSE behind
    /\ UNCHANGED <<serverRows, listRows, surface, at, turns, changes>>

BackToList ==
    /\ OnItem /\ item.call = "NONE"
    /\ at' = "LIST" /\ item' = NoItem
    /\ IF surface = "web" THEN loads' = <<LoadOf(AllLots, Part, FALSE), NoLoad>> /\ url' = AllLots
       ELSE UNCHANGED <<loads, url>>
    /\ behind' = behind \ {"item"}
    /\ UNCHANGED <<serverRows, surface, page, removing, muddled, thinned, turns, changes>>

----------------------------------------------------------------------------
(* Elsewhere: another tab or device, a sale, the market, the clock.        *)

Elsewhere ==
    /\ InBound /\ changes < MaxChanges /\ changes' = changes + 1
    /\ behind' = {p \in Part : page.shown[p].read} \union (IF OnItem THEN {"item"} ELSE {})
    /\ loads' = Outdated
    /\ UNCHANGED <<surface, at, url, page, removing, item, turns, muddled, thinned>>

\* Each addition is a lot of its own.
AddItem(row) ==
    /\ Elsewhere
    /\ last < MaxLots /\ last' = last + 1 /\ begun' = TRUE
    /\ lots' = [l \in DOMAIN lots \union {last'} |-> IF l = last' THEN row ELSE lots[l]]
    /\ UNCHANGED <<market, day, history, worth>>

SellOne(l) ==
    /\ Elsewhere /\ l \in DOMAIN lots
    /\ lots' = IF lots[l].quantity = 1 THEN [k \in DOMAIN lots \ {l} |-> lots[k]]
               ELSE [lots EXCEPT ![l].quantity = @ - 1]
    /\ UNCHANGED <<last, begun, market, day, history, worth>>

Trade(o) ==
    /\ Elsewhere
    /\ market' = IF o \in market THEN market \ {o} ELSE market \union {o}
    /\ UNCHANGED <<lots, last, begun, day, history, worth>>

NextDay ==
    /\ Elsewhere /\ day < MaxDay /\ day' = day + 1
    /\ UNCHANGED <<lots, last, begun, market, history, worth>>

(* captureDailyValues, the job: today's row is written over.               *)
Captured(value) == IF value = NoPrice THEN 0 ELSE value

CaptureDailyValues ==
    /\ begun /\ at = "LIST" /\ Busy = {}
    /\ worth[day] = NoPrice /\ history[day] = NoPrice
    /\ history' = [history EXCEPT ![day] = Captured(Total("value"))]
    /\ worth' = [worth EXCEPT ![day] = Total("value")]
    /\ UNCHANGED <<lots, last, begun, market, day, listRows, surface, at, item, turns, changes, behind>>

Next ==
    \/ \E k \in DOMAIN loads : (\E p \in Part : ServePart(k, p)) \/ ShowLoad(k) \/ FailLoad(k)
    \/ \E q \in Query : UpdateFilter(q)
    \/ \E l \in 1..MaxLots : Check(l) \/ OpenItem(l) \/ SellOne(l)
    \/ PressBulkDelete \/ BulkDelete \/ ShowBulkDelete \/ FailBulkDelete
    \/ GetItem \/ Press("SAVE") \/ Press("REMOVE") \/ FindItem \/ WriteItem
    \/ \E form \in [quantity : {IF surface = "app" THEN 0 ELSE 1, 3}, condition : {"NM"}, cost : {NoPrice}] :
          EditForm(form)
    \/ ShowSaved \/ ShowRemoved \/ FailItem \/ BackToList
    \/ AddItem([card |-> "y", condition |-> "LP", quantity |-> 1, cost |-> 1])
    \/ \E o \in Offer : Trade(o)
    \/ NextDay \/ CaptureDailyValues

Spec == Init /\ [][Next]_collectionVars

----------------------------------------------------------------------------
(* Every variable has its type.                                            *)
CollectionTypeOK ==
    /\ DOMAIN lots \subseteq 1..MaxLots /\ \A l \in DOMAIN lots : lots[l] \in LotRow
    /\ begun \in BOOLEAN /\ market \subseteq Offer /\ day \in 0..MaxDay
    /\ at \in {"LIST", "ITEM"} /\ url \in Query /\ page.checked \subseteq 1..MaxLots
    /\ behind \subseteq Part \union {"item"}

Agree(sum, sets, duplicates) ==
    /\ sum.unique = MapThenSumSet(LAMBDA s : sets[s].owned, DOMAIN sets)
    /\ sum.extra = MapThenSumSet(LAMBDA s : sets[s].extra, DOMAIN sets)
    /\ sum.duplicates = Cardinality(duplicates)
    /\ sum.totalCards = sum.withoutValue + Copies(Priced("value"))
    /\ sum.withoutValue + sum.withoutCost = 0 => sum.gain \in {NoPrice, sum.value - sum.cost}
    /\ \A s \in DOMAIN sets :
          /\ Cardinality(SetDetail(s).missing) = sets[s].missing
          /\ Cardinality(SetDetail(s).offered) = sets[s].offered

(* The answers about the same lots agree: the summary with the sets and    *)
(* with the values of the list, the filter of duplicates with their count, *)
(* and the missing cards of a set with its progress, whichever of the      *)
(* several reads and loops of collections.service.ts works them out.       *)
AnswersAgree ==
    Agree(Summary, ListSetProgress,
          {lots[l].card : l \in ItemWhere([AllLots EXCEPT !.duplicates = TRUE])})

(* The change of a month is what lies between the value shown and what was *)
(* captured on an earlier day, which is what the collection was worth on   *)
(* it (collections.service.ts:123), but for the days on which nothing had  *)
(* a price.  The code captures 0 for those, and takes it for a value,      *)
(* though COLLECTIONS.md:33 says that a missing price is not $0.           *)
ChangeIsOfValues ==
    page.shown["summary"].read =>
      LET s == page.shown["summary"].of
      IN s.change # NoPrice =>
           \E d \in 0..day - 1 : /\ history[d] # NoPrice /\ s.change = s.value - history[d]
                                 /\ worth[d] # NoPrice => history[d] = worth[d]

(* When its requests have ended, the list shows the lots of the query in   *)
(* the address as they are, but for what changed elsewhere, requests that  *)
(* crossed or were lost, and the sets after a deletion or, on the app, a   *)
(* save (me/coleccion/page.tsx:90, collection/[id].tsx:51).                *)
ListFits ==
    (at = "LIST" /\ Busy = {} /\ ~removing.asked /\ ~muddled) =>
      /\ page.shown["list"].read => page.shown["list"].of.query = url
      /\ \A p \in Part \ behind : page.shown[p] = Answer(p, url) \/ (p = "sets" /\ thinned)

(* The page of a lot shows it as it is, and offers to sell what it holds,  *)
(* but for what changed elsewhere or an answer that was lost.              *)
ItemFits ==
    (OnItem /\ item.call = "NONE" /\ item.seen.read /\ "item" \notin behind) =>
        ~Gone /\ item.seen.row = lots[item.lot]
=============================================================================

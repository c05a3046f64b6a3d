------------------------------ MODULE SearchPages ------------------------------
(***************************************************************************)
(* The pages that search cards by a game's filters: the form of            *)
(* apps/web/components/search-form.tsx on its pages, the search screen of  *)
(* apps/mobile, and the box that suggests cards while one types.           *)
(*                                                                         *)
(* The form's filters come from the API, for the game chosen on it; the    *)
(* search is decided by the address of the page on the web, and by what is *)
(* on the screen on the app; and the API checks it by the same table       *)
(* (packages/config/src/catalog-filters.ts).  Two games stand for all: they *)
(* have filters of both kinds, one that both have, and one that is shown   *)
(* for some types of card.                                                 *)
(***************************************************************************)
EXTENDS Integers, FiniteSets

CONSTANT MaxTouches    \* bound: what a person does on a page between two searches

VARIABLES surface,     \* "web", "app" or "box", the box of suggestions
          url,         \* the search of the web's page
          form,        \* what the form shows
          fetching,    \* games whose filters were asked for and are waited for
          searched,    \* the last search sent to the API
          box          \* the box of suggestions
searchVars == <<surface, url, form, fetching, searched, box>>

----------------------------------------------------------------------------
(* The table of filters, of which the API and both clients have a copy.    *)
NoGame == "none"
Game == {"pokemon", "gundam"}

JsonKeys(g) ==
    CASE g = "pokemon" -> {"cardType", "hp", "retreatCost"}
      [] g = "gundam" -> {"cardType", "hp"}
      [] OTHER -> {}

CommonKeys == {"language", "price", "hasListings"}

CardTypes(g) == IF g = "pokemon" THEN {"POKEMON", "TRAINER"} ELSE {"UNIT", "PILOT"}

Ranges == {"hp", "retreatCost", "price"}

\* The types of card for which a filter is shown.
VisibleWhen(g, k) ==
    CASE g = "pokemon" /\ k \in {"hp", "retreatCost"} -> {"POKEMON"}
      [] g = "gundam" /\ k = "hp" -> {"UNIT"}
      [] OTHER -> {}

\* Nothing entered, or an empty box.
Blank == "blank"
Empty == [k \in {} |-> Blank]
At(f, k) == IF k \in DOMAIN f THEN f[k] ELSE Blank
WithKey(f, k, v) == [j \in DOMAIN f \union {k} |-> IF j = k THEN v ELSE f[j]]
Without(f, ks) == [j \in DOMAIN f \ ks |-> f[j]]

\* What was entered for a filter, a range by its minimum or its maximum.
SelectedList_Exact(selected, k) == IF k \in Ranges THEN Blank ELSE At(selected, k)

SelectedList(selected, k) == At(selected, k)

IsFilterVisible(g, k, selected) ==
    \/ SelectedList(selected, k) # Blank
    \/ VisibleWhen(g, k) = {}
    \/ SelectedList(selected, "cardType") \in VisibleWhen(g, k)

CommonSorts == {"relevance", "nameAsc"}
SearchSorts == CommonSorts \union {"hp"}
SortAllowedForGame(sort, g) == sort \in CommonSorts \/ sort \in JsonKeys(g)

----------------------------------------------------------------------------
(* The API.                                                                *)

\* The app sends hasListings among the attributes.
AsAttribute(k) == k \notin {"language", "price"}

\* A value is a code, a "number" or a "word".
AssertSearchFilters(q) ==
    LET attrs == {k \in DOMAIN q.set : AsAttribute(k)}
    IN /\ q.sort \in SearchSorts
       /\ \A k \in DOMAIN q.set \intersect {"price", "language"} : q.set[k] # "word"
       /\ attrs # {} => q.game # NoGame
       /\ SortAllowedForGame(q.sort, q.game)
       /\ \A k \in attrs : k \in JsonKeys(q.game) /\ (k \in Ranges => q.set[k] = "number")

\* hasSearchCriteria.
Criteria(q) == q.game # NoGame \/ DOMAIN q.set # {}

SearchFor(q, by) ==
    searched' = IF Criteria(q) THEN [sent |-> TRUE, query |-> q, by |-> by, ok |-> AssertSearchFilters(q)]
                ELSE searched

----------------------------------------------------------------------------
(* The web's form.  Its controls are left to the browser: one that stays   *)
(* mounted keeps what was entered, one that is mounted starts from what    *)
(* was chosen or, if nothing was, from the address.                        *)

\* A sort that the address does not know is dropped.
InputFromParams(q) == [q EXCEPT !.sort = IF @ \in SearchSorts THEN @ ELSE "relevance"]

OmitSearchFilter(q, k) ==
    IF k = "game" THEN [q EXCEPT !.game = NoGame] ELSE [q EXCEPT !.set = Without(@, {k})]

Shown(meta, selected) ==
    {"price"} \union {k \in JsonKeys(meta) : IsFilterVisible(meta, k, selected)}

StartOf(meta, k, selected, q) ==
    LET current == IF k \in Ranges THEN At(q.set, k)
                   ELSE IF k \in DOMAIN selected THEN selected[k] ELSE At(q.set, k)
    IN IF k = "cardType" /\ current \notin CardTypes(meta) THEN Blank ELSE current

SortsOf(meta) == CommonSorts \union (JsonKeys(meta) \intersect Ranges)

\* The form with other filters or another choice; what the page's address is by then is q.
Rendered(fm, meta, selected, q) ==
    LET kept(k) == /\ k \in DOMAIN fm.boxes /\ (fm.meta = NoGame) = (meta = NoGame)
                   /\ (k = "cardType" => fm.boxes[k] \in CardTypes(meta) \union {Blank})
    IN [fm EXCEPT !.meta = meta, !.selected = selected,
                  !.boxes = [k \in Shown(meta, selected) |->
                                IF kept(k) THEN fm.boxes[k] ELSE StartOf(meta, k, selected, q)],
                  !.sort = IF @ \in SortsOf(meta) THEN @ ELSE "relevance"]

\* A page that is loaded: its filters come with it, or could not be read.
Mounted(q, meta) ==
    Rendered([game |-> q.game, meta |-> NoGame, selected |-> Empty, boxes |-> Empty, sort |-> q.sort,
              touches |-> 0, came |-> meta], meta, q.set, q)

\* Another choice of game, or other filters with the page, leave an older request unheard.
StillHeard_All(games) == games

StillHeard(games) == {}

\* The effect of the form's game and of the filters that came with the page.
TakeFilters(fm, q) ==
    IF fm.game = NoGame \/ fm.game = fm.came
    THEN /\ form' = Rendered(fm, fm.game, fm.selected, q)
         /\ fetching' = StillHeard(fetching)
    ELSE /\ form' = Rendered(fm, NoGame, fm.selected, q)
         /\ fetching' = StillHeard(fetching) \union {fm.game}

Touch(fm) == [fm EXCEPT !.touches = @ + 1]
MayTouch == form.touches < MaxTouches

\* The page's address is another.  The effect does not run if no filters came, before or now.
Navigate(q) ==
    \E meta \in {q.game, NoGame} :
       /\ url' = q
       /\ IF form.came = NoGame /\ meta = NoGame THEN form' = Touch(form) /\ UNCHANGED fetching
          ELSE TakeFilters([Touch(form) EXCEPT !.came = meta], q)

Load(q) ==
    \E meta \in {q.game, NoGame} :
       /\ url' = q /\ form' = Mounted(q, meta)
       /\ fetching' = IF q.game = meta THEN {} ELSE {q.game}

NoSearch == [sent |-> FALSE]
BlankSearch == [game |-> NoGame, set |-> Empty, sort |-> "relevance"]

Init ==
    /\ surface \in {"web", "app", "box"}
    /\ url = BlankSearch /\ form = Mounted(BlankSearch, NoGame)
    /\ fetching = {} /\ searched = NoSearch
    /\ box = [text |-> Blank, timer |-> FALSE, asking |-> {}, hits |-> Blank, missed |-> FALSE]

Web == surface = "web"

ChooseGame(g) ==
    /\ Web /\ MayTouch /\ g # form.game
    /\ TakeFilters([Touch(form) EXCEPT !.game = g, !.selected = Empty], url)
    /\ UNCHANGED <<surface, url, searched, box>>

\* A select tells the form, a range does not.
Enter(k, v) ==
    /\ Web /\ MayTouch /\ k \in DOMAIN form.boxes /\ v # form.boxes[k]
    /\ v \in IF k \in Ranges THEN {Blank, "number"} ELSE CardTypes(form.meta) \union {Blank}
    /\ LET fm == [Touch(form) EXCEPT !.boxes[k] = v]
       IN form' = IF k \in Ranges THEN fm
                  ELSE Rendered(fm, fm.meta, WithKey(fm.selected, k, v), url)
    /\ UNCHANGED <<surface, url, fetching, searched, box>>

ChooseSort(s) ==
    /\ Web /\ MayTouch /\ s \in SortsOf(form.meta) /\ s # form.sort
    /\ form' = [Touch(form) EXCEPT !.sort = s]
    /\ UNCHANGED <<surface, url, fetching, searched, box>>

\* The browser's own submit: a page is loaded from what the controls hold.
Submit ==
    /\ Web
    /\ LET set == [k \in {j \in DOMAIN form.boxes : form.boxes[j] # Blank} |-> form.boxes[k]]
           q == InputFromParams([game |-> form.game, set |-> set, sort |-> form.sort])
       IN Load(q) /\ SearchFor(q, "form")
    /\ UNCHANGED <<surface, box>>

Reload ==
    /\ Web /\ Load(url) /\ SearchFor(url, searched.by)
    /\ searched.sent
    /\ UNCHANGED <<surface, box>>

\* "Limpiar todos" is a link: it keeps the game chosen, and what the controls hold.
Clear ==
    /\ Web /\ MayTouch
    /\ LET q == [BlankSearch EXCEPT !.game = form.game] IN Navigate(q) /\ SearchFor(q, "link")
    /\ UNCHANGED <<surface, box>>

\* A chip, a page of results or "En venta": the address changes, and the form stays as it is.
FollowLink(k) ==
    /\ Web /\ MayTouch /\ k \in DOMAIN url.set \union {"game", "page"}
    /\ LET q == OmitSearchFilter(url, k) IN Navigate(q) /\ SearchFor(q, "link")
    /\ UNCHANGED <<surface, box>>

FiltersCome(g) ==
    /\ g \in fetching
    /\ fetching' = fetching \ {g}
    /\ form' = IF Web THEN Rendered(form, g, form.selected, url)
               ELSE [form EXCEPT !.meta = IF g = form.game THEN g ELSE @]
    /\ UNCHANGED <<surface, url, searched, box>>

FiltersFail(g) ==
    /\ g \in fetching
    /\ fetching' = fetching \ {g}
    /\ form' = IF Web THEN Rendered(form, NoGame, form.selected, url) ELSE form
    /\ UNCHANGED <<surface, url, searched, box>>

----------------------------------------------------------------------------
(* The app's screen: every change searches anew.  Its boxes hold the       *)
(* attributes and the price.                                               *)
App == surface = "app"

ScreenQuery(fm) ==
    [game |-> fm.game, sort |-> "relevance",
     set |-> [k \in {j \in DOMAIN fm.boxes : fm.boxes[j] # Blank} |-> fm.boxes[k]]]

OnScreen(fm) ==
    IF fm.meta = NoGame THEN {}
    ELSE {k \in JsonKeys(fm.meta) \union CommonKeys : IsFilterVisible(fm.meta, k, Without(fm.boxes, {"price"}))}

\* A game's button puts it in, or takes it out; the price stays.
Attrs_Kept(fm) == fm.boxes

Attrs(fm) == Without(fm.boxes, DOMAIN fm.boxes \ {"price"})

PickGame(g) ==
    /\ App /\ MayTouch
    /\ LET to == IF form.game = g THEN NoGame ELSE g
           fm == [Touch(form) EXCEPT !.game = to, !.meta = NoGame, !.boxes = Attrs(form)]
       IN /\ form' = fm /\ fetching' = IF to = NoGame THEN {} ELSE {to}
          /\ SearchFor(ScreenQuery(fm), "screen")
    /\ UNCHANGED <<surface, url, box>>

\* Ranges, the price and the languages, for which the API gives no options, are typed.
SetAttr(k, v) ==
    /\ App /\ MayTouch /\ k \in OnScreen(form) /\ v # At(form.boxes, k)
    /\ v \in CASE k \in Ranges -> {Blank, "number", "word"}
               [] k = "language" -> {Blank, "code", "word"}
               [] k = "hasListings" -> {Blank, "true"}
               [] OTHER -> CardTypes(form.meta) \union {Blank}
    /\ LET fm == [Touch(form) EXCEPT !.boxes = WithKey(@, k, v)]
       IN form' = fm /\ SearchFor(ScreenQuery(fm), "screen")
    /\ UNCHANGED <<surface, url, fetching, box>>

ClearAll ==
    /\ App /\ MayTouch
    /\ LET fm == [Touch(form) EXCEPT !.boxes = Empty]
       IN form' = fm /\ SearchFor(ScreenQuery(fm), "screen")
    /\ UNCHANGED <<surface, url, fetching, box>>

----------------------------------------------------------------------------
(* The box of suggestions: it asks 220 ms after the last key, and an older *)
(* request is aborted when the next one goes out.                          *)
Long == {"ab", "abc"}
formRows == <<surface, url, form, fetching, searched>>

TypeText(t) ==
    /\ surface = "box" /\ t # box.text
    /\ box' = [box EXCEPT !.text = t, !.timer = t \in Long, !.missed = FALSE,
                          !.hits = IF t \in Long THEN @ ELSE Blank]
    /\ UNCHANGED formRows

Aborted_None(texts) == {}

Aborted(texts) == texts

AskHits ==
    /\ box.timer
    /\ box' = [box EXCEPT !.timer = FALSE, !.asking = (@ \ Aborted(@)) \union {box.text}]
    /\ UNCHANGED formRows

HitsCome(t) ==
    /\ t \in box.asking
    /\ box' = [box EXCEPT !.asking = @ \ {t}, !.hits = t]
    /\ UNCHANGED formRows

HitsFail(t) ==
    /\ t \in box.asking
    /\ box' = [box EXCEPT !.asking = @ \ {t}, !.missed = @ \/ t = box.text]
    /\ UNCHANGED formRows

Next ==
    \/ \E g \in Game \union {NoGame} : ChooseGame(g)
    \/ \E k \in {"cardType"} \union Ranges : \E v \in {Blank, "number", "POKEMON", "TRAINER", "UNIT", "PILOT"} : Enter(k, v)
    \/ \E s \in CommonSorts \union Ranges : ChooseSort(s)
    \/ Submit \/ Reload \/ Clear
    \/ \E k \in {"cardType", "game", "page"} \union Ranges : FollowLink(k)
    \/ \E g \in Game : FiltersCome(g) \/ FiltersFail(g) \/ PickGame(g)
    \/ \E k \in {"cardType"} \union Ranges \union CommonKeys :
         \E v \in {Blank, "number", "word", "code", "true", "POKEMON", "TRAINER", "UNIT", "PILOT"} : SetAttr(k, v)
    \/ ClearAll
    \/ \E t \in Long \union {Blank} : TypeText(t)
    \/ AskHits
    \/ \E t \in Long : HitsCome(t) \/ HitsFail(t)

----------------------------------------------------------------------------
(* What the form, the search and the box hold.                             *)
SearchTypeOK ==
    /\ surface \in {"web", "app", "box"}
    /\ {url.game, form.game, form.meta, form.came} \subseteq Game \union {NoGame}
    /\ url.sort \in SearchSorts /\ form.touches \in 0..MaxTouches
    /\ fetching \subseteq Game
    /\ {box.text, box.hits} \union box.asking \subseteq Long \union {Blank}

(* The filters on the form are those of the game chosen on it, however its *)
(* requests for them cross.                                                *)
FiltersOfGame == form.meta \in {NoGame, form.game}

(* A search that a page sends is one the API accepts: all but the links of *)
(* a search whose game was taken out by its chip, and on the app a word    *)
(* where a number or a code is due, and "Con publicaciones".               *)
SearchAccepted ==
    searched.sent => \/ searched.ok
                     \/ searched.by = "link" /\ searched.query.game = NoGame
                     \/ App /\ \E k \in DOMAIN searched.query.set :
                                  k = "hasListings" \/ searched.query.set[k] = "word"

(* A page just loaded shows on its form every filter that its results were *)
(* narrowed by, whichever filters had to be set to reach it.  Nothing is   *)
(* said of the form once something is entered or a link followed on it.    *)
NarrowedIsShown ==
    Web /\ form.touches = 0 /\ url.game # NoGame /\ form.meta = url.game
        => \A k \in DOMAIN url.set : At(form.boxes, k) = url.set[k]

(* The cards suggested are of the text in the box, unless its own answer   *)
(* is still to come or failed, or the text is too short to ask.            *)
SuggestedIsTyped ==
    \/ box.hits \in {Blank, box.text} \/ box.text \notin Long
    \/ box.timer \/ box.missed \/ box.text \in box.asking
=============================================================================

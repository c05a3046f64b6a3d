--------------------------------- MODULE Market ---------------------------------
(***************************************************************************)
(* The components around the marketplace's listings, and of the accounts   *)
(* of its people, side by side.  They share no state that their properties *)
(* tell apart: a behaviour is one of the component in focus, and the       *)
(* variables of the others are Nothing.                                    *)
(***************************************************************************)
EXTENDS Integers, Sequences, FiniteSets

CONSTANTS Nothing,
          Call,                                    \* calls in flight, of all components
          Listing, Sale, MaxQuantity,              \* Listings; Carts and CheckoutPages
          Report, Reported, MaxReports,            \* Reports
          CartListing, Own, Cart, Inquiry, MaxAsked,  \* Carts
          User, CardListing, Price, DropBps,       \* Alerts
          Lot, LotOrder, Items, MaxLot,            \* Lots
          Session, MaxVersion,                     \* Sessions
          Assignment, Purchase, MaxTime, Subtotal, \* Plans
          MaxChange,                               \* RowPages
          MylCard, ApiCard, MaxRows, MaxSlug,      \* CatalogImports
          Address, MaxChoices,                     \* CheckoutPages
          MaxTouches,                              \* SearchPages
          Offer, FirstLots, PageSize, MaxLots, MaxDay, MaxTurns, MaxChanges  \* Collections

VARIABLES focus,
          listing, sale, suspended, editing, excused,
          report, handling,
          cart, stock, browsing, inquiry, asked, bought, overlapped,
          market, weekOld, wish, preference, inbox, checking, hits,
          lot, confirming, owed,
          account, reset, session, call, over, forked,
          clock, sub, admin, buyer, holder, offered,
          row, version, page, click, made, pushed, muddled,
          game, cards, ordered, job, pruning,
          shopDevice, shop, basket, place, default, put, buyerPage, quoting, placing, behind,
          changed, receipt, outcome, polls,
          surface, url, form, fetching, searched, box,
          lots, last, begun, onSale, day, history, worth, gadget, at, query, listed, loads,
          removing, item, turns, changes, older, crossed, thinned

L == INSTANCE Listings
R == INSTANCE Reports WITH Target <- Reported, ReportCall <- Call
C == INSTANCE Carts WITH Listing <- CartListing, CartCall <- Call
A == INSTANCE Alerts WITH Listing <- CardListing, Check <- Call
D == INSTANCE Lots WITH Order <- LotOrder
S == INSTANCE Sessions WITH AuthCall <- Call
P == INSTANCE Plans WITH Assign <- Assignment, Checkout <- Purchase
G == INSTANCE RowPages WITH Click <- Call, MaxVersion <- MaxChange
I == INSTANCE CatalogImports WITH Process <- Call
V == INSTANCE CheckoutPages WITH Seller <- Sale, Poll <- Call, device <- shopDevice,
                                 page <- buyerPage
F == INSTANCE SearchPages
E == INSTANCE Collections WITH market <- onSale, surface <- gadget, url <- query, page <- listed,
                               behind <- older, muddled <- crossed

\* Times and prices are numbers, and the holders of the seller's row are told apart.
ASSUME PlansAssumption ==
    /\ MaxTime \in Nat /\ Subtotal \subseteq Nat
    /\ Assignment \cap Purchase = {} /\ P!NoOne \notin Assignment \cup Purchase

\* No session is the absence of one.
ASSUME SessionsAssumption == MaxVersion \in Nat /\ S!NoOne \notin Session

\* A card has a price, and the calls, reports and sales there can be are finitely many.
ASSUME TradeAssumption ==
    /\ Price # {}
    /\ IsFiniteSet(Call) /\ Call # {} /\ IsFiniteSet(Report) /\ MaxReports \in Nat
    /\ IsFiniteSet(Sale) /\ MaxQuantity \in Nat /\ Listing # {} /\ Nothing \notin Listing

\* An order takes quantities of lots.
ASSUME LotsAssumption ==
    MaxLot \in Nat /\ Items \in [LotOrder -> Seq([lot : Lot, quantity : Nat])]

\* Every row could have a slug of one base, and no printing is the absence of one.
ASSUME ImportsAssumption ==
    MaxRows \in Nat /\ MaxSlug \in Nat /\ MaxRows <= MaxSlug /\ "none" \notin MylCard \cup ApiCard

\* No cart is the absence of one.
ASSUME CartsAssumption == IsFiniteSet(Cart) /\ Nothing \notin Cart /\ MaxAsked \in Nat

\* What a person does on a page is counted.
ASSUME SearchAssumption == MaxTouches \in Nat

\* So are the changes of the row that a page shows.
ASSUME PagesAssumption == MaxChange \in Nat \ {0}

\* What is in a cart has a copy there.
ASSUME VisitsAssumption == MaxQuantity # 0

\* Offers have a price, and a collection starts from lots that are numbered.
ASSUME CollectionAssumption ==
    /\ IsFiniteSet(Offer) /\ \A o \in Offer : o.price \in Nat
    /\ MaxLots \in Nat /\ MaxDay \in Nat \ {0}
    /\ FirstLots \subseteq UNION {[1..n -> E!LotRow] : n \in 0..MaxLots}

listingVars == <<listing, sale, suspended, editing, excused>>
reportVars == <<report, handling>>
cartVars == <<cart, stock, browsing, inquiry, asked, bought, overlapped>>
alertVars == <<market, weekOld, wish, preference, inbox, checking, hits>>
lotVars == <<lot, confirming, owed>>
importVars == <<game, cards, ordered, job, pruning>>
sessionVars == <<account, reset, session, call, over, forked>>
planVars == <<clock, sub, admin, buyer, holder, offered>>
tradeVars == <<listingVars, reportVars, cartVars, alertVars, lotVars, importVars>>
pageVars == <<row, version, page, click, made, pushed, muddled>>
accountVars == <<sessionVars, planVars, pageVars>>
visitVars == <<shopDevice, shop, basket, place, default, put, buyerPage, quoting, placing, behind,
               changed, receipt, outcome, polls>>
searchVars == <<surface, url, form, fetching, searched, box>>
collectionVars == <<lots, last, begun, onSale, day, history, worth, gadget, at, query, listed,
                    loads, removing, item, turns, changes, older, crossed, thinned>>
frame == <<focus, visitVars, searchVars, collectionVars>>
vars == <<frame, tradeVars, accountVars>>

noListings == listing = Nothing /\ sale = Nothing /\ suspended = Nothing /\ editing = Nothing
              /\ excused = Nothing
noReports == report = Nothing /\ handling = Nothing
noCarts == cart = Nothing /\ stock = Nothing /\ browsing = Nothing /\ inquiry = Nothing
           /\ asked = Nothing /\ bought = Nothing /\ overlapped = Nothing
noAlerts == market = Nothing /\ weekOld = Nothing /\ wish = Nothing /\ preference = Nothing
            /\ inbox = Nothing /\ checking = Nothing /\ hits = Nothing
noLots == lot = Nothing /\ confirming = Nothing /\ owed = Nothing
noSessions == account = Nothing /\ reset = Nothing /\ session = Nothing /\ call = Nothing
              /\ over = Nothing /\ forked = Nothing
noPlans == clock = Nothing /\ sub = Nothing /\ admin = Nothing /\ buyer = Nothing
           /\ holder = Nothing /\ offered = Nothing
noImports == game = Nothing /\ cards = Nothing /\ ordered = Nothing /\ job = Nothing
             /\ pruning = Nothing
noTradeRows == noListings /\ noReports /\ noCarts /\ noAlerts /\ noLots /\ noImports
noPages == row = Nothing /\ version = Nothing /\ page = Nothing /\ click = Nothing
           /\ made = Nothing /\ pushed = Nothing /\ muddled = Nothing
noAccountRows == noSessions /\ noPlans /\ noPages
noVisits == shopDevice = Nothing /\ shop = Nothing /\ basket = Nothing /\ place = Nothing
            /\ default = Nothing /\ put = Nothing /\ buyerPage = Nothing /\ quoting = Nothing
            /\ placing = Nothing /\ behind = Nothing /\ changed = Nothing /\ receipt = Nothing
            /\ outcome = Nothing /\ polls = Nothing
noSearch == surface = Nothing /\ url = Nothing /\ form = Nothing /\ fetching = Nothing
            /\ searched = Nothing /\ box = Nothing
noCollection == lots = Nothing /\ last = Nothing /\ begun = Nothing /\ onSale = Nothing
                /\ day = Nothing /\ history = Nothing /\ worth = Nothing /\ gadget = Nothing
                /\ at = Nothing /\ query = Nothing /\ listed = Nothing /\ loads = Nothing
                /\ removing = Nothing /\ item = Nothing /\ turns = Nothing /\ changes = Nothing
                /\ older = Nothing /\ crossed = Nothing /\ thinned = Nothing
noScreens == noVisits /\ noSearch /\ noCollection
noRows == noTradeRows /\ noAccountRows
noTrade == noTradeRows /\ noScreens
noAccounts == noAccountRows /\ noScreens
noOthers == noAccounts /\ noImports

Init ==
    \/ focus = "listings" /\ noOthers /\ L!Init /\ noReports /\ noCarts /\ noAlerts /\ noLots
    \/ focus = "reports" /\ noOthers /\ noListings /\ R!Init /\ noCarts /\ noAlerts /\ noLots
    \/ focus = "carts" /\ noOthers /\ noListings /\ noReports /\ C!Init /\ noAlerts /\ noLots
    \/ focus = "alerts" /\ noOthers /\ noListings /\ noReports /\ noCarts /\ A!Init /\ noLots
    \/ focus = "lots" /\ noOthers /\ noListings /\ noReports /\ noCarts /\ noAlerts /\ D!Init
    \/ focus = "imports" /\ noAccounts /\ I!Init /\ noListings /\ noReports /\ noCarts
       /\ noAlerts /\ noLots
    \/ focus = "sessions" /\ noTrade /\ S!Init /\ noPlans /\ noPages
    \/ focus = "plans" /\ noTrade /\ noSessions /\ P!Init /\ noPages
    \/ focus = "pages" /\ noTrade /\ noSessions /\ noPlans /\ G!Init
    \/ focus = "checkout" /\ noRows /\ V!Init /\ noSearch /\ noCollection
    \/ focus = "search" /\ noRows /\ noVisits /\ F!Init /\ noCollection
    \/ focus = "collection" /\ noRows /\ noVisits /\ noSearch /\ E!Init

Next ==
    \/ focus = "listings" /\ L!Next
       /\ UNCHANGED <<frame, accountVars, importVars, reportVars, cartVars, alertVars, lotVars>>
    \/ focus = "reports" /\ R!Next
       /\ UNCHANGED <<frame, accountVars, importVars, listingVars, cartVars, alertVars, lotVars>>
    \/ focus = "carts" /\ C!Next
       /\ UNCHANGED <<frame, accountVars, importVars, listingVars, reportVars, alertVars, lotVars>>
    \/ focus = "alerts" /\ A!Next
       /\ UNCHANGED <<frame, accountVars, importVars, listingVars, reportVars, cartVars, lotVars>>
    \/ focus = "lots" /\ D!Next
       /\ UNCHANGED <<frame, accountVars, importVars, listingVars, reportVars, cartVars, alertVars>>
    \/ focus = "imports" /\ I!Next
       /\ UNCHANGED <<frame, accountVars, listingVars, reportVars, cartVars, alertVars, lotVars>>
    \/ focus = "sessions" /\ S!Next
       /\ UNCHANGED <<frame, tradeVars, planVars, pageVars>>
    \/ focus = "plans" /\ P!Next
       /\ UNCHANGED <<frame, tradeVars, sessionVars, pageVars>>
    \/ focus = "pages" /\ G!Next
       /\ UNCHANGED <<frame, tradeVars, sessionVars, planVars>>
    \/ focus = "checkout" /\ V!Next
       /\ UNCHANGED <<focus, tradeVars, accountVars, searchVars, collectionVars>>
    \/ focus = "search" /\ F!Next
       /\ UNCHANGED <<focus, tradeVars, accountVars, visitVars, collectionVars>>
    \/ focus = "collection" /\ E!Next
       /\ UNCHANGED <<focus, tradeVars, accountVars, visitVars, searchVars>>

Spec == Init /\ [][Next]_vars

----------------------------------------------------------------------------
\* A safety property states its component's type invariant too.

(* A listing holds exactly the pieces of its live reservations, and has    *)
(* them, whatever its seller enters meanwhile (listings.service.ts:181).   *)
ReservedWithinStock == focus = "listings" => L!TypeOK /\ L!ReservedWithinStock

(* The listings of a suspended seller are off sale, but for those that a   *)
(* call in flight, or a refund, puts there (seller-suspension.ts:14).      *)
SuspendedIsOffline == focus = "listings" => L!SuspendedIsOffline

(* A sold out or cancelled listing leaves that status by a refund, a       *)
(* payment, or a call that had read it before (listings.service.ts:299).   *)
ClosedStaysClosed == [][focus = "listings" => L!ClosedStep]_vars

(* The limit of reports per window is exceeded by no more than the calls   *)
(* that counted together, and a target has one open report per reason,     *)
(* also when a resolved one is assigned by a call that read it open        *)
(* (reports.service.ts:38, :113).                                          *)
ReportsBounded == focus = "reports" => R!TypeOK /\ R!ReportLimit /\ R!OneOpenReport

(* What is in the carts and was bought was put in a cart, once, unless two *)
(* checkouts overlapped (cart.service.ts:127, orders.service.ts:219).      *)
BoughtWasAsked == focus = "carts" => C!TypeOK /\ C!BoughtWasAsked

(* A user is mailed about a listing at a price once, however many checks   *)
(* find it together (wishlist.service.ts:124, notifications.service.ts).   *)
HitMailedOnce == focus = "alerts" => A!TypeOK /\ A!HitMailedOnce

(* No confirmation loses the deduction of another from a lot               *)
(* (collections.service.ts:151).                                           *)
LotMatchesSales == focus = "lots" => D!TypeOK /\ D!LotMatchesSales

(* An import leaves every card the address it had, and a full one that     *)
(* ended leaves each card of its source, but for the conflicts it reports, *)
(* on sale, however many died before it (import-myl-tor.ts:124).           *)
ReimportRepairs == focus = "imports" => I!ImpTypeOK /\ I!ReimportRepairs

(* What ends a login's sessions ends them for good, but for a refresh in   *)
(* flight; and a login has one live session (auth.service.ts:131, :158).   *)
SessionsEnded == focus = "sessions" => S!SessionTypeOK /\ S!SessionsEnded

(* An order pays the fee of a plan its seller had when it was priced       *)
(* (orders.service.ts:113, seller-plan.service.ts:38).                     *)
FeeOfPlan == focus = "plans" => P!PlanTypeOK /\ P!FeeOfPlan

(* A page that shows the row as it is offers nothing that the API refuses, *)
(* but for a few listed offers, and no row waits for a step that no page   *)
(* offers (admin/orders/[id]/page.tsx:12, mobile purchases/[id].tsx:62).   *)
(* When its requests have ended, a page shows what they did, but for a     *)
(* dispute opened on the app, and unless they crossed or an answer was     *)
(* lost (me/disputas/[id]/page.tsx:104).                                   *)
PagesFitApi == focus = "pages" => /\ G!PageTypeOK /\ G!OffersAreAccepted /\ G!SomeoneCanAct
                                  /\ G!OwnRequestIsShown

(* A checkout charges what its page showed, unless what the page had read  *)
(* has changed, or a quote was missing; and a buyer who was told how the   *)
(* purchase ended is not told later that it is still being confirmed,      *)
(* unless two reads of the page, which does not wait for one to start the  *)
(* next, crossed (checkout/page.tsx:64, checkout/retorno/page.tsx:26).     *)
CheckoutAsShown == focus = "checkout" => V!CheckoutTypeOK /\ V!ChargedAsShown /\ V!OutcomeStays

(* The form of a search shows the filters of the game chosen on it and, on *)
(* a page just loaded, every filter its results were narrowed by; it sends *)
(* what the API accepts but for the listed cases, and the suggestions are  *)
(* of the text in the box, however the answers cross (search-form.tsx:91). *)
SearchFits == focus = "search" => /\ F!SearchTypeOK /\ F!FiltersOfGame /\ F!SearchAccepted
                                  /\ F!NarrowedIsShown /\ F!SuggestedIsTyped

(* What the collection's answers, made by separate loops, say of the same  *)
(* lots agrees; the change in a month is from what the collection was      *)
(* worth on a captured day, unless nothing had a price then; its pages     *)
(* show what is there, but for what changed elsewhere, requests that       *)
(* crossed or were lost, and the sets after a deletion or a save           *)
(* (collections.service.ts:91, me/coleccion/page.tsx:57).                  *)
CollectionFits == focus = "collection" =>
    /\ E!CollectionTypeOK /\ E!AnswersAgree /\ E!ChangeIsOfValues
    /\ E!ListFits /\ E!ItemFits
=============================================================================

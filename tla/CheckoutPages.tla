----------------------------- MODULE CheckoutPages -----------------------------
(***************************************************************************)
(* One visit of a buyer to the pages of checkout, from the cart to the     *)
(* page that tells the outcome: apps/web/app/{carrito,checkout,            *)
(* checkout/retorno} and the screens of apps/mobile of the same names.     *)
(*                                                                         *)
(* The page adds up what it shows from a cart, a list of addresses and a   *)
(* quote per seller, each read at another moment; the API charges what it  *)
(* finds when the button is pressed, and takes from the page only the      *)
(* methods and the address (orders.service.ts:68).  The cart holds one     *)
(* listing of each seller.  CHILEXPRESS stands for BLUE_EXPRESS too.       *)
(***************************************************************************)
EXTENDS Integers, FiniteSets, FiniteSetsExt, Functions

CONSTANTS Seller, Address, Poll,
          MaxQuantity,   \* bound: copies of a listing in the cart
          MaxChoices     \* bound: methods and addresses chosen by hand

VARIABLES
  device,    \* "web" or "app"
  shop,      \* [Seller -> the listing in the cart, and what its seller's profile says]
  basket,    \* [Seller -> copies in the cart of the account]
  place,     \* [Address -> its place, or NoPlace: no such address]
  default,   \* the address marked for shipping
  put,       \* the quantity that a step on the cart page asked for, until it is served
  page,      \* what the page keeps
  quoting,   \* quotes asked for, and not shown yet
  placing,   \* the checkout asked for
  behind,    \* what changed on the server after the page had read it
  changed,   \* the one change of this visit has happened
  receipt,   \* the checkout made, next to what the page showed when it was asked for
  outcome,   \* status of that checkout
  polls      \* [Poll -> the status that a read of the return page found]

checkoutVars == <<device, shop, basket, place, default, put, page, quoting, placing, behind,
                  changed, receipt, outcome, polls>>

----------------------------------------------------------------------------
Method == {"MEETUP", "CHILEXPRESS", "COORDINATED"}

\* A comuna that the table has, in each zone, and one that it has not, of the capital's region.
Place == {"RM", "REGIONS", "UNLISTED"}
NoPlace == "-"
NoAddress == "none"
NoQuote == -1

Unread == [read |-> FALSE]
NoPut == [asked |-> FALSE]
Final == {"PAID", "EXPIRED", "CANCELLED"}

SumOver(f, S) == FoldFunctionOnSet(+, 0, f, S)

----------------------------------------------------------------------------
(* What the API answers.                                                   *)

\* findChilePlace: by comuna, or else by region if there is one to look up.
ZoneOf(p, withRegion) ==
    CASE p \in {"RM", "REGIONS"} -> p
      [] p = "UNLISTED" -> IF withRegion THEN "RM" ELSE NoPlace
      [] OTHER -> NoPlace

Rate(from, to) == IF from # to THEN 3 ELSE IF from = "RM" THEN 1 ELSE 2

\* quoteFromPlaces.  NoQuote is its refusal.
QuoteFromPlaces(s, method, p, withRegion) ==
    LET from == ZoneOf(shop[s].origin, TRUE)
        to == ZoneOf(p, withRegion)
    IN IF method = "MEETUP" THEN 0
       ELSE IF from = NoPlace \/ to = NoPlace THEN NoQuote
       ELSE IF method = "COORDINATED" THEN 0
       ELSE Rate(from, to)

\* The quote of the page: by comuna alone, and of a seller whose account is there.
Quote(s, method, p) == IF shop[s].left THEN NoQuote ELSE QuoteFromPlaces(s, method, p, FALSE)

Line(s) == IF shop[s].onSale THEN shop[s].price * basket[s] ELSE 0
InCart == {s \in Seller : basket[s] > 0}
CartView ==
    [read |-> TRUE,
     group |-> [s \in InCart |-> [line |-> Line(s), meets |-> shop[s].meets, ships |-> shop[s].ships]]]

Known == {a \in Address : place[a] # NoPlace}
AddressView ==
    [read |-> TRUE, at |-> [a \in Known |-> place[a]],
     first |-> IF default \in Known THEN default
               ELSE IF Known = {} THEN NoAddress ELSE CHOOSE a \in Known : TRUE]

----------------------------------------------------------------------------
(* What the page works out.                                                *)

Groups == IF page.cart.read THEN DOMAIN page.cart.group ELSE {}
MethodOf(s) == IF s \in DOMAIN page.methods THEN page.methods[s] ELSE "MEETUP"
NeedsAddress == \E s \in DOMAIN page.methods : page.methods[s] # "MEETUP"

\* The web falls back to the first address of the list, both to the capital.
Destination(pg) ==
    IF pg.addresses.read /\ pg.address \in DOMAIN pg.addresses.at THEN pg.addresses.at[pg.address]
    ELSE IF device = "web" /\ pg.addresses.read /\ pg.addresses.first # NoAddress
         THEN pg.addresses.at[pg.addresses.first]
    ELSE "RM"

KeyOf(pg) == [methods |-> pg.methods, dest |-> Destination(pg)]

\* The web shows the last quotes that came; the app, those of the key.
Shown ==
    LET fit == {q \in page.quotes : device = "web" \/ q.key = KeyOf(page)}
    IN IF fit = {} THEN [s \in {} |-> NoQuote] ELSE (CHOOSE q \in fit : TRUE).rows
ShownQuote(s) == IF s \in DOMAIN Shown THEN Shown[s] ELSE NoQuote

ShownTotal ==
    SumOver([s \in Groups |-> page.cart.group[s].line], Groups)
    + SumOver([s \in Groups |-> IF ShownQuote(s) = NoQuote THEN 0 ELSE ShownQuote(s)], Groups)

OnCheckout == page.at = "CHECKOUT" /\ page.cart.read /\ (device = "web" => page.addresses.read)

\* Both choose in-person delivery where the seller offers it.
FirstMethods(cart) ==
    [s \in DOMAIN cart.group |-> IF cart.group[s].meets THEN "MEETUP" ELSE "CHILEXPRESS"]

\* After a read the web, which waits for both, and the app, after each, choose.  What was
\* chosen by hand stays, on the app, for the methods and not for the address.
Choose(pg) ==
    IF ~pg.cart.read \/ (device = "web" /\ ~pg.addresses.read) THEN pg
    ELSE [pg EXCEPT !.methods = IF DOMAIN @ = {} THEN FirstMethods(pg.cart) ELSE @,
                    !.address = IF pg.addresses.read /\ pg.addresses.first # NoAddress
                                THEN pg.addresses.first ELSE @]

\* A new effect cancels the one before; the app's answers to another choice go unseen.
StillWanted_All(runs) == runs

StillWanted(runs) == {}

\* The page becomes pg: quotes are asked for when what they depend on is new.  The app
\* keeps quotes by what they are of; here it asks again for what it had found before.
Becomes(pg, anew) ==
    /\ page' = pg
    /\ LET key == KeyOf(pg)
           ready == pg.cart.read /\ (device = "web" => pg.addresses.read)
           known == \E q \in pg.quotes \union quoting : q.key = key
       IN quoting' =
            IF ready /\ (IF device = "web" THEN anew ELSE ~known)
            THEN StillWanted(quoting) \union {[key |-> key, of |-> DOMAIN pg.cart.group, read |-> FALSE]}
            ELSE quoting

----------------------------------------------------------------------------
Shops == [price : {1}, onSale : {TRUE}, meets : BOOLEAN, ships : {TRUE}, origin : {"RM", NoPlace},
          left : {FALSE}]

Init ==
    /\ device \in {"web", "app"}
    /\ shop \in {f \in [Seller -> Shops] : \A s \in Seller : f[s].meets \/ f[s].origin = "RM"}
    /\ basket \in {b \in [Seller -> 0..1] : \E s \in Seller : b[s] = 1}
    /\ place \in [Address -> (Place \ {"RM"}) \union {NoPlace}]
    /\ default \in Address
    /\ put = NoPut
    /\ page = [at |-> "CART", cart |-> Unread, addresses |-> Unread, methods |-> [s \in {} |-> "MEETUP"],
               address |-> NoAddress, quotes |-> {}, choices |-> 0, stale |-> {"cart", "addresses"}]
    /\ quoting = {} /\ placing = NoPut
    /\ behind = {} /\ changed = FALSE
    /\ receipt = NoPut /\ outcome = "PENDING" /\ polls = [p \in Poll |-> "IDLE"]

AtReturn == [at |-> "RETURN", seen |-> "NONE", told |-> "NONE", asking |-> TRUE, late |-> FALSE,
             crossed |-> FALSE]

serverRows == <<shop, basket, place, default>>
laterRows == <<receipt, outcome, polls>>

(* A step of the quantity, or "Quitar": the button to pay does not wait.   *)
Step(s, n) ==
    /\ page.at = "CART" /\ put = NoPut /\ ~changed
    /\ n # basket[s]
    /\ put' = [asked |-> TRUE, seller |-> s, to |-> n]
    /\ changed' = TRUE
    /\ UNCHANGED <<device, serverRows, page, quoting, placing, behind, laterRows>>

\* The app reads the cart anew after its own change; the web puts the answer in its cart page.
ServePut ==
    /\ put.asked
    /\ basket' = [basket EXCEPT ![put.seller] = put.to]
    /\ put' = NoPut
    /\ behind' = behind \union {"cart"}
    /\ page' = IF device = "app" /\ page.at = "CHECKOUT" THEN [page EXCEPT !.stale = @ \union {"cart"}] ELSE page
    /\ UNCHANGED <<device, shop, place, default, quoting, placing, changed, laterRows>>

GoToPay ==
    /\ page.at = "CART"
    /\ page' = [page EXCEPT !.at = "CHECKOUT"]
    /\ UNCHANGED <<device, serverRows, put, quoting, placing, behind, changed, laterRows>>

LoadCart ==
    /\ page.at = "CHECKOUT" /\ "cart" \in page.stale
    /\ Becomes(Choose([page EXCEPT !.cart = CartView, !.stale = @ \ {"cart"}]), TRUE)
    /\ behind' = IF placing.asked THEN behind ELSE behind \ {"cart"}
    /\ UNCHANGED <<device, serverRows, put, placing, changed, laterRows>>

LoadAddresses ==
    /\ page.at = "CHECKOUT" /\ "addresses" \in page.stale
    /\ Becomes(Choose([page EXCEPT !.addresses = AddressView, !.stale = @ \ {"addresses"}]), TRUE)
    /\ behind' = IF placing.asked THEN behind ELSE behind \ {"addresses"}
    /\ UNCHANGED <<device, serverRows, put, placing, changed, laterRows>>

ChooseMethod(s, m) ==
    /\ OnCheckout /\ s \in Groups /\ page.choices < MaxChoices
    /\ IF m = "MEETUP" THEN page.cart.group[s].meets ELSE page.cart.group[s].ships
    /\ s \in DOMAIN page.methods => page.methods[s] # m
    /\ Becomes([page EXCEPT !.choices = @ + 1, !.methods = [t \in DOMAIN @ \union {s} |-> IF t = s THEN m ELSE @[t]]], TRUE)
    /\ UNCHANGED <<device, serverRows, put, placing, behind, changed, laterRows>>

ChooseAddress(a) ==
    /\ OnCheckout /\ NeedsAddress /\ page.choices < MaxChoices /\ page.addresses.read /\ a \in DOMAIN page.addresses.at
    /\ a # page.address
    /\ LET pg == [page EXCEPT !.address = a, !.choices = @ + 1] IN Becomes(pg, Destination(pg) # Destination(page))
    /\ UNCHANGED <<device, serverRows, put, placing, behind, changed, laterRows>>

\* A quote that is refused, or fails, is none.
ServeQuotes(run) ==
    /\ ~run.read
    /\ \E lost \in SUBSET {s \in DOMAIN run.key.methods : run.key.methods[s] = "CHILEXPRESS"} :
          LET row(s) == IF s \in lost THEN NoQuote
                        ELSE Quote(s, IF s \in DOMAIN run.key.methods THEN run.key.methods[s] ELSE "MEETUP",
                                   run.key.dest)
          IN /\ Cardinality(lost) <= 1
             /\ quoting' = (quoting \ {run}) \union
                   {[key |-> run.key, of |-> run.of, read |-> TRUE, rows |-> [s \in run.of |-> row(s)]]}
    /\ UNCHANGED <<device, serverRows, put, page, placing, behind, changed, laterRows>>

ShowQuotes(run) ==
    /\ run.read
    /\ quoting' = quoting \ {run}
    /\ page' = [page EXCEPT !.quotes = {[key |-> run.key, rows |-> run.rows]}]
    /\ UNCHANGED <<device, serverRows, put, placing, behind, changed, laterRows>>

Enabled == OnCheckout /\ Groups # {} /\ ~placing.asked /\ (NeedsAddress => page.address # NoAddress)

(* The methods and the address go with the request; the total does not.    *)
Press ==
    /\ Enabled
    /\ placing' = [asked |-> TRUE, answered |-> FALSE, shown |-> ShownTotal,
                   choice |-> [s \in Groups |-> [method |-> MethodOf(s),
                                  address |-> IF MethodOf(s) = "MEETUP" THEN NoAddress ELSE page.address]],
                   unsure |-> \/ IF device = "web" THEN quoting # {}
                                 ELSE \A q \in page.quotes : q.key # KeyOf(page)
                              \/ \E s \in Groups : MethodOf(s) = "CHILEXPRESS" /\ ShownQuote(s) = NoQuote]
    /\ UNCHANGED <<device, serverRows, put, page, quoting, behind, changed, laterRows>>

----------------------------------------------------------------------------
(* createCheckout, in one transaction.                                     *)

AssertShipping(s, c) ==
    CASE c.method = "MEETUP" -> shop[s].meets
      [] c.method = "CHILEXPRESS" -> c.address # NoAddress /\ shop[s].ships
      [] OTHER -> TRUE

ShippingOf(s, c) ==
    QuoteFromPlaces(s, c.method, IF c.address = NoAddress THEN shop[s].origin ELSE place[c.address], TRUE)

Accepts(choice) ==
    /\ InCart # {} /\ \A s \in InCart : shop[s].onSale
    /\ Cardinality(InCart) = Cardinality(DOMAIN choice)
    /\ \A s \in InCart : /\ s \in DOMAIN choice
                         /\ AssertShipping(s, choice[s])
                         /\ choice[s].address # NoAddress => choice[s].address \in Known
                         /\ ShippingOf(s, choice[s]) # NoQuote

Total(choice) == SumOver([s \in InCart |-> Line(s) + ShippingOf(s, choice[s])], InCart)

CreateCheckout ==
    /\ placing.asked /\ ~placing.answered
    /\ IF Accepts(placing.choice)
       THEN /\ receipt' = [asked |-> TRUE, total |-> Total(placing.choice), shown |-> placing.shown,
                           behind |-> behind, unsure |-> placing.unsure]
            /\ basket' = [s \in Seller |-> 0]
            /\ placing' = [placing EXCEPT !.answered = TRUE]
       ELSE /\ placing' = NoPut /\ UNCHANGED <<receipt, basket>>
    /\ UNCHANGED <<device, shop, place, default, put, page, quoting, behind, changed, outcome, polls>>

(* The answer is lost: the page says so, and can ask again, with another   *)
(* Idempotency-Key.  A request that never arrives changes nothing.         *)
LoseAnswer ==
    /\ placing.asked
    /\ placing' = NoPut
    /\ UNCHANGED <<device, serverRows, put, page, quoting, behind, changed, laterRows>>

ShowReturn ==
    /\ placing.asked /\ placing.answered
    /\ placing' = NoPut /\ put' = NoPut /\ quoting' = {}
    /\ page' = AtReturn
    /\ UNCHANGED <<device, serverRows, behind, changed, laterRows>>

----------------------------------------------------------------------------
(* The page of the outcome asks until it is final, or for 45 seconds.      *)

Returned == page.at = "RETURN"
pageOnly == <<device, serverRows, put, quoting, placing, behind, changed, receipt>>

\* The app's interval waits for the read before, the web's does not.
Overlaps_Both == TRUE

Overlaps == device = "web"

Ask(p) ==
    /\ Returned /\ page.asking /\ polls[p] = "IDLE"
    /\ LET others == \E q \in Poll : polls[q] # "IDLE"
       IN /\ others => Overlaps
          /\ page' = [page EXCEPT !.crossed = @ \/ (others /\ device = "web")]
    /\ polls' = [polls EXCEPT ![p] = "ASKED"]
    /\ UNCHANGED <<pageOnly, outcome>>

\* getCheckout expires what is due.
Answer(p) ==
    /\ Returned /\ polls[p] = "ASKED"
    /\ outcome' \in {outcome} \union (IF outcome = "PENDING" THEN {"EXPIRED"} ELSE {})
    /\ polls' = [polls EXCEPT ![p] = outcome']
    /\ UNCHANGED <<pageOnly, page>>

\* The web asks until the time is over, the app until the outcome is final.
ShowStatus(p) ==
    /\ Returned /\ polls[p] \in Final \union {"PENDING"}
    /\ polls' = [polls EXCEPT ![p] = "IDLE"]
    /\ page' = [page EXCEPT !.seen = polls[p],
                            !.told = IF polls[p] \in Final THEN polls[p] ELSE @,
                            !.asking = @ /\ (device = "web" \/ polls[p] = "PENDING")]
    /\ UNCHANGED <<pageOnly, outcome>>

\* With nothing read, the app's interval ends with the failure.
FailPoll(p) ==
    /\ Returned /\ polls[p] # "IDLE"
    /\ polls' = [polls EXCEPT ![p] = "IDLE"]
    /\ page' = [page EXCEPT !.asking = @ /\ (device = "web" \/ page.seen # "NONE")]
    /\ UNCHANGED <<pageOnly, outcome>>

TimeIsOver ==
    /\ Returned /\ ~page.late
    /\ page' = [page EXCEPT !.late = TRUE, !.asking = @ /\ device = "app"]
    /\ UNCHANGED <<pageOnly, outcome, polls>>

Decided ==
    /\ receipt.asked /\ outcome = "PENDING"
    /\ outcome' \in Final
    /\ UNCHANGED <<pageOnly, page, polls>>

----------------------------------------------------------------------------
(* What others do meanwhile, once in a visit: the seller edits the listing *)
(* or the profile, or leaves; the buyer adds or deletes an address, on the *)
(* app from a screen over this one.                                        *)
SellerActs(s) ==
    \/ \E p \in {1, 2} : shop' = [shop EXCEPT ![s].price = p] /\ behind' = behind \union {"cart"}
    \/ shop' = [shop EXCEPT ![s].onSale = FALSE] /\ behind' = behind \union {"cart"}
    \/ shop' = [shop EXCEPT ![s].meets = ~@] /\ behind' = behind \union {"cart"}
    \/ shop' = [shop EXCEPT ![s].ships = ~@] /\ behind' = behind \union {"cart"}
    \/ shop' = [shop EXCEPT ![s].origin = "REGIONS"] /\ behind' = behind \union {"quotes"}
    \/ shop' = [shop EXCEPT ![s].left = TRUE] /\ behind' = behind \union {"quotes"}

AddressActs ==
    /\ \E a \in Address, p \in Place \union {NoPlace} :
          (place[a] = NoPlace) # (p = NoPlace) /\ place' = [place EXCEPT ![a] = p]
    /\ behind' = behind \union {"addresses"}

Others ==
    /\ page.at = "CHECKOUT" /\ ~changed /\ ~receipt.asked
    /\ changed' = TRUE
    /\ \/ (\E s \in Seller : SellerActs(s)) /\ UNCHANGED <<place, page>>
       \/ /\ AddressActs /\ UNCHANGED shop
          /\ page' = IF device = "app" THEN [page EXCEPT !.stale = @ \union {"addresses"}] ELSE page
    /\ UNCHANGED <<device, basket, default, put, quoting, placing, laterRows>>

Next ==
    \/ \E s \in Seller : \E n \in 0..MaxQuantity : Step(s, n)
    \/ ServePut \/ GoToPay \/ LoadCart \/ LoadAddresses
    \/ \E s \in Seller, m \in Method : ChooseMethod(s, m)
    \/ \E a \in Address : ChooseAddress(a)
    \/ \E run \in quoting : ServeQuotes(run) \/ ShowQuotes(run)
    \/ Press \/ CreateCheckout \/ LoseAnswer \/ ShowReturn
    \/ \E p \in Poll : Ask(p) \/ Answer(p) \/ ShowStatus(p) \/ FailPoll(p)
    \/ TimeIsOver \/ Decided \/ Others

----------------------------------------------------------------------------
(* What the page and the rows hold.                                        *)
CheckoutTypeOK ==
    /\ device \in {"web", "app"}
    /\ basket \in [Seller -> 0..MaxQuantity]
    /\ place \in [Address -> Place \union {NoPlace}] /\ default \in Address
    /\ page.at \in {"CART", "CHECKOUT", "RETURN"}
    /\ behind \subseteq {"cart", "addresses", "quotes"} /\ changed \in BOOLEAN
    /\ \A run \in quoting : run.of \subseteq Seller /\ DOMAIN run.key.methods \subseteq Seller
    /\ outcome \in Final \union {"PENDING"}
    /\ polls \in [Poll -> Final \union {"IDLE", "ASKED", "PENDING"}]

(* A checkout charges the total that the page showed when the button was   *)
(* pressed, whatever was chosen before and in whatever order the quotes    *)
(* came; unless a row the page had read has changed since, or the quotes   *)
(* of what is chosen had not come, or one of them was refused.             *)
ChargedAsShown ==
    receipt.asked => \/ receipt.total = receipt.shown
                     \/ receipt.behind # {} \/ receipt.unsure

(* A buyer who was told that the purchase ended is not told later that it  *)
(* is still being confirmed, unless two reads of the web's page crossed.   *)
(* Its interval starts one without waiting for the one before, so that     *)
(* they can, and then the buyer is told so (checkout/retorno/page.tsx:26). *)
OutcomeStays == Returned => page.crossed \/ page.told \in {"NONE", page.seen}
=============================================================================

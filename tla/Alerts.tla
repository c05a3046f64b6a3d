-------------------------------- MODULE Alerts --------------------------------
(***************************************************************************)
(* Wishlist alerts of one card and the notifications they end in           *)
(* (apps/api/src/wishlist, apps/api/src/notifications).  The scan job and  *)
(* every publication check the card at the same time: a check reads the    *)
(* cheapest listing and the wishes once, and then goes from user to user.  *)
(***************************************************************************)
EXTENDS Integers, FiniteSets

CONSTANTS User, Listing, Check, Nothing,
          Price,         \* a set of positive prices
          DropBps        \* priceDropMinBps

VARIABLES market,      \* listings: on sale or not, or with all pieces reserved; price
          weekOld,     \* the lowest price of a week ago, 0 without one
          wish,        \* wishlist items: target 0 for none
          preference,  \* for each type, does the user want it in the app, by mail
          inbox,       \* the dedupe keys of a user's notifications
          checking,    \* checks in flight
          hits         \* how often a hit was mailed, for each listing and price

vars == <<market, weekOld, wish, preference, inbox, checking, hits>>

MarketState == {"off", "reserved", "available"}

Type == {"WISHLIST_HIT", "PRICE_DROP"}

Cheapest == [listing : Listing \cup {Nothing}, price : Price \cup {0}]
NoListing == [listing |-> Nothing, price |-> 0]

WishRow == [target : Price \cup {0}, last : Cheapest]

\* min: the cheapest listing read.  todo: the notifications to emit, decided
\* from the wishes read, the hits first.  sent: the hit that is stored and
\* still to be recorded in its wish.
CheckRow == [on : BOOLEAN, min : Cheapest, todo : SUBSET (User \X Type), sent : SUBSET User]

NoCheck == [on |-> FALSE, min |-> NoListing, todo |-> {}, sent |-> {}]

Default == [WISHLIST_HIT |-> [inApp |-> TRUE, email |-> TRUE],
            PRICE_DROP   |-> [inApp |-> FALSE, email |-> FALSE]]

Key(type, min) == <<type, min.listing, min.price>>
Keys == Type \X Listing \X Price

Init ==
    /\ market = [l \in Listing |-> [state |-> "off", price |-> CHOOSE p \in Price : TRUE]]
    /\ weekOld \in Price \cup {0}
    /\ wish = [u \in User |-> [target |-> 0, last |-> NoListing]]
    /\ preference = [u \in User |-> Default]
    /\ inbox = [u \in User |-> {}]
    /\ checking = [k \in Check |-> NoCheck]
    /\ hits = [u \in User |-> [key \in Listing \X Price |-> 0]]

----------------------------------------------------------------------------
(* The card, its watchers and their preferences.                           *)

\* A listing is published, repriced, reserved or withdrawn.
Trade(l, state, p) ==
    /\ [state |-> state, price |-> p] # market[l]
    /\ market' = [market EXCEPT ![l] = [state |-> state, price |-> p]]
    /\ UNCHANGED <<weekOld, wish, preference, inbox, checking, hits>>

\* upsert keeps what was last notified.
Upsert(u, target) ==
    /\ wish[u].target # target
    /\ wish' = [wish EXCEPT ![u].target = target]
    /\ UNCHANGED <<market, weekOld, preference, inbox, checking, hits>>

Remove(u) ==
    /\ wish[u].target > 0
    /\ wish' = [wish EXCEPT ![u] = [target |-> 0, last |-> NoListing]]
    /\ UNCHANGED <<market, weekOld, preference, inbox, checking, hits>>

PatchPreference(u, type, inApp, email) ==
    /\ preference' = [preference EXCEPT ![u][type] = [inApp |-> inApp, email |-> email]]
    /\ preference' # preference
    /\ UNCHANGED <<market, weekOld, wish, inbox, checking, hits>>

----------------------------------------------------------------------------
(* minListing takes the cheapest listing on sale, and finds none when that *)
(* one has no piece left that is not reserved.                             *)
OnSale == {l \in Listing : market[l].state # "off"}
MinListing ==
    {l \in OnSale : /\ \A l2 \in OnSale : market[l].price <= market[l2].price
                    /\ market[l].state = "available"}

\* shouldNotifyWishlistHit
Hit(w, min) ==
    /\ w.target > 0 /\ min.price <= w.target
    /\ ~(w.last.listing = min.listing /\ min.price >= w.last.price)

\* priceDropBps rounds; shouldNotifyPriceDrop needs a price of a week ago.
PriceDropBps(current, old) == (2 * (old - current) * 10000 + old) \div (2 * old)
Drops(min) == weekOld > 0 /\ PriceDropBps(min.price, weekOld) >= DropBps

StartCheck(k, l) ==
    LET min == [listing |-> l, price |-> market[l].price]
        watchers == {u \in User : wish[u].target > 0}
    IN /\ ~checking[k].on /\ l \in MinListing
       /\ checking' = [checking EXCEPT ![k] =
             [on |-> TRUE, min |-> min,
              todo |-> {<<u, "WISHLIST_HIT">> : u \in {v \in watchers : Hit(wish[v], min)}}
                       \cup IF Drops(min) THEN watchers \X {"PRICE_DROP"} ELSE {},
              sent |-> {}]]
       /\ UNCHANGED <<market, weekOld, wish, preference, inbox, hits>>

\* Hits of the in-app kind are stored whatever the user prefers.
Persists_Preferred(type, pref) == pref.inApp
Persists(type, pref) == type = "WISHLIST_HIT" \/ pref.inApp

\* emit: the unique (user, dedupeKey) stops it; the mail follows the row.
Emit(k, u, type) ==
    LET c == checking[k]
        key == Key(type, c.min)
        pref == preference[u][type]
        stored == Persists(type, pref)
        duplicate == stored /\ key \in inbox[u]
    IN /\ c.on /\ c.sent = {} /\ <<u, type>> \in c.todo
       /\ \/ type = "WISHLIST_HIT"
          \/ \A v \in User : <<v, "WISHLIST_HIT">> \notin c.todo
       /\ inbox' = IF stored THEN [inbox EXCEPT ![u] = @ \cup {key}] ELSE inbox
       /\ checking' = [checking EXCEPT ![k].todo = @ \ {<<u, type>>},
                          ![k].sent = IF stored /\ ~duplicate /\ type = "WISHLIST_HIT"
                                        THEN {u} ELSE {}]
       /\ hits' = IF type = "WISHLIST_HIT" /\ pref.email /\ ~duplicate
                     THEN [hits EXCEPT ![u][<<c.min.listing, c.min.price>>] = IF @ < 2 THEN @ + 1 ELSE @]
                     ELSE hits
       /\ UNCHANGED <<market, weekOld, wish, preference>>

\* What was notified is written in the wish.  The update fails when the wish
\* is gone, and ends the check.
Record(k, u) ==
    /\ u \in checking[k].sent
    /\ IF wish[u].target > 0
         THEN /\ wish' = [wish EXCEPT ![u].last = checking[k].min]
              /\ checking' = [checking EXCEPT ![k].sent = {}]
         ELSE wish' = wish /\ checking' = [checking EXCEPT ![k] = NoCheck]
    /\ UNCHANGED <<market, weekOld, preference, inbox, hits>>

\* Done; or a mail fails, or the process stops, and the rest is not notified.
EndCheck(k) ==
    /\ checking[k].on
    /\ checking' = [checking EXCEPT ![k] = NoCheck]
    /\ UNCHANGED <<market, weekOld, wish, preference, inbox, hits>>

----------------------------------------------------------------------------
Next ==
    \/ \E l \in Listing, p \in Price, state \in MarketState : Trade(l, state, p)
    \/ \E u \in User, p \in Price : Upsert(u, p)
    \/ \E u \in User : Remove(u)
    \/ \E u \in User, type \in Type, a, b \in BOOLEAN : PatchPreference(u, type, a, b)
    \/ \E k \in Check : EndCheck(k) \/ \E l \in Listing : StartCheck(k, l)
    \/ \E k \in Check, u \in User : Record(k, u) \/ \E type \in Type : Emit(k, u, type)

Spec == Init /\ [][Next]_vars

----------------------------------------------------------------------------
(* Every column has its type.                                              *)
TypeOK ==
    /\ market \in [Listing -> [state : MarketState, price : Price]]
    /\ wish \in [User -> WishRow]
    /\ inbox \in [User -> SUBSET Keys]
    /\ checking \in [Check -> CheckRow]

(* A user is mailed about a listing at a price once, however many checks   *)
(* find it together, and whatever the user prefers: the stored row of the  *)
(* hit is what stops the next one, before the wish records it.             *)
HitMailedOnce == \A u \in User : \A key \in Listing \X Price : hits[u][key] <= 1
=============================================================================

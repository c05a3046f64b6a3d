--------------------------------- MODULE Carts ---------------------------------
(***************************************************************************)
(* The carts of one person, who browses with a guest cookie and with an    *)
(* account, the inquiries sent from them and the checkouts that empty them *)
(* (apps/api/src/cart, apps/api/src/inquiries, orders.service.ts).         *)
(*                                                                         *)
(* A merge reads both carts and then writes in a transaction of its own; a *)
(* checkout reads the cart first and locks listings, never the cart.       *)
(***************************************************************************)
EXTENDS Integers, FiniteSets, FiniteSetsExt

CONSTANTS Listing, Cart, CartCall, Inquiry, Nothing,
          Own,          \* the listings this person sells
          MaxQuantity, MaxAsked    \* bounds

VARIABLES cart,        \* rows, with the quantity of each listing in them
          stock,       \* what of each listing can be bought now
          browsing,    \* merges and checkouts in flight
          inquiry,
          asked,       \* the quantity put in a cart so far, over all puts
          bought,      \* the quantity in checkouts so far
          overlapped   \* a checkout committed while another held the same items

vars == <<cart, stock, browsing, inquiry, asked, bought, overlapped>>

Quantities == [Listing -> 0..MaxAsked]
None == [l \in Listing |-> 0]

CartRow == [owner : {"none", "guest", "user"}, items : Quantities]

\* user: the user's cart when the merge read it.  there, items: what it read
\* in the guest's cart, or the checkout in the user's.  mine: what it read in
\* the user's cart; lost: item rows of mine deleted since.
BrowsingRow == [op : {"none", "merge", "claim", "checkout"}, guest : Cart \cup {Nothing},
                user : Cart \cup {Nothing}, items : Quantities, mine : Quantities,
                stock : [Listing -> 0..MaxQuantity], lost : SUBSET Listing]

NoBrowsing == [op |-> "none", guest |-> Nothing, user |-> Nothing, items |-> None,
               mine |-> None, stock |-> None, lost |-> {}]

InquiryRow == [status : {"NONE", "OPEN", "EXPIRED"}, guest : BOOLEAN, buyer : BOOLEAN]

Init ==
    /\ cart = [c \in Cart |-> [owner |-> "none", items |-> None]]
    /\ stock = [l \in Listing |-> MaxQuantity]
    /\ browsing = [k \in CartCall |-> NoBrowsing]
    /\ inquiry = [i \in Inquiry |-> [status |-> "NONE", guest |-> FALSE, buyer |-> FALSE]]
    /\ asked = None /\ bought = None /\ overlapped = FALSE

CartOf(owner) == {c \in Cart : cart[c].owner = owner}
Held(c) == {l \in Listing : cart[c].items[l] > 0}

\* Calls that have read item rows of the user's cart, of which L are deleted.
Lose(L) == [k \in CartCall |-> IF browsing[k].op = "merge"
                               THEN [browsing[k] EXCEPT !.lost = browsing[k].lost \cup L]
                               ELSE browsing[k]]

----------------------------------------------------------------------------
(* ensureCart creates what it does not find; both owners are unique.  The  *)
(* name of a deleted cart that a call still holds is not used again.       *)
EnsureCart(c, owner) ==
    /\ cart[c].owner = "none" /\ CartOf(owner) = {}
    /\ \A k \in CartCall : browsing[k].guest # c
    /\ cart' = [cart EXCEPT ![c] = [owner |-> owner, items |-> None]]
    /\ UNCHANGED <<stock, browsing, inquiry, asked, bought, overlapped>>

PutItem(c, l, n) ==
    /\ cart[c].owner # "none"
    /\ cart[c].owner = "user" => l \notin Own
    /\ n <= stock[l] /\ asked[l] + n <= MaxAsked
    /\ cart' = [cart EXCEPT ![c].items[l] = n]
    /\ asked' = [asked EXCEPT ![l] = asked[l] + n]
    /\ UNCHANGED <<stock, browsing, inquiry, bought, overlapped>>

RemoveItem(c, l) ==
    /\ l \in Held(c)
    /\ cart' = [cart EXCEPT ![c].items[l] = 0]
    /\ browsing' = IF cart[c].owner = "user" THEN Lose({l}) ELSE browsing
    /\ UNCHANGED <<stock, inquiry, asked, bought, overlapped>>

\* Other buyers and the seller: the listing sells, pauses, comes back.
ChangeStock(l, n) ==
    /\ n # stock[l] /\ stock' = [stock EXCEPT ![l] = n]
    /\ UNCHANGED <<cart, browsing, inquiry, asked, bought, overlapped>>

----------------------------------------------------------------------------
(* mergeGuestIntoUser                                                      *)

MergeRead(k) ==
    /\ browsing[k] = NoBrowsing
    /\ \E g \in CartOf("guest") :
         \E u \in IF CartOf("user") = {} THEN {Nothing} ELSE CartOf("user") :
            browsing' = [browsing EXCEPT ![k] =
               [op |-> "merge", guest |-> g, user |-> u, items |-> cart[g].items,
                mine |-> IF u = Nothing THEN None ELSE cart[u].items,
                stock |-> stock, lost |-> {}]]
    /\ UNCHANGED <<cart, stock, inquiry, asked, bought, overlapped>>

\* No cart of the user was found: the guest's becomes his, without his own
\* listings.  Aborted when the guest's cart is gone or he has got one since.
Adopt(k) ==
    LET b == browsing[k]
    IN /\ b.op = "merge" /\ b.user = Nothing
       /\ cart[b.guest].owner # "none" /\ CartOf("user") \subseteq {b.guest}
       /\ cart' = [cart EXCEPT ![b.guest] =
                     [owner |-> "user",
                      items |-> [l \in Listing |-> IF l \in Own THEN 0 ELSE cart[b.guest].items[l]]]]
       /\ browsing' = [browsing EXCEPT ![k] = [NoBrowsing EXCEPT !.op = "claim"]]
       /\ UNCHANGED <<stock, inquiry, asked, bought, overlapped>>

Smaller(a, b) == IF a <= b THEN a ELSE b

\* The listings that are merged, and the quantity each gets.
Merged(b) == {l \in Listing : b.items[l] > 0 /\ l \notin Own /\ b.stock[l] > 0}
MergedQuantity(b, l) == Smaller(b.mine[l] + b.items[l], b.stock[l])

\* The guest's cart must still be there to be deleted, and the item rows as
\* they were read: else the transaction is aborted.
CanMerge_Twice(b) ==
    /\ \A l \in Merged(b) : IF b.mine[l] > 0 THEN l \notin b.lost ELSE cart[b.user].items[l] = 0
CanMerge(b) ==
    /\ cart[b.guest].owner # "none"
    /\ \A l \in Merged(b) : IF b.mine[l] > 0 THEN l \notin b.lost ELSE cart[b.user].items[l] = 0

Merge(k) ==
    LET b == browsing[k]
    IN /\ b.op = "merge" /\ b.user # Nothing /\ CanMerge(b)
       /\ cart' = [cart EXCEPT
            ![b.user].items = [l \in Listing |-> IF l \in Merged(b) THEN MergedQuantity(b, l)
                                                                    ELSE cart[b.user].items[l]],
            ![b.guest] = [owner |-> "none", items |-> None]]
       /\ browsing' = [browsing EXCEPT ![k] = [NoBrowsing EXCEPT !.op = "claim"]]
       /\ UNCHANGED <<stock, inquiry, asked, bought, overlapped>>

\* claimGuestInquiries, after the transaction.
Claim(k) ==
    /\ browsing[k].op = "claim"
    /\ inquiry' = [i \in Inquiry |-> IF inquiry[i].guest THEN [inquiry[i] EXCEPT !.buyer = TRUE]
                                                         ELSE inquiry[i]]
    /\ browsing' = [browsing EXCEPT ![k] = NoBrowsing]
    /\ UNCHANGED <<cart, stock, asked, bought, overlapped>>

----------------------------------------------------------------------------
(* createCheckout, as far as the cart goes.  Every item must be            *)
(* purchasable when it is read, and reservable when it is reserved.        *)

CheckoutRead(k) ==
    /\ browsing[k] = NoBrowsing
    /\ \E u \in CartOf("user") :
         /\ Held(u) # {} /\ \A l \in Held(u) : cart[u].items[l] <= stock[l] /\ l \notin Own
         /\ browsing' = [browsing EXCEPT ![k] = [NoBrowsing EXCEPT !.op = "checkout", !.user = u,
                                                                   !.items = cart[u].items]]
    /\ UNCHANGED <<cart, stock, inquiry, asked, bought, overlapped>>

ClearCart(c) == [cart EXCEPT ![c].items = None]

Checkout(k) ==
    LET b == browsing[k]
    IN /\ b.op = "checkout" /\ \A l \in Listing : b.items[l] <= stock[l]
       /\ \A l \in Listing : bought[l] + b.items[l] <= 2 * MaxAsked
       /\ stock' = [l \in Listing |-> stock[l] - b.items[l]]
       /\ bought' = [l \in Listing |-> bought[l] + b.items[l]]
       /\ overlapped' = (overlapped \/ \E k2 \in CartCall \ {k} : browsing[k2].op = "checkout")
       /\ cart' = ClearCart(b.user)
       /\ browsing' = [Lose(Held(b.user)) EXCEPT ![k] = NoBrowsing]
       /\ UNCHANGED <<inquiry, asked>>

\* A call that is refused, that the database aborts, or whose process stops:
\* also between a merge and the claim of its inquiries.
Stop(k) ==
    /\ browsing[k] # NoBrowsing
    /\ browsing' = [browsing EXCEPT ![k] = NoBrowsing]
    /\ UNCHANGED <<cart, stock, inquiry, asked, bought, overlapped>>

----------------------------------------------------------------------------
(* Inquiries reserve nothing and leave the cart as it is.                  *)

Inquire(i, c) ==
    /\ inquiry[i].status = "NONE" /\ cart[c].owner # "none"
    /\ \E l \in Held(c) : cart[c].items[l] <= stock[l]
    /\ inquiry' = [inquiry EXCEPT ![i] = [status |-> "OPEN", guest |-> cart[c].owner = "guest",
                                          buyer |-> cart[c].owner = "user"]]
    /\ UNCHANGED <<cart, stock, browsing, asked, bought, overlapped>>

Expire(i) ==
    /\ inquiry[i].status = "OPEN"
    /\ inquiry' = [inquiry EXCEPT ![i].status = "EXPIRED"]
    /\ UNCHANGED <<cart, stock, browsing, asked, bought, overlapped>>

----------------------------------------------------------------------------
Next ==
    \/ \E c \in Cart, owner \in {"guest", "user"} : EnsureCart(c, owner)
    \/ \E c \in Cart, l \in Listing : RemoveItem(c, l) \/ \E n \in 1..MaxQuantity : PutItem(c, l, n)
    \/ \E l \in Listing, n \in 0..MaxQuantity : ChangeStock(l, n)
    \/ \E k \in CartCall : \/ MergeRead(k) \/ Adopt(k) \/ Merge(k) \/ Claim(k)
                           \/ CheckoutRead(k) \/ Checkout(k) \/ Stop(k)
    \/ \E i \in Inquiry : Expire(i) \/ \E c \in Cart : Inquire(i, c)

Spec == Init /\ [][Next]_vars

----------------------------------------------------------------------------
(* Every column has its type.                                              *)
TypeOK ==
    /\ cart \in [Cart -> CartRow]
    /\ stock \in [Listing -> 0..MaxQuantity]
    /\ browsing \in [CartCall -> BrowsingRow]
    /\ inquiry \in [Inquiry -> InquiryRow]
    /\ asked \in Quantities
    /\ overlapped \in BOOLEAN

InCarts(l) == MapThenSumSet(LAMBDA c : cart[c].items[l], Cart)

(* Nothing gets into a cart or a checkout that the person did not put in a *)
(* cart: a merge adds the guest's items once, also when two of them run,   *)
(* and a checkout takes what it buys out of the cart.  Two checkouts that  *)
(* both read the cart before one of them cleared it are the exception:     *)
(* nothing keeps the second from buying the same again.                    *)
BoughtWasAsked ==
    ~overlapped => \A l \in Listing : InCarts(l) + bought[l] <= asked[l]
=============================================================================

------------------------------- MODULE MC_Market -------------------------------
(***************************************************************************)
(* A small instance of Market, for TLC, and its bounds.                    *)
(***************************************************************************)
EXTENDS Market, TLC

CONSTANTS l1, own, o1, o2, o3, lot1, lot2, s1, s2, a1, a2

\* Two orders take from both lots, in opposite orders, one takes twice from one.
MC_Items == o1 :> <<[lot |-> lot1, quantity |-> 1], [lot |-> lot2, quantity |-> 1]>>
            @@ o2 :> <<[lot |-> lot2, quantity |-> 2], [lot |-> lot1, quantity |-> 1]>>
            @@ o3 :> <<[lot |-> lot1, quantity |-> 1], [lot |-> lot1, quantity |-> 1]>>

\* Two listings of a card in different conditions, and one of another that is reserved.
MC_Offers == {[card |-> "x", condition |-> "NM", price |-> 2, free |-> TRUE],
              [card |-> "x", condition |-> "LP", price |-> 5, free |-> TRUE],
              [card |-> "y", condition |-> "NM", price |-> 3, free |-> FALSE]}

\* No lots, two of one card, one of two copies and one of another set.
MC_Lots == LET held(c, k, q, cost) == [card |-> c, condition |-> k, quantity |-> q, cost |-> cost]
           IN {<<>>, <<held("x", "NM", 1, 1), held("x", "LP", 1, -99)>>,
               <<held("x", "NM", 2, 1), held("z", "NM", 1, 1)>>}

\* Carts: what the person sells counts among the two puts and stays on sale; inquiries, which
\* change nothing else, come without checkouts.  Alerts: at most two notifications of a card, and
\* no mails of a drop, which no property counts.  Imports: one submitted card, one card in orders,
\* of the editions' sets, which are those that are pruned, and one command with an option.
\* Checkout: MC_Visit.  Collection: MC_Lists.
MC_Bound ==
    /\ focus = "carts" =>
         /\ stock[own] = 2 /\ asked[own] <= 1 /\ asked[own] + asked[l1] <= 2
         /\ (\E i \in Inquiry : inquiry[i].status # "NONE")
               => bought[l1] = 0 /\ \A k \in Call : browsing[k].op # "checkout"
    /\ focus = "alerts" => \A u \in User : /\ Cardinality(inbox[u]) <= 2
                                            /\ ~preference[u]["PRICE_DROP"].email
    /\ focus = "imports" =>
         /\ Cardinality(ordered) <= IF game = "api" THEN 0 ELSE 1
         /\ Cardinality({n \in 1..3 : cards[n].source = "submission"}) <= 1
         /\ Cardinality({k \in Call : job[k].force \/ job[k].missing}) <= 1

\* One visit: the second seller and the second address are plain ones; what changes meanwhile is
\* about the first; a checkout goes out with what is chosen; and the return page is looked at
\* after the simplest purchase.
PlainShop == [price |-> 1, onSale |-> TRUE, meets |-> TRUE, ships |-> TRUE, origin |-> "RM",
              left |-> FALSE]
MC_Visit ==
    focus = "checkout" =>
      /\ shop[s2] = PlainShop /\ place[a2] = "REGIONS" /\ default = a1 /\ place[a1] # "REGIONS"
      /\ shopDevice = "web" => ~shop[s1].meets \/ place[a1] = "UNLISTED"
      /\ put.asked => put.seller = s1 /\ put.to # 1
      /\ buyerPage.at = "CHECKOUT" =>
           /\ placing.asked => \A s \in DOMAIN placing.choice :
                  placing.choice[s] = [method |-> V!MethodOf(s),
                                       address |-> IF V!MethodOf(s) = "MEETUP" THEN V!NoAddress
                                                   ELSE buyerPage.address]
           /\ changed \/ buyerPage.choices > 1
                => basket[s2] = 0 \/ (~shop[s1].meets /\ place[a1] = "UNLISTED")
           /\ changed => buyerPage.choices <= 1
           /\ receipt.asked => behind = receipt.behind /\ (placing.asked \/ ~changed)
      /\ buyerPage.at = "RETURN" => /\ ~changed /\ ~receipt.unsure /\ receipt.total = 1
                                   /\ place[a1] = "UNLISTED" /\ shop[s1] = PlainShop

\* Requests that crossed are not gone on with; everything is on sale at first; the answers of a
\* request for all three come in order; of two turns one is a box, a lot or the app's; values are
\* captured under a list of the web with nothing checked.
MC_Lists ==
    focus = "collection" =>
      /\ ~crossed /\ (changes = 0 => onSale = MC_Offers)
      /\ turns = 2 => listed.checked # {} \/ gadget = "app" \/ removing.asked \/ thinned \/ at = "ITEM"
      /\ changes = 1 /\ at = "ITEM" => gadget = "web"
      /\ \A k \in E!Busy :
            begun /\ loads[k].parts = E!Part =>
              /\ loads[k].stage["list"] = "READ" => loads[k].stage["summary"] = "READ"
              /\ loads[k].stage["sets"] = "READ" => loads[k].stage["list"] = "READ"
      /\ (\E d \in DOMAIN history : history[d] # E!NoPrice)
            => gadget = "web" /\ at = "LIST" /\ listed.checked = {}

\* Calls in flight are interchangeable.
MC_Symmetry == Permutations(Call)
================================================================================

------------------------------ MODULE RowPages ------------------------------
(***************************************************************************)
(* The pages of the three clients that show one row of the system (an      *)
(* order, a payout, a refund, a dispute, a report, a reconciliation issue, *)
(* a catalog submission, a listing) and offer what may be done to it.      *)
(* What a page offers is decided by the client, from the row it last read; *)
(* what is accepted is decided by the API, from the row as it is.  The two *)
(* are written apart, in two languages' worth of types, and are only kept  *)
(* in step by hand.                                                        *)
(*                                                                         *)
(* A request is served in one step here: what overlapping handlers do to   *)
(* each other is the subject of OrderPayments, Payouts, Listings, Reports, *)
(* ReconRuns and Submissions.                                              *)
(***************************************************************************)
EXTENDS Integers, FiniteSets

CONSTANTS Click,        \* requests a person may have in flight on one page
          MaxVersion    \* bound: changes of the row while a page is open, plus one

VARIABLES row,      \* the row, as the database has it
          version,  \* counts its changes since the page was opened
          page,     \* the open page: its name, the row it shows, the changes it shows
          click,    \* requests in flight
          made,     \* changes that the person made from this page
          pushed,   \* those of them that put another screen over it
          muddled   \* requests crossed, or an answer was lost, on this page

pageVars == <<row, version, page, click, made, pushed, muddled>>

----------------------------------------------------------------------------
(* What the API does.  The marks of an order: it is handed over in person, *)
(* it has an open refund, an active dispute, a rating; of a listing: its   *)
(* seller is suspended.                                                    *)

Row(kind, status, marks) == [kind |-> kind, status |-> status, marks |-> marks]
To(r, status) == [r EXCEPT !.status = status]
Mark(r, m) == [r EXCEPT !.marks = @ \union {m}]
Unmark(r, m) == [r EXCEPT !.marks = @ \ {m}]

Accepted(r) == {[ok |-> TRUE, row |-> r]}
Refused(r) == {[ok |-> FALSE, row |-> r]}
AcceptedIf(guard, r, next) == IF guard THEN Accepted(next) ELSE Refused(r)

\* finalizeInTx: only a paid or prepared order becomes REFUNDED.
RefundDone(r) ==
    Unmark(IF r.status \in {"PAID", "PREPARING"} THEN To(r, "REFUNDED") ELSE r, "refund")

Prepare(r) == AcceptedIf(r.status = "PAID" /\ "refund" \notin r.marks, r, To(r, "PREPARING"))

Ship(r, withPlace) ==
    AcceptedIf(/\ r.status = "PREPARING" /\ "refund" \notin r.marks
               /\ "meetup" \in r.marks => withPlace,
               r, To(r, IF "meetup" \in r.marks THEN "READY_FOR_MEETUP" ELSE "SHIPPED"))

Deliver(r) == AcceptedIf(r.status \in {"SHIPPED", "READY_FOR_MEETUP"}, r, To(r, "DELIVERED"))

Confirm(r) == AcceptedIf(r.status = "DELIVERED", r, To(r, "COMPLETED"))

\* The refund of a paid order may fail: the request is refused, the refund stays open.
Cancel(r) ==
    CASE r.status = "PENDING_PAYMENT" -> Accepted(To(r, "CANCELLED"))
      [] r.status \in {"PAID", "PREPARING"} -> Accepted(RefundDone(r)) \union Refused(Mark(r, "refund"))
      [] r.status = "REFUNDED" -> Accepted(r)
      [] OTHER -> Refused(r)

Complain(r) ==
    AcceptedIf(r.status \in {"PAID", "PREPARING", "SHIPPED", "READY_FOR_MEETUP", "DELIVERED"},
               r, To(r, "DISPUTED"))

OpenOrderStatuses ==
    {"PAID", "PREPARING", "SHIPPED", "READY_FOR_MEETUP", "DELIVERED", "COMPLETED", "DISPUTED"}

OpenDispute(r) ==
    AcceptedIf(r.status \in OpenOrderStatuses /\ "dispute" \notin r.marks,
               r, Mark(To(r, "DISPUTED"), "dispute"))

Rate(r) == AcceptedIf(r.status = "COMPLETED" /\ "rated" \notin r.marks, r, Mark(r, "rated"))

RetryRefundOf(r) ==
    Accepted(r) \union (IF "refund" \in r.marks THEN Accepted(RefundDone(r)) ELSE {})

OrderAnswers(r, op) ==
    CASE op = "prepare" -> Prepare(r)
      [] op = "ship" -> Ship(r, FALSE)
      [] op = "meet" -> Ship(r, TRUE)
      [] op = "deliver" -> Deliver(r)
      [] op = "confirm" -> Confirm(r)
      [] op = "cancel" -> Cancel(r)
      [] op = "complain" -> Complain(r)
      [] op = "dispute" -> OpenDispute(r)
      [] op = "rate" -> Rate(r)
      [] op = "retry" -> RetryRefundOf(r)
      [] OTHER -> Refused(r)        \* no such route

Rule(op, from, to) == [op |-> op, from |-> from, to |-> to]

PayoutRules ==
    {Rule("approve", {"PENDING"}, "APPROVED"), Rule("process", {"APPROVED", "FAILED"}, "PROCESSING"),
     Rule("pay", {"PROCESSING"}, "PAID"), Rule("fail", {"PROCESSING"}, "FAILED"),
     Rule("cancel", {"PENDING", "APPROVED"}, "CANCELLED")}

RefundRules ==
    {Rule("retry", {"PENDING", "FAILED"}, s) : s \in {"PENDING", "FAILED", "COMPLETED"}}
    \union {Rule("retry", {"COMPLETED"}, "COMPLETED")}

ActiveDispute == {"OPEN", "WAITING_BUYER", "WAITING_SELLER", "UNDER_REVIEW"}

StatusRules ==
    {Rule("review", ActiveDispute \ {"UNDER_REVIEW"}, "UNDER_REVIEW"),
     Rule("askBuyer", ActiveDispute \ {"WAITING_BUYER"}, "WAITING_BUYER"),
     Rule("askSeller", ActiveDispute \ {"WAITING_SELLER"}, "WAITING_SELLER")}

ResolveRules ==
    {Rule("forBuyer", ActiveDispute, "RESOLVED_BUYER"),
     Rule("forSeller", ActiveDispute, "RESOLVED_SELLER"), Rule("drop", ActiveDispute, "CANCELLED")}

\* What leaves the status as it is.
NoteRules == {Rule(op, {s}, s) : op \in {"message", "evidence", "assign"}, s \in ActiveDispute}

ReportRules ==
    {Rule("assign", {"OPEN", "IN_REVIEW"}, "IN_REVIEW"),
     Rule("resolve", {"OPEN", "IN_REVIEW"}, "RESOLVED"), Rule("dismiss", {"OPEN", "IN_REVIEW"}, "DISMISSED")}

IssueRules ==
    {Rule("acknowledge", {"OPEN", "ACKNOWLEDGED"}, "ACKNOWLEDGED"),
     Rule("resolve", {"OPEN", "ACKNOWLEDGED"}, "RESOLVED"), Rule("ignore", {"OPEN", "ACKNOWLEDGED"}, "IGNORED")}

Reviewable == {"PENDING", "NEEDS_INFO"}
ReviewRules ==
    {Rule("approve", Reviewable, "APPROVED"), Rule("reject", Reviewable, "REJECTED"),
     Rule("duplicate", Reviewable, "DUPLICATE"), Rule("askInfo", Reviewable, "NEEDS_INFO")}
ResubmitRules == {Rule("resubmit", {"NEEDS_INFO"}, "PENDING")}

RulesOf(kind) ==
    CASE kind = "payout" -> PayoutRules
      [] kind = "refund" -> RefundRules
      [] kind = "dispute" -> StatusRules \union ResolveRules \union NoteRules
      [] kind = "report" -> ReportRules
      [] kind = "issue" -> IssueRules
      [] kind = "submission" -> ReviewRules \union ResubmitRules

RuleAnswers(r, op) ==
    LET fit == {x \in RulesOf(r.kind) : x.op = op /\ r.status \in x.from}
    IN IF fit = {} THEN Refused(r) ELSE UNION {Accepted(To(r, x.to)) : x \in fit}

\* approve also refuses a card that the set has already.
SubmissionAnswers(r, op) == RuleAnswers(r, op) \union (IF op = "approve" THEN Refused(r) ELSE {})

Pause(r) == AcceptedIf(r.status = "ACTIVE", r, To(r, "PAUSED"))
Activate(r) == AcceptedIf(r.status = "PAUSED" /\ "suspended" \notin r.marks, r, To(r, "ACTIVE"))
Delete(r) == AcceptedIf(r.status \notin {"CANCELLED", "SOLD"}, r, To(r, "CANCELLED"))
ListingAnswers(r, op) ==
    CASE op = "pause" -> Pause(r) [] op = "activate" -> Activate(r) [] op = "delete" -> Delete(r)

Answers(r, op) ==
    CASE r.kind = "order" -> OrderAnswers(r, op)
      [] r.kind = "listing" -> ListingAnswers(r, op)
      [] r.kind = "submission" -> SubmissionAnswers(r, op)
      [] OTHER -> RuleAnswers(r, op)

Ops(kind) ==
    CASE kind = "order" -> {"prepare", "ship", "meet", "deliver", "confirm", "cancel", "complain",
                            "dispute", "rate", "retry"}
      [] kind = "listing" -> {"pause", "activate", "delete"}
      [] OTHER -> {x.op : x \in RulesOf(kind)}

\* What jobs, webhooks, moderators and the ends of other rows do to this one.
When(guard, r) == IF guard THEN {r} ELSE {}
PaidOrExpired(r) == UNION {When(r.status = "PENDING_PAYMENT", To(r, s)) : s \in {"PAID", "CANCELLED"}}
PaidLate(r) == When(r.status = "CANCELLED", Mark(r, "refund"))
RefundEnds(r) == When("refund" \in r.marks, RefundDone(r))
DisputeCloses(r) == {Unmark(r, "dispute")}
OrderByItself(r) == PaidOrExpired(r) \union PaidLate(r) \union RefundEnds(r) \union DisputeCloses(r)

Withdrawn(r) == When(r.status \in {"PENDING", "APPROVED"}, To(r, "CANCELLED"))

SoldOut(r) == When(r.status \in {"ACTIVE", "PAUSED"}, To(r, "SOLD"))
Restocked(r) == When(r.status = "SOLD", To(r, "ACTIVE"))
SellerSuspended(r) == {Mark(IF r.status = "ACTIVE" THEN To(r, "PAUSED") ELSE r, "suspended")}
SellerRestored(r) == {Unmark(r, "suspended")}
ListingByItself(r) ==
    SoldOut(r) \union Restocked(r) \union SellerSuspended(r) \union SellerRestored(r)

ByItself(r) ==
    CASE r.kind = "order" -> OrderByItself(r)
      [] r.kind = "payout" -> Withdrawn(r)
      [] r.kind = "listing" -> ListingByItself(r)
      [] OTHER -> {}

----------------------------------------------------------------------------
(* What the pages do.  "blocks" gives, for each thing a page offers, the   *)
(* requests in flight that disable it; "after", what an accepted request   *)
(* does to the page: "answer" puts the answer in, "append" adds it to what *)
(* the page showed when the button was pressed, "reload" waits for a fresh *)
(* read, "later" starts one without waiting, "refetch" too but gives up    *)
(* the reads already started, "leave" goes to another page, and "push"     *)
(* puts one over the page, which stays mounted and reads nothing.          *)

\* The second adds to the first.
f ++ g == [o \in DOMAIN f \union DOMAIN g |-> IF o \in DOMAIN f THEN f[o] ELSE g[o]]

Together(ops) == [o \in ops |-> ops]
Apart(ops) == [o \in ops |-> {o}]
Never(ops) == [o \in ops |-> {}]
Each(ops, mode) == [o \in ops |-> mode]
Page(kind, blocks, after) == [kind |-> kind, blocks |-> blocks, after |-> after]

WebPurchase ==
    Page("order", Together({"cancel", "confirm", "rate"}) ++ Apart({"dispute"}),
         Each({"cancel", "confirm"}, "answer") ++ Each({"rate"}, "reload") ++ Each({"dispute"}, "leave"))
WebPurchaseOffers(r) ==
    {o \in {"cancel", "confirm", "dispute", "rate"} :
        CASE o = "cancel" -> r.status = "PENDING_PAYMENT"
          [] o = "confirm" -> r.status = "DELIVERED"
          [] o = "dispute" -> r.status \in OpenOrderStatuses \ {"DISPUTED"}
          [] o = "rate" -> r.status = "COMPLETED" /\ "rated" \notin r.marks}

WebSale ==
    LET ops == {"prepare", "ship", "meet", "deliver"}
    IN Page("order", Together(ops), Each(ops, "answer"))
WebSaleOffers(r) ==
    {o \in {"prepare", "ship", "meet", "deliver"} :
        CASE o = "prepare" -> r.status = "PAID"
          [] o = "ship" -> r.status = "PREPARING" /\ "meetup" \notin r.marks
          [] o = "meet" -> r.status = "PREPARING" /\ "meetup" \in r.marks
          [] o = "deliver" -> r.status \in {"SHIPPED", "READY_FOR_MEETUP"}}

MobilePurchase ==
    LET ops == {"confirm-receipt", "rate", "dispute"}
    IN Page("order", Apart(ops), Each({"dispute"}, "push") ++ Each(ops, "refetch"))
MobilePurchaseOffers(r) ==
    {o \in {"confirm-receipt", "rate", "dispute"} :
        CASE o = "confirm-receipt" -> r.status = "DELIVERED"
          [] o = "rate" -> r.status \in {"COMPLETED", "DELIVERED"} /\ "rated" \notin r.marks
          [] o = "dispute" -> r.status \notin {"CANCELLED", "REFUNDED"}}

MobileSale == Page("order", Apart({"prepare", "ship"}), Each({"prepare", "ship"}, "refetch"))
MobileSaleOffers(r) ==
    {o \in {"prepare", "ship"} : r.status = (IF o = "prepare" THEN "PAID" ELSE "PREPARING")}

MobileDispute == Page("dispute", Apart({"message", "evidence"}), Each({"message", "evidence"}, "refetch"))
MobileDisputeOffers(r) == {"message", "evidence"}

AdminOrder ==
    Page("order", Apart({"cancel", "retry"}), Each({"cancel"}, "answer") ++ Each({"retry"}, "reload"))
Cancelable_Shipped == {"PENDING_PAYMENT", "PAID", "PREPARING", "SHIPPED"}
Cancelable == {"PENDING_PAYMENT", "PAID", "PREPARING"}
AdminOrderOffers(r) ==
    {o \in {"cancel", "retry"} : IF o = "cancel" THEN r.status \in Cancelable ELSE "refund" \in r.marks}

\* The form that marks a payout paid is never disabled.
AdminPayout ==
    LET ops == {"approve", "process", "fail", "cancel"}
    IN Page("payout", Apart(ops) ++ Never({"pay"}), Each(ops \union {"pay"}, "reload"))
AdminPayoutOffers(r) ==
    CASE r.status = "PENDING" -> {"approve", "cancel"}
      [] r.status = "APPROVED" -> {"process", "cancel"}
      [] r.status = "FAILED" -> {"process"}
      [] r.status = "PROCESSING" -> {"pay", "fail"}
      [] OTHER -> {}

AdminRefund == Page("refund", Apart({"retry"}), Each({"retry"}, "answer"))
AdminRefundOffers(r) == {o \in {"retry"} : r.status # "COMPLETED"}

AdminDispute ==
    LET ops == {"assign", "review", "forBuyer", "forSeller", "drop"}
    IN Page("dispute", Apart(ops), Each(ops, "reload"))
AdminDisputeOffers(r) ==
    {o \in {"assign", "review", "forBuyer", "forSeller", "drop"} : r.status \in ActiveDispute}

AdminReport ==
    LET ops == {"assign", "resolve", "dismiss"} IN Page("report", Apart(ops), Each(ops, "reload"))
AdminReportOffers(r) ==
    {o \in {"assign", "resolve", "dismiss"} : r.status \notin {"RESOLVED", "DISMISSED"}}

AdminIssue ==
    LET ops == {"acknowledge", "resolve", "ignore"}
    IN Page("issue", Apart(ops), Each({"ignore"}, "leave") ++ Each(ops, "reload"))
AdminIssueOffers(r) ==
    {o \in {"acknowledge", "resolve", "ignore"} : r.status \notin {"RESOLVED", "IGNORED"}}

AdminSubmission ==
    LET ops == {"approve", "reject", "duplicate", "askInfo"}
    IN Page("submission", Together(ops), Each(ops, "answer"))
AdminSubmissionOffers(r) == {"approve", "reject", "duplicate", "askInfo"}

\* The form of a message waits for an evidence; the button of an evidence for nothing.
WebDispute ==
    Page("dispute", Each({"message"}, {"message", "evidence"}) ++ Never({"evidence"}),
         Each({"message", "evidence"}, "append"))
WebDisputeOffers(r) == {o \in {"message", "evidence"} : r.status \in ActiveDispute}

WebSubmission == Page("submission", Together({"resubmit"}), Each({"resubmit"}, "answer"))
WebSubmissionOffers(r) == {o \in {"resubmit"} : r.status = "NEEDS_INFO"}

WebListing ==
    LET ops == {"pause", "activate", "delete"} IN Page("listing", Together(ops), Each(ops, "later"))
WebListingOffers(r) ==
    {"delete"} \union {o \in {"pause", "activate"} :
                          r.status = (IF o = "pause" THEN "ACTIVE" ELSE "PAUSED")}

MobileListing ==
    Page("listing", Never({"pause", "activate"}), Each({"pause", "activate"}, "refetch"))
MobileListingOffers(r) == {IF r.status = "ACTIVE" THEN "pause" ELSE "activate"}

Pages ==
    [webPurchase |-> WebPurchase, webSale |-> WebSale, webDispute |-> WebDispute,
     webSubmission |-> WebSubmission, webListing |-> WebListing,
     mobilePurchase |-> MobilePurchase, mobileSale |-> MobileSale,
     mobileDispute |-> MobileDispute, mobileListing |-> MobileListing,
     adminOrder |-> AdminOrder, adminPayout |-> AdminPayout, adminRefund |-> AdminRefund,
     adminDispute |-> AdminDispute, adminReport |-> AdminReport, adminIssue |-> AdminIssue,
     adminSubmission |-> AdminSubmission]
PageName == DOMAIN Pages

Offers(p, r) ==
    CASE p = "webPurchase" -> WebPurchaseOffers(r)
      [] p = "webSale" -> WebSaleOffers(r)
      [] p = "webDispute" -> WebDisputeOffers(r)
      [] p = "webSubmission" -> WebSubmissionOffers(r)
      [] p = "webListing" -> WebListingOffers(r)
      [] p = "mobilePurchase" -> MobilePurchaseOffers(r)
      [] p = "mobileSale" -> MobileSaleOffers(r)
      [] p = "mobileDispute" -> MobileDisputeOffers(r)
      [] p = "mobileListing" -> MobileListingOffers(r)
      [] p = "adminOrder" -> AdminOrderOffers(r)
      [] p = "adminPayout" -> AdminPayoutOffers(r)
      [] p = "adminRefund" -> AdminRefundOffers(r)
      [] p = "adminDispute" -> AdminDisputeOffers(r)
      [] p = "adminReport" -> AdminReportOffers(r)
      [] p = "adminIssue" -> AdminIssueOffers(r)
      [] p = "adminSubmission" -> AdminSubmissionOffers(r)

\* Its error, of the request or of the reload, takes the place of the whole page.
Fragile == {<<"adminPayout", "pay">>}

\* So does the error of a read, on the app, which keeps the row that a page read last.
OnApp == {"mobilePurchase", "mobileSale", "mobileDispute", "mobileListing"}
----------------------------------------------------------------------------
(* A person at one page.                                                   *)

Closed == [name |-> "CLOSED"]
Idle == [stage |-> "IDLE"]
NoView == [r |-> "NONE"]
View(r, has) == [r |-> r, has |-> has]

IsOpen == page # Closed
UpToDate == page.shown.has = 1..version
AllIdle == \A k \in Click : click[k] = Idle
Mode(op) == Pages[page.name].after[op]
Waits(k, mode) == IsOpen /\ click[k].stage = "ACCEPTED" /\ Mode(click[k].op) = mode

\* A request disables what it blocks until its answer; an awaited reload until it is shown.
Pending(k) == click[k] # Idle /\ (click[k].stage \in {"SENT", "ACCEPTED", "REFUSED"}
                                    \/ Mode(click[k].op) = "reload")
Enabled(op) ==
    /\ op \in Offers(page.name, page.shown.r)
    /\ \A k \in Click : Pending(k) => click[k].op \notin Pages[page.name].blocks[op]

InitialRows ==
    {Row("order", "PENDING_PAYMENT", {}), Row("order", "PENDING_PAYMENT", {"meetup"}),
     Row("payout", "PENDING", {}), Row("refund", "PENDING", {}), Row("dispute", "OPEN", {}),
     Row("report", "OPEN", {}), Row("issue", "OPEN", {}), Row("submission", "PENDING", {}),
     Row("listing", "ACTIVE", {})}

Init ==
    /\ row \in InitialRows
    /\ version = 1
    /\ page = Closed
    /\ click = [k \in Click |-> Idle]
    /\ made = {}
    /\ pushed = {}
    /\ muddled = FALSE

\* A page opens, or is loaded anew: changes are counted from here.
Open(p) ==
    /\ Pages[p].kind = row.kind
    /\ AllIdle
    /\ version' = 1
    /\ page' = [name |-> p, shown |-> View(row, {1})]
    /\ made' = {}
    /\ pushed' = {}
    /\ muddled' = FALSE
    /\ UNCHANGED <<row, click>>

Press(k, op) ==
    /\ IsOpen
    /\ click[k] = Idle
    /\ Enabled(op)
    /\ click' = [click EXCEPT ![k] =
                    [stage |-> "SENT", op |-> op, fresh |-> IF UpToDate THEN version ELSE 0,
                     saw |-> IF Mode(op) = "append" THEN page.shown ELSE NoView]]
    /\ muddled' = (muddled \/ (~AllIdle /\ Mode(op) \notin {"refetch", "push"}))
    /\ UNCHANGED <<row, version, page, made, pushed>>

\* The API serves the request.  An accepted one answers the row as it leaves
\* it; a message or an evidence, itself alone.
Serve(k) ==
    /\ click[k].stage = "SENT"
    /\ \E a \in Answers(row, click[k].op) :
          LET next == IF IsOpen /\ (a.ok \/ a.row # row) THEN version + 1 ELSE version
              view == IF ~IsOpen THEN NoView
                      ELSE IF ~a.ok THEN View(row, IF click[k].fresh = version THEN {version} ELSE {})
                      ELSE IF Mode(click[k].op) = "answer" THEN View(a.row, 1..next)
                      ELSE IF Mode(click[k].op) = "append" THEN
                             View(click[k].saw.r, click[k].saw.has \union {next})
                      ELSE NoView
          IN /\ next <= MaxVersion
             /\ row' = a.row
             /\ version' = next
             /\ made' = IF a.ok /\ IsOpen THEN made \union {next} ELSE made
             /\ pushed' = IF a.ok /\ IsOpen /\ Mode(click[k].op) = "push" THEN pushed \union {next} ELSE pushed
             /\ click' = [click EXCEPT ![k] =
                             [stage |-> IF a.ok THEN "ACCEPTED" ELSE "REFUSED", op |-> @.op, view |-> view]]
    /\ UNCHANGED <<page, muddled>>

\* The network loses the answer: the page says that the action failed.
Lose(k) ==
    /\ click[k].stage = "ACCEPTED"
    /\ click' = [click EXCEPT ![k] = Idle]
    /\ muddled' = TRUE
    /\ UNCHANGED <<row, version, page, made, pushed>>

End(k) == click' = [click EXCEPT ![k] = Idle]
Stay == UNCHANGED <<row, version, made, pushed, muddled>>

ShowAnswer(k) ==
    /\ Waits(k, "answer") \/ Waits(k, "append")
    /\ page' = [page EXCEPT !.shown = click[k].view]
    /\ End(k)
    /\ Stay

\* A read under way is joined instead of being given up.
StartRead_Joins(k) ==
    /\ \E mode \in {"reload", "later", "refetch"} : Waits(k, mode)
    /\ LET joined == \E c \in Click \ {k} : click[c].stage \in {"LOADING", "READ"}
       IN click' = [click EXCEPT ![k] = IF joined THEN Idle ELSE [stage |-> "LOADING", op |-> @.op]]
    /\ UNCHANGED page
    /\ Stay

\* A refetch gives up the reads that were under way, whoever started them.
StartRead(k) ==
    /\ \E mode \in {"reload", "later", "refetch"} : Waits(k, mode)
    /\ LET given == {c \in Click \ {k} : click[c].stage \in {"LOADING", "READ"}
                                         /\ Mode(click[k].op) = "refetch"}
       IN click' = [c \in Click |-> IF c = k THEN [stage |-> "LOADING", op |-> click[k].op]
                                    ELSE IF c \in given THEN Idle ELSE click[c]]
    /\ UNCHANGED page
    /\ Stay

GoAway(k) ==
    /\ Waits(k, "leave")
    /\ page' = Closed
    /\ End(k)
    /\ Stay

\* The person comes back to the page from the screen that was put over it.
Push(k) ==
    /\ Waits(k, "push")
    /\ End(k)
    /\ UNCHANGED page
    /\ Stay

\* A page of the app is left and opened again.  It shows the row that it showed: for staleTime
\* that is all, and no step; later a read starts too.
Return(k) ==
    /\ IsOpen
    /\ page.name \in OnApp
    /\ AllIdle
    /\ \E op \in DOMAIN Pages[page.name].after :
          Mode(op) = "refetch" /\ click' = [click EXCEPT ![k] = [stage |-> "LOADING", op |-> op]]
    /\ UNCHANGED page
    /\ Stay

\* An answer to a page that is gone, and a refusal, whose message is shown.
BreakIfFragile(k) ==
    page' = IF IsOpen /\ <<page.name, click[k].op>> \in Fragile THEN Closed ELSE page
TakeRefusal(k) ==
    /\ click[k].stage = "REFUSED" \/ (click[k].stage = "ACCEPTED" /\ ~IsOpen)
    /\ BreakIfFragile(k)
    /\ End(k)
    /\ Stay

Read(k) ==
    /\ click[k].stage = "LOADING"
    /\ click' = [click EXCEPT ![k] = [stage |-> "READ", op |-> @.op, view |-> View(row, 1..version)]]
    /\ UNCHANGED page
    /\ Stay

ShowRead(k) ==
    /\ click[k].stage = "READ"
    /\ page' = IF IsOpen THEN [page EXCEPT !.shown = click[k].view] ELSE page
    /\ End(k)
    /\ Stay

FailRead(k) ==
    /\ click[k].stage = "LOADING"
    /\ IF IsOpen /\ page.name \in OnApp THEN page' = Closed ELSE BreakIfFragile(k)
    /\ End(k)
    /\ muddled' = TRUE
    /\ UNCHANGED <<row, version, made, pushed>>

\* Other people act on the row, from wherever they are, and so do the jobs.
Others ==
    /\ \/ row' \in ByItself(row)
       \/ \E op \in Ops(row.kind) : \E a \in Answers(row, op) : row' = a.row
    /\ row' # row
    /\ version' = IF IsOpen THEN version + 1 ELSE version
    /\ version' <= MaxVersion
    /\ UNCHANGED <<page, click, made, pushed, muddled>>

Next ==
    \/ \E p \in PageName : Open(p)
    \/ \E k \in Click : \E op \in (IF IsOpen THEN DOMAIN Pages[page.name].after ELSE {}) : Press(k, op)
    \/ \E k \in Click : Serve(k) \/ Lose(k) \/ ShowAnswer(k) \/ StartRead(k) \/ GoAway(k)
                        \/ Push(k) \/ Return(k) \/ TakeRefusal(k) \/ Read(k) \/ ShowRead(k) \/ FailRead(k)
    \/ Others

Spec == Init /\ [][Next]_pageVars

----------------------------------------------------------------------------
Statuses(kind) ==
    CASE kind = "order" -> OpenOrderStatuses \union {"PENDING_PAYMENT", "CANCELLED", "REFUNDED"}
      [] kind = "listing" -> {"ACTIVE", "PAUSED", "SOLD", "CANCELLED"}
      [] OTHER -> UNION {x.from \union {x.to} : x \in RulesOf(kind)}

(* The columns of the row and of what the page keeps.                      *)
PageTypeOK ==
    /\ row.status \in Statuses(row.kind)
    /\ row.marks \subseteq {"meetup", "refund", "dispute", "rated", "suspended"}
    /\ version \in 1..MaxVersion
    /\ made \subseteq 2..MaxVersion /\ pushed \subseteq made
    /\ IsOpen => /\ page.name \in PageName /\ page.shown.r.kind = row.kind
                 /\ page.shown.has \subseteq 1..version
    /\ \A k \in Click : click[k].stage \in {"IDLE", "SENT", "ACCEPTED", "REFUSED", "LOADING", "READ"}

\* What a page offers on a row that the API refuses it for, and the page cannot or does not tell.
\* The first has no route in the API, though MOBILE-BETA-QA.md:71 asks for it; those of mobileSale
\* and mobilePurchase are not "según estado" (:77) nor "cuando aplique" (:71).
OffersTooMuch(p, op, r) ==
    \/ op = "confirm-receipt"
    \/ op \in {"prepare", "ship", "meet"} /\ "refund" \in r.marks
    \/ op = "cancel" /\ r.status \in {"PAID", "PREPARING"}
    \/ op = "activate" /\ "suspended" \in r.marks
    \/ p = "mobileSale" /\ op = "ship" /\ "meetup" \in r.marks
    \/ p = "mobilePurchase" /\ op = "rate" /\ r.status = "DELIVERED"
    \/ p = "mobilePurchase" /\ op = "dispute" /\ (r.status = "PENDING_PAYMENT" \/ "dispute" \in r.marks)
    \/ p = "mobileDispute" /\ r.status \notin ActiveDispute
    \/ p = "adminDispute" /\ op = "review" /\ r.status = "UNDER_REVIEW"
    \/ p = "adminSubmission" /\ (op = "approve" \/ r.status \notin Reviewable)
    \/ p \in {"webListing", "mobileListing"} /\ r.status \in {"SOLD", "CANCELLED"}

(* A page that shows the row as it is offers nothing that the API refuses, *)
(* but for what OffersTooMuch lists: the rules of the clients' buttons and *)
(* the API's guards agree over every row that can come to be.              *)
OffersAreAccepted ==
    \A k \in Click :
        IsOpen /\ click[k].stage = "REFUSED" /\ click[k].view.has # {}
            => OffersTooMuch(page.name, click[k].op, click[k].view.r)

(* When nothing is in flight an open page shows everything that was done   *)
(* from it, but for a dispute opened on the app, which the purchase goes   *)
(* on not showing (mobile purchases/[id].tsx:66), and unless requests      *)
(* crossed where the older of two reads may come last, or an answer was    *)
(* lost.                                                                   *)
OwnRequestIsShown == IsOpen /\ AllIdle /\ ~muddled => made \ pushed \subseteq page.shown.has

Settled(r) ==
    r.status \in CASE r.kind = "order" -> {"COMPLETED", "CANCELLED", "REFUNDED", "DISPUTED"}
                   [] r.kind = "payout" -> {"PAID", "CANCELLED"}
                   [] r.kind = "refund" -> {"COMPLETED"}
                   [] r.kind = "dispute" -> {"RESOLVED_BUYER", "RESOLVED_SELLER", "CANCELLED"}
                   [] r.kind = "report" -> {"RESOLVED", "DISMISSED"}
                   [] r.kind = "issue" -> {"RESOLVED", "IGNORED"}
                   [] r.kind = "submission" -> {"APPROVED", "REJECTED", "DUPLICATE"}
                   [] r.kind = "listing" -> {"SOLD", "CANCELLED"}

(* No row comes to a state that is not an end and where no page of the     *)
(* three clients offers a step onwards that the API may accept: what the   *)
(* API can do and no page asks for leaves nobody stuck, save DISPUTED.     *)
SomeoneCanAct ==
    Settled(row) \/ \E p \in {q \in PageName : Pages[q].kind = row.kind} :
                      \E op \in Offers(p, row) \ {"dispute"} :
                        \E a \in Answers(row, op) : a.ok /\ a.row.status # row.status

(* An order in DISPUTED that has no active dispute, because it is closed   *)
(* or because the buyer only complained, can be cancelled, refunded or     *)
(* completed: some operation of the API takes it out of DISPUTED.          *)
DisputedLeadsOut ==
    row.kind = "order" /\ row.status = "DISPUTED" /\ "dispute" \notin row.marks =>
        \E op \in Ops("order") : \E a \in Answers(row, op) : a.row.status # "DISPUTED"
=============================================================================

------------------------------ MODULE Payments ------------------------------
(***************************************************************************)
(* Checkout, Razorpay's webhooks and refunds for the orders of a student   *)
(* (packages/core/src/payments.ts, apps/api/src/services/payments.ts,      *)
(* apps/api/src/routes/payments.ts and routes/admin/payments.ts).          *)
(*                                                                         *)
(* A MongoDB transaction is one step: it commits whole, or is retried or   *)
(* given up with no effect.  Every other command to MongoDB or to the      *)
(* provider is a step of its own, and a request may die between two steps. *)
(* The provider is external: it captures payments, makes refunds, and      *)
(* sends webhooks that may come late, repeatedly and in any order.         *)
(*                                                                         *)
(* Data abstractions: an amount is free or not; a document number is a     *)
(* financial year and a sequence number; an order has at most one payment  *)
(* of its whole amount and one of less.  The e-mail that follows a commit  *)
(* is left out.                                                            *)
(***************************************************************************)
EXTENDS Naturals, FiniteSets

CONSTANTS
    Orders,        \* the orders the student may place, each once
    CouponIsFree,  \* TRUE when the coupon takes off the whole price
    MaxUses,       \* the coupon's maxUses
    PerUserLimit,  \* the coupon's perUserLimit
    Years,         \* financial years 1 .. Years
    Odd,           \* the orders of which once an attempt fails, or less is paid or refunded
    Claimable,     \* the orders that an admin may refund, as often as they are paid
    Dies           \* the orders whose requests may die half way

ASSUME LimitsAssumption ==
    /\ MaxUses \in Nat
    /\ PerUserLimit \in Nat
    /\ Years \in Nat \ {0}
    /\ Odd \subseteq Orders
    /\ CouponIsFree \in BOOLEAN
    /\ Dies \subseteq Orders
    /\ Claimable \subseteq Orders

VARIABLES
    status,    \* the status of each order, "absent" before it was created
    discounted, \* the order was placed with the coupon
    linked,    \* the order's razorpayOrderId is stored
    paidBy,    \* its razorpayPaymentId: the payment of the whole amount, or one of less
    access,    \* the order's entitlement
    docs,      \* its invoice and credit note, as numbers
    counter,   \* the last number used, by kind of document and year
    uses,      \* the coupon's uses
    referral,  \* the student's referredBy and referralRewardedAt
    rewards,   \* how many reward coupons the referrer got
    handled,   \* the processed webhook events
    checkout,  \* how far POST /api/orders got with each order
    desk,      \* how far the admin's refund request got with each order
    applying,  \* POST /api/me/referral/apply found no earlier purchase
    gateway,   \* external: what the provider holds for each order
    events,    \* external: the webhooks the provider sends
    year       \* the current financial year

ledger == <<paidBy, access, docs, counter, uses, referral, rewards>>
provider == <<gateway, events>>
vars == <<status, discounted, linked, ledger, handled, checkout, desk, applying, provider, year>>

Statuses == {"absent", "created", "failed", "paid", "refund_pending", "refunded"}
Counted == {"paid", "refund_pending", "refunded"}   \* COUNTED_STATUSES

Free(o) == CouponIsFree /\ discounted[o]

DocKinds == {"invoice", "credit_note"}
NoDoc == [year |-> 0, seq |-> 0]
Doc == [year: 0..Years, seq: Nat]

CheckoutSteps == {"cart", "quoted", "gateway", "fail", "link", "fulfil", "answered", "dropped"}
DeskSteps == {"idle", "provider", "linkPending", "linkProcessed", "complete", "revert"}

Payment == {"whole", "short"}

Event == [kind: {"captured", "failed", "refund"}, order: Orders, full: BOOLEAN]
Captured(o) == [kind |-> "captured", order |-> o, full |-> TRUE]
Short(o) == [kind |-> "captured", order |-> o, full |-> FALSE]
Refunded(o) == [kind |-> "refund", order |-> o, full |-> TRUE]
PaymentOf(e) == IF e.full THEN "whole" ELSE "short"

Init ==
    /\ status = [o \in Orders |-> "absent"]
    /\ discounted = [o \in Orders |-> FALSE]
    /\ linked = [o \in Orders |-> FALSE]
    /\ paidBy = [o \in Orders |-> "none"]
    /\ access = [o \in Orders |-> "none"]
    /\ docs = [k \in DocKinds |-> [o \in Orders |-> NoDoc]]
    /\ counter = [k \in DocKinds |-> [y \in 1..Years |-> 0]]
    /\ uses = 0
    /\ referral = "none"
    /\ rewards = 0
    /\ handled = {}
    /\ checkout = [o \in Orders |-> "cart"]
    /\ desk = [o \in Orders |-> "idle"]
    /\ applying = FALSE
    /\ gateway = [o \in Orders |-> "none"]
    /\ events = {}
    /\ year = 1

-----------------------------------------------------------------------------
(***************************************************************************)
(* The transactions of packages/core/src/payments.ts.                      *)
(***************************************************************************)

\* nextDocumentNumber and the document created with it, in the current financial year.
InvoiceSeries(k) == "invoice"
Series(k) == k

Issue(k, o) ==
    LET n == counter[Series(k)][year] + 1 IN
    /\ counter' = [counter EXCEPT ![Series(k)][year] = n]
    /\ docs' = [docs EXCEPT ![k][o] = [year |-> year, seq |-> n]]

\* rewardReferrer: once, and only for a student who was referred.
RewardAgain(o) == ~Free(o) /\ referral # "none"
EarnsReward(o) == ~Free(o) /\ referral = "applied"

Reward(o) ==
    IF EarnsReward(o)
    THEN referral' = "rewarded" /\ rewards' = rewards + 1
    ELSE UNCHANGED <<referral, rewards>>

\* The filter of fulfilOrder's findOneAndUpdate.
PayableOnlyCreated(o) == status[o] = "created"
Payable(o) == status[o] \in {"created", "failed"}

FulfilOrder(o, payment) ==
    IF Payable(o)
    THEN /\ status' = [status EXCEPT ![o] = "paid"]
         /\ paidBy' = [paidBy EXCEPT ![o] = payment]
         /\ access' = [access EXCEPT ![o] = "active"]
         /\ uses' = IF discounted[o] THEN uses + 1 ELSE uses
         /\ Issue("invoice", o)
         /\ Reward(o)
    ELSE UNCHANGED <<status, ledger>>

\* failOrder: only a created order can fail.
FailOrder(o) ==
    /\ status' = IF status[o] = "created" THEN [status EXCEPT ![o] = "failed"] ELSE status
    /\ UNCHANGED ledger

\* completeRefund revokes the access bought with the order, and credits its invoice.
KeepAccess(o) == access
RevokeAccess(o) == [access EXCEPT ![o] = IF access[o] = "active" THEN "revoked" ELSE access[o]]

CompleteRefund(o) ==
    IF status[o] \in {"paid", "refund_pending"}
    THEN /\ status' = [status EXCEPT ![o] = "refunded"]
         /\ access' = RevokeAccess(o)
         /\ IF docs["invoice"][o] # NoDoc THEN Issue("credit_note", o)
            ELSE UNCHANGED <<docs, counter>>
         /\ UNCHANGED <<paidBy, uses, referral, rewards>>
    ELSE UNCHANGED <<status, ledger>>

-----------------------------------------------------------------------------
(***************************************************************************)
(* POST /api/orders.                                                       *)
(***************************************************************************)

\* quoteFor checks the coupon: maxUses, and perUserLimit against the student's counted orders.
UsedByUser == Cardinality({o \in Orders : discounted[o] /\ status[o] \in Counted})
CouponUsable == uses < MaxUses /\ UsedByUser < PerUserLimit

QuoteFor(o) ==
    /\ checkout[o] = "cart"
    /\ \E c \in BOOLEAN : (c => CouponUsable) /\ discounted' = [discounted EXCEPT ![o] = c]
    /\ checkout' = [checkout EXCEPT ![o] = "quoted"]
    /\ UNCHANGED <<status, linked, ledger, handled, desk, applying, provider, year>>

CreateOrder(o) ==
    /\ checkout[o] = "quoted"
    /\ status' = [status EXCEPT ![o] = "created"]
    /\ checkout' = [checkout EXCEPT ![o] = IF Free(o) THEN "fulfil" ELSE "gateway"]
    /\ UNCHANGED <<discounted, linked, ledger, handled, desk, applying, provider, year>>

FulfilFree(o) ==
    /\ checkout[o] = "fulfil"
    /\ FulfilOrder(o, "none")
    /\ checkout' = [checkout EXCEPT ![o] = "answered"]
    /\ UNCHANGED <<discounted, linked, handled, desk, applying, provider, year>>

\* gateway.createOrder; a call that fails or times out may have reached the provider.
AskGateway(o) ==
    /\ checkout[o] = "gateway"
    /\ \/ /\ gateway' = [gateway EXCEPT ![o] = "open"]
          /\ checkout' = [checkout EXCEPT ![o] = "link"]
       \/ /\ \E g \in {"none", "open"} : gateway' = [gateway EXCEPT ![o] = g]
          /\ checkout' = [checkout EXCEPT ![o] = "fail"]
    /\ UNCHANGED <<status, discounted, linked, ledger, handled, desk, applying, events, year>>

\* The catch block fails the order whatever its status.
FailCheckout(o) ==
    /\ checkout[o] = "fail"
    /\ status' = [status EXCEPT ![o] = "failed"]
    /\ checkout' = [checkout EXCEPT ![o] = "dropped"]
    /\ UNCHANGED <<discounted, linked, ledger, handled, desk, applying, provider, year>>

\* Store razorpayOrderId, then answer: only now can the student pay.
LinkOrder(o) ==
    /\ checkout[o] = "link"
    /\ linked' = [linked EXCEPT ![o] = TRUE]
    /\ checkout' = [checkout EXCEPT ![o] = "answered"]
    /\ UNCHANGED <<status, discounted, ledger, handled, desk, applying, provider, year>>

CheckoutDies(o) ==
    /\ o \in Dies
    /\ checkout[o] \in {"gateway", "fail", "link", "fulfil"}
    /\ checkout' = [checkout EXCEPT ![o] = "dropped"]
    /\ UNCHANGED <<status, discounted, linked, ledger, handled, desk, applying, provider, year>>

-----------------------------------------------------------------------------
(***************************************************************************)
(* POST /api/payments/verify and the webhook.                              *)
(***************************************************************************)

\* Checkout hands out its signature of order and payment once the payment is authorized; it says
\* nothing of a capture, nor of the amount.
PaidUp == {"captured", "refunding", "refunded"}
Signed(o, payment) ==
    IF payment = "whole" THEN gateway[o] \in {"authorized"} \cup PaidUp ELSE Short(o) \in events

Verify(o) ==
    /\ linked[o]
    /\ \E payment \in Payment : Signed(o, payment) /\ FulfilOrder(o, payment)
    /\ UNCHANGED <<discounted, linked, handled, checkout, desk, applying, provider, year>>

\* Only the exact amount pays an order, and only a full refund revokes it.
AnyAmount(e) == TRUE
RightAmount(e) == e.full

\* The order is found by razorpayOrderId, or by the razorpayPaymentId stored when it was paid.
FindOrder(e) == IF e.kind = "refund" THEN paidBy[e.order] = "whole" ELSE linked[e.order]

\* The event id is stored in the same transaction, also when the event is ignored; a replay
\* fails on it and changes nothing.
HandleWebhook(e) ==
    /\ e \in events \ handled
    /\ handled' = handled \cup {e}
    /\ \/ FindOrder(e) /\ e.kind = "captured" /\ RightAmount(e)
          /\ FulfilOrder(e.order, PaymentOf(e))
       \/ FindOrder(e) /\ e.kind = "failed" /\ FailOrder(e.order)
       \/ FindOrder(e) /\ e.kind = "refund" /\ RightAmount(e) /\ CompleteRefund(e.order)
       \/ /\ ~FindOrder(e) \/ (e.kind # "failed" /\ ~RightAmount(e))
          /\ UNCHANGED <<status, ledger>>
    /\ UNCHANGED <<discounted, linked, checkout, desk, applying, provider, year>>

-----------------------------------------------------------------------------
(***************************************************************************)
(* POST /api/admin/orders/:id/refund.                                      *)
(***************************************************************************)

\* The claim, "so a double click never refunds twice".
ClaimRefund(o) ==
    /\ o \in Claimable
    /\ status[o] = "paid"
    /\ status' = [status EXCEPT ![o] = "refund_pending"]
    /\ desk' = [desk EXCEPT ![o] = IF Free(o) THEN "complete" ELSE "provider"]
    /\ UNCHANGED <<discounted, linked, ledger, handled, checkout, applying, provider, year>>

\* gateway.refund of the stored payment: processed at once, pending, or an error (a second refund;
\* a payment that was not captured, or of less; or the request timed out although the provider
\* started the refund).
Refundable(o) == paidBy[o] = "whole" /\ gateway[o] = "captured"

AskRefund(o) ==
    /\ desk[o] = "provider"
    /\ \/ /\ Refundable(o)
          /\ gateway' = [gateway EXCEPT ![o] = "refunded"]
          /\ events' = events \cup {Refunded(o)}
          /\ desk' = [desk EXCEPT ![o] = "linkProcessed"]
       \/ /\ Refundable(o)
          /\ gateway' = [gateway EXCEPT ![o] = "refunding"]
          /\ desk' = [desk EXCEPT ![o] = "linkPending"]
          /\ UNCHANGED events
       \/ /\ \E g \in {gateway[o]} \cup (IF Refundable(o) THEN {"refunding"} ELSE {}) :
               gateway' = [gateway EXCEPT ![o] = g]
          /\ desk' = [desk EXCEPT ![o] = "revert"]
          /\ UNCHANGED events
    /\ UNCHANGED <<status, discounted, linked, ledger, handled, checkout, applying, year>>

\* Store razorpayRefundId; a pending refund is left to the webhook.
LinkRefund(o) ==
    /\ desk[o] \in {"linkPending", "linkProcessed"}
    /\ desk' = [desk EXCEPT ![o] = IF desk[o] = "linkProcessed" THEN "complete" ELSE "idle"]
    /\ UNCHANGED <<status, discounted, linked, ledger, handled, checkout, applying, provider, year>>

\* That update failed: the error is handled like the provider's.
LinkRefundFails(o) ==
    /\ o \in Dies
    /\ desk[o] \in {"linkPending", "linkProcessed"}
    /\ desk' = [desk EXCEPT ![o] = "revert"]
    /\ UNCHANGED <<status, discounted, linked, ledger, handled, checkout, applying, provider, year>>

\* The catch block makes the order "paid" again, unless the webhook was faster.
AlwaysRevert(o) == TRUE
Revertible(o) == status[o] = "refund_pending"

RevertRefund(o) ==
    /\ desk[o] = "revert"
    /\ status' = IF Revertible(o) THEN [status EXCEPT ![o] = "paid"] ELSE status
    /\ desk' = [desk EXCEPT ![o] = "idle"]
    /\ UNCHANGED <<discounted, linked, ledger, handled, checkout, applying, provider, year>>

RefundDone(o) ==
    /\ desk[o] = "complete"
    /\ CompleteRefund(o)
    /\ desk' = [desk EXCEPT ![o] = "idle"]
    /\ UNCHANGED <<discounted, linked, handled, checkout, applying, provider, year>>

DeskDies(o) ==
    /\ o \in Dies
    /\ desk[o] # "idle"
    /\ desk' = [desk EXCEPT ![o] = "idle"]
    /\ UNCHANGED <<status, discounted, linked, ledger, handled, checkout, applying, provider, year>>

-----------------------------------------------------------------------------
(***************************************************************************)
(* POST /api/me/referral/apply: look for a purchase, then set referredBy.  *)
(* (Once it is set, no further request changes anything.)                  *)
(***************************************************************************)

CheckReferral ==
    /\ ~applying /\ referral = "none"
    /\ \A o \in Orders : Free(o) \/ status[o] \in {"absent", "created"}
    /\ applying' = TRUE
    /\ UNCHANGED <<status, discounted, linked, ledger, handled, checkout, desk, provider, year>>

ApplyReferral ==
    /\ applying
    /\ applying' = FALSE
    /\ referral' = IF referral = "none" THEN "applied" ELSE referral
    /\ UNCHANGED <<status, discounted, linked, paidBy, access, docs, counter, uses, rewards, handled,
                   checkout, desk, provider, year>>

-----------------------------------------------------------------------------
(***************************************************************************)
(* The provider and the calendar.                                          *)
(***************************************************************************)

\* The student pays in Checkout, with the razorpayOrderId of the answer; the provider captures
\* what it authorized (payment_capture), if nothing goes wrong.
Authorize(o) ==
    /\ checkout[o] = "answered"
    /\ gateway[o] = "open"
    /\ gateway' = [gateway EXCEPT ![o] = "authorized"]
    /\ UNCHANGED <<status, discounted, linked, ledger, handled, checkout, desk, applying, events, year>>

Capture(o) ==
    /\ gateway[o] = "authorized"
    /\ gateway' = [gateway EXCEPT ![o] = "captured"]
    /\ events' = events \cup {Captured(o)}
    /\ UNCHANGED <<status, discounted, linked, ledger, handled, checkout, desk, applying, year>>

MayBeOdd(o) == o \in Odd /\ \A e \in events : e.order = o => e.full

\* An attempt fails, or a payment of less is captured for the order.
BadPayment(o) ==
    /\ MayBeOdd(o)
    /\ checkout[o] = "answered"
    /\ gateway[o] = "open"
    /\ \E kind \in {"failed", "captured"} :
         events' = events \cup {[kind |-> kind, order |-> o, full |-> FALSE]}
    /\ UNCHANGED <<status, discounted, linked, ledger, handled, checkout, desk, applying, gateway,
                   year>>

\* A pending refund goes through, or the refund is made from the provider's dashboard.
ProviderRefunds(o) ==
    /\ gateway[o] \in {"captured", "refunding"}
    /\ gateway' = [gateway EXCEPT ![o] = "refunded"]
    /\ events' = events \cup {Refunded(o)}
    /\ UNCHANGED <<status, discounted, linked, ledger, handled, checkout, desk, applying, year>>

PartialRefund(o) ==
    /\ MayBeOdd(o)
    /\ gateway[o] = "captured"
    /\ events' = events \cup {[kind |-> "refund", order |-> o, full |-> FALSE]}
    /\ UNCHANGED <<status, discounted, linked, ledger, handled, checkout, desk, applying, gateway,
                   year>>

NewYear ==
    /\ year < Years
    /\ year' = year + 1
    /\ UNCHANGED <<status, discounted, linked, ledger, handled, checkout, desk, applying, provider>>

CheckoutStep(o) ==
    CreateOrder(o) \/ FulfilFree(o) \/ AskGateway(o) \/ FailCheckout(o) \/ LinkOrder(o)
DeskStep(o) == AskRefund(o) \/ LinkRefund(o) \/ RevertRefund(o) \/ RefundDone(o)
OrderStep(o) ==
    \/ QuoteFor(o) \/ CheckoutStep(o) \/ CheckoutDies(o) \/ Verify(o)
    \/ ClaimRefund(o) \/ DeskStep(o) \/ LinkRefundFails(o) \/ DeskDies(o)
ProviderStep(o) == Authorize(o) \/ Capture(o) \/ BadPayment(o) \/ ProviderRefunds(o) \/ PartialRefund(o)

Next ==
    \/ \E o \in Orders : OrderStep(o) \/ ProviderStep(o)
    \/ \E e \in events : HandleWebhook(e)
    \/ CheckReferral \/ ApplyReferral
    \/ NewYear

Spec == Init /\ [][Next]_vars

(***************************************************************************)
(* The provider retries a webhook until it is answered, and makes a        *)
(* pending refund; a request that runs goes on.                            *)
(***************************************************************************)
Delivery == WF_vars(\E e \in events : HandleWebhook(e))

Progress ==
    \A o \in Orders :
        /\ WF_vars(CheckoutStep(o))
        /\ WF_vars(DeskStep(o))
        /\ WF_vars(gateway[o] = "refunding" /\ ProviderRefunds(o))

DeliverySpec == Spec /\ Delivery
FairSpec == Spec /\ Delivery /\ Progress

-----------------------------------------------------------------------------
(***************************************************************************)
(* Properties.                                                             *)
(***************************************************************************)

\* Every variable has its type.
TypeOK ==
    /\ status \in [Orders -> Statuses]
    /\ discounted \in [Orders -> BOOLEAN]
    /\ linked \in [Orders -> BOOLEAN]
    /\ paidBy \in [Orders -> {"none"} \cup Payment]
    /\ access \in [Orders -> {"none", "active", "revoked"}]
    /\ docs \in [DocKinds -> [Orders -> Doc]]
    /\ counter \in [DocKinds -> [1..Years -> Nat]]
    /\ uses \in Nat
    /\ referral \in {"none", "applied", "rewarded"}
    /\ rewards \in Nat
    /\ handled \subseteq Event
    /\ checkout \in [Orders -> CheckoutSteps]
    /\ desk \in [Orders -> DeskSteps]
    /\ applying \in BOOLEAN
    /\ gateway \in [Orders -> {"none", "open", "authorized"} \cup PaidUp]
    /\ events \subseteq Event
    /\ year \in 1..Years

Invoiced == {o \in Orders : docs["invoice"][o] # NoDoc}
Credited == {o \in Orders : docs["credit_note"][o] # NoDoc}

Lifecycle == INSTANCE OrderLifecycle WITH invoiced <- Invoiced, credited <- Credited

\* "Exactly once" (README.md:356): however verify, webhooks, refunds, retries and deaths
\* overlap, every order behaves like OrderLifecycle, effects included.
ImplementsLifecycle == Lifecycle!Spec

\* What holds of an order and its effects between two transactions.
EffectsMatch ==
    \A o \in Orders :
        /\ o \in Invoiced <=> status[o] \in Counted
        /\ o \in Credited <=> status[o] = "refunded"
        /\ access[o] = CASE status[o] \in {"paid", "refund_pending"} -> "active"
                         [] status[o] = "refunded" -> "revoked"
                         [] OTHER -> "none"

\* Document numbers are "gap-free per financial year": in each series and year the documents
\* carry exactly the numbers 1 .. counter, each once.
Carries(k, o, y, n) == docs[k][o] = [year |-> y, seq |-> n]
GapFree ==
    \A k \in DocKinds, y \in 1..Years :
        /\ \A n \in 1..counter[k][y] : \E o \in Orders : Carries(k, o, y, n)
        /\ \A o \in Orders : docs[k][o].year = y => docs[k][o].seq \in 1..counter[k][y]
        /\ \A o1, o2 \in Orders :
             docs[k][o1] = docs[k][o2] /\ docs[k][o1].year = y => o1 = o2

\* What stands behind a paid order: a webhook makes it paid only when the provider captured the
\* whole amount; verify, also on the signature of a payment that is not captured or of less; and
\* it counts as refunded only once the provider paid the whole amount back.
Pays(o) == status[o] \notin Counted /\ status'[o] \in Counted
Refunds(o) == status[o] # "refunded" /\ status'[o] = "refunded"
MoneyMoves ==
    \A o \in {x \in Orders : ~Free(x)} :
        /\ Pays(o) => \/ gateway[o] \in PaidUp
                      \/ UNCHANGED handled /\ Signed(o, paidBy'[o])
        /\ Refunds(o) => gateway[o] = "refunded"
MoneyBacked == [][MoneyMoves]_vars

\* "Never grant access for a different amount than the server priced" (services/payments.ts:128)
\* is said of the webhook, and does not hold of verify.
PaidIsCaptured ==
    \A o \in Orders : status[o] \in Counted /\ ~Free(o) => gateway[o] \in PaidUp

\* The referrer is rewarded once at most, and only after a paid order of the friend.
OneReward ==
    /\ rewards = IF referral = "rewarded" THEN 1 ELSE 0
    /\ referral = "rewarded" => \E o \in Orders : ~Free(o) /\ status[o] \in Counted

\* The webhook is "the source of truth (it arrives even if the student closed the browser)": a
\* captured payment ends in a paid order, with no help from verify.
CapturedUnlocks ==
    \A o \in Orders : (gateway[o] = "captured") ~> (status[o] \in Counted)

\* "Pending refunds finish on the refund.processed webhook": a claimed refund is settled.
RefundSettles ==
    \A o \in Orders : (status[o] = "refund_pending") ~> (status[o] \in {"paid", "refunded"})

\* "Once the refund is processed (...), access is revoked": the webhook of a full refund leaves
\* no access behind, whatever webhook of the same payment comes after it.
RefundedLocked ==
    \A o \in Orders : Refunded(o) \in handled => access[o] # "active"

\* A coupon's maxUses is its "total uses across all students".
CouponWithinLimit == uses <= MaxUses
=============================================================================

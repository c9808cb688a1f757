--------------------------- MODULE PaymentsProofs ---------------------------
(***************************************************************************)
(* Theorems about Payments, for any number of orders, any split of them    *)
(* into free and couponed ones, any limits, years and deaths; and about    *)
(* the prices and invoices of Pricing, for every amount.                   *)
(***************************************************************************)
EXTENDS Payments, Prices, TLAPS

\* A transaction that may pay the order, with whatever payment.
Fulfils(o) == \E payment \in {"none"} \cup Payment : FulfilOrder(o, payment)

\* Before its answer an order is in nobody's hands but the checkout request's: it is not linked,
\* so that neither verify nor a webhook finds it.
Journey ==
    \A o \in Orders :
        /\ checkout[o] \in {"cart", "quoted"} => status[o] = "absent"
        /\ checkout[o] \in {"gateway", "fail", "link", "fulfil"} => status[o] = "created"
        /\ status[o] = "absent" => checkout[o] \in {"cart", "quoted"}
        /\ linked[o] => checkout[o] = "answered" /\ status[o] # "absent"
        /\ checkout[o] = "fulfil" => Free(o)
        /\ status[o] \in {"absent", "created"} => desk[o] = "idle"
        /\ checkout[o] \in {"cart", "quoted", "gateway"} => gateway[o] = "none"

\* What a webhook says, and what the refund request knows, is true of the provider.
Witnessed ==
    /\ \A e \in events :
         /\ e.kind = "captured" /\ e.full => gateway[e.order] \in PaidUp
         /\ e.kind = "refund" /\ e.full => gateway[e.order] = "refunded"
    /\ \A o \in Orders :
         ~Free(o) /\ desk[o] \in {"linkProcessed", "complete"} => gateway[o] = "refunded"

\* Which steps may pay an order.
LEMMA RequestFulfils ==
    ASSUME NEW o \in Orders, FulfilFree(o) \/ Verify(o)
    PROVE  Fulfils(o)
BY DEF FulfilFree, Verify, Fulfils

LEMMA WebhookDoes ==
    ASSUME NEW e \in events, HandleWebhook(e)
    PROVE  \/ FindOrder(e) /\ e.kind = "captured" /\ e.full /\ Fulfils(e.order)
           \/ FindOrder(e) /\ FailOrder(e.order)
           \/ FindOrder(e) /\ e.kind = "refund" /\ e.full /\ CompleteRefund(e.order)
           \/ UNCHANGED <<status, ledger>>
BY DEF HandleWebhook, RightAmount, PaymentOf, Fulfils, Payment

-----------------------------------------------------------------------------
(***************************************************************************)
(* Type correctness.                                                       *)
(***************************************************************************)

\* What issuing a document changes: one document, and one counter.
LEMMA IssueChanges ==
    ASSUME TypeOK, NEW k \in DocKinds, NEW o \in Orders, Issue(k, o)
    PROVE  /\ docs' \in [DocKinds -> [Orders -> Doc]]
           /\ counter' \in [DocKinds -> [1..Years -> Nat]]
           /\ docs'[k][o] = [year |-> year, seq |-> counter[k][year] + 1]
           /\ \A j \in DocKinds, x \in Orders : j # k \/ x # o => docs'[j][x] = docs[j][x]
           /\ counter'[k][year] = counter[k][year] + 1
           /\ \A j \in DocKinds, y \in 1..Years :
                j # k \/ y # year => counter'[j][y] = counter[j][y]
<1> DEFINE n == counter[k][year] + 1
           d == [year |-> year, seq |-> n]
<1>1. /\ counter \in [DocKinds -> [1..Years -> Nat]]
      /\ docs \in [DocKinds -> [Orders -> Doc]]
      /\ year \in 1..Years
  BY DEF TypeOK
<1>2. n \in Nat
  <2>1. counter[k] \in [1..Years -> Nat]
    BY <1>1
  <2>2. counter[k][year] \in Nat
    BY <1>1, <2>1
  <2> QED
    BY <2>2
<1>3. d \in Doc
  BY <1>1, <1>2, LimitsAssumption DEF Doc
<1>4. counter' = [counter EXCEPT ![k][year] = n] /\ docs' = [docs EXCEPT ![k][o] = d]
  BY DEF Issue, Series
<1> HIDE DEF n, d
<1>5. /\ docs' \in [DocKinds -> [Orders -> Doc]]
      /\ docs'[k][o] = d
      /\ \A j \in DocKinds, x \in Orders : j # k \/ x # o => docs'[j][x] = docs[j][x]
  BY <1>1, <1>3, <1>4
<1>6. /\ counter' \in [DocKinds -> [1..Years -> Nat]]
      /\ counter'[k][year] = n
      /\ \A j \in DocKinds, y \in 1..Years :
           j # k \/ y # year => counter'[j][y] = counter[j][y]
  BY <1>1, <1>2, <1>4
<1> QED
  BY <1>5, <1>6 DEF n, d

\* The part of TypeOK that the transactions change.
LedgerTypes ==
    /\ status \in [Orders -> Statuses]
    /\ paidBy \in [Orders -> {"none"} \cup Payment]
    /\ access \in [Orders -> {"none", "active", "revoked"}]
    /\ docs \in [DocKinds -> [Orders -> Doc]]
    /\ counter \in [DocKinds -> [1..Years -> Nat]]
    /\ uses \in Nat
    /\ referral \in {"none", "applied", "rewarded"}
    /\ rewards \in Nat

LEMMA FulfilOrderType ==
    ASSUME TypeOK, NEW o \in Orders, Fulfils(o)
    PROVE  LedgerTypes'
<1>1. CASE Payable(o)
  <2>1. Issue("invoice", o) /\ "invoice" \in DocKinds
    BY <1>1 DEF Fulfils, FulfilOrder, DocKinds
  <2>2. referral' \in {"none", "applied", "rewarded"} /\ rewards' \in Nat
    BY <1>1 DEF Fulfils, FulfilOrder, Reward, TypeOK
  <2>3. uses' \in Nat
    BY <1>1 DEF Fulfils, FulfilOrder, TypeOK
  <2>4. /\ status' \in [Orders -> Statuses]
        /\ access' \in [Orders -> {"none", "active", "revoked"}]
    BY <1>1 DEF Fulfils, FulfilOrder, TypeOK, Statuses
  <2>5. paidBy' \in [Orders -> {"none"} \cup Payment]
    BY <1>1 DEF Fulfils, FulfilOrder, TypeOK
  <2> QED
    BY <2>1, <2>2, <2>3, <2>4, <2>5, IssueChanges DEF LedgerTypes
<1>2. CASE ~Payable(o)
  BY <1>2 DEF Fulfils, FulfilOrder, TypeOK, LedgerTypes, ledger
<1> QED
  BY <1>1, <1>2

LEMMA CompleteRefundType ==
    ASSUME TypeOK, NEW o \in Orders, CompleteRefund(o)
    PROVE  LedgerTypes'
<1>1. CASE status[o] \in {"paid", "refund_pending"}
  <2>1. "credit_note" \in DocKinds
    BY DEF DocKinds
  <2>2. /\ docs' \in [DocKinds -> [Orders -> Doc]]
        /\ counter' \in [DocKinds -> [1..Years -> Nat]]
    <3>1. CASE docs["invoice"][o] # NoDoc
      BY <1>1, <2>1, <3>1, IssueChanges DEF CompleteRefund
    <3>2. CASE docs["invoice"][o] = NoDoc
      BY <1>1, <3>2 DEF CompleteRefund, TypeOK
    <3> QED
      BY <3>1, <3>2
  <2>3. /\ status' \in [Orders -> Statuses]
        /\ access' \in [Orders -> {"none", "active", "revoked"}]
    BY <1>1 DEF CompleteRefund, TypeOK, Statuses, RevokeAccess
  <2> QED
    BY <1>1, <2>2, <2>3 DEF CompleteRefund, TypeOK, LedgerTypes
<1>2. CASE status[o] \notin {"paid", "refund_pending"}
  BY <1>2 DEF CompleteRefund, TypeOK, LedgerTypes, ledger
<1> QED
  BY <1>1, <1>2

LEMMA FailOrderType ==
    ASSUME TypeOK, NEW o \in Orders, FailOrder(o)
    PROVE  LedgerTypes'
BY DEF FailOrder, TypeOK, LedgerTypes, ledger, Statuses

LEMMA InitType == Init => TypeOK
<1> SUFFICES ASSUME Init PROVE TypeOK
  OBVIOUS
<1>1. NoDoc \in Doc
  BY LimitsAssumption DEF NoDoc, Doc
<1>2. docs \in [DocKinds -> [Orders -> Doc]]
  BY <1>1 DEF Init
<1>3. counter \in [DocKinds -> [1..Years -> Nat]]
  BY DEF Init
<1>4. year \in 1..Years /\ uses \in Nat /\ rewards \in Nat
  BY LimitsAssumption DEF Init
<1> QED
  BY <1>2, <1>3, <1>4 DEF Init, TypeOK, Statuses, CheckoutSteps, DeskSteps

LEMMA CheckoutType ==
    ASSUME TypeOK, NEW o \in Orders, QuoteFor(o) \/ CheckoutStep(o) \/ CheckoutDies(o)
    PROVE  TypeOK'
<1>1. CASE QuoteFor(o)
  BY <1>1 DEF QuoteFor, TypeOK, ledger, provider, CheckoutSteps
<1>2. CASE CreateOrder(o)
  BY <1>2 DEF CreateOrder, TypeOK, ledger, provider, CheckoutSteps, Statuses
<1>3. CASE FulfilFree(o)
  BY <1>3, RequestFulfils, FulfilOrderType DEF FulfilFree, TypeOK, LedgerTypes, provider, CheckoutSteps
<1>4. CASE AskGateway(o)
  BY <1>4, ZenonT(60) DEF AskGateway, TypeOK, ledger, CheckoutSteps
<1>5. CASE FailCheckout(o)
  BY <1>5 DEF FailCheckout, TypeOK, ledger, provider, CheckoutSteps, Statuses
<1>6. CASE LinkOrder(o)
  BY <1>6 DEF LinkOrder, TypeOK, ledger, provider, CheckoutSteps
<1>7. CASE CheckoutDies(o)
  BY <1>7 DEF CheckoutDies, TypeOK, ledger, provider, CheckoutSteps
<1> QED
  BY <1>1, <1>2, <1>3, <1>4, <1>5, <1>6, <1>7 DEF CheckoutStep

LEMMA DeskType ==
    ASSUME TypeOK, NEW o \in Orders,
           ClaimRefund(o) \/ DeskStep(o) \/ LinkRefundFails(o) \/ DeskDies(o)
    PROVE  TypeOK'
<1>0. Refunded(o) \in Event
  BY DEF Refunded, Event
<1>1. CASE ClaimRefund(o)
  BY <1>1 DEF ClaimRefund, TypeOK, ledger, provider, DeskSteps, Statuses
<1>2. CASE AskRefund(o)
  BY <1>0, <1>2, ZenonT(60) DEF AskRefund, Refundable, PaidUp, TypeOK, ledger, DeskSteps
<1>3. CASE LinkRefund(o)
  BY <1>3 DEF LinkRefund, TypeOK, ledger, provider, DeskSteps
<1>4. CASE RevertRefund(o)
  BY <1>4 DEF RevertRefund, TypeOK, ledger, provider, DeskSteps, Statuses
<1>5. CASE RefundDone(o)
  BY <1>5, CompleteRefundType DEF RefundDone, TypeOK, LedgerTypes, provider, DeskSteps
<1>6. CASE LinkRefundFails(o)
  BY <1>6 DEF LinkRefundFails, TypeOK, ledger, provider, DeskSteps
<1>7. CASE DeskDies(o)
  BY <1>7 DEF DeskDies, TypeOK, ledger, provider, DeskSteps
<1> QED
  BY <1>1, <1>2, <1>3, <1>4, <1>5, <1>6, <1>7 DEF DeskStep

LEMMA WebhookType ==
    ASSUME TypeOK, NEW e \in events, HandleWebhook(e)
    PROVE  TypeOK'
<1>1. e \in Event /\ e.order \in Orders
  BY DEF TypeOK, Event
<1>2. LedgerTypes'
  <2>1. CASE Fulfils(e.order)
    BY <1>1, <2>1, FulfilOrderType
  <2>2. CASE FailOrder(e.order)
    BY <1>1, <2>2, FailOrderType
  <2>3. CASE CompleteRefund(e.order)
    BY <1>1, <2>3, CompleteRefundType
  <2>4. CASE UNCHANGED <<status, ledger>>
    BY <2>4 DEF TypeOK, LedgerTypes, ledger
  <2> QED
    BY <2>1, <2>2, <2>3, <2>4, WebhookDoes
<1> QED
  BY <1>1, <1>2 DEF HandleWebhook, TypeOK, LedgerTypes, provider

LEMMA OthersType ==
    ASSUME TypeOK,
           \/ \E o \in Orders : Verify(o) \/ ProviderStep(o)
           \/ CheckReferral \/ ApplyReferral \/ NewYear
    PROVE  TypeOK'
<1>1. ASSUME NEW o \in Orders, Verify(o)
      PROVE  TypeOK'
  BY <1>1, RequestFulfils, FulfilOrderType DEF Verify, TypeOK, LedgerTypes, provider
<1>2. ASSUME NEW o \in Orders, ProviderStep(o)
      PROVE  TypeOK'
  <2>1. /\ Captured(o) \in Event /\ Refunded(o) \in Event
        /\ \A kind \in {"failed", "captured", "refund"} :
             [kind |-> kind, order |-> o, full |-> FALSE] \in Event
    BY DEF Captured, Refunded, Event
  <2>2. CASE Authorize(o) \/ Capture(o)
    BY <2>1, <2>2 DEF Authorize, Capture, PaidUp, TypeOK, ledger
  <2>3. CASE BadPayment(o)
    BY <2>1, <2>3 DEF BadPayment, TypeOK, ledger
  <2>4. CASE ProviderRefunds(o)
    BY <2>1, <2>4 DEF ProviderRefunds, PaidUp, TypeOK, ledger
  <2>5. CASE PartialRefund(o)
    BY <2>1, <2>5 DEF PartialRefund, TypeOK, ledger
  <2> QED
    BY <1>2, <2>2, <2>3, <2>4, <2>5 DEF ProviderStep
<1>3. CASE CheckReferral \/ ApplyReferral
  BY <1>3 DEF CheckReferral, ApplyReferral, TypeOK, ledger, provider
<1>4. CASE NewYear
  BY <1>4, LimitsAssumption DEF NewYear, TypeOK, ledger, provider
<1> QED
  BY <1>1, <1>2, <1>3, <1>4

LEMMA NextType == TypeOK /\ [Next]_vars => TypeOK'
<1> SUFFICES ASSUME TypeOK, [Next]_vars PROVE TypeOK'
  OBVIOUS
<1>1. CASE UNCHANGED vars
  BY <1>1 DEF vars, TypeOK, ledger, provider
<1>2. CASE Next
  BY <1>2, CheckoutType, DeskType, WebhookType, OthersType DEF Next, OrderStep
<1> QED
  BY <1>1, <1>2

\* Type correctness of the payments model.
THEOREM TypeCorrect == Spec => []TypeOK
BY InitType, NextType, PTL DEF Spec

-----------------------------------------------------------------------------
(***************************************************************************)
(* Journey and Witnessed are inductive.                                    *)
(***************************************************************************)

\* A step that takes an order past its checkout, or finds it there, keeps Journey.
LEMMA JourneyPast ==
    ASSUME Journey, NEW o \in Orders,
           \A x \in Orders : x # o =>
               /\ status'[x] = status[x] /\ checkout'[x] = checkout[x]
               /\ linked'[x] = linked[x] /\ gateway'[x] = gateway[x]
               /\ desk'[x] = desk[x] /\ Free(x)' = Free(x),
           checkout'[o] \in {"answered", "dropped"}, status'[o] # "absent",
           linked'[o] => checkout'[o] = "answered",
           status'[o] = "created" => desk'[o] = "idle"
    PROVE  Journey'
BY DEF Journey

\* The transactions keep the other orders' status, and an order that exists.
LEMMA TransactionStatus ==
    ASSUME TypeOK, NEW o \in Orders, Fulfils(o) \/ FailOrder(o) \/ CompleteRefund(o)
    PROVE  /\ \A x \in Orders : x # o => status'[x] = status[x]
           /\ status[o] # "absent" => status'[o] # "absent"
           /\ status'[o] = "created" => status[o] = "created"
BY DEF Fulfils, FulfilOrder, FailOrder, CompleteRefund, TypeOK

LEMMA CheckoutJourney ==
    ASSUME TypeOK, Journey, NEW o \in Orders, QuoteFor(o) \/ CheckoutStep(o) \/ CheckoutDies(o)
    PROVE  Journey'
<1>1. CASE QuoteFor(o)
  BY <1>1 DEF QuoteFor, Journey, Free, TypeOK, provider
<1>2. CASE CreateOrder(o)
  BY <1>2 DEF CreateOrder, Journey, Free, TypeOK, provider
<1>3. CASE FulfilFree(o)
  <2>1. /\ UNCHANGED <<linked, gateway, desk, discounted>>
        /\ checkout' = [checkout EXCEPT ![o] = "answered"]
        /\ status[o] # "absent"
        /\ status[o] = "created" => desk[o] = "idle"
        /\ ~linked[o]
    BY <1>3 DEF FulfilFree, provider, Journey
  <2>2. Fulfils(o)
    BY <1>3, RequestFulfils
  <2> QED
    BY <2>1, <2>2, TransactionStatus, JourneyPast DEF TypeOK, Free
<1>4. CASE AskGateway(o)
  BY <1>4 DEF AskGateway, Journey, Free, TypeOK
<1>5. CASE FailCheckout(o)
  BY <1>5, JourneyPast DEF FailCheckout, Journey, Free, TypeOK, provider
<1>6. CASE LinkOrder(o)
  BY <1>6, JourneyPast DEF LinkOrder, Journey, Free, TypeOK, provider
<1>7. CASE CheckoutDies(o)
  BY <1>7, JourneyPast DEF CheckoutDies, Journey, Free, TypeOK, provider
<1> QED
  BY <1>1, <1>2, <1>3, <1>4, <1>5, <1>6, <1>7 DEF CheckoutStep

\* An order that is paid for, or asked to be refunded, is past its checkout.
LEMMA PastCheckout ==
    ASSUME TypeOK, Journey, NEW o \in Orders,
           status[o] \in {"failed", "paid", "refund_pending", "refunded"} \/ linked[o]
    PROVE  /\ checkout[o] \in {"answered", "dropped"}
           /\ status[o] # "absent"
           /\ linked[o] => checkout[o] = "answered"
BY DEF TypeOK, Journey, CheckoutSteps

LEMMA DeskJourney ==
    ASSUME TypeOK, Journey, NEW o \in Orders,
           ClaimRefund(o) \/ DeskStep(o) \/ LinkRefundFails(o) \/ DeskDies(o)
    PROVE  Journey'
<1>1. CASE ClaimRefund(o)
  BY <1>1, PastCheckout, JourneyPast DEF ClaimRefund, Free, TypeOK, provider
<1>2. CASE AskRefund(o)
  BY <1>2 DEF AskRefund, Journey, Free, TypeOK
<1>3. CASE LinkRefund(o) \/ LinkRefundFails(o) \/ DeskDies(o)
  BY <1>3 DEF LinkRefund, LinkRefundFails, DeskDies, Journey, Free, TypeOK, provider
<1>4. CASE RevertRefund(o)
  <2>1. CASE Revertible(o)
    <3>1. status[o] = "refund_pending" /\ status' = [status EXCEPT ![o] = "paid"]
      BY <1>4, <2>1 DEF RevertRefund, Revertible
    <3> QED
      BY <1>4, <3>1, PastCheckout, JourneyPast DEF RevertRefund, Free, TypeOK, provider
  <2>2. CASE ~Revertible(o)
    BY <1>4, <2>2 DEF RevertRefund, Journey, Free, TypeOK, provider
  <2> QED
    BY <2>1, <2>2
<1>5. CASE RefundDone(o)
  <2>1. CASE status[o] \in {"paid", "refund_pending"}
    BY <1>5, <2>1, PastCheckout, TransactionStatus, JourneyPast DEF RefundDone, Free, TypeOK, provider
  <2>2. CASE status[o] \notin {"paid", "refund_pending"}
    BY <1>5, <2>2 DEF RefundDone, CompleteRefund, Journey, Free, TypeOK, provider
  <2> QED
    BY <2>1, <2>2
<1> QED
  BY <1>1, <1>2, <1>3, <1>4, <1>5 DEF DeskStep

LEMMA WebhookJourney ==
    ASSUME TypeOK, Journey, NEW e \in events, HandleWebhook(e)
    PROVE  Journey'
<1>1. e.order \in Orders
  BY DEF TypeOK, Event
<1>2. /\ UNCHANGED <<linked, checkout, gateway, desk>>
      /\ \A o \in Orders : Free(o)' = Free(o)
      /\ \A o \in Orders : status[o] = "created" => desk[o] = "idle"
  BY DEF HandleWebhook, provider, Journey, Free
<1>3. CASE UNCHANGED <<status, ledger>>
  BY <1>2, <1>3 DEF Journey, Free
<1>4. \/ linked[e.order] /\ (Fulfils(e.order) \/ FailOrder(e.order))
      \/ CompleteRefund(e.order)
      \/ UNCHANGED <<status, ledger>>
  BY WebhookDoes DEF FindOrder, HandleWebhook, RightAmount, PaymentOf, Fulfils, Payment
<1>5. CASE linked[e.order] /\ (Fulfils(e.order) \/ FailOrder(e.order))
  <2>1. \A o \in Orders : o # e.order => status'[o] = status[o]
    BY <1>1, <1>5, TransactionStatus
  <2> QED
    BY <1>1, <1>2, <1>5, <2>1, PastCheckout, TransactionStatus, JourneyPast
<1>6. CASE CompleteRefund(e.order) /\ ~UNCHANGED <<status, ledger>>
  <2>1. status[e.order] \in {"paid", "refund_pending"}
    BY <1>6 DEF CompleteRefund
  <2> QED
    BY <1>1, <1>2, <1>6, <2>1, PastCheckout, TransactionStatus, JourneyPast
<1> QED
  BY <1>3, <1>4, <1>5, <1>6

LEMMA NextJourney == TypeOK /\ Journey /\ [Next]_vars => Journey'
<1> SUFFICES ASSUME TypeOK, Journey, [Next]_vars PROVE Journey'
  OBVIOUS
<1>1. CASE UNCHANGED vars \/ CheckReferral \/ ApplyReferral \/ NewYear
  BY <1>1 DEF vars, CheckReferral, ApplyReferral, NewYear, Journey, Free, provider
<1>2. ASSUME NEW o \in Orders, Verify(o)
      PROVE  Journey'
  <2>1. /\ linked[o] /\ Fulfils(o) /\ UNCHANGED <<linked, checkout, gateway, desk>>
        /\ \A x \in Orders : Free(x)' = Free(x)
        /\ status[o] = "created" => desk[o] = "idle"
    BY <1>2, RequestFulfils DEF Verify, provider, Journey, Free
  <2> QED
    BY <2>1, PastCheckout, TransactionStatus, JourneyPast
<1>3. ASSUME NEW o \in Orders, ProviderStep(o)
      PROVE  Journey'
  BY <1>3 DEF ProviderStep, Authorize, Capture, BadPayment, ProviderRefunds, PartialRefund, Journey,
              Free, PaidUp, TypeOK
<1> QED
  BY <1>1, <1>2, <1>3, CheckoutJourney, DeskJourney, WebhookJourney DEF Next, OrderStep

\* Only the provider's actions concern Witnessed; its captures and refunds are never undone.
LEMMA NextWitnessed == TypeOK /\ Journey /\ Witnessed /\ [Next]_vars => Witnessed'
<1> SUFFICES ASSUME TypeOK, Journey, Witnessed, [Next]_vars PROVE Witnessed'
  OBVIOUS
<1>1. CASE UNCHANGED <<gateway, events, desk, discounted>>
  BY <1>1 DEF Witnessed, Free
<1>6. ASSUME NEW o \in Orders, QuoteFor(o)
      PROVE  Witnessed'
  <2>1. /\ desk[o] = "idle" /\ UNCHANGED <<events, desk, gateway>>
        /\ \A x \in Orders : x # o => discounted'[x] = discounted[x]
    BY <1>6 DEF QuoteFor, provider, Journey, TypeOK
  <2> QED
    BY <2>1 DEF Witnessed, PaidUp, Free
<1>2. ASSUME NEW o \in Orders, AskGateway(o)
      PROVE  Witnessed'
  <2>1. /\ gateway[o] = "none" /\ UNCHANGED <<events, desk, discounted>>
        /\ \A x \in Orders : x # o => gateway'[x] = gateway[x]
    BY <1>2 DEF AskGateway, Journey, Free, TypeOK
  <2>2. \A e \in events : e.order \in Orders
    BY DEF TypeOK, Event
  <2> QED
    BY <2>1, <2>2 DEF Witnessed, PaidUp, Free
<1>3. ASSUME NEW o \in Orders, ClaimRefund(o) \/ LinkRefund(o) \/ LinkRefundFails(o)
                                  \/ RevertRefund(o) \/ RefundDone(o) \/ DeskDies(o)
      PROVE  Witnessed'
  BY <1>3 DEF ClaimRefund, LinkRefund, LinkRefundFails, RevertRefund, RefundDone, DeskDies,
              Witnessed, Free, TypeOK, provider
<1>4. ASSUME NEW o \in Orders, AskRefund(o)
      PROVE  Witnessed'
  <2>1. \A e \in events : e.order \in Orders
    BY DEF TypeOK, Event
  <2>2. CASE desk'[o] = "linkProcessed"
    <3>1. /\ gateway' = [gateway EXCEPT ![o] = "refunded"]
          /\ events' = events \cup {Refunded(o)}
          /\ \A x \in Orders : x # o => desk'[x] = desk[x]
          /\ UNCHANGED discounted
      BY <1>4, <2>2 DEF AskRefund, Refundable, TypeOK
    <3>2. /\ gateway'[o] = "refunded"
          /\ \A x \in Orders : x # o => gateway'[x] = gateway[x]
      BY <3>1 DEF TypeOK
    <3>3. Refunded(o).kind = "refund" /\ Refunded(o).order = o
      BY DEF Refunded
    <3> QED
      BY <2>1, <3>1, <3>2, <3>3 DEF Witnessed, PaidUp, Free
  <2>3. CASE desk'[o] # "linkProcessed"
    <3>1. /\ events' = events /\ UNCHANGED discounted
          /\ \A x \in Orders : x # o => gateway'[x] = gateway[x] /\ desk'[x] = desk[x]
          /\ desk'[o] \in {"linkPending", "revert"}
          /\ gateway'[o] = gateway[o] \/ (gateway[o] = "captured" /\ gateway'[o] = "refunding")
      BY <1>4, <2>3 DEF AskRefund, Refundable, TypeOK
    <3> QED
      BY <2>1, <3>1 DEF Witnessed, PaidUp, Free
  <2> QED
    BY <2>2, <2>3
<1>5. ASSUME NEW o \in Orders, ProviderStep(o)
      PROVE  Witnessed'
  <2>1. CASE Authorize(o) \/ Capture(o)
    BY <1>5, <2>1 DEF Authorize, Capture, Witnessed, PaidUp, Free, TypeOK, Event, Captured
  <2>2. CASE BadPayment(o)
    BY <1>5, <2>2 DEF BadPayment, Witnessed, PaidUp, Free, TypeOK, Event
  <2>3. CASE ProviderRefunds(o)
    BY <1>5, <2>3 DEF ProviderRefunds, Witnessed, PaidUp, Free, TypeOK, Event, Refunded
  <2>4. CASE PartialRefund(o)
    BY <1>5, <2>4 DEF PartialRefund, Witnessed, PaidUp, Free, TypeOK, Event
  <2> QED
    BY <1>5, <2>1, <2>2, <2>3, <2>4 DEF ProviderStep
<1> QED
  BY <1>1, <1>2, <1>3, <1>4, <1>5, <1>6
     DEF Next, OrderStep, CheckoutStep, DeskStep, CreateOrder, FulfilFree, FailCheckout,
         LinkOrder, CheckoutDies, Verify, HandleWebhook, CheckReferral, ApplyReferral, NewYear,
         vars, provider

LEMMA JourneyInvariant == Spec => [](Journey /\ Witnessed)
<1>1. Init => Journey /\ Witnessed
  BY DEF Init, Journey, Witnessed
<1>2. QED
  BY <1>1, TypeCorrect, NextJourney, NextWitnessed, PTL DEF Spec

-----------------------------------------------------------------------------
(***************************************************************************)
(* What a step may do to an order and its effects.                         *)
(***************************************************************************)

Moves(o, from, to) ==
    status[o] = from /\ status' = [status EXCEPT ![o] = to] /\ UNCHANGED ledger

Effect(o) ==
    \/ Moves(o, "absent", "created")
    \/ Moves(o, "created", "failed")
    \/ Moves(o, "paid", "refund_pending")
    \/ Moves(o, "refund_pending", "paid")
    \/ Payable(o) /\ Fulfils(o)
    \/ status[o] \in {"paid", "refund_pending"} /\ CompleteRefund(o)

NoEffect ==
    /\ UNCHANGED <<status, access, docs, counter, uses, rewards>>
    /\ referral' = referral \/ (referral = "none" /\ referral' = "applied")

LEMMA TransactionEffect ==
    ASSUME NEW o \in Orders, Fulfils(o) \/ FailOrder(o) \/ CompleteRefund(o)
    PROVE  Effect(o) \/ NoEffect
BY DEF Fulfils, FulfilOrder, FailOrder, CompleteRefund, Effect, Moves, NoEffect, ledger

LEMMA StepEffect ==
    ASSUME TypeOK, Journey, [Next]_vars
    PROVE  (\E o \in Orders : Effect(o)) \/ NoEffect
<1>1. CASE UNCHANGED <<status, ledger>>
  BY <1>1 DEF NoEffect, ledger
<1>2. CASE ApplyReferral
  BY <1>2 DEF ApplyReferral, NoEffect, ledger
<1>3. ASSUME NEW o \in Orders, CreateOrder(o) \/ FailCheckout(o) \/ ClaimRefund(o)
      PROVE  Effect(o)
  BY <1>3 DEF CreateOrder, FailCheckout, ClaimRefund, Effect, Moves, Journey
<1>4. ASSUME NEW o \in Orders, RevertRefund(o)
      PROVE  Effect(o) \/ NoEffect
  BY <1>4 DEF RevertRefund, Revertible, Effect, Moves, NoEffect, ledger
<1>5. ASSUME NEW o \in Orders, FulfilFree(o) \/ Verify(o) \/ RefundDone(o)
      PROVE  Effect(o) \/ NoEffect
  BY <1>5, RequestFulfils, TransactionEffect DEF RefundDone
<1>6. ASSUME NEW e \in events, HandleWebhook(e), ~UNCHANGED <<status, ledger>>
      PROVE  Effect(e.order) \/ NoEffect
  BY <1>6, WebhookDoes, TransactionEffect DEF TypeOK, Event
<1>7. \A e \in events : e.order \in Orders
  BY DEF TypeOK, Event
<1> QED
  BY <1>1, <1>2, <1>3, <1>4, <1>5, <1>6, <1>7
     DEF Next, OrderStep, CheckoutStep, DeskStep, ProviderStep, QuoteFor, AskGateway, LinkOrder,
         CheckoutDies, AskRefund, LinkRefund, LinkRefundFails, DeskDies, Authorize, Capture,
         BadPayment, ProviderRefunds, PartialRefund, CheckReferral, NewYear, vars

-----------------------------------------------------------------------------
(***************************************************************************)
(* An order and its effects.                                               *)
(***************************************************************************)

\* A document that was issued is one, and the others stay as they were.
LEMMA IssueDocuments ==
    ASSUME TypeOK, NEW k \in DocKinds, NEW o \in Orders, Issue(k, o)
    PROVE  \A j \in DocKinds, x \in Orders :
             (docs'[j][x] # NoDoc) <=> (docs[j][x] # NoDoc \/ (j = k /\ x = o))
<1>1. /\ docs'[k][o] = [year |-> year, seq |-> counter[k][year] + 1]
      /\ \A j \in DocKinds, x \in Orders : j # k \/ x # o => docs'[j][x] = docs[j][x]
  BY IssueChanges
<1>2. docs'[k][o].year = year /\ NoDoc.year = 0 /\ year # 0
  BY <1>1, LimitsAssumption DEF NoDoc, TypeOK
<1>3. docs'[k][o] # NoDoc
  BY <1>2
<1> QED
  BY <1>1, <1>3

\* What Effect does, in the terms of EffectsMatch.
LEMMA PayEffects ==
    ASSUME TypeOK, NEW o \in Orders, Payable(o), Fulfils(o)
    PROVE  /\ status' = [status EXCEPT ![o] = "paid"]
           /\ access' = [access EXCEPT ![o] = "active"]
           /\ Invoiced' = Invoiced \cup {o}
           /\ Credited' = Credited
<1>1. "invoice" \in DocKinds /\ "credit_note" \in DocKinds /\ "invoice" # "credit_note"
  BY DEF DocKinds
<1>2. Issue("invoice", o)
  BY DEF Fulfils, FulfilOrder
<1>3. Invoiced' = Invoiced \cup {o} /\ Credited' = Credited
  BY <1>1, <1>2, IssueDocuments DEF Invoiced, Credited
<1> QED
  BY <1>3 DEF Fulfils, FulfilOrder

LEMMA RefundEffects ==
    ASSUME TypeOK, EffectsMatch, NEW o \in Orders,
           status[o] \in {"paid", "refund_pending"}, CompleteRefund(o)
    PROVE  /\ status' = [status EXCEPT ![o] = "refunded"]
           /\ access' = [access EXCEPT ![o] = "revoked"]
           /\ Invoiced' = Invoiced
           /\ Credited' = Credited \cup {o}
<1>1. "invoice" \in DocKinds /\ "credit_note" \in DocKinds /\ "invoice" # "credit_note"
  BY DEF DocKinds
<1>2. o \in Invoiced /\ access[o] = "active"
  BY DEF EffectsMatch, Counted
<1>3. Issue("credit_note", o)
  BY <1>2 DEF CompleteRefund, Invoiced
<1>4. Invoiced' = Invoiced /\ Credited' = Credited \cup {o}
  BY <1>1, <1>3, IssueDocuments DEF Invoiced, Credited
<1> QED
  BY <1>2, <1>4 DEF CompleteRefund, RevokeAccess

LEMMA SameDocuments ==
    ASSUME UNCHANGED docs
    PROVE  Invoiced' = Invoiced /\ Credited' = Credited
BY DEF Invoiced, Credited

LEMMA NextEffects == TypeOK /\ Journey /\ EffectsMatch /\ [Next]_vars => EffectsMatch'
<1> SUFFICES ASSUME TypeOK, Journey, EffectsMatch, [Next]_vars PROVE EffectsMatch'
  OBVIOUS
<1>1. CASE NoEffect
  BY <1>1, SameDocuments DEF NoEffect, EffectsMatch
<1>2. ASSUME NEW o \in Orders, NEW from, NEW to, Moves(o, from, to),
             <<from, to>> \in {<<"absent", "created">>, <<"created", "failed">>,
                              <<"paid", "refund_pending">>, <<"refund_pending", "paid">>}
      PROVE  EffectsMatch'
  <2>1. status' = [status EXCEPT ![o] = to] /\ access' = access /\ status[o] = from
    BY <1>2 DEF Moves, ledger
  <2>2. Invoiced' = Invoiced /\ Credited' = Credited
    BY <1>2, SameDocuments DEF Moves, ledger
  <2> QED
    BY <1>2, <2>1, <2>2 DEF EffectsMatch, TypeOK, Counted
<1>3. ASSUME NEW o \in Orders, Payable(o), Fulfils(o)
      PROVE  EffectsMatch'
  <2>1. status[o] \in {"created", "failed"}
    BY <1>3 DEF Payable
  <2> QED
    BY <1>3, <2>1, PayEffects DEF EffectsMatch, TypeOK, Counted
<1>4. ASSUME NEW o \in Orders, status[o] \in {"paid", "refund_pending"}, CompleteRefund(o)
      PROVE  EffectsMatch'
  BY <1>4, RefundEffects DEF EffectsMatch, TypeOK, Counted
<1> QED
  BY <1>1, <1>2, <1>3, <1>4, StepEffect DEF Effect

LEMMA InitEffects == Init => EffectsMatch
BY DEF Init, EffectsMatch, Invoiced, Credited, Counted, DocKinds

\* An order, its entitlement, its invoice and its credit note always agree.
THEOREM EffectsInvariant == Spec => []EffectsMatch
BY InitEffects, TypeCorrect, JourneyInvariant, NextEffects, PTL DEF Spec

\* Every step of the payments model is a step of OrderLifecycle, or changes nothing of it.
LEMMA NextRefines ==
    TypeOK /\ Journey /\ EffectsMatch /\ [Next]_vars => [Lifecycle!Next]_Lifecycle!lifecycleVars
<1> SUFFICES ASSUME TypeOK, Journey, EffectsMatch, [Next]_vars
             PROVE  [Lifecycle!Next]_Lifecycle!lifecycleVars
  OBVIOUS
<1>1. CASE NoEffect
  BY <1>1, SameDocuments DEF NoEffect, Lifecycle!lifecycleVars
<1>2. ASSUME NEW o \in Orders, NEW from, NEW to, Moves(o, from, to)
      PROVE  Lifecycle!Move(o, from, to)
  BY <1>2, SameDocuments DEF Moves, ledger, Lifecycle!Move
<1>3. ASSUME NEW o \in Orders, Payable(o), Fulfils(o)
      PROVE  Lifecycle!Pay(o)
  BY <1>3, PayEffects DEF Payable, Lifecycle!Pay
<1>4. ASSUME NEW o \in Orders, status[o] \in {"paid", "refund_pending"}, CompleteRefund(o)
      PROVE  Lifecycle!Refund(o)
  BY <1>4, RefundEffects DEF Lifecycle!Refund
<1>5. ASSUME NEW o \in Orders, Effect(o)
      PROVE  Lifecycle!Next
  BY <1>2, <1>3, <1>4, <1>5
     DEF Effect, Lifecycle!Next, Lifecycle!Create, Lifecycle!AttemptFails, Lifecycle!AskRefund,
         Lifecycle!GiveUpRefund
<1> QED
  BY <1>1, <1>5, StepEffect

\* "Exactly once": however verify, the webhook's deliveries, refunds and deaths overlap, every
\* order behaves like OrderLifecycle.
THEOREM Implements == Spec => ImplementsLifecycle
<1>1. Init => Lifecycle!Init
  BY DEF Init, Lifecycle!Init, Invoiced, Credited, DocKinds
<1>2. QED
  BY <1>1, NextRefines, TypeCorrect, JourneyInvariant, EffectsInvariant, PTL
     DEF Spec, ImplementsLifecycle, Lifecycle!Spec

-----------------------------------------------------------------------------
(***************************************************************************)
(* Document numbers.                                                       *)
(***************************************************************************)

LEMMA IssueGapFree ==
    ASSUME TypeOK, GapFree, NEW k \in DocKinds, NEW o \in Orders,
           docs[k][o] = NoDoc, Issue(k, o)
    PROVE  GapFree'
<1>1. /\ docs'[k][o] = [year |-> year, seq |-> counter[k][year] + 1]
      /\ \A j \in DocKinds, x \in Orders : j # k \/ x # o => docs'[j][x] = docs[j][x]
      /\ counter'[k][year] = counter[k][year] + 1
      /\ \A j \in DocKinds, y \in 1..Years :
           j # k \/ y # year => counter'[j][y] = counter[j][y]
  BY IssueChanges
<1>2. /\ year \in 1..Years
      /\ \A j \in DocKinds, y \in 1..Years : counter[j][y] \in Nat
  <2>1. \A j \in DocKinds : counter[j] \in [1..Years -> Nat]
    BY DEF TypeOK
  <2> QED
    BY <2>1 DEF TypeOK
<1>3. docs[k][o].year = 0
  BY DEF NoDoc
<1> SUFFICES ASSUME NEW j \in DocKinds, NEW y \in 1..Years
             PROVE  /\ \A n \in 1..counter'[j][y] : \E x \in Orders : Carries(j, x, y, n)'
                    /\ \A x \in Orders : docs'[j][x].year = y => docs'[j][x].seq \in 1..counter'[j][y]
                    /\ \A x1, x2 \in Orders :
                         docs'[j][x1] = docs'[j][x2] /\ docs'[j][x1].year = y => x1 = x2
  BY DEF GapFree
<1>4. /\ \A n \in 1..counter[j][y] : \E x \in Orders : Carries(j, x, y, n)
      /\ \A x \in Orders : docs[j][x].year = y => docs[j][x].seq \in 1..counter[j][y]
      /\ \A x1, x2 \in Orders : docs[j][x1] = docs[j][x2] /\ docs[j][x1].year = y => x1 = x2
  BY DEF GapFree
<1>5. CASE j # k \/ y # year
  <2>1. /\ counter'[j][y] = counter[j][y]
        /\ \A x \in Orders : docs'[j][x].year = y => docs'[j][x] = docs[j][x]
        /\ \A x \in Orders : docs[j][x].year = y => docs'[j][x] = docs[j][x]
    BY <1>1, <1>2, <1>3, <1>5
  <2>2. \A n \in 1..counter[j][y], x \in Orders : Carries(j, x, y, n) => Carries(j, x, y, n)'
    BY <2>1 DEF Carries
  <2> QED
    BY <1>4, <2>1, <2>2
<1>6. CASE j = k /\ y = year
  <2> DEFINE c == counter[k][year]
  <2>1. c \in Nat /\ counter'[j][y] = c + 1 /\ counter[j][y] = c
    BY <1>1, <1>2, <1>6
  <2>2. docs'[j][o] = [year |-> y, seq |-> c + 1]
    BY <1>1, <1>6
  <2>3. \A x \in Orders : x # o => docs'[j][x] = docs[j][x]
    BY <1>1, <1>6
  <2>4. \A n \in 1..counter'[j][y] : \E x \in Orders : Carries(j, x, y, n)'
    <3> SUFFICES ASSUME NEW n \in 1..counter'[j][y]
                 PROVE  \E x \in Orders : docs'[j][x] = [year |-> y, seq |-> n]
      BY DEF Carries
    <3>1. CASE n = counter'[j][y]
      BY <2>1, <2>2, <3>1
    <3>2. CASE n # counter'[j][y]
      <4>1. n \in 1..counter[j][y]
        BY <2>1, <3>2
      <4>2. PICK x \in Orders : docs[j][x] = [year |-> y, seq |-> n]
        BY <1>4, <4>1 DEF Carries
      <4>3. x # o
        BY <1>2, <1>3, <1>6, <4>2
      <4> QED
        BY <2>3, <4>2, <4>3
    <3> QED
      BY <3>1, <3>2
  <2>5. \A x \in Orders : x # o /\ docs'[j][x].year = y => docs'[j][x].seq \in 1..c
    BY <1>4, <2>1, <2>3
  <2> QED
    BY <1>4, <2>1, <2>2, <2>3, <2>4, <2>5
<1> QED
  BY <1>5, <1>6

LEMMA NextGapFree ==
    TypeOK /\ Journey /\ EffectsMatch /\ GapFree /\ [Next]_vars => GapFree'
<1> SUFFICES ASSUME TypeOK, Journey, EffectsMatch, GapFree, [Next]_vars
             PROVE  GapFree'
  OBVIOUS
<1>1. CASE UNCHANGED <<docs, counter>>
  BY <1>1 DEF GapFree, Carries
<1>2. ASSUME NEW o \in Orders, Payable(o), Fulfils(o)
      PROVE  GapFree'
  <2>1. docs["invoice"][o] = NoDoc
    BY <1>2 DEF Payable, EffectsMatch, Counted, Invoiced
  <2> QED
    BY <1>2, <2>1, IssueGapFree DEF Fulfils, FulfilOrder, DocKinds
<1>3. ASSUME NEW o \in Orders, status[o] \in {"paid", "refund_pending"}, CompleteRefund(o)
      PROVE  GapFree'
  <2>1. docs["credit_note"][o] = NoDoc /\ docs["invoice"][o] # NoDoc
    BY <1>3 DEF EffectsMatch, Counted, Invoiced, Credited
  <2> QED
    BY <1>3, <2>1, IssueGapFree DEF CompleteRefund, DocKinds
<1> QED
  BY <1>1, <1>2, <1>3, StepEffect DEF Effect, NoEffect, Moves, ledger

\* Invoice and credit note numbers are gap-free and unique in each series and financial year.
THEOREM GapFreeInvariant == Spec => []GapFree
<1>1. Init => GapFree
  BY DEF Init, GapFree, NoDoc
<1>2. QED
  BY <1>1, TypeCorrect, JourneyInvariant, EffectsInvariant, NextGapFree, PTL DEF Spec

-----------------------------------------------------------------------------
(***************************************************************************)
(* The money.                                                              *)
(***************************************************************************)

\* The transactions leave the other orders alone, and say what they make of theirs.
LEMMA TransactionMoves ==
    ASSUME TypeOK, NEW o \in Orders
    PROVE  /\ Fulfils(o) => \A x \in Orders : ~Refunds(x) /\ (x # o => ~Pays(x))
           /\ FailOrder(o) => \A x \in Orders : ~Refunds(x) /\ ~Pays(x)
           /\ CompleteRefund(o) => \A x \in Orders : ~Pays(x) /\ (x # o => ~Refunds(x))
           /\ UNCHANGED status => \A x \in Orders : ~Refunds(x) /\ ~Pays(x)
  BY DEF Fulfils, FulfilOrder, FailOrder, CompleteRefund, Refunds, Pays, TypeOK, Counted

LEMMA NextMoney == TypeOK /\ Journey /\ Witnessed /\ [Next]_vars => MoneyMoves
<1> SUFFICES ASSUME TypeOK, Journey, Witnessed, [Next]_vars PROVE MoneyMoves
  OBVIOUS
<1>1. CASE UNCHANGED status
  BY <1>1 DEF MoneyMoves, Pays, Refunds
<1>2. ASSUME NEW o \in Orders, CreateOrder(o) \/ FailCheckout(o) \/ ClaimRefund(o) \/ RevertRefund(o)
      PROVE  MoneyMoves
  <2>1. \A x \in Orders : ~Refunds(x) /\ ~Pays(x)
    BY <1>2 DEF CreateOrder, FailCheckout, ClaimRefund, RevertRefund, Revertible, TypeOK, Counted,
                Pays, Refunds
  <2> QED
    BY <2>1 DEF MoneyMoves
<1>3. ASSUME NEW o \in Orders, FulfilFree(o)
      PROVE  MoneyMoves
  <2>1. Free(o)
    BY <1>3 DEF FulfilFree, Journey
  <2> QED
    BY <1>3, <2>1, RequestFulfils, TransactionMoves DEF MoneyMoves
<1>4. ASSUME NEW o \in Orders, Verify(o)
      PROVE  MoneyMoves
  <2>1. Pays(o) => UNCHANGED handled /\ Signed(o, paidBy'[o])
    BY <1>4 DEF Verify, FulfilOrder, Pays, Payment, TypeOK
  <2> QED
    BY <1>4, <2>1, RequestFulfils, TransactionMoves DEF MoneyMoves
<1>5. ASSUME NEW o \in Orders, RefundDone(o)
      PROVE  MoneyMoves
  <2>1. CompleteRefund(o) /\ (~Free(o) => gateway[o] = "refunded")
    BY <1>5 DEF RefundDone, Witnessed
  <2> QED
    BY <2>1, TransactionMoves DEF MoneyMoves
<1>6. ASSUME NEW e \in events, HandleWebhook(e)
      PROVE  MoneyMoves
  <2>1. e.order \in Orders
    BY DEF TypeOK, Event
  <2>2. /\ e.kind = "captured" /\ e.full => gateway[e.order] \in PaidUp
        /\ e.kind = "refund" /\ e.full => gateway[e.order] = "refunded"
    BY DEF Witnessed
  <2> QED
    BY <1>1, <1>6, <2>1, <2>2, WebhookDoes, TransactionMoves DEF MoneyMoves
<1> QED
  BY <1>1, <1>2, <1>3, <1>4, <1>5, <1>6
     DEF Next, OrderStep, CheckoutStep, DeskStep, ProviderStep, QuoteFor, AskGateway, LinkOrder,
         CheckoutDies, AskRefund, LinkRefund, LinkRefundFails, DeskDies, Authorize, Capture,
         BadPayment, ProviderRefunds, PartialRefund, CheckReferral, ApplyReferral, NewYear, vars

\* Who makes an order paid has the provider's word: a webhook, that the whole amount was captured;
\* verify, a signature, which says less; and who makes it refunded knows the money is back.
THEOREM MoneyInvariant == Spec => MoneyBacked
BY TypeCorrect, JourneyInvariant, NextMoney, PTL DEF Spec, MoneyBacked

-----------------------------------------------------------------------------
(***************************************************************************)
(* The referral reward.                                                    *)
(***************************************************************************)

\* Whether an order is free is settled by its quote.
LEMMA FreeKept ==
    ASSUME TypeOK, Journey, [Next]_vars
    PROVE  \A x \in Orders : status[x] # "absent" => (Free(x) <=> Free(x)')
<1>1. CASE UNCHANGED discounted
  BY <1>1 DEF Free
<1>2. ASSUME NEW o \in Orders, QuoteFor(o)
      PROVE  \A x \in Orders : status[x] # "absent" => (Free(x) <=> Free(x)')
  <2>1. status[o] = "absent" /\ \A x \in Orders : x # o => discounted'[x] = discounted[x]
    BY <1>2 DEF QuoteFor, Journey, TypeOK
  <2> QED
    BY <2>1 DEF Free
<1> QED
  BY <1>1, <1>2
     DEF Next, OrderStep, CheckoutStep, DeskStep, ProviderStep, CreateOrder, FulfilFree, AskGateway,
         FailCheckout, LinkOrder, CheckoutDies, Verify, HandleWebhook, ClaimRefund, AskRefund,
         LinkRefund, LinkRefundFails, RevertRefund, RefundDone, DeskDies, Authorize, Capture,
         BadPayment, ProviderRefunds, PartialRefund, CheckReferral, ApplyReferral, NewYear, vars

LEMMA NextReward == TypeOK /\ Journey /\ OneReward /\ [Next]_vars => OneReward'
<1> SUFFICES ASSUME TypeOK, Journey, OneReward, [Next]_vars PROVE OneReward'
  OBVIOUS
<1>0. \A x \in Orders : status[x] \in Counted /\ ~Free(x) => ~Free(x)'
  BY FreeKept DEF Counted
<1>1. CASE NoEffect
  BY <1>0, <1>1 DEF NoEffect, OneReward
<1>2. ASSUME NEW o \in Orders, Effect(o)
      PROVE  \A x \in Orders : status[x] \in Counted => status'[x] \in Counted
  BY <1>2 DEF Effect, Moves, Fulfils, FulfilOrder, CompleteRefund, TypeOK, Counted
<1>3. ASSUME NEW o \in Orders, Payable(o), Fulfils(o)
      PROVE  OneReward'
  <2>1. CASE EarnsReward(o)
    <3>1. referral' = "rewarded" /\ rewards' = rewards + 1 /\ status' = [status EXCEPT ![o] = "paid"]
      BY <1>3, <2>1 DEF Fulfils, FulfilOrder, Reward
    <3> QED
      <4>1. ~Free(o)'
        BY <1>3, <2>1, FreeKept DEF EarnsReward, Payable
      <4> QED
        BY <2>1, <3>1, <4>1 DEF OneReward, EarnsReward, TypeOK, Counted
  <2>2. CASE ~EarnsReward(o)
    BY <1>0, <1>2, <1>3, <2>2 DEF Fulfils, FulfilOrder, Reward, OneReward, Effect
  <2> QED
    BY <2>1, <2>2
<1>4. ASSUME NEW o \in Orders, Effect(o), UNCHANGED <<referral, rewards>>
      PROVE  OneReward'
  BY <1>0, <1>2, <1>4 DEF OneReward
<1> QED
  BY <1>1, <1>3, <1>4, StepEffect DEF Effect, Moves, CompleteRefund, ledger

\* A referral is rewarded at most once, and only after a paid order.
THEOREM RewardInvariant == Spec => []OneReward
<1>1. Init => OneReward
  BY DEF Init, OneReward
<1>2. QED
  BY <1>1, TypeCorrect, JourneyInvariant, NextReward, PTL DEF Spec

-----------------------------------------------------------------------------
(***************************************************************************)
(* What module MCRules checks of prices on samples (PricesAddUp), for      *)
(* every price, every coupon that couponInputSchema lets through, every    *)
(* minimum and every rate of tax.                                          *)
(***************************************************************************)

\* The division of integers, in the form the proofs need it.
LEMMA Division ==
    ASSUME NEW n \in Int, NEW d \in Nat \ {0}
    PROVE  /\ n \div d \in Int
           /\ (n \div d) * d <= n
           /\ n < (n \div d) * d + d
  OBVIOUS

\* Rounding to the nearest (Math.round) is off by half a unit at most.
LEMMA RoundedNearest ==
    ASSUME NEW a \in Nat, NEW b \in Nat \ {0}
    PROVE  /\ Rounded(a, b) \in Nat
           /\ 2 * b * Rounded(a, b) <= 2 * a + b
           /\ 2 * a < 2 * b * Rounded(a, b) + b
  <1> DEFINE n == 2 * a + b
             d == 2 * b
  <1>1. n \in Nat /\ d \in Nat \ {0} /\ n >= 0
    OBVIOUS
  <1>2. Rounded(a, b) = n \div d
    BY DEF Rounded
  <1> HIDE DEF n, d
  <1>3. n \div d \in Int /\ (n \div d) * d <= n /\ n < (n \div d) * d + d
    BY <1>1, Division
  <1>4. PICK q \in Int : q = n \div d
    BY <1>3
  <1>5. q * d <= n /\ n < q * d + d
    BY <1>3, <1>4
  <1>6. q >= 0
    <2>1. SUFFICES ASSUME q <= -1 PROVE FALSE
      OBVIOUS
    <2>2. q * d <= -d
      BY <1>1, <2>1
    <2> QED
      BY <1>1, <1>5, <2>2
  <1>7. q * d = 2 * b * q
    BY DEF d
  <1> QED
    BY <1>2, <1>4, <1>5, <1>6, <1>7 DEF n, d
-----------------------------------------------------------------------------
\* A coupon takes off something between nothing and the price.
LEMMA DiscountBounds ==
    ASSUME NEW most \in Nat, NEW price \in Nat, NEW coupon \in {None} \cup Coupons(most)
    PROVE  Discount(price, coupon) \in Nat /\ Discount(price, coupon) <= price
  <1>1. CASE coupon = None
    BY <1>1 DEF Discount
  <1>2. CASE coupon # None /\ coupon \in [kind: {"percent"}, percent: 1..100]
    <2>1. coupon.kind = "percent" /\ coupon.percent \in Nat
      BY <1>2
    <2>2. price * coupon.percent \in Nat
      BY <2>1
    <2>3. Rounded(price * coupon.percent, 100) \in Nat
      BY <2>2, RoundedNearest
    <2> QED
      BY <1>2, <2>1, <2>3 DEF Discount, Smaller
  <1>3. CASE coupon # None /\ coupon \in [kind: {"flat"}, flatPaise: 1..most]
    <2>1. coupon.kind = "flat" /\ coupon.flatPaise \in Nat
      BY <1>3
    <2> QED
      BY <1>3, <2>1 DEF Discount, Smaller
  <1> QED
    BY <1>1, <1>2, <1>3 DEF Coupons

\* A percentage takes off its share of the price, to half a paisa.
LEMMA PercentIsFair ==
    ASSUME NEW price \in Nat, NEW coupon \in [kind: {"percent"}, percent: 1..100], coupon # None
    PROVE  /\ 200 * Discount(price, coupon) <= 2 * (price * coupon.percent) + 100
           /\ 2 * (price * coupon.percent) < 200 * Discount(price, coupon) + 100
  <1>1. coupon.kind = "percent" /\ coupon.percent \in 1..100
    OBVIOUS
  <1>2. PICK share \in Nat : share = price * coupon.percent
    BY <1>1
  <1>3. share <= 100 * price
    BY <1>1, <1>2
  <1>4. /\ Rounded(share, 100) \in Nat
        /\ 200 * Rounded(share, 100) <= 2 * share + 100
        /\ 2 * share < 200 * Rounded(share, 100) + 100
    <2>1. 100 \in Nat \ {0}
      OBVIOUS
    <2>2. /\ Rounded(share, 100) \in Nat
          /\ 2 * 100 * Rounded(share, 100) <= 2 * share + 100
          /\ 2 * share < 2 * 100 * Rounded(share, 100) + 100
      BY <1>2, <2>1, RoundedNearest
    <2>3. 2 * 100 * Rounded(share, 100) = 200 * Rounded(share, 100)
      BY <2>2
    <2> QED
      BY <2>2, <2>3
  <1>5. Rounded(share, 100) <= price
    BY <1>3, <1>4
  <1>6. Discount(price, coupon) = Rounded(share, 100)
    BY <1>1, <1>2, <1>4, <1>5 DEF Discount, Smaller
  <1> QED
    BY <1>2, <1>4, <1>6

\* What is paid and what is taken off make the price; the provider is asked for nothing or for its
\* minimum at least; and no more is taken off than the coupon says (priceWith), at every price the
\* plans allow.
THEOREM PriceSound ==
    ASSUME NEW most \in Nat, NEW MaxPrice \in Nat, NEW price \in Plans(MaxPrice),
           NEW coupon \in {None} \cup Coupons(most)
    PROVE  LET p == PriceWith(price, coupon)
           IN  /\ p.amountPaise \in Nat /\ p.discountPaise \in Nat
               /\ p.amountPaise + p.discountPaise = price
               /\ p.amountPaise = 0 \/ p.amountPaise >= MinPricePaise
               /\ p.discountPaise <= Discount(price, coupon)
  <1>1. price \in Nat /\ MinPricePaise \in Nat /\ price >= MinPricePaise
    BY PricingAssumption DEF Plans
  <1>2. Discount(price, coupon) \in Nat /\ Discount(price, coupon) <= price
    BY <1>1, DiscountBounds
  <1>3. PICK off \in Nat : off = Discount(price, coupon)
    BY <1>2
  <1>4. PriceWith(price, coupon) = [pricePaise |-> price, discountPaise |-> price - Charged(price, price - off),
                                    amountPaise |-> Charged(price, price - off)]
    BY <1>3 DEF PriceWith
  <1>5. /\ Charged(price, price - off) \in Nat
        /\ Charged(price, price - off) <= price
        /\ Charged(price, price - off) >= price - off
        /\ Charged(price, price - off) = 0 \/ Charged(price, price - off) >= MinPricePaise
    BY <1>1, <1>2, <1>3 DEF Charged, Smaller
  <1> QED
    BY <1>1, <1>2, <1>3, <1>4, <1>5

-----------------------------------------------------------------------------
\* The taxable value is a part of the amount.
LEMMA TaxableBounds ==
    ASSUME NEW amount \in Nat
    PROVE  /\ Taxable(amount) \in Nat
           /\ Taxable(amount) <= amount
  <1> DEFINE b == 100 + GstPercent
  <1>1. b \in Nat \ {0} /\ b >= 100
    BY PricingAssumption
  <1>2. amount * 100 \in Nat
    OBVIOUS
  <1>3. Taxable(amount) = Rounded(amount * 100, b)
    BY DEF Taxable
  <1> HIDE DEF b
  <1>4. PICK t \in Nat : t = Rounded(amount * 100, b) /\ 2 * b * t <= 2 * (amount * 100) + b
    BY <1>1, <1>2, RoundedNearest
  <1>5. t <= amount
    <2>1. SUFFICES ASSUME t >= amount + 1 PROVE FALSE
      OBVIOUS
    <2>2. b * t >= b * (amount + 1)
      BY <1>1, <2>1
    <2>3. b * (amount + 1) = b * amount + b
      BY <1>1
    <2>4. b * amount >= 100 * amount
      BY <1>1
    <2>5. 2 * b * t = 2 * (b * t)
      BY <1>1
    <2> QED
      BY <1>1, <1>4, <2>2, <2>3, <2>4, <2>5
  <1> QED
    BY <1>3, <1>4, <1>5

\* The parts of a GST invoice are none below nothing and make the amount, the state's half is the
\* centre's or one paisa more, and the taxable value is the exact one to half a paisa
\* (gstBreakup), whatever the rate.
THEOREM GstSound ==
    ASSUME NEW amount \in Nat, NEW interState \in BOOLEAN
    PROVE  LET g == GstBreakup(amount, interState)
           IN  /\ {g.taxable, g.cgst, g.sgst, g.igst} \subseteq Nat
               /\ g.taxable + g.cgst + g.sgst + g.igst = amount
               /\ g.sgst - g.cgst \in {0, 1}
               /\ 2 * (100 + GstPercent) * g.taxable <= 2 * (amount * 100) + (100 + GstPercent)
               /\ 2 * (amount * 100) < 2 * (100 + GstPercent) * g.taxable + (100 + GstPercent)
  <1> DEFINE g == GstBreakup(amount, interState)
             tax == amount - Taxable(amount)
  <1>1. Taxable(amount) \in Nat /\ Taxable(amount) <= amount /\ tax \in Nat
    BY TaxableBounds
  <1>2. g.taxable = Taxable(amount)
    BY DEF GstBreakup
  <1>3. /\ 2 * (100 + GstPercent) * Taxable(amount) <= 2 * (amount * 100) + (100 + GstPercent)
        /\ 2 * (amount * 100) < 2 * (100 + GstPercent) * Taxable(amount) + (100 + GstPercent)
    <2>1. 100 + GstPercent \in Nat \ {0} /\ amount * 100 \in Nat
      BY PricingAssumption
    <2> QED
      BY <2>1, RoundedNearest DEF Taxable
  <1>4. /\ {g.cgst, g.sgst, g.igst} \subseteq Nat
        /\ g.cgst + g.sgst + g.igst = tax
        /\ g.sgst - g.cgst \in {0, 1}
    <2>1. CASE interState
      BY <1>1, <2>1 DEF GstBreakup
    <2>2. CASE ~interState
      <3>1. PICK half \in Nat : half = tax \div 2 /\ tax - 2 * half \in {0, 1}
        BY <1>1
      <3>2. g.cgst = half /\ g.sgst = tax - half /\ g.igst = 0
        BY <2>2, <3>1 DEF GstBreakup, Halves
      <3> HIDE DEF g, tax
      <3> QED
        BY <1>1, <3>1, <3>2
    <2> QED
      BY <2>1, <2>2
  <1> HIDE DEF g
  <1>5. g.taxable + (g.cgst + g.sgst + g.igst) = amount
    BY <1>1, <1>2, <1>4
  <1>6. g.taxable + g.cgst + g.sgst + g.igst = amount
    BY <1>1, <1>2, <1>4, <1>5
  <1> QED
    BY <1>1, <1>2, <1>3, <1>4, <1>6 DEF g

LEMMA ChargeAddsUpAlways ==
    ASSUME NEW price \in PlanPrices, NEW coupon \in {None} \cup Coupons(MaxFlat)
    PROVE  ChargeAddsUp(price, coupon) /\ PriceWith(price, coupon).amountPaise \in Nat
  <1>1. PICK MaxPrice \in Nat : price \in Plans(MaxPrice)
    BY PricingAssumption, PricesAssumption DEF Plans
  <1>2. MaxFlat \in Nat
    BY PricesAssumption
  <1> QED
    BY <1>1, <1>2, PriceSound DEF ChargeAddsUp

LEMMA InvoiceAddsUpAlways ==
    ASSUME NEW amount \in Nat
    PROVE  InvoiceAddsUp(amount)
  <1>1. ASSUME NEW interState \in BOOLEAN
        PROVE  LET g == GstBreakup(amount, interState)
               IN  /\ g.taxable + g.cgst + g.sgst + g.igst = amount
                   /\ g.sgst - g.cgst \in {0, 1}
                   /\ 2 * (g.taxable * (100 + GstPercent) - 100 * amount) \in -(100 + GstPercent)..(100 + GstPercent)
    <2>1. PICK g : g = GstBreakup(amount, interState)
      OBVIOUS
    <2>2. /\ g.taxable \in Nat
          /\ g.taxable + g.cgst + g.sgst + g.igst = amount
          /\ g.sgst - g.cgst \in {0, 1}
          /\ 2 * (100 + GstPercent) * g.taxable <= 2 * (amount * 100) + (100 + GstPercent)
          /\ 2 * (amount * 100) < 2 * (100 + GstPercent) * g.taxable + (100 + GstPercent)
      BY <2>1, GstSound
    <2>3. PICK taxable \in Nat : taxable = g.taxable
      BY <2>2
    <2>4. PICK b \in Nat : b = 100 + GstPercent
      BY PricingAssumption
    <2>5. PICK part \in Nat : part = taxable * b /\ 2 * b * taxable = 2 * part
      <3>1. taxable * b \in Nat /\ 2 * b * taxable = 2 * (taxable * b)
        BY <2>3, <2>4
      <3> QED
        BY <3>1
    <2>6. 2 * (part - 100 * amount) \in -b..b
      BY <2>2, <2>3, <2>4, <2>5
    <2> QED
      BY <2>1, <2>2, <2>3, <2>4, <2>5, <2>6
  <1> QED
    BY <1>1 DEF InvoiceAddsUp

\* Prices add up (priceWith, gstBreakup) for every price a plan may have, every coupon that may be
\* issued, and whatever the rate and the provider's minimum are.
THEOREM PricesAddUpAlways == PriceSpec => []PricesAddUp
  <1> DEFINE Picked == case.area = "price" => case.price \in PlanPrices /\ case.coupon \in {None} \cup Coupons(MaxFlat)
  <1>1. case = NoCase("price") => Picked
    BY DEF NoCase
  <1>2. Picked /\ [PickPrice \/ Again]_case => Picked'
    <2>1. PickPrice => Picked'
      <3>1. ASSUME NEW price \in PlanPrices, NEW coupon \in {None} \cup Coupons(MaxFlat),
                   case' = [area |-> "price", price |-> price, coupon |-> coupon]
            PROVE  case'.price \in PlanPrices /\ case'.coupon \in {None} \cup Coupons(MaxFlat)
        BY <3>1
      <3> QED
        BY <3>1 DEF PickPrice
    <2>2. Again => Picked'
      BY DEF Again, NoCase
    <2> QED
      BY <2>1, <2>2
  <1>3. Picked => PricesAddUp
    BY ChargeAddsUpAlways, InvoiceAddsUpAlways DEF PricesAddUp
  <1> QED
    BY <1>1, <1>2, <1>3, PTL DEF PriceSpec

\* The financial year (financialYear) never goes back as months go by, and is the calendar year or
\* the one before.
THEOREM YearForward ==
    ASSUME NEW m1 \in Nat, NEW m2 \in Nat, m1 < m2, NEW l1 \in Nat, NEW l2 \in Nat
    PROVE  /\ FinancialYear([month |-> m1, left |-> l1]) <= FinancialYear([month |-> m2, left |-> l2])
           /\ FinancialYear([month |-> m1, left |-> 331]) \in {m1 \div 12 - 1, m1 \div 12}
  <1> DEFINE Year(m) == IF m % 12 >= 3 THEN m \div 12 ELSE m \div 12 - 1
  <1>1. \A m \in Nat : Year(m) = (m + 9) \div 12 - 1
    OBVIOUS
  <1>2. \A m, n \in Nat : m <= n => Year(m) <= Year(n)
    BY <1>1
  <1>3. \A m, l \in Nat : FinancialYear([month |-> m, left |-> l]) = IF l <= 330 THEN Year(m + 1) ELSE Year(m)
    BY DEF FinancialYear
  <1>4. \A m \in Nat : m + 1 \in Nat
    OBVIOUS
  <1>5. m1 + 1 <= m2
    OBVIOUS
  <1>6. Year(m1) <= Year(m1 + 1) /\ Year(m1 + 1) <= Year(m2) /\ Year(m2) <= Year(m2 + 1)
    BY <1>2, <1>4, <1>5
  <1>7. Year(m1) \in Int /\ Year(m2) \in Int /\ Year(m1 + 1) \in Int /\ Year(m2 + 1) \in Int
    OBVIOUS
  <1>8. Year(m1) \in {m1 \div 12 - 1, m1 \div 12}
    OBVIOUS
  <1> HIDE DEF Year
  <1> QED
    BY <1>3, <1>6, <1>7, <1>8
=============================================================================

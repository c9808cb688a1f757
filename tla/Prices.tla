-------------------------------- MODULE Prices --------------------------------
(***************************************************************************)
(* What the arithmetic of checkout promises for a price and a coupon.      *)
(***************************************************************************)
EXTENDS Pricing

CONSTANTS
    PlanPrices,  \* the prices of plans
    MaxFlat      \* bound: the most that a coupon takes off
ASSUME PricesAssumption == PlanPrices \subseteq {p \in Nat : p >= MinPricePaise} /\ MaxFlat \in Nat

PickPrice ==
    /\ case = NoCase("price")
    /\ \E price \in PlanPrices, coupon \in {None} \cup Coupons(MaxFlat) :
           /\ case' = [area |-> "price", price |-> price, coupon |-> coupon]
PriceSpec == case = NoCase("price") /\ [][PickPrice \/ Again]_case

\* What is paid and what is taken off make the price; the provider is asked for nothing or for at
\* least its minimum; and the coupon never takes off more than it says.
ChargeAddsUp(price, coupon) ==
    LET p == PriceWith(price, coupon)
    IN  /\ p.amountPaise + p.discountPaise = price
        /\ p.amountPaise = 0 \/ p.amountPaise >= MinPricePaise
        /\ 0 <= p.discountPaise /\ p.discountPaise <= Discount(price, coupon)
\* The parts of the GST invoice make the amount, the state's half is the centre's or one paisa
\* more, and the taxable value is within half a paisa of the exact one.
InvoiceAddsUp(amount) ==
    \A interState \in BOOLEAN :
        LET g == GstBreakup(amount, interState)
        IN  /\ g.taxable + g.cgst + g.sgst + g.igst = amount
            /\ g.sgst - g.cgst \in {0, 1}
            /\ 2 * (g.taxable * (100 + GstPercent) - 100 * amount) \in -(100 + GstPercent)..(100 + GstPercent)

\* Prices add up (priceWith, gstBreakup): what a student is charged for a plan with a coupon, and
\* the invoice of it.
PricesAddUp ==
    case.area = "price" =>
        ChargeAddsUp(case.price, case.coupon) /\ InvoiceAddsUp(PriceWith(case.price, case.coupon).amountPaise)
=============================================================================

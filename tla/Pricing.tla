------------------------------- MODULE Pricing -------------------------------
(***************************************************************************)
(* The arithmetic of checkout (packages/core/src/payments.ts): what a      *)
(* coupon takes off, the minimum charge, the GST inside an amount, and the *)
(* financial year an invoice is numbered in.  Amounts are in paise.        *)
(***************************************************************************)
EXTENDS Cases, Integers

CONSTANTS
    GstPercent,     \* GST_PERCENT
    MinPricePaise   \* MIN_PRICE_PAISE, the provider's minimum

ASSUME PricingAssumption == GstPercent \in Nat /\ MinPricePaise \in Nat

Smaller(a, b) == IF a <= b THEN a ELSE b
\* Math.round(a / b), halves up, for naturals.
Rounded(a, b) == (2 * a + b) \div (2 * b)

\* planInputSchema, couponInputSchema: the field of its kind is there.
Plans(MaxPrice) == MinPricePaise..MaxPrice
Coupons(MaxFlat) ==
    [kind: {"percent"}, percent: 1..100] \cup [kind: {"flat"}, flatPaise: 1..MaxFlat]

Discount(price, coupon) ==
    IF coupon = None THEN 0
    ELSE Smaller(price, IF coupon.kind = "percent" THEN Rounded(price * coupon.percent, 100) ELSE coupon.flatPaise)

\* Mutant: a small rest is waived.
Waived(price, rest) == IF rest < MinPricePaise THEN 0 ELSE rest
\* Nothing, or the minimum at least (or the price, when that is less).
Charged(price, rest) ==
    IF 0 < rest /\ rest < MinPricePaise THEN Smaller(MinPricePaise, price) ELSE rest

PriceWith(price, coupon) ==
    LET amount == Charged(price, price - Discount(price, coupon))
    IN  [pricePaise |-> price, discountPaise |-> price - amount, amountPaise |-> amount]

\* GST-inclusive: the tax is what the taxable value leaves.
Taxable(amount) == Rounded(amount * 100, 100 + GstPercent)
Halves(tax) == [cgst |-> tax \div 2, sgst |-> tax - (tax \div 2)]
GstBreakup(amount, interState) ==
    LET tax == amount - Taxable(amount)
    IN  IF interState THEN [taxable |-> Taxable(amount), cgst |-> 0, sgst |-> 0, igst |-> tax]
        ELSE [taxable |-> Taxable(amount), cgst |-> Halves(tax).cgst, sgst |-> Halves(tax).sgst, igst |-> 0]

\* April to March by the Indian clock, 330 minutes ahead of UTC: the year it began in. A date is
\* its month (12 * year + month, January 0) and its minutes left until the next one in UTC.
FinancialYear(date) ==
    LET month == IF date.left <= 330 THEN date.month + 1 ELSE date.month
    IN  IF month % 12 >= 3 THEN month \div 12 ELSE month \div 12 - 1

\* couponProblem: may this student use the coupon for this plan now?
CouponFits(coupon, ctx) ==
    /\ coupon.active
    /\ coupon.expiresAt = None \/ coupon.expiresAt > ctx.now
    /\ coupon.owner \in {None, ctx.user}
    /\ coupon.plans = {} \/ ctx.plan \in coupon.plans
    /\ coupon.maxUses = None \/ coupon.uses < coupon.maxUses
    /\ ctx.usedByUser < coupon.perUserLimit
=============================================================================

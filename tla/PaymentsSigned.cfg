\* One order, paid by verify on the signature of a payment that is not captured, or of less.
CONSTANTS
    Orders = {o1}
    CouponIsFree = FALSE
    MaxUses = 0
    PerUserLimit = 0
    Years = 1
    Odd = {o1}
    Claimable = {}
    Dies = {}
SPECIFICATION Spec
INVARIANT PaidIsCaptured
CHECK_DEADLOCK FALSE

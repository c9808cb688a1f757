\* Two checkouts open at once, both with a coupon that may be used once.
CONSTANTS
    Orders = {o1, o2}
    CouponIsFree = FALSE
    MaxUses = 1
    PerUserLimit = 1
    Years = 1
    Odd = {}
    Claimable = {}
    Dies = {}
SPECIFICATION Spec
INVARIANT CouponWithinLimit
CHECK_DEADLOCK FALSE

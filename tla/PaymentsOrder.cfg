\* One order, refunded at the provider; its webhooks come in any order.
CONSTANTS
    Orders = {o1}
    CouponIsFree = FALSE
    MaxUses = 0
    PerUserLimit = 0
    Years = 1
    Odd = {o1}
    Claimable = {o1}
    Dies = {}
SPECIFICATION Spec
INVARIANT RefundedLocked
CHECK_DEADLOCK FALSE

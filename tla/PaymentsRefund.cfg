\* The refund request dies between its claim and the provider.
CONSTANTS
    Orders = {o1}
    CouponIsFree = FALSE
    MaxUses = 0
    PerUserLimit = 0
    Years = 1
    Odd = {}
    Claimable = {o1}
    Dies = {o1}
SPECIFICATION FairSpec
PROPERTY RefundSettles
CHECK_DEADLOCK FALSE

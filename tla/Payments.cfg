\* Two orders, at most one of them free; requests may die half way, and the financial year ends
\* once.  Both may be refunded at the provider, o1 also by an admin, and to o1 something odd may
\* happen once.
CONSTANTS
    Orders = {o1, o2}
    CouponIsFree = TRUE
    MaxUses = 1
    PerUserLimit = 1
    Years = 2
    Odd = {o1}
    Claimable = {o1}
    Dies = {o1, o2}
SPECIFICATION DeliverySpec
INVARIANTS EffectsMatch GapFree OneReward
PROPERTIES MoneyBacked ImplementsLifecycle CapturedUnlocks
\* Every order is placed once: all of them may end refunded.
CHECK_DEADLOCK FALSE

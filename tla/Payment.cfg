SPECIFICATION FairPaymentSpec
CONSTANTS
    basic = basic
    Subs = {1}
    Users = {u1}
    Plans = {basic}
    Interval <- IntervalMC
    Price <- PriceMC
    Pods = {p1}
    RowsVisible = TRUE
    MaxClock = 2
    MaxFaults = 0
    MaxPlanChanges = 0
    Hooks = {h1, h2, h3}
    Refunds = {r1}
    MaxCrashes = 1
INVARIANTS PaidWasCaptured DuplicateWasHandled
PROPERTIES CapturedIsCredited BillingSpec
CHECK_DEADLOCK FALSE

SPECIFICATION BillingSpec
CONSTANTS
    basic = basic
    pro = pro
    Subs = {1}
    Users = {u1}
    Plans = {basic, pro}
    Interval <- IntervalMC
    Price <- PriceMC
    Pods = {p1}
    RowsVisible = TRUE
    MaxClock = 0
    MaxFaults = 0
    MaxPlanChanges = 1
INVARIANTS InvoicedPlanIsGranted
CHECK_DEADLOCK FALSE

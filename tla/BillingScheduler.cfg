SPECIFICATION FairBillingSpec
CONSTANTS
    basic = basic
    pro = pro
    Subs = {1}
    Users = {u1}
    Plans = {basic, pro}
    Interval <- IntervalMC
    Price <- PriceMC
    Pods = {p1, p2}
    RowsVisible = FALSE
    MaxClock = 3
    MaxFaults = 0
    MaxPlanChanges = 0
PROPERTIES DueIsSettled
CHECK_DEADLOCK FALSE

SPECIFICATION Spec
CONSTANTS
    Instances = {p1}
    Roles = {"handler", "reconciler", "sync"}
    Specs = 2
    MaxBindings = 2
    Visibility = {FALSE}
    Budget <- BudgetPause
    MaxEvents = 1
INVARIANTS CancelledMeansDeprovisioned
CHECK_DEADLOCK FALSE

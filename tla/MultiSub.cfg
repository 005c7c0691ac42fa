SPECIFICATION Spec
CONSTANTS
    Instances = {p1, p2}
    Roles = {"handler", "reconciler", "sync"}
    Specs = 1
    MaxBindings = 2
    Visibility = {TRUE, FALSE}
    Budget <- BudgetOnce
    MaxEvents = 3
SYMMETRY PodSymmetry
INVARIANTS DeprovisionedIsGone TrackedUsers ActivatedMeansProvisioned
CHECK_DEADLOCK FALSE

SPECIFICATION FairSpec
CONSTANTS
    Instances = {p1}
    Roles = {"handler", "reconciler", "sync"}
    Specs = 1
    MaxBindings = 1
    Visibility = {FALSE}
    Budget <- Nothing
    MaxEvents = 0
PROPERTIES ActivationProvisions
CHECK_DEADLOCK FALSE

SPECIFICATION Spec
CONSTANTS
    Events = {1}
    EntityOf <- MCEntityOf
    SubjectOf <- MCSubjectOf
    NoEvent = NoEvent
    Malformed = {}
    Pods = {p1}
    MaxMessageRetries = 2
    MaxTimeouts = 1
    MaxCrashes = 0
    MaxDBErrors = 0
    MaxDLQErrors = 0
    MaxLateAcks = 0
    MaxDuplicates = 0
    MaxReplays = 0
    MaxDryRuns = 0
INVARIANTS NoSilentLoss
CHECK_DEADLOCK FALSE

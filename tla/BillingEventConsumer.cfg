SPECIFICATION FairSpec
CONSTANTS
    Events = {1}
    EntityOf <- MCEntityOf
    SubjectOf <- MCSubjectOf
    NoEvent = NoEvent
    Malformed = {}
    Pods = {p1, p2}
    MaxMessageRetries = 2
    MaxTimeouts = 1
    MaxCrashes = 1
    MaxDBErrors = 1
    MaxDLQErrors = 1
    MaxLateAcks = 1
    MaxDuplicates = 1
    MaxReplays = 1
    MaxDryRuns = 1
INVARIANTS AppliedAtMostOnce OneHandlerPerEvent UndisturbedNotLost
PROPERTIES EventuallySettled
CHECK_DEADLOCK FALSE

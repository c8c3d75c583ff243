SPECIFICATION CallSpec
CONSTANTS
    Slots = {s1, s2, s3}
    MaxConcurrent = 1
    Watched = {s1}
    Calls <- MCCalls
    Confs <- MCConfs
    Skews <- MCSkews
    MaxDelay = 5
INVARIANTS
    CallTypeOK
    TicketsMatch
    SuccessExplained
    DenialsExplained
PROPERTIES
    RefusedOnlyWhenFull
    AlwaysAnswered

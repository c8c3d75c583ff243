SPECIFICATION Spec
CONSTANTS
    Addrs = {a, b}
    MaxChanges = 2
    MaxErrors = 3
INVARIANTS
    TypeOK
    NeverStale
PROPERTIES
    Converges
    ClosedStops

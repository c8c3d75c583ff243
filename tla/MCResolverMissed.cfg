SPECIFICATION Spec
CONSTANTS
    Addrs = {a, b}
    MaxChanges = 2
    MaxErrors = 1
INVARIANT EveryChangeSeen

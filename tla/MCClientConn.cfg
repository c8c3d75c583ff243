SPECIFICATION Spec
CONSTANTS
    c1 = c1
    c2 = c2
    c3 = c3
    s1 = s1
    s2 = s2
    Callers = {c1, c2, c3}
    Services = {s1}
    ServiceOf <- SameService
    WithOption = {c1}
    Startup = Startup
    MaxDials = 2
    None = None
INVARIANTS
    OneLiveConn
PROPERTIES
    ReplacedOnlyWhenClosed
    CallsReturn

SPECIFICATION Spec
CONSTANTS
    c1 = c1
    c2 = c2
    c3 = c3
    s1 = s1
    s2 = s2
    Callers = {c1, c2, c3}
    Services = {s1, s2}
    ServiceOf <- TwoServices
    WithOption = {c1, c3}
    Startup = None
    MaxDials = 2
    None = None
INVARIANT DialsWithOwnOptions

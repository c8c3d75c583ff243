SPECIFICATION Spec
CONSTANTS
    Slots = {s1, s2, s3, s4}
    MaxConcurrent = 2
INVARIANT AtMostMaxConcurrent

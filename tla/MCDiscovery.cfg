SPECIFICATION DiscoverySpec
CONSTANTS
    i1 = i1
    i2 = i2
    i3 = i3
    k1 = k1
    k2 = k2
    Instances = {i1, i2, i3}
    Keys = {k1, k2}
    KeyOf <- MCKeyOf
    NoInstance = NoInstance
    MaxStarts = 2
    MaxFaults = 1
    Addrs = {k1, k2}
    MaxChanges = 2
    MaxErrors = 0
SYMMETRY MCSymmetry
INVARIANTS
    RegisteredOwns
    OrphanOnlyByFault
    
    ClientSeesServers
CHECK_DEADLOCK FALSE

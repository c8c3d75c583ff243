SPECIFICATION Spec
CONSTANTS
    MaxProcs = 2
    None = None
    Dir = Dir
    MaxEvents = 2
INVARIANTS
    TypeOK
    OneUnlessRaced
    ReachableUnlessRaced
    UpgradesReplaceNobody
    StaleOnlyAfterCut
PROPERTIES
    StopsWhenTold
CHECK_DEADLOCK FALSE

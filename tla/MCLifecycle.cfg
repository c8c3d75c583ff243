SPECIFICATION Spec
CONSTANTS
    Kinds <- MCKinds
    Configs <- MCConfigs
    Tasks = {t1, t2, t3}
INVARIANTS
    DrainedBeforeClose
    ClosedUnlessError
    PanicsExplained
    ServesWithStores
PROPERTIES
    ClosesInOrder
    NoNewWorkAfterClose
    ShutdownEnds
    ImplementsServiceLife
CHECK_DEADLOCK FALSE

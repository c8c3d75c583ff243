SPECIFICATION Spec
CONSTANTS
    Jobs = {j1, j2, j3}
    TimedJobs = {j3}
    SelfDoneJobs = {j3}
    Workers = {w1, w2}
    QueueLen = 2
    Callers = {closer, user}
    Closer = closer
    NoJob = NoJob
    NoWorker = NoWorker
INVARIANTS
    TypeOK
    JobsConserved
    CountExact
    ReleaseQuiesces
    ShutdownNeverPanics
PROPERTIES
    WaitAllSound
    JobsFinish
    ReleaseReturns
    ImplementsJobPool
CHECK_DEADLOCK FALSE

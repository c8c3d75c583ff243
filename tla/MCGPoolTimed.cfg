SPECIFICATION Spec
CONSTANTS
    Jobs = {j1, j2, j3}
    TimedJobs = {j3}
    SelfDoneJobs = {}
    Workers = {w1, w2}
    QueueLen = 2
    Callers = {closer, user}
    Closer = closer
    NoJob = NoJob
    NoWorker = NoWorker
PROPERTY WaitAllWaits
CHECK_DEADLOCK FALSE

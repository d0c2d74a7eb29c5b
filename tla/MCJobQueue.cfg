\* Crashing workers that report at most once.
SPECIFICATION FairSpec
CONSTANTS
    Job = {j1, j2}
    Worker = {w1, w2}
    NoWorker = NoWorker
    NoJob = NoJob
    MaxAttempts = 2
    MaxTime = 2
    Unreliable = TRUE
    Retry = FALSE
INVARIANTS
    OneWorkerPerJob
PROPERTIES
    RefinesLifecycle
    EveryJobSettles

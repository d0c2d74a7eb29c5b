\* Crashing workers that repeat a report whose answer was lost.
SPECIFICATION Spec
CONSTANTS
    Job = {j1, j2}
    Worker = {w1, w2, w3}
    NoWorker = NoWorker
    NoJob = NoJob
    MaxAttempts = 2
    MaxTime = 1
    Unreliable = TRUE
    Retry = TRUE
SYMMETRY QueueSymmetry
INVARIANTS
    AttemptsWithinLimit
    WorkersWithinAttempts

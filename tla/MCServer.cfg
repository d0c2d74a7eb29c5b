\* Two v1 calls, two account requests and a probe over one connection.
SPECIFICATION FairSpec
CONSTANTS
    V1Call = {v1, v2}
    AccountCall = {q1, q2}
    Probe = {r1}
    Nobody = Nobody
    MaxConns = 1
    MaxStatements = 1
\* The process ends.
CHECK_DEADLOCK FALSE
INVARIANTS
    CleanExitIsDrained
    NothingLeftOpen
PROPERTIES
    SignalEndsProcess
    ProbesAreAnswered
    StalledReaderSparesAccounts
    V1NeedsReadersOnly

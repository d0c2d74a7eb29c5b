\* Every operation, four requests, one address, one provider subject.
SPECIFICATION Spec
CONSTANTS
    Request = {r1, r2, r3, r4}
    Email = {e1}
    Subject = {s1}
    MaxConns = 3
    None = None
    Calls <- GoodCalls
SYMMETRY RequestSymmetry
INVARIANTS
    DeletedAccountsAreClosed
    LiveAccountsCanSignIn
    IdentitiesMatchAccounts
    DeleteAnswerIsFinal
    AnswersMatchTables
    SignoutEndsSession
    ConflictAnswersExplained
    NothingLeaks
    NoWaitCycle
PROPERTIES
    OnlyHoldersClose

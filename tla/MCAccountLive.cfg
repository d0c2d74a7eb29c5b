\* Two connections for three requests, any call: is every request answered,
\* and do the transactions amount to the registry's indivisible steps?
SPECIFICATION FairSpec
CONSTANTS
    Request = {r1, r2, r3}
    Email = {e1}
    Subject = {s1}
    MaxConns = 2
    None = None
    Calls <- AllCalls
INVARIANT AccountInv
PROPERTIES
    EveryRequestAnswered
    RefinesRegistry

------------------------------- MODULE Server --------------------------------
(***************************************************************************)
(* The process: run() of cmd/api/main.go with what it opens and closes,    *)
(* the listener, and the requests that share hunchStore.mu and the         *)
(* connection pool (internal/httpserver, internal/db).  net/http and       *)
(* pgxpool are external, modelled by how main.go and db.go use them.       *)
(***************************************************************************)
EXTENDS FiniteSets, Integers

CONSTANTS
    V1Call,         \* requests of /v1 that answer while they hold the mutex
    AccountCall,    \* requests of the account endpoints
    Probe,          \* requests of /readyz
    Nobody,
    MaxConns,       \* connections of the pool
    MaxStatements   \* bound on the statements of one account request

ASSUME ServerAssumption ==
    /\ Nobody \notin V1Call
    /\ V1Call \cap (AccountCall \cup Probe) = {}
    /\ AccountCall \cap Probe = {}
    /\ MaxConns \in Nat \ {0}
    /\ MaxStatements \in Nat \ {0}
    /\ IsFiniteSet(AccountCall \cup Probe)

VARIABLES
    phase,      \* where run() is
    signalled,  \* SIGINT or SIGTERM was received: ctx is done
    err,        \* the error run() is returning
    opened,     \* what a deferred call has still to close
    listener,   \* ListenAndServe
    request,    \* request -> what it is doing
    left,       \* request -> statements it has still to run
    mutex,      \* the holder of hunchStore.mu
    conns,      \* the requests that hold a connection
    refused     \* the closed pool has turned a request away

main == <<phase, signalled, err, opened>>
requests == <<request, left, mutex, conns, refused>>
vars == <<main, listener, requests>>

Query == AccountCall \cup Probe
Request == V1Call \cup Query

Phase == {"config", "telemetry", "database", "storage",
          "serving", "draining", "closing", "flushing", "exited"}
Activity == {"none", "arrived", "looking", "receiving", "found", "handling", "query", "answering"}

Open == {r \in Request : request[r] # "none"}
PoolIsOpen == phase \notin {"closing", "flushing", "exited"}

(* Every variable has its type.                                            *)
TypeOK ==
    /\ phase \in Phase
    /\ signalled \in BOOLEAN
    /\ err \in BOOLEAN
    /\ opened \subseteq {"telemetry", "pool"}
    /\ listener \in {"off", "up", "broken", "refused", "closed"}
    /\ request \in [Request -> Activity]
    /\ left \in [Request -> 0..MaxStatements]
    /\ mutex \in V1Call \cup {Nobody}
    /\ conns \subseteq Query
    /\ refused \in BOOLEAN

Init ==
    /\ phase = "config"
    /\ signalled = FALSE
    /\ err = FALSE
    /\ opened = {}
    /\ listener = "off"
    /\ request = [r \in Request |-> "none"]
    /\ left = [r \in Request |-> 0]
    /\ mutex = Nobody
    /\ conns = {}
    /\ refused = FALSE

-----------------------------------------------------------------------------
(* The first signal; NotifyContext swallows those that follow.             *)
Signal ==
    /\ phase # "exited"
    /\ ~signalled
    /\ signalled' = TRUE
    /\ UNCHANGED <<phase, err, opened, listener, requests>>

(* The start goes from one phase to the next, or returns the error through *)
(* the calls deferred so far.                                              *)
Start(from, to, resource) ==
    /\ phase = from
    /\ phase' = to
    /\ opened' = opened \cup resource
    /\ UNCHANGED <<signalled, err, listener, requests>>

Fail(from, to) ==
    /\ phase = from
    /\ phase' = to
    /\ err' = TRUE
    /\ UNCHANGED <<signalled, opened, listener, requests>>

LoadConfig == Start("config", "telemetry", {}) \/ Fail("config", "exited")

SetupTelemetry == Start("telemetry", "database", {"telemetry"}) \/ Fail("telemetry", "exited")

(* The ping of a pool just made runs under the signal's context; a pool    *)
(* that does not answer is closed by Open itself.                          *)
OpenDatabase ==
    \/ ~signalled /\ Start("database", "storage", {"pool"})
    \/ Fail("database", "flushing")

NewS3Store_Exits == Start("storage", "serving", {}) \/ Fail("storage", "exited")

NewS3Store == Start("storage", "serving", {}) \/ Fail("storage", "closing")

-----------------------------------------------------------------------------
(* ListenAndServe in its goroutine; errCh keeps its error.                 *)
Listen ==
    /\ phase = "serving"
    /\ listener = "off"
    /\ listener' \in {"up", "refused"}
    /\ UNCHANGED <<main, requests>>

AcceptFails ==
    /\ phase = "serving"
    /\ listener = "up"
    /\ listener' = "broken"
    /\ UNCHANGED <<main, requests>>

(* The two cases of the select; when both are ready either may be taken.   *)
StartShutdown ==
    /\ phase = "serving"
    /\ signalled
    /\ phase' = "draining"
    /\ listener' = "closed"
    /\ UNCHANGED <<signalled, err, opened, requests>>

ListenerStops == listener \in {"broken", "refused"} /\ Fail("serving", "closing")

-----------------------------------------------------------------------------
(* Shutdown returns once no request is open ...                            *)
Drained ==
    /\ phase = "draining"
    /\ Open = {}
    /\ phase' = "closing"
    /\ UNCHANGED <<signalled, err, opened, listener, requests>>

DeadlinePasses_Silently == Start("draining", "closing", {})

DeadlinePasses_Never == Open = {} /\ Fail("draining", "closing")

(* ... or after ten seconds, and then run() returns its error.             *)
DeadlinePasses == Fail("draining", "closing")

(* The deferred pool.Close waits for every connection, however long.       *)
ClosePool ==
    /\ phase = "closing"
    /\ conns = {}
    /\ phase' = "flushing"
    /\ opened' = opened \ {"pool"}
    /\ UNCHANGED <<signalled, err, listener, requests>>

(* The deferred flush of telemetry gives up after five seconds; with it    *)
(* run() returns and the process exits, whatever is still running.         *)
FlushTelemetry ==
    /\ phase = "flushing"
    /\ phase' = "exited"
    /\ opened' = opened \ {"telemetry"}
    /\ UNCHANGED <<signalled, err, listener, requests>>

Run ==
    \/ LoadConfig \/ SetupTelemetry \/ OpenDatabase \/ NewS3Store
    \/ StartShutdown \/ ListenerStops \/ Drained \/ DeadlinePasses
    \/ ClosePool \/ FlushTelemetry

-----------------------------------------------------------------------------
(* The statements a request will run.                                      *)
Statements(r) == IF r \in AccountCall THEN 1..MaxStatements ELSE IF r \in Probe THEN {1} ELSE {0}

Enter(r) ==
    /\ request' = [request EXCEPT ![r] = "arrived"]
    /\ \E n \in Statements(r) : left' = [left EXCEPT ![r] = n]

(* A request on a new connection, or on one kept alive although the        *)
(* listener broke; Shutdown lets no further one in.  Signing up and in     *)
(* reads a body before the first statement.                                *)
Arrive(r) ==
    /\ phase # "exited"
    /\ listener \in {"up", "broken"}
    /\ request[r] = "none"
    /\ \/ Enter(r)
       \/ r \in AccountCall /\ request' = [request EXCEPT ![r] = "receiving"] /\ UNCHANGED left
    /\ UNCHANGED <<main, listener, mutex, conns, refused>>

(* requireSession and then the handler take the mutex.                     *)
Lock(r) ==
    /\ phase # "exited"
    /\ mutex = Nobody
    /\ request[r] \in {"arrived", "found"}
    /\ mutex' = r
    /\ request' = [request EXCEPT ![r] = IF @ = "arrived" THEN "looking" ELSE "handling"]
    /\ UNCHANGED <<main, listener, left, conns, refused>>

Unlock_Missing(r) ==
    /\ phase # "exited"
    /\ request[r] = "looking"
    /\ \E a \in {"receiving", "found"} : request' = [request EXCEPT ![r] = a]
    /\ UNCHANGED <<main, listener, left, mutex, conns, refused>>

(* requireSession has the account and gives the mutex back; what has a     *)
(* body reads it before it takes the mutex again.                          *)
Unlock(r) ==
    /\ phase # "exited"
    /\ request[r] = "looking"
    /\ \E a \in {"receiving", "found"} : request' = [request EXCEPT ![r] = a]
    /\ mutex' = Nobody
    /\ UNCHANGED <<main, listener, left, conns, refused>>

(* The body is in, however late: the server has a timeout for headers      *)
(* only.  Or it is no good, and the few bytes of a 400 need no reader.     *)
ReceiveBody(r) ==
    /\ phase # "exited"
    /\ request[r] = "receiving"
    /\ \/ r \in V1Call /\ request' = [request EXCEPT ![r] = "found"] /\ UNCHANGED left
       \/ r \in AccountCall /\ Enter(r)
       \/ request' = [request EXCEPT ![r] = "none"] /\ UNCHANGED left
    /\ UNCHANGED <<main, listener, mutex, conns, refused>>

(* A statement or a transaction takes one connection of the pool.          *)
Acquire(r) ==
    /\ PoolIsOpen
    /\ Cardinality(conns) < MaxConns
    /\ request[r] = "arrived"
    /\ request' = [request EXCEPT ![r] = "query"]
    /\ conns' = conns \cup {r}
    /\ UNCHANGED <<main, listener, left, mutex, refused>>

PoolRefuses(r) ==
    /\ ~PoolIsOpen
    /\ phase # "exited"
    /\ request[r] = "arrived"
    /\ request' = [request EXCEPT ![r] = "answering"]
    /\ left' = [left EXCEPT ![r] = 0]
    /\ refused' = TRUE
    /\ UNCHANGED <<main, listener, mutex, conns>>

Return_Leaks(r) ==
    /\ phase # "exited"
    /\ request[r] = "query"
    /\ left' = [left EXCEPT ![r] = @ - 1]
    /\ request' = [request EXCEPT ![r] = IF left[r] > 1 THEN "arrived" ELSE "answering"]
    /\ UNCHANGED <<main, listener, mutex, conns, refused>>

(* The database answers: on to the next statement, or to the response.     *)
Return(r) ==
    /\ phase # "exited"
    /\ request[r] = "query"
    /\ conns' = conns \ {r}
    /\ left' = [left EXCEPT ![r] = @ - 1]
    /\ request' = [request EXCEPT ![r] = IF left[r] > 1 THEN "arrived" ELSE "answering"]
    /\ UNCHANGED <<main, listener, mutex, refused>>

ProbeTimesOut_Waiting(r) ==
    /\ phase # "exited"
    /\ request[r] = "arrived"
    /\ request' = [request EXCEPT ![r] = "answering"]
    /\ left' = [left EXCEPT ![r] = 0]
    /\ UNCHANGED <<main, listener, mutex, conns, refused>>

(* The ping of /readyz gives up after two seconds, waiting or under way.   *)
ProbeTimesOut(r) ==
    /\ phase # "exited"
    /\ request[r] \in {"arrived", "query"}
    /\ request' = [request EXCEPT ![r] = "answering"]
    /\ conns' = conns \ {r}
    /\ left' = [left EXCEPT ![r] = 0]
    /\ UNCHANGED <<main, listener, mutex, refused>>

(* The response is written: a v1 handler still holds the mutex, and unless *)
(* the response is small the client has to read it.                        *)
Answer(r) ==
    /\ phase # "exited"
    /\ request[r] \in {"handling", "answering"}
    /\ request' = [request EXCEPT ![r] = "none"]
    /\ mutex' = IF request[r] = "handling" THEN Nobody ELSE mutex
    /\ UNCHANGED <<main, listener, left, conns, refused>>

-----------------------------------------------------------------------------
Next ==
    \/ Signal \/ Run \/ Listen \/ AcceptFails
    \/ \E r \in Request : Arrive(r) \/ Answer(r)
    \/ \E r \in V1Call : Lock(r) \/ Unlock(r)
    \/ \E r \in V1Call \cup AccountCall : ReceiveBody(r)
    \/ \E r \in Query : Acquire(r) \/ PoolRefuses(r) \/ Return(r)
    \/ \E r \in Probe : ProbeTimesOut(r)

Spec == Init /\ [][Next]_vars

(* The goroutines run, timers fire, and neither the mutex nor the pool     *)
(* passes a waiter over for ever.  Nothing is assumed of the database and  *)
(* of clients; the few bytes a probe answers need no reader.               *)
Fairness ==
    /\ WF_vars(Run)
    /\ \A r \in V1Call : SF_vars(Lock(r)) /\ WF_vars(Unlock(r))
    /\ \A r \in Query : SF_vars(Acquire(r)) /\ WF_vars(PoolRefuses(r))
    /\ \A r \in Probe : WF_vars(ProbeTimesOut(r)) /\ WF_vars(Answer(r))

FairSpec == Spec /\ Fairness

DatabaseAnswers == \A r \in Query : WF_vars(Return(r))
ClientsRead(R) == \A r \in R : WF_vars(Answer(r))
ClientSends(r) == WF_vars(ReceiveBody(r))

-----------------------------------------------------------------------------
(* Exit status 0 means the stop was asked for and cut nobody off: every    *)
(* request had been answered, and none found the pool closed.              *)
CleanExitIsDrained ==
    phase = "exited" /\ ~err => signalled /\ Open = {} /\ ~refused

(* The process leaves no statement half way: whatever ended it, nobody     *)
(* holds a connection of a closed pool.                                    *)
NoStatementCut == phase \in {"flushing", "exited"} => conns = {}

(* Every way out, from each failed start on, closes what had been opened.  *)
NothingLeftOpen == phase = "exited" => opened = {}

(* The mutex has the holder the requests say it has: a v1 call never waits *)
(* for the mutex with the mutex.                                           *)
MutexHasItsHolder ==
    /\ \A r \in V1Call : mutex = r <=> request[r] \in {"looking", "handling"}
    /\ \A r \in Query : r \in conns <=> request[r] = "query"

(* A signal ends the process whatever clients do, as long as the database  *)
(* answers: pool.Close has no deadline of its own.                         *)
SignalEndsProcess == DatabaseAnswers => (signalled ~> phase = "exited")

(* Readiness is always answered, with no help from the database or from    *)
(* the clients of other requests.                                          *)
ProbesAreAnswered ==
    \A r \in Probe : request[r] # "none" ~> request[r] = "none" \/ phase = "exited"

(* A client that does not read its v1 response stalls /v1, which shares    *)
(* the mutex, but no account request: as long as the database answers,     *)
(* that depends on its own client only.                                    *)
StalledReaderSparesAccounts ==
    DatabaseAnswers =>
        \A r \in AccountCall :
            ClientSends(r) /\ ClientsRead({r}) =>
                (request[r] # "none" ~> request[r] = "none" \/ phase = "exited")

(* When clients read, every v1 call whose own client sends its body is     *)
(* answered, whatever the database does: the two critical sections of a    *)
(* call never block each other, and a body that never comes blocks nobody, *)
(* since it is awaited between them.                                       *)
V1NeedsReadersOnly ==
    ClientsRead(V1Call) =>
        \A r \in V1Call :
            ClientSends(r) =>
                (request[r] # "none" ~> request[r] = "none" \/ phase = "exited")
=============================================================================

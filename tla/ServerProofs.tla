---------------------------- MODULE ServerProofs ----------------------------
(* What is proved about Server for any number of requests, connections and *)
(* statements.                                                             *)
EXTENDS Server, TLAPS

-----------------------------------------------------------------------------
(* What each phase of run() still has to close, and the error it returns.  *)
PhaseInv ==
    /\ phase \in {"config", "telemetry", "exited"} => opened = {}
    /\ phase \in {"database", "flushing"} => opened = {"telemetry"}
    /\ phase \in {"storage", "serving", "draining", "closing"} => opened = {"telemetry", "pool"}
    /\ PoolIsOpen => ~err /\ ~refused

(* No request comes before the listener, and after a shutdown without an   *)
(* error none is left.                                                     *)
TrafficInv ==
    /\ phase \in {"config", "telemetry", "database", "storage"} => listener = "off"
    /\ listener \in {"off", "refused"} => Open = {}
    /\ phase \in {"draining", "closing", "flushing", "exited"} /\ ~err =>
          signalled /\ listener = "closed"
    /\ ~PoolIsOpen /\ ~err => Open = {} /\ ~refused

(* A request that waits for a connection or has one has a statement left;  *)
(* only v1 calls take the mutex.                                           *)
StatementInv ==
    \A r \in Query :
        /\ request[r] \in {"arrived", "query"} => left[r] > 0
        /\ request[r] \notin {"looking", "found", "handling"}

ServerInv ==
    /\ TypeOK /\ PhaseInv /\ TrafficInv /\ StatementInv
    /\ NoStatementCut /\ MutexHasItsHolder

(* A process that has just started.                                        *)
LEMMA ServerInvInit == Init => ServerInv
<1> USE ServerAssumption DEF Init, Request, Query
<1>1. Init => TypeOK
  <2>1. 0 \in 0..MaxStatements
    OBVIOUS
  <2> QED
    BY <2>1 DEF TypeOK, Phase, Activity
<1>3. Init => StatementInv /\ MutexHasItsHolder
  BY DEF StatementInv, MutexHasItsHolder
<1>2. Init => PhaseInv /\ TrafficInv /\ NoStatementCut
  BY DEF PhaseInv, TrafficInv, NoStatementCut, Open, PoolIsOpen
<1> QED
  BY <1>1, <1>2, <1>3 DEF ServerInv

-----------------------------------------------------------------------------
(* run(), the signal and the listener leave the requests alone.            *)
LEMMA RunStep == ServerInv /\ (Run \/ Signal \/ Listen \/ AcceptFails) => ServerInv'
<1> SUFFICES ASSUME ServerInv, Run \/ Signal \/ Listen \/ AcceptFails PROVE ServerInv'
  OBVIOUS
<1> USE DEF main, requests, PoolIsOpen
<1>1. UNCHANGED requests
  BY DEF Run, Signal, Listen, AcceptFails, LoadConfig, SetupTelemetry, OpenDatabase, NewS3Store,
         StartShutdown, ListenerStops, Drained, DeadlinePasses, ClosePool, FlushTelemetry, Start, Fail
<1>2. Open' = Open /\ StatementInv' /\ MutexHasItsHolder'
  BY <1>1 DEF ServerInv, Open, StatementInv, MutexHasItsHolder
<1>3. Open = {} => conns = {}
  BY DEF ServerInv, TypeOK, MutexHasItsHolder, Open, Request, Query
<1> SUFFICES TypeOK' /\ PhaseInv' /\ TrafficInv' /\ NoStatementCut'
  BY <1>2 DEF ServerInv
<1> TypeOK /\ PhaseInv /\ TrafficInv /\ NoStatementCut
  BY DEF ServerInv
<1> USE DEF TypeOK, PhaseInv, TrafficInv, NoStatementCut, Start, Fail, Phase
<1>4. CASE LoadConfig
  <2>1. CASE Start("config", "telemetry", {})
    BY <1>1, <1>2, <1>3, <2>1
  <2>2. CASE Fail("config", "exited")
    BY <1>1, <1>2, <1>3, <2>2
  <2> QED
    BY <1>4, <2>1, <2>2 DEF LoadConfig
<1>5. CASE SetupTelemetry
  <2>1. CASE Start("telemetry", "database", {"telemetry"})
    <3>1. opened' = {"telemetry"}
      BY <2>1
    <3> QED
      BY <1>1, <1>2, <1>3, <2>1, <3>1
  <2>2. CASE Fail("telemetry", "exited")
    BY <1>1, <1>2, <1>3, <2>2
  <2> QED
    BY <1>5, <2>1, <2>2 DEF SetupTelemetry
<1>6. CASE OpenDatabase
  <2>1. CASE Start("database", "storage", {"pool"})
    BY <1>1, <1>2, <1>3, <2>1
  <2>2. CASE Fail("database", "flushing")
    BY <1>1, <1>2, <1>3, <2>2
  <2> QED
    BY <1>6, <2>1, <2>2 DEF OpenDatabase
<1>7. CASE NewS3Store
  <2>1. CASE Start("storage", "serving", {})
    BY <1>1, <1>2, <1>3, <2>1
  <2>2. CASE Fail("storage", "closing")
    BY <1>1, <1>2, <1>3, <2>2
  <2> QED
    BY <1>7, <2>1, <2>2 DEF NewS3Store
<1>8. CASE StartShutdown
  BY <1>1, <1>2, <1>3, <1>8 DEF StartShutdown
<1>9. CASE ListenerStops
  BY <1>1, <1>2, <1>3, <1>9 DEF ListenerStops
<1>10. CASE Drained
  BY <1>1, <1>2, <1>3, <1>10 DEF Drained
<1>11. CASE DeadlinePasses
  BY <1>1, <1>2, <1>3, <1>11 DEF DeadlinePasses
<1>12. CASE ClosePool
  BY <1>1, <1>2, <1>3, <1>12 DEF ClosePool
<1>13. CASE FlushTelemetry
  BY <1>1, <1>2, <1>3, <1>13 DEF FlushTelemetry
<1>14. CASE Signal
  BY <1>1, <1>2, <1>3, <1>14 DEF Signal
<1>15. CASE Listen
  BY <1>1, <1>2, <1>3, <1>15 DEF Listen
<1>16. CASE AcceptFails
  BY <1>1, <1>2, <1>3, <1>16 DEF AcceptFails
<1> QED
  BY <1>4, <1>5, <1>6, <1>7, <1>8, <1>9, <1>10, <1>11, <1>12, <1>13, <1>14, <1>15, <1>16 DEF Run

(* What a request has to run once its body is in.                          *)
LEMMA EnterStep ==
  ASSUME TypeOK, NEW r \in Request, Enter(r)
  PROVE  /\ left' \in [Request -> 0..MaxStatements]
         /\ r \in Query => left'[r] > 0
         /\ \A q \in Request \ {r} : left'[q] = left[q]
<1>1. PICK n \in Statements(r) : left' = [left EXCEPT ![r] = n]
  BY DEF Enter
<1>2. n \in 0..MaxStatements /\ (r \in Query => n > 0)
  BY ServerAssumption DEF Statements, Query
<1> QED
  BY <1>1, <1>2 DEF TypeOK

(* A request moves one step; while one is open there is no clean exit.     *)
LEMMA RequestStep ==
  ASSUME ServerInv, NEW r \in Request,
         \/ Arrive(r) \/ Answer(r)
         \/ r \in V1Call /\ (Lock(r) \/ Unlock(r))
         \/ r \in V1Call \cup AccountCall /\ ReceiveBody(r)
         \/ r \in Query /\ (Acquire(r) \/ PoolRefuses(r) \/ Return(r))
         \/ r \in Probe /\ ProbeTimesOut(r)
  PROVE  ServerInv'
<1> USE ServerAssumption
    DEF ServerInv, TypeOK, PhaseInv, TrafficInv, StatementInv, NoStatementCut, MutexHasItsHolder,
        main, Open, PoolIsOpen, Phase, Activity, Query, Request
<1>1. CASE Arrive(r)
  <2>1. Enter(r) => /\ left' \in [Request -> 0..MaxStatements]
                    /\ r \in Query => left'[r] > 0
                    /\ \A q \in Request \ {r} : left'[q] = left[q]
    BY EnterStep
  <2>2. /\ left' \in [Request -> 0..MaxStatements]
        /\ \E a \in {"arrived", "receiving"} : request' = [request EXCEPT ![r] = a]
        /\ request'[r] = "arrived" /\ r \in Query => left'[r] > 0
        /\ request'[r] = "receiving" => r \in AccountCall
        /\ \A q \in Request \ {r} : left'[q] = left[q]
    BY <1>1, <2>1 DEF Arrive, Enter
  <2>4. TypeOK' /\ PhaseInv'
    BY <1>1, <2>2 DEF Arrive
  <2>5. TrafficInv' /\ NoStatementCut'
    BY <1>1 DEF Arrive
  <2>6. StatementInv' /\ MutexHasItsHolder'
    BY <1>1, <2>2 DEF Arrive
  <2> QED
    BY <2>4, <2>5, <2>6
<1>2. CASE Answer(r)
  <2>1. TypeOK' /\ PhaseInv' /\ StatementInv'
    BY <1>2 DEF Answer
  <2>3. MutexHasItsHolder'
    BY <1>2 DEF Answer
  <2>2. TrafficInv' /\ NoStatementCut'
    BY <1>2 DEF Answer
  <2> QED
    BY <2>1, <2>2, <2>3
<1>3. CASE r \in V1Call /\ Lock(r)
  BY <1>3 DEF Lock
<1>4. CASE r \in V1Call /\ Unlock(r)
  BY <1>4 DEF Unlock
<1>5. CASE r \in Query /\ Acquire(r)
  BY <1>5 DEF Acquire
<1>6. CASE r \in Query /\ PoolRefuses(r)
  BY <1>6 DEF PoolRefuses
<1>7. CASE r \in Query /\ Return(r)
  BY <1>7 DEF Return
<1>8. CASE r \in Probe /\ ProbeTimesOut(r)
  BY <1>8 DEF ProbeTimesOut
<1>9. CASE r \in V1Call \cup AccountCall /\ ReceiveBody(r)
  <2>1. Enter(r) => /\ left' \in [Request -> 0..MaxStatements]
                    /\ r \in Query => left'[r] > 0
                    /\ \A q \in Request \ {r} : left'[q] = left[q]
    BY EnterStep
  <2>2. /\ left' \in [Request -> 0..MaxStatements]
        /\ \E a \in {"arrived", "found", "none"} : request' = [request EXCEPT ![r] = a]
        /\ request'[r] = "arrived" /\ r \in Query => left'[r] > 0
        /\ request'[r] = "found" => r \in V1Call
        /\ \A q \in Request \ {r} : left'[q] = left[q]
    BY <1>9, <2>1 DEF ReceiveBody, Enter
  <2>3. request[r] = "receiving" /\ UNCHANGED <<main, listener, mutex, conns, refused>>
    BY <1>9 DEF ReceiveBody
  <2>4. TypeOK' /\ PhaseInv'
    BY <2>2, <2>3
  <2>5. TrafficInv' /\ NoStatementCut'
    BY <2>2, <2>3
  <2>6. StatementInv' /\ MutexHasItsHolder'
    BY <2>2, <2>3
  <2> QED
    BY <2>4, <2>5, <2>6
<1> QED
  BY <1>1, <1>2, <1>3, <1>4, <1>5, <1>6, <1>7, <1>8, <1>9

(* The invariant holds in every reachable state.                           *)
THEOREM ServerInvariance == Spec => []ServerInv
<1>1. Init => ServerInv
  BY ServerInvInit
<1>2. ServerInv /\ [Next]_vars => ServerInv'
  <2> SUFFICES ASSUME ServerInv, [Next]_vars PROVE ServerInv'
    OBVIOUS
  <2>1. CASE Next
    BY <2>1, RunStep, RequestStep DEF Next, Request, Query
  <2>2. CASE UNCHANGED vars
    BY <2>2 DEF vars, main, requests, ServerInv, TypeOK, PhaseInv, TrafficInv, StatementInv,
                NoStatementCut, MutexHasItsHolder, Open, PoolIsOpen
  <2> QED
    BY <2>1, <2>2
<1> QED
  BY <1>1, <1>2, PTL DEF Spec

-----------------------------------------------------------------------------
(* Exit status 0 means a stop that was asked for and cut nobody off, with  *)
(* any number of requests under way when the signal came.                  *)
THEOREM CleanExits == Spec => []CleanExitIsDrained
<1>1. ServerInv => CleanExitIsDrained
  BY DEF ServerInv, TrafficInv, CleanExitIsDrained, PoolIsOpen
<1> QED
  BY <1>1, ServerInvariance, PTL

(* No way out of run() leaves a statement under way on a closed pool.      *)
THEOREM StatementsEnd == Spec => []NoStatementCut
  BY ServerInvariance, PTL DEF ServerInv

(* Every way out of run() closes what it had opened.                       *)
THEOREM EverythingClosed == Spec => []NothingLeftOpen
<1>1. ServerInv => NothingLeftOpen
  BY DEF ServerInv, PhaseInv, NothingLeftOpen
<1> QED
  BY <1>1, ServerInvariance, PTL

(* The mutex and the connections are held by the requests that say so.     *)
THEOREM HoldersKnown == Spec => [](TypeOK /\ MutexHasItsHolder)
  BY ServerInvariance, PTL DEF ServerInv

-----------------------------------------------------------------------------
(* Waiting.  The requests a request waits for: the holder of the mutex, or *)
(* those that hold the connections when none is left.                      *)
WaitsFor(r) ==
    CASE r \in V1Call /\ request[r] \in {"arrived", "found"} -> {mutex} \ {Nobody}
      [] r \in Query /\ request[r] = "arrived" /\ Cardinality(conns) >= MaxConns -> conns
      [] OTHER -> {}

(* Who is waited for waits for nobody, and neither does anyone pool.Close  *)
(* waits for: they are at a response, a lookup or a statement.             *)
WaitsAreShort ==
    /\ \A r \in Request : \A q \in WaitsFor(r) : q \in Request /\ WaitsFor(q) = {}
    /\ phase = "closing" => \A q \in conns : WaitsFor(q) = {}

(* hunch_api.go:274-288 and db.go: no v1 call takes the mutex with the     *)
(* mutex, no request takes a second connection, and neither kind takes     *)
(* what the other holds, so that nobody waits in a chain, nor the process  *)
(* for one.                                                                *)
THEOREM NobodyWaitsInLine == Spec => []WaitsAreShort
<1>1. ServerInv => WaitsAreShort
  <2> SUFFICES ASSUME ServerInv PROVE WaitsAreShort
    OBVIOUS
  <2> USE ServerAssumption DEF ServerInv, TypeOK, MutexHasItsHolder, Request, Query
  <2>1. ASSUME NEW q \in conns PROVE q \in Request /\ WaitsFor(q) = {}
    BY <2>1 DEF WaitsFor
  <2>2. ASSUME mutex # Nobody PROVE mutex \in Request /\ WaitsFor(mutex) = {}
    BY <2>2 DEF WaitsFor
  <2>3. \A r \in Request : \A q \in WaitsFor(r) : q \in conns \/ (mutex # Nobody /\ q = mutex)
    BY DEF WaitsFor
  <2> QED
    BY <2>1, <2>2, <2>3 DEF WaitsAreShort
<1> QED
  BY <1>1, ServerInvariance, PTL

-----------------------------------------------------------------------------
(* Ending.  The most steps a request may still take ...                    *)
RequestLeft(r) ==
    CASE request[r] = "none" -> 0
      [] request[r] = "arrived" -> IF r \in Query THEN 2 * left[r] + 1 ELSE 5
      [] request[r] = "looking" -> 4
      [] request[r] = "receiving" -> IF r \in Query THEN 2 * MaxStatements + 2 ELSE 3
      [] request[r] = "found" -> 2
      [] request[r] = "query" -> 2 * left[r]
      [] OTHER -> 1

(* ... and run() with its signal and its listener.                         *)
PhaseLeft(p) ==
    CASE p = "config" -> 8
      [] p = "telemetry" -> 7
      [] p = "database" -> 6
      [] p = "storage" -> 5
      [] p = "serving" -> 4
      [] p = "draining" -> 3
      [] p = "closing" -> 2
      [] p = "flushing" -> 1
      [] OTHER -> 0

ListenerLeft(l) ==
    CASE l = "off" -> 2
      [] l = "up" -> 1
      [] OTHER -> 0

MainLeft == PhaseLeft(phase) + ListenerLeft(listener) + (IF signalled THEN 0 ELSE 1)

(* A request arrives, which it cannot once Shutdown has closed the         *)
(* listener; or one request has fewer steps left; or run() has.            *)
ServerStepCounts ==
    \/ /\ listener # "closed"
       /\ MainLeft' = MainLeft
       /\ \E r \in Request : /\ RequestLeft(r) = 0
                             /\ \A q \in Request \ {r} : RequestLeft(q)' = RequestLeft(q)
    \/ /\ MainLeft' = MainLeft
       /\ \E r \in Request : /\ RequestLeft(r)' < RequestLeft(r)
                             /\ \A q \in Request \ {r} : RequestLeft(q)' = RequestLeft(q)
    \/ /\ MainLeft' < MainLeft
       /\ \A r \in Request : RequestLeft(r)' = RequestLeft(r)

EveryServerStepCounts == [][ServerStepCounts]_vars

ServerStepsBounded ==
    /\ \A r \in Request : RequestLeft(r) \in Nat /\ RequestLeft(r) <= 2 * MaxStatements + 3
    /\ MainLeft \in 0..11

(* run(), signal and listener go forward only.                             *)
LEMMA MainStepCounts ==
  ASSUME ServerInv, Run \/ Signal \/ Listen \/ AcceptFails PROVE ServerStepCounts
<1> USE DEF main, requests, MainLeft
<1>1. \A r \in Request : RequestLeft(r)' = RequestLeft(r)
  BY DEF Run, Signal, Listen, AcceptFails, LoadConfig, SetupTelemetry, OpenDatabase, NewS3Store,
         StartShutdown, ListenerStops, Drained, DeadlinePasses, ClosePool, FlushTelemetry, Start, Fail,
         RequestLeft
<1>2. /\ \A l : ListenerLeft(l) \in 0..2 /\ ListenerLeft("closed") = 0
      /\ \A p : PhaseLeft(p) \in 0..8
  BY DEF ListenerLeft, PhaseLeft
<1>3. CASE Signal
  BY <1>1, <1>2, <1>3 DEF Signal, ServerStepCounts, ServerInv, TypeOK
<1>4. CASE Listen \/ AcceptFails
  <2>1. ListenerLeft(listener') < ListenerLeft(listener) /\ UNCHANGED <<phase, signalled>>
    BY <1>4 DEF Listen, AcceptFails, ListenerLeft
  <2> QED
    BY <1>1, <1>2, <2>1 DEF ServerStepCounts
<1>5. CASE Run
  <2>1. /\ PhaseLeft(phase') < PhaseLeft(phase)
        /\ signalled' = signalled
        /\ listener' \in {listener, "closed"}
    BY <1>5 DEF Run, LoadConfig, SetupTelemetry, OpenDatabase, NewS3Store, StartShutdown,
                ListenerStops, Drained, DeadlinePasses, ClosePool, FlushTelemetry, Start, Fail, PhaseLeft
  <2>2. ListenerLeft(listener') <= ListenerLeft(listener)
    BY <1>2, <2>1
  <2> QED
    BY <1>1, <1>2, <2>1, <2>2 DEF ServerStepCounts
<1> QED
  BY <1>3, <1>4, <1>5

(* A step of a request is one of its own steps, and one less to take.      *)
LEMMA RequestStepCounts ==
  ASSUME ServerInv, NEW r \in Request,
         \/ Arrive(r) \/ Answer(r)
         \/ r \in V1Call /\ (Lock(r) \/ Unlock(r))
         \/ r \in V1Call \cup AccountCall /\ ReceiveBody(r)
         \/ r \in Query /\ (Acquire(r) \/ PoolRefuses(r) \/ Return(r))
         \/ r \in Probe /\ ProbeTimesOut(r)
  PROVE  ServerStepCounts
<1>1. UNCHANGED <<phase, signalled, listener>>
  BY DEF Arrive, Answer, Lock, Unlock, ReceiveBody, Enter, Acquire, PoolRefuses, Return,
         ProbeTimesOut, main
<1>2. MainLeft' = MainLeft
  BY <1>1 DEF MainLeft
<1>3. \A q \in Request \ {r} : request'[q] = request[q] /\ left'[q] = left[q]
  BY DEF ServerInv, TypeOK, Arrive, Answer, Lock, Unlock, ReceiveBody, Enter, Acquire, PoolRefuses, Return,
         ProbeTimesOut
<1>4. \A q \in Request \ {r} : RequestLeft(q)' = RequestLeft(q)
  BY <1>3 DEF RequestLeft
<1>5. left[r] \in Nat /\ request \in [Request -> Activity] /\ left \in [Request -> 0..MaxStatements]
  BY ServerAssumption DEF ServerInv, TypeOK
<1>6. CASE Arrive(r)
  BY <1>2, <1>4, <1>6 DEF Arrive, RequestLeft, ServerStepCounts
<1>10. CASE r \in V1Call \cup AccountCall /\ ReceiveBody(r)
  <2>1. RequestLeft(r) = IF r \in Query THEN 2 * MaxStatements + 2 ELSE 3
    BY <1>10 DEF ReceiveBody, RequestLeft
  <2>2. CASE r \in AccountCall /\ Enter(r)
    <3>1. left'[r] \in 0..MaxStatements /\ request'[r] = "arrived" /\ r \in Query
      BY <1>5, <2>2, EnterStep DEF ServerInv, Enter, Query
    <3>2. RequestLeft(r)' = 2 * left'[r] + 1
      BY <3>1 DEF RequestLeft
    <3> QED
      BY <1>2, <1>4, <2>1, <3>1, <3>2, ServerAssumption DEF ServerStepCounts
  <2>3. CASE request' = [request EXCEPT ![r] = "none"]
    <3>1. RequestLeft(r)' = 0
      BY <1>5, <2>3 DEF RequestLeft
    <3> QED
      BY <1>2, <1>4, <2>1, <3>1, ServerAssumption DEF ServerStepCounts
  <2>4. CASE r \in V1Call /\ request' = [request EXCEPT ![r] = "found"]
    <3>1. RequestLeft(r)' = 2 /\ r \notin Query
      BY <1>5, <2>4, ServerAssumption DEF RequestLeft, Query
    <3> QED
      BY <1>2, <1>4, <2>1, <3>1 DEF ServerStepCounts
  <2> QED
    BY <1>10, <2>2, <2>3, <2>4 DEF ReceiveBody
<1>7. CASE Answer(r)
  BY <1>2, <1>4, <1>5, <1>7 DEF Answer, RequestLeft, ServerStepCounts
<1>8. CASE r \in V1Call /\ (Lock(r) \/ Unlock(r))
  <2>1. r \notin Query
    BY <1>8, ServerAssumption DEF Query
  <2> QED
    BY <1>2, <1>4, <1>5, <1>8, <2>1 DEF Lock, Unlock, RequestLeft, ServerStepCounts
<1>9. CASE r \in Query /\ (Acquire(r) \/ PoolRefuses(r) \/ Return(r) \/ ProbeTimesOut(r))
  <2>1. /\ request[r] \in {"arrived", "query"} => left[r] > 0
        /\ request'[r] \in {"arrived", "query", "answering"}
    BY <1>5, <1>9 DEF ServerInv, StatementInv, Acquire, PoolRefuses, Return, ProbeTimesOut
  <2>2. CASE Acquire(r)
    BY <1>2, <1>4, <1>5, <1>9, <2>2 DEF Acquire, RequestLeft, ServerStepCounts
  <2>3. CASE PoolRefuses(r) \/ ProbeTimesOut(r)
    <3>1. RequestLeft(r)' = 1
      BY <1>5, <2>3 DEF PoolRefuses, ProbeTimesOut, RequestLeft
    <3>2. RequestLeft(r) > 1
      BY <1>5, <1>9, <2>1, <2>3 DEF PoolRefuses, ProbeTimesOut, RequestLeft
    <3> QED
      BY <1>2, <1>4, <3>1, <3>2 DEF ServerStepCounts
  <2>4. CASE Return(r)
    <3>1. RequestLeft(r) = 2 * left[r]
      BY <2>4 DEF Return, RequestLeft
    <3>2. left'[r] = left[r] - 1 /\ request'[r] = IF left[r] > 1 THEN "arrived" ELSE "answering"
      BY <1>5, <2>4 DEF Return
    <3>3. RequestLeft(r)' < 2 * left[r]
      BY <1>5, <1>9, <2>1, <2>4, <3>2 DEF RequestLeft, Return
    <3> QED
      BY <1>2, <1>4, <3>1, <3>3 DEF ServerStepCounts
  <2> QED
    BY <1>9, <2>2, <2>3, <2>4
<1> QED
  BY <1>6, <1>7, <1>8, <1>9, <1>10 DEF Query

(* run() of main.go: no step is for nothing.  A request has a bounded      *)
(* number of steps; run(), signal and listener have eleven together; once  *)
(* the listener is closed no request is added.  So after a signal was      *)
(* taken up the process can only come closer to its exit.  With            *)
(* NobodyWaitsInLine this is the safety half of SignalEndsProcess and of   *)
(* the answers to requests.                                                *)
THEOREM ServerStepsEnd == Spec => []ServerStepsBounded /\ EveryServerStepCounts
<1>1. ServerInv => ServerStepsBounded
  <2> SUFFICES ASSUME ServerInv PROVE ServerStepsBounded
    OBVIOUS
  <2>1. \A r \in Request : left[r] \in 0..MaxStatements /\ MaxStatements \in Nat \ {0}
    BY ServerAssumption DEF ServerInv, TypeOK
  <2>2. \A r \in Request : RequestLeft(r) \in Nat /\ RequestLeft(r) <= 2 * MaxStatements + 3
    BY <2>1 DEF RequestLeft
  <2>3. ListenerLeft(listener) \in 0..2 /\ PhaseLeft(phase) \in 0..8
    BY DEF ListenerLeft, PhaseLeft
  <2> QED
    BY <2>2, <2>3 DEF ServerStepsBounded, MainLeft
<1>2. ServerInv /\ [Next]_vars => [ServerStepCounts]_vars
  <2> SUFFICES ASSUME ServerInv, Next PROVE ServerStepCounts
    OBVIOUS
  <2> QED
    BY MainStepCounts, RequestStepCounts DEF Next, Request, Query
<1> QED
  BY <1>1, <1>2, ServerInvariance, PTL DEF Spec, EveryServerStepCounts
=============================================================================

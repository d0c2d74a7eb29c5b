--------------------------- MODULE JobQueueProofs ---------------------------
(* What is proved about JobQueue for any number of jobs, workers, attempts *)
(* and ticks.                                                              *)
EXTENDS JobQueue, FiniteSetTheorems, TLAPS

-----------------------------------------------------------------------------
(* A job nobody has enqueued has not been tried.                           *)
Untried ==
    \A j \in Job : status[j] = "absent" => attempts[j] = 0

(* A worker in the middle of ClaimJob holds the row lock of a job that is  *)
(* still queued, and a row lock belongs to such a worker only.             *)
ClaimInv ==
    /\ \A w \in Worker :
          step[w] = "claiming" => rowLock[hands[w]] = w /\ status[hands[w]] = "queued"
    /\ \A j \in Job :
          rowLock[j] # NoWorker => hands[rowLock[j]] = j /\ step[rowLock[j]] = "claiming"

(* The inductive invariant that also bounds the attempts.                  *)
QueueInv == TypeOK /\ Untried /\ ClaimInv /\ AttemptsWithinLimit

(* An empty table and idle workers.                                        *)
LEMMA QueueInvInit == Init => QueueInv
  BY NoWorkerAssumption, NoJobAssumption, BoundsAssumption, SMT
  DEF Init, QueueInv, TypeOK, Untried, ClaimInv, AttemptsWithinLimit,
      Statuses, WorkerStep, Time

(* One step preserves the invariant.                                       *)
LEMMA QueueInvStep == QueueInv /\ [Next]_vars => QueueInv'
<1> SUFFICES ASSUME QueueInv, [Next]_vars PROVE QueueInv'
  OBVIOUS
<1> USE NoWorkerAssumption, NoJobAssumption, BoundsAssumption
    DEF QueueInv, TypeOK, Untried, ClaimInv, AttemptsWithinLimit,
        Statuses, WorkerStep, Time, Drop, Goto, Reported, columns
<1>1. ASSUME NEW j \in Job, Enqueue(j) PROVE QueueInv'
  <2>1. PICK t \in Time : available' = [available EXCEPT ![j] = t]
    BY <1>1 DEF Enqueue
  <2>2. TypeOK'
    BY <1>1, <2>1 DEF Enqueue
  <2>3. Untried' /\ ClaimInv' /\ AttemptsWithinLimit'
    BY <1>1 DEF Enqueue
  <2> QED
    BY <2>2, <2>3
<1>2. ASSUME NEW w \in Worker, LockNext(w) PROVE QueueInv'
  BY <1>2 DEF LockNext, Claimable
<1>3. ASSUME NEW w \in Worker, Claim(w) PROVE QueueInv'
  BY <1>3 DEF Claim
<1>4. ASSUME NEW w \in Worker, Finish(w) PROVE QueueInv'
  BY <1>4 DEF Finish
<1>5. ASSUME NEW w \in Worker, Complete(w) PROVE QueueInv'
  BY <1>5 DEF Complete
<1>6. ASSUME NEW w \in Worker, Fail(w) PROVE QueueInv'
  BY <1>6 DEF Fail
<1>7. ASSUME NEW w \in Worker, Crash(w) PROVE QueueInv'
  BY <1>7 DEF Crash
<1>8. CASE Tick
  BY <1>8 DEF Tick
<1>9. CASE UNCHANGED vars
  BY <1>9 DEF vars
<1> QED
  BY <1>1, <1>2, <1>3, <1>4, <1>5, <1>6, <1>7, <1>8, <1>9 DEF Next, Work, Idle

(* The strengthened invariant holds in every reachable state.              *)
THEOREM QueueInvariance == Spec => []QueueInv
<1>1. Init => QueueInv
  BY QueueInvInit
<1>2. QueueInv /\ [Next]_vars => QueueInv'
  BY QueueInvStep
<1> QED
  BY <1>1, <1>2, PTL DEF Spec

(* Every variable of the queue keeps its type.                             *)
THEOREM QueueTypeCorrect == Spec => []TypeOK
  BY QueueInvariance, PTL DEF QueueInv

(* FailJob's own comparison bounds the attempts, however often reports are *)
(* repeated.                                                               *)
THEOREM AttemptsBounded == Spec => []AttemptsWithinLimit
  BY QueueInvariance, PTL DEF QueueInv

-----------------------------------------------------------------------------
(* Who has a job in hand when reports are repeated.                        *)
Holders(j) == {w \in Worker : InHand(w, j)}

(* No worker has two jobs in hand, and no job is in more hands than it has *)
(* been claimed.                                                           *)
HoldersCounted ==
    \A j \in Job : IsFiniteSet(Holders(j)) /\ Cardinality(Holders(j)) <= attempts[j]

(* A claim adds one holder and one attempt; nothing else adds a holder.    *)
LEMMA HoldersStep ==
  ASSUME QueueInv, [Next]_vars
  PROVE  \A j \in Job : \/ Holders(j)' \subseteq Holders(j) /\ attempts'[j] = attempts[j]
                        \/ \E w \in Worker : /\ Holders(j)' \subseteq Holders(j) \cup {w}
                                             /\ attempts'[j] = attempts[j] + 1
<1> USE NoWorkerAssumption, NoJobAssumption
    DEF QueueInv, TypeOK, Holders, InHand, WorkerStep, Drop, Goto, Reported, columns
<1> TAKE j \in Job
<1>1. ASSUME NEW k \in Job, Enqueue(k) PROVE Holders(j)' = Holders(j) /\ attempts'[j] = attempts[j]
  BY <1>1 DEF Enqueue
<1>2. ASSUME NEW w \in Worker, LockNext(w)
      PROVE Holders(j)' \subseteq Holders(j) /\ attempts'[j] = attempts[j]
  BY <1>2 DEF LockNext
<1>3. ASSUME NEW w \in Worker, Claim(w), hands[w] = j
      PROVE Holders(j)' \subseteq Holders(j) \cup {w} /\ attempts'[j] = attempts[j] + 1
  BY <1>3 DEF Claim
<1>4. ASSUME NEW w \in Worker, Claim(w), hands[w] # j
      PROVE Holders(j)' \subseteq Holders(j) /\ attempts'[j] = attempts[j]
  BY <1>4 DEF Claim
<1>5. ASSUME NEW w \in Worker, Finish(w) \/ Complete(w) \/ Fail(w) \/ Crash(w)
      PROVE Holders(j)' \subseteq Holders(j) /\ attempts'[j] = attempts[j]
  BY <1>5 DEF Finish, Complete, Fail, Crash
<1>6. CASE Tick \/ UNCHANGED vars
  BY <1>6 DEF Tick, vars
<1> QED
  BY <1>1, <1>2, <1>3, <1>4, <1>5, <1>6 DEF Next, Work, Idle

(* Statements name the job by id only, so that a stale report puts another *)
(* worker's job back into the queue (jobs.sql:24-41): no more workers than *)
(* counted attempts, and so no more than max_attempts, ever have it.       *)
THEOREM HandsWithinAttempts == Spec => []WorkersWithinAttempts
<1>1. Init => HoldersCounted
  <2> SUFFICES ASSUME Init, NEW j \in Job PROVE IsFiniteSet(Holders(j)) /\ Cardinality(Holders(j)) <= attempts[j]
    BY DEF HoldersCounted
  <2>1. Holders(j) = {} /\ attempts[j] = 0
    BY DEF Init, Holders, InHand
  <2> QED
    BY <2>1, FS_EmptySet
<1>2. QueueInv /\ HoldersCounted /\ [Next]_vars => HoldersCounted'
  <2> SUFFICES ASSUME QueueInv, HoldersCounted, [Next]_vars, NEW j \in Job
               PROVE  IsFiniteSet(Holders(j)') /\ Cardinality(Holders(j)') <= attempts'[j]
    BY DEF HoldersCounted
  <2>1. /\ IsFiniteSet(Holders(j)) /\ Cardinality(Holders(j)) \in Nat
        /\ Cardinality(Holders(j)) <= attempts[j] /\ attempts[j] \in Nat
    BY FS_CardinalityType DEF HoldersCounted, QueueInv, TypeOK
  <2>2. CASE Holders(j)' \subseteq Holders(j) /\ attempts'[j] = attempts[j]
    <3>1. IsFiniteSet(Holders(j)') /\ Cardinality(Holders(j)') <= Cardinality(Holders(j))
      BY <2>1, <2>2, FS_Subset
    <3> QED
      BY <2>1, <2>2, <3>1, FS_CardinalityType
  <2>3. ASSUME NEW w \in Worker,
               Holders(j)' \subseteq Holders(j) \cup {w}, attempts'[j] = attempts[j] + 1
        PROVE  IsFiniteSet(Holders(j)') /\ Cardinality(Holders(j)') <= attempts'[j]
    <3> DEFINE H == Holders(j) \cup {w}
    <3>1. IsFiniteSet(H) /\ Cardinality(H) \in Nat /\ Cardinality(H) <= Cardinality(Holders(j)) + 1
      <4>1. /\ IsFiniteSet(H)
            /\ Cardinality(H) \in {Cardinality(Holders(j)), Cardinality(Holders(j)) + 1}
        BY <2>1, FS_AddElement
      <4> HIDE DEF H
      <4> QED
        BY <2>1, <4>1
    <3>2. IsFiniteSet(Holders(j)') /\ Cardinality(Holders(j)') <= Cardinality(H)
      BY <2>3, <3>1, FS_Subset
    <3>3. Cardinality(Holders(j)') \in Nat
      BY <3>2, FS_CardinalityType
    <3> HIDE DEF H
    <3> QED
      BY <2>1, <2>3, <3>1, <3>2, <3>3
  <2> QED
    BY <2>2, <2>3, HoldersStep
<1>3. HoldersCounted => WorkersWithinAttempts
  BY DEF HoldersCounted, WorkersWithinAttempts, Holders
<1> QED
  BY <1>1, <1>2, <1>3, QueueInvariance, PTL DEF Spec

(* A report finds the row still running and naming the reporter, which the *)
(* WHERE clauses of CompleteJob and FailJob do not ask for.                *)
FreshReport(w) == status[hands[w]] = "running" /\ lockedBy[hands[w]] = w

ReportsAreFresh == [][\A w \in Worker : Complete(w) \/ Fail(w) => FreshReport(w)]_vars

(* Who works on a job is the one its running row names.                    *)
WorkersAreNamed == \A w \in Worker : step[w] = "working" => FreshReport(w)

(* Stale reports alone make two workers work on one job: as long as every  *)
(* report is fresh, and repeated or not, the row names who works on it,    *)
(* through crashes and lost answers of ClaimJob.                           *)
THEOREM FreshReportsKeepTheClaim == Spec /\ ReportsAreFresh => []WorkersAreNamed
<1>1. Init => WorkersAreNamed
  BY DEF Init, WorkersAreNamed
<1>2. /\ QueueInv /\ WorkersAreNamed /\ [Next]_vars
      /\ [\A w \in Worker : Complete(w) \/ Fail(w) => FreshReport(w)]_vars
      => WorkersAreNamed'
  <2> SUFFICES ASSUME QueueInv, WorkersAreNamed, [Next]_vars,
                      [\A w \in Worker : Complete(w) \/ Fail(w) => FreshReport(w)]_vars
               PROVE  WorkersAreNamed'
    OBVIOUS
  <2> USE NoWorkerAssumption, NoJobAssumption
      DEF QueueInv, TypeOK, ClaimInv, WorkersAreNamed, FreshReport, WorkerStep, Drop, Goto,
          Reported, columns
  <2>1. ASSUME NEW j \in Job, Enqueue(j) PROVE WorkersAreNamed'
    BY <2>1 DEF Enqueue
  <2>2. ASSUME NEW w \in Worker, LockNext(w) \/ Finish(w) \/ Crash(w) PROVE WorkersAreNamed'
    BY <2>2 DEF LockNext, Finish, Crash
  <2>3. ASSUME NEW w \in Worker, Claim(w) PROVE WorkersAreNamed'
    BY <2>3 DEF Claim
  <2>4. ASSUME NEW w \in Worker, Complete(w) \/ Fail(w) PROVE WorkersAreNamed'
    <3>1. status'[hands[w]] # status[hands[w]] \/ UNCHANGED vars \/ FreshReport(w)
      BY <2>4
    <3> QED
      BY <2>4, <3>1 DEF Complete, Fail, vars
  <2>5. CASE Tick \/ UNCHANGED vars
    BY <2>5 DEF Tick, vars
  <2> QED
    BY <2>1, <2>2, <2>3, <2>4, <2>5 DEF Next, Work, Idle
<1> QED
  BY <1>1, <1>2, QueueInvariance, PTL DEF Spec, ReportsAreFresh

-----------------------------------------------------------------------------
(* Without repeated reports nobody but the owner touches a claimed job.    *)
OwnerInv == QueueInv /\ OneWorkerPerJob

(* One step preserves it when reports are not repeated.                    *)
LEMMA OwnerInvStep == ~Retry /\ OwnerInv /\ QueueInv' /\ [Next]_vars => OwnerInv'
<1> SUFFICES ASSUME ~Retry, OwnerInv, QueueInv', [Next]_vars PROVE OneWorkerPerJob'
  BY DEF OwnerInv
<1> USE NoWorkerAssumption, NoJobAssumption
    DEF OwnerInv, QueueInv, TypeOK, ClaimInv, OneWorkerPerJob, InHand,
        WorkerStep, Drop, Goto, Reported, columns
<1>1. ASSUME NEW j \in Job, Enqueue(j) PROVE OneWorkerPerJob'
  BY <1>1 DEF Enqueue
<1>2. ASSUME NEW w \in Worker, LockNext(w) PROVE OneWorkerPerJob'
  BY <1>2 DEF LockNext, Claimable
<1>3. ASSUME NEW w \in Worker, Claim(w) PROVE OneWorkerPerJob'
  BY <1>3 DEF Claim
<1>4. ASSUME NEW w \in Worker, Finish(w) PROVE OneWorkerPerJob'
  BY <1>4 DEF Finish
<1>5. ASSUME NEW w \in Worker, Complete(w) PROVE OneWorkerPerJob'
  BY <1>5 DEF Complete
<1>6. ASSUME NEW w \in Worker, Fail(w) PROVE OneWorkerPerJob'
  BY <1>6 DEF Fail
<1>7. ASSUME NEW w \in Worker, Crash(w) PROVE OneWorkerPerJob'
  BY <1>7 DEF Crash
<1>8. CASE Tick
  BY <1>8 DEF Tick
<1>9. CASE UNCHANGED vars
  BY <1>9 DEF vars
<1> QED
  BY <1>1, <1>2, <1>3, <1>4, <1>5, <1>6, <1>7, <1>8, <1>9 DEF Next, Work, Idle

(* Two ClaimJob statements never hand out the same run of a job.           *)
THEOREM JobsHaveOneWorker == ~Retry /\ Spec => []OneWorkerPerJob
<1> SUFFICES ASSUME ~Retry PROVE Spec => []OneWorkerPerJob
  OBVIOUS
<1>1. Init => OneWorkerPerJob
  BY DEF Init, OneWorkerPerJob, InHand
<1>2. OwnerInv /\ QueueInv' /\ [Next]_vars => OwnerInv'
  BY OwnerInvStep
<1>3. OwnerInv => OneWorkerPerJob
  BY DEF OwnerInv
<1> QED
  BY <1>1, <1>2, <1>3, QueueInvariance, PTL DEF Spec, OwnerInv

-----------------------------------------------------------------------------
(* Under the same condition every step of the queue is a step of the       *)
(* lifecycle, or leaves it alone.                                          *)
THEOREM QueueImplementsLifecycle == ~Retry /\ Spec => RefinesLifecycle
<1> SUFFICES ASSUME ~Retry PROVE Spec => RefinesLifecycle
  OBVIOUS
<1>1. Init => Lifecycle!Init
  BY DEF Init, Lifecycle!Init
<1>2. QueueInv /\ OneWorkerPerJob /\ [Next]_vars => [Lifecycle!Next]_<<status, attempts>>
  <2> SUFFICES ASSUME QueueInv, OneWorkerPerJob, [Next]_vars,
                      UNCHANGED <<status, attempts>> => FALSE
               PROVE \E j \in Job : Lifecycle!Submit(j) \/ Lifecycle!Take(j)
                         \/ Lifecycle!Succeed(j) \/ Lifecycle!GiveBack(j) \/ Lifecycle!GiveUp(j)
    BY DEF Lifecycle!Next
  <2> USE BoundsAssumption
      DEF QueueInv, TypeOK, OneWorkerPerJob, InHand, columns, Lifecycle!Move
  <2>1. ASSUME NEW j \in Job, Enqueue(j) PROVE Lifecycle!Submit(j)
    BY <2>1 DEF Enqueue, Lifecycle!Submit
  <2>2. ASSUME NEW w \in Worker, Claim(w)
        PROVE hands[w] \in Job /\ Lifecycle!Take(hands[w])
    BY <2>2 DEF Claim, ClaimInv, Lifecycle!Take
  <2>3. ASSUME NEW w \in Worker, Complete(w)
        PROVE hands[w] \in Job /\ Lifecycle!Succeed(hands[w])
    BY <2>3 DEF Complete, Lifecycle!Succeed
  <2>4. ASSUME NEW w \in Worker, Fail(w)
        PROVE hands[w] \in Job
              /\ (Lifecycle!GiveBack(hands[w]) \/ Lifecycle!GiveUp(hands[w]))
    <3> DEFINE j == hands[w]
    <3>1. j \in Job /\ status[j] = "running" /\ UNCHANGED attempts
      BY <2>4 DEF Fail
    <3>2. attempts[j] \in Nat /\ attempts[j] <= MaxAttempts
      BY <3>1 DEF AttemptsWithinLimit
    <3>3. status' = [status EXCEPT ![j] = IF attempts[j] >= MaxAttempts THEN "failed" ELSE "queued"]
      BY <2>4 DEF Fail
    <3>4. CASE attempts[j] >= MaxAttempts
      <4>1. attempts[j] = MaxAttempts
        BY ONLY <3>2, <3>4, BoundsAssumption
      <4>2. status' = [status EXCEPT ![j] = "failed"]
        BY <3>3, <3>4
      <4> QED
        BY <3>1, <4>1, <4>2 DEF Lifecycle!GiveUp
    <3>5. CASE ~(attempts[j] >= MaxAttempts)
      BY <3>1, <3>2, <3>3, <3>5 DEF Lifecycle!GiveBack
    <3> QED
      BY <3>1, <3>4, <3>5
  <2>5. ASSUME NEW w \in Worker, LockNext(w) \/ Finish(w) \/ Crash(w) PROVE FALSE
    BY <2>5 DEF LockNext, Finish, Crash
  <2>6. CASE Tick
    BY <2>6 DEF Tick
  <2>7. CASE UNCHANGED vars
    BY <2>7 DEF vars
  <2> QED
    BY <2>1, <2>2, <2>3, <2>4, <2>5, <2>6, <2>7 DEF Next, Work, Idle
<1> QED
  BY <1>1, <1>2, QueueInvariance, JobsHaveOneWorker, PTL
     DEF Spec, RefinesLifecycle, Lifecycle!Spec
=============================================================================

------------------------------ MODULE JobQueue ------------------------------
(***************************************************************************)
(* The background job queue: internal/worker/worker.go over the jobs table *)
(* (db/migrations/00001_init.sql, db/queries/jobs.sql).  Nothing in src/   *)
(* runs a worker loop yet; a worker is anyone who claims a job, works on   *)
(* it and reports Complete or Fail.                                        *)
(***************************************************************************)
EXTENDS FiniteSets, Integers

CONSTANTS
    Job,            \* job ids
    Worker,         \* worker ids, the values of locked_by
    NoWorker,       \* NULL
    NoJob,          \* a worker's hands are empty
    MaxAttempts,    \* column max_attempts
    MaxTime,        \* bound of the clock
    Unreliable,     \* workers crash, results of statements get lost
    Retry           \* a worker repeats a report whose result was lost

ASSUME NoWorkerAssumption == NoWorker \notin Worker
ASSUME NoJobAssumption == NoJob \notin Job
ASSUME BoundsAssumption == MaxAttempts \in Nat \ {0} /\ MaxTime \in Nat
ASSUME FaultsAssumption == Unreliable \in BOOLEAN /\ Retry \in BOOLEAN

VARIABLES
    status, attempts, available, created, lockedBy,     \* the columns of jobs
    rowLock,    \* job -> the worker whose ClaimJob statement holds the row
    hands,      \* worker -> the job it has in hand
    step,       \* worker -> what it is doing
    now         \* the database clock

columns == <<status, attempts, available, created, lockedBy>>
vars == <<columns, rowLock, hands, step, now>>

Statuses == {"absent", "queued", "running", "succeeded", "failed"}
WorkerStep == {"idle", "claiming", "working", "completing", "failing"}
Time == 0..MaxTime

(* Every variable has its type; a busy worker has a job in hand.           *)
TypeOK ==
    /\ status \in [Job -> Statuses]
    /\ attempts \in [Job -> Nat]
    /\ available \in [Job -> Time]
    /\ created \in [Job -> Time]
    /\ lockedBy \in [Job -> Worker \cup {NoWorker}]
    /\ rowLock \in [Job -> Worker \cup {NoWorker}]
    /\ hands \in [Worker -> Job \cup {NoJob}]
    /\ step \in [Worker -> WorkerStep]
    /\ now \in Time
    /\ \A w \in Worker : step[w] = "idle" <=> hands[w] = NoJob

Init ==
    /\ status = [j \in Job |-> "absent"]
    /\ attempts = [j \in Job |-> 0]
    /\ available = [j \in Job |-> 0]
    /\ created = [j \in Job |-> 0]
    /\ lockedBy = [j \in Job |-> NoWorker]
    /\ rowLock = [j \in Job |-> NoWorker]
    /\ hands = [w \in Worker |-> NoJob]
    /\ step = [w \in Worker |-> "idle"]
    /\ now = 0

-----------------------------------------------------------------------------
Drop(w) ==
    /\ hands' = [hands EXCEPT ![w] = NoJob]
    /\ step' = [step EXCEPT ![w] = "idle"]

Goto(w, s) == step' = [step EXCEPT ![w] = s] /\ UNCHANGED hands

(* EnqueueJob: attempts and max_attempts take the column defaults;         *)
(* available_at is the caller's, or the present time for a zero one.       *)
Enqueue(j) ==
    /\ status[j] = "absent"
    /\ \E t \in Time : available' = [available EXCEPT ![j] = t]
    /\ status' = [status EXCEPT ![j] = "queued"]
    /\ created' = [created EXCEPT ![j] = now]
    /\ UNCHANGED <<attempts, lockedBy, rowLock, hands, step, now>>

Claimable_WithoutSkipLocked == {j \in Job : status[j] = "queued" /\ available[j] <= now}
Claimable_RunningToo ==
    {j \in Job : status[j] \in {"queued", "running"} /\ available[j] <= now /\ rowLock[j] = NoWorker}

(* The subquery of ClaimJob: the first queued job that is due and that no  *)
(* other ClaimJob has locked.                                              *)
Claimable == {j \in Job : status[j] = "queued" /\ available[j] <= now /\ rowLock[j] = NoWorker}

Before(j, k) ==
    \/ available[j] < available[k]
    \/ available[j] = available[k] /\ created[j] < created[k]

LockNext(w) ==
    /\ step[w] = "idle"
    /\ \E j \in Claimable :
          /\ \A k \in Claimable : ~Before(k, j)
          /\ rowLock' = [rowLock EXCEPT ![j] = w]
          /\ hands' = [hands EXCEPT ![w] = j]
    /\ step' = [step EXCEPT ![w] = "claiming"]
    /\ UNCHANGED <<columns, now>>

Claim_NotCounted(w) ==
    LET j == hands[w] IN
    /\ step[w] = "claiming"
    /\ status' = [status EXCEPT ![j] = "running"]
    /\ lockedBy' = [lockedBy EXCEPT ![j] = w]
    /\ rowLock' = [rowLock EXCEPT ![j] = NoWorker]
    /\ \/ Goto(w, "working")
       \/ Unreliable /\ Drop(w)
    /\ UNCHANGED <<attempts, available, created, now>>

(* The UPDATE of ClaimJob commits; the worker may never learn of it.       *)
Claim(w) ==
    LET j == hands[w] IN
    /\ step[w] = "claiming"
    /\ status' = [status EXCEPT ![j] = "running"]
    /\ attempts' = [attempts EXCEPT ![j] = @ + 1]
    /\ lockedBy' = [lockedBy EXCEPT ![j] = w]
    /\ rowLock' = [rowLock EXCEPT ![j] = NoWorker]
    /\ \/ Goto(w, "working")
       \/ Unreliable /\ Drop(w)
    /\ UNCHANGED <<available, created, now>>

(* The job has been worked on, well or badly.                              *)
Finish(w) ==
    /\ step[w] = "working"
    /\ Goto(w, "completing") \/ Goto(w, "failing")
    /\ UNCHANGED <<columns, rowLock, now>>

(* The report is in the table; a worker that misses the answer forgets the *)
(* job or, with Retry, reports once more.                                  *)
Reported(w) ==
    \/ Drop(w)
    \/ Unreliable /\ Retry /\ UNCHANGED <<hands, step>>

(* CompleteJob: by id alone, whatever the row says by now.                 *)
Complete(w) ==
    LET j == hands[w] IN
    /\ step[w] = "completing"
    /\ rowLock[j] = NoWorker
    /\ status' = [status EXCEPT ![j] = "succeeded"]
    /\ Reported(w)
    /\ UNCHANGED <<attempts, available, created, lockedBy, rowLock, now>>

Fail_OneTooMany(w) ==
    LET j == hands[w] IN
    /\ step[w] = "failing"
    /\ rowLock[j] = NoWorker
    /\ status' = [status EXCEPT ![j] = IF attempts[j] > MaxAttempts THEN "failed" ELSE "queued"]
    /\ \E t \in Time : available' = [available EXCEPT ![j] = t]
    /\ lockedBy' = [lockedBy EXCEPT ![j] = NoWorker]
    /\ Reported(w)
    /\ UNCHANGED <<attempts, created, rowLock, now>>

(* FailJob: by id alone; back to the queue unless the attempts are used up.*)
Fail(w) ==
    LET j == hands[w] IN
    /\ step[w] = "failing"
    /\ rowLock[j] = NoWorker
    /\ status' = [status EXCEPT ![j] = IF attempts[j] >= MaxAttempts THEN "failed" ELSE "queued"]
    /\ \E t \in Time : available' = [available EXCEPT ![j] = t]
    /\ lockedBy' = [lockedBy EXCEPT ![j] = NoWorker]
    /\ Reported(w)
    /\ UNCHANGED <<attempts, created, rowLock, now>>

(* A worker dies, or its statement fails: a ClaimJob that has not          *)
(* committed lets go of the row; a job already claimed stays as it is.     *)
Crash(w) ==
    /\ Unreliable
    /\ step[w] # "idle"
    /\ rowLock' = [j \in Job |-> IF rowLock[j] = w THEN NoWorker ELSE rowLock[j]]
    /\ Drop(w)
    /\ UNCHANGED <<columns, now>>

Tick ==
    /\ now < MaxTime
    /\ now' = now + 1
    /\ UNCHANGED <<columns, rowLock, hands, step>>

(* Workers that keep asking ErrNoRows, or no work is left.                 *)
Idle ==
    /\ \A w \in Worker : step[w] = "idle"
    /\ Claimable = {}
    /\ UNCHANGED vars

Work(w) == LockNext(w) \/ Claim(w) \/ Finish(w) \/ Complete(w) \/ Fail(w)

Next ==
    \/ \E j \in Job : Enqueue(j)
    \/ \E w \in Worker : Work(w) \/ Crash(w)
    \/ Tick
    \/ Idle

Spec == Init /\ [][Next]_vars

FairSpec == Spec /\ WF_vars(Tick) /\ \A w \in Worker : WF_vars(Work(w))

-----------------------------------------------------------------------------
(* A queued job always has an attempt left and a job only fails with none  *)
(* left, also when reports are repeated: FailJob decides from the row's    *)
(* own counter.                                                            *)
AttemptsWithinLimit ==
    \A j \in Job :
        /\ attempts[j] <= MaxAttempts
        /\ status[j] = "queued" => attempts[j] < MaxAttempts
        /\ status[j] = "failed" => attempts[j] = MaxAttempts

InHand(w, j) == hands[w] = j /\ step[w] \in {"working", "completing", "failing"}

(* A stale report puts a job back into the queue while another worker has  *)
(* claimed it, and a third may claim it then.  But the job is in no more   *)
(* hands, of workers at it or about to report, than attempts were counted, *)
(* and so never in more than max_attempts.                                 *)
WorkersWithinAttempts ==
    \A j \in Job : Cardinality({w \in Worker : InHand(w, j)}) <= attempts[j]

(* When reports are not repeated, a job is in the hands of one worker at a *)
(* time, the one the row names, and the row says running until that worker *)
(* reports: two ClaimJob statements never get the same row.                *)
OneWorkerPerJob ==
    \A j \in Job, w \in Worker :
        InHand(w, j) =>
            /\ status[j] = "running"
            /\ lockedBy[j] = w
            /\ \A v \in Worker \ {w} : ~InHand(v, j)

(* When reports are not repeated, statuses move as JobLifecycle says: the  *)
(* statements name only the id, yet a settled job never comes back.        *)
Lifecycle == INSTANCE JobLifecycle WITH state <- status, tries <- attempts
RefinesLifecycle == Lifecycle!Spec

(* Nobody is at work on a job the row says is running: its worker died, or *)
(* never learnt that its ClaimJob had committed.                           *)
Orphaned(j) == status[j] = "running" /\ \A w \in Worker : ~InHand(w, j)

CrashesStop == <>[][\A w \in Worker : ~Crash(w)]_vars

(* Once workers have stopped dying every queued job settles, whatever its  *)
(* available_at, with one exception: nothing takes back a job whose worker *)
(* is gone.                                                                *)
EveryJobSettles ==
    CrashesStop =>
        \A j \in Job : status[j] = "queued" ~> status[j] \in {"succeeded", "failed"} \/ Orphaned(j)
=============================================================================

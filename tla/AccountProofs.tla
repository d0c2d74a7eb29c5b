---------------------------- MODULE AccountProofs ----------------------------
(***************************************************************************)
(* TypeOK and DeletedAccountsAreClosed hold for any number of requests,    *)
(* addresses, subjects and connections: AccountInv is inductive.           *)
(***************************************************************************)
EXTENDS AccountInvariant, TLAPS

(* Only request r takes a step, and its handler's variables keep type.     *)
StepOf(r) ==
    /\ HandlerTypeOK'
    /\ \A q \in Request \ {r} :
          pc'[q] = pc[q] /\ target'[q] = target[q] /\ call'[q] = call[q]

(* Empty tables and idle handlers satisfy the invariant.                   *)
LEMMA InitEstablishes == Init => AccountInv
<1> SUFFICES ASSUME Init PROVE AccountInv
  OBVIOUS
<1> USE DEF Init, StoreInit, NoAccount, NoIdentity, NoSession, NoCall
<1>1. StoreTypeOK
  BY DEF StoreTypeOK, AccountRow, IdentityRow, SessionRow, Writes, NoWrites, Status
<1>2. HandlerTypeOK
  BY DEF HandlerTypeOK, Step, Call, Operation, Reply, MaxAttempts
<1>3. Arguments
  BY DEF Arguments, Route, DeleteSteps, CreateSteps
<1>4. OwnRows
  BY DEF OwnRows
<1>5. LocksHeld
  BY NoneAssumption DEF LocksHeld, LockDiscipline
<1>6. DeletesMark
  BY DEF DeletesMark, MarkedBy, NoWrites, AfterDelete
<1>7. DeletedAccountsAreClosed
  BY DEF DeletedAccountsAreClosed
<1> QED BY <1>1, <1>2, <1>3, <1>4, <1>5, <1>6, <1>7 DEF AccountInv, TypeOK

-----------------------------------------------------------------------------
(* Whoever has to hold a row lock works on an account.                     *)
LEMMA LockersHaveTargets ==
  ASSUME AccountInv, NEW q \in Request,
         \/ pc[q] = "insert_identity"
         \/ identities[q].status = "inserted"
         \/ sessions[q].status = "inserted"
  PROVE  target[q] \in Request
BY DEF AccountInv, OwnRows, Arguments, CreateSteps

(* A request outside any transaction that only reads, or takes a           *)
(* connection, disturbs nothing.                                           *)
LEMMA QuietStep ==
  ASSUME AccountInv, NEW r \in Request, StepOf(r), Arguments',
         pc[r] \in Outside \cup {"find_identity", "find_account"}, pc[r] # "done",
         pc'[r] \notin AfterDelete \cup {"insert_identity"},
         UNCHANGED <<accounts, identities, sessions, expired, locks, doomed>>,
         conns' \subseteq Request
  PROVE  AccountInv'
<1> USE DEF AccountInv, TypeOK, StepOf, Outside
<1>1. StoreTypeOK'
  BY DEF StoreTypeOK, AccountRow, IdentityRow, SessionRow
<1>2. OwnRows'
  BY DEF OwnRows, CreateSteps, HandlerTypeOK, StoreTypeOK
<1>3. LocksHeld'
  BY DEF LocksHeld, LockDiscipline, OwnRows, AfterDelete, CreateSteps, ActiveFor, HandlerTypeOK, StoreTypeOK
<1>4. DeletesMark'
  BY DEF DeletesMark, MarkedBy, AfterDelete, Unclosed, HandlerTypeOK, StoreTypeOK, NoWrites
<1>5. DeletedAccountsAreClosed'
  BY DEF DeletedAccountsAreClosed
<1> QED BY <1>1, <1>2, <1>3, <1>4, <1>5

(* Rolling back returns r's locks and marks, and its rows vanish.          *)
LEMMA RollbackEffect ==
  ASSUME StoreTypeOK, NEW r \in Request, Rollback(r)
  PROVE  /\ StoreTypeOK'
         /\ \A q \in Request :
              /\ accounts'[q] = IF q = r /\ accounts[q].status = "inserted"
                                THEN NoAccount ELSE accounts[q]
              /\ identities'[q] = IF q = r /\ identities[q].status = "inserted"
                                  THEN NoIdentity ELSE identities[q]
              /\ sessions'[q] = IF q = r /\ sessions[q].status = "inserted"
                                THEN NoSession ELSE sessions[q]
              /\ locks'[q] = IF locks[q] = r THEN None ELSE locks[q]
              /\ doomed'[q] = IF q = r THEN NoWrites ELSE doomed[q]
BY DEF StoreTypeOK, AccountRow, IdentityRow, SessionRow, Writes, Status, NoWrites,
       NoAccount, NoIdentity, NoSession, Rollback, EndTransaction, Undone

(* A rollback, whether the request retries or is answered.                 *)
LEMMA RollbackStep ==
  ASSUME AccountInv, NEW r \in Request, StepOf(r), Arguments', Rollback(r),
         pc[r] # "done", pc'[r] \in {"begin", "done"}
  PROVE  AccountInv'
<1> USE RollbackEffect, NoneAssumption
    DEF AccountInv, TypeOK, StepOf, NoAccount, NoIdentity, NoSession
<1>1. StoreTypeOK'
  OBVIOUS
<1>2. OwnRows'
  BY DEF OwnRows, CreateSteps
<1>3. LocksHeld'
  <2> SUFFICES ASSUME NEW q \in Request PROVE LockDiscipline(q)'
    BY DEF LocksHeld
  <2>1. CASE q = r
    BY <2>1 DEF LockDiscipline
  <2>2. CASE q # r
    BY <2>2 DEF LocksHeld, LockDiscipline, OwnRows, Arguments, CreateSteps, ActiveFor
  <2> QED BY <2>1, <2>2
<1>4. DeletesMark'
  <2> SUFFICES ASSUME NEW q \in Request PROVE MarkedBy(q)'
    BY DEF DeletesMark
  <2>1. CASE q = r
    BY <2>1 DEF MarkedBy, NoWrites
  <2>2. CASE q # r
    <3>1. /\ target[q] \in Request \/ doomed[q].accounts = {}
          /\ doomed[q].identities \subseteq Request
          /\ doomed[q].sessions \subseteq Request
      <4>1. doomed[q] \in Writes
        BY DEF StoreTypeOK
      <4>2. doomed[q].accounts = {} \/ doomed[q].accounts = {target[q]}
        BY DEF DeletesMark, MarkedBy
      <4> QED BY <4>1, <4>2 DEF Writes
    <3>2. /\ Unclosed(identities, target[q])' \subseteq Unclosed(identities, target[q])
          /\ Unclosed(sessions, target[q])' \subseteq Unclosed(sessions, target[q])
      BY <2>2 DEF Unclosed
    <3> QED BY <2>2, <3>1, <3>2 DEF DeletesMark, MarkedBy
  <2> QED BY <2>1, <2>2
<1>5. DeletedAccountsAreClosed'
  BY DEF DeletedAccountsAreClosed
<1> QED BY <1>1, <1>2, <1>3, <1>4, <1>5

(* An error inside WithTx.                                                 *)
LEMMA FailStep ==
  ASSUME AccountInv, NEW r \in Request, NEW result \in Reply, Fail(r, result),
         pc[r] # "done", call[r].op \in SigninOps
  PROVE  AccountInv'
<1> USE DEF AccountInv, TypeOK, SigninOps
<1>1. StepOf(r)
  BY DEF Fail, Answer, StepOf, HandlerTypeOK, Step, MaxAttempts
<1>2. Arguments'
  BY DEF Fail, Answer, Arguments, Route, HandlerTypeOK, DeleteSteps, CreateSteps
<1>3. pc'[r] \in {"begin", "done"}
  BY DEF Fail, Answer, HandlerTypeOK
<1> QED BY <1>1, <1>2, <1>3, RollbackStep DEF Fail

(* A failure at any other point.                                           *)
LEMMA AbortStep ==
  ASSUME AccountInv, NEW r \in Request, Abort(r)
  PROVE  AccountInv'
<1> USE DEF AccountInv, TypeOK, Abort, Answer
<1>1. StepOf(r)
  BY DEF StepOf, HandlerTypeOK, Step, Reply
<1>2. Arguments'
  BY DEF Arguments, Route, HandlerTypeOK, DeleteSteps, CreateSteps
<1> QED BY <1>1, <1>2, RollbackStep DEF HandlerTypeOK

-----------------------------------------------------------------------------
(* The steps that only read.                                               *)
LEMMA ReceiveStep ==
  ASSUME AccountInv, NEW r \in Request, Receive(r)
  PROVE  AccountInv'
<1> USE DEF AccountInv, TypeOK
<1> PICK c \in Calls :
        /\ call' = [call EXCEPT ![r] = c]
        /\ IF Rejected(c)
           THEN /\ pc' = [pc EXCEPT ![r] = "done"]
                /\ reply' = [reply EXCEPT ![r] = Rejection(c)]
           ELSE /\ pc' = [pc EXCEPT ![r] = FirstStep(c.op)]
                /\ UNCHANGED reply
  BY DEF Receive
<1>1. c \in Call
  BY CallsAssumption
<1>2. StepOf(r)
  BY <1>1 DEF Receive, StepOf, HandlerTypeOK, FirstStep, Rejection, Step, Reply
<1>3. Arguments'
  BY <1>1 DEF Receive, Arguments, Route,  HandlerTypeOK, FirstStep, Rejected, Call, Operation,
              DeleteSteps, CreateSteps
<1>4. pc'[r] \notin AfterDelete \cup {"insert_identity"}
  BY DEF HandlerTypeOK, FirstStep, AfterDelete
<1> QED BY <1>2, <1>3, <1>4, QuietStep DEF Receive, store, StoreTypeOK, Outside

(* Handlers that look something up or ask the provider.                    *)
LEMMA ReadStep ==
  ASSUME AccountInv, NEW r \in Request,
         Authenticate(r) \/ FindEmail(r) \/ Verify(r) \/ FindIdentity(r) \/ FindAccount(r)
  PROVE  AccountInv'
<1> USE DEF AccountInv, TypeOK, Goto, GotoWith, Answer
<1>1. CASE Authenticate(r)
  <2> USE <1>1 DEF Authenticate
  <2>1. Authentic(call[r].token) => sessions[call[r].token].account \in Request
    BY DEF Authentic, Arguments, StoreTypeOK
  <2>2. StepOf(r)
    BY <2>1 DEF StepOf, HandlerTypeOK, Step, Reply
  <2>3. Arguments'
    BY <2>1 DEF Arguments, Route, HandlerTypeOK, DeleteSteps, CreateSteps
  <2> QED BY <2>2, <2>3, QuietStep DEF store, StoreTypeOK, HandlerTypeOK, Outside, AfterDelete
<1>2. CASE FindEmail(r)
  <2> USE <1>2 DEF FindEmail
  <2>1. \A i \in LiveIdentities(call[r].email) : identities[i].account \in Request
    BY DEF LiveIdentities, StoreTypeOK
  <2>2. StepOf(r)
    BY <2>1 DEF StepOf, HandlerTypeOK, Step, Reply
  <2>3. Arguments'
    BY <2>1 DEF Arguments, Route, HandlerTypeOK, DeleteSteps, CreateSteps
  <2> QED BY <2>2, <2>3, QuietStep DEF store, StoreTypeOK, HandlerTypeOK, Outside, AfterDelete
<1>3. CASE Verify(r)
  <2> USE <1>3 DEF Verify
  <2>2. StepOf(r)
    BY DEF StepOf, HandlerTypeOK, Step, Reply
  <2>3. Arguments'
    BY DEF Arguments, Route, HandlerTypeOK, DeleteSteps, CreateSteps
  <2> QED BY <2>2, <2>3, QuietStep DEF store, StoreTypeOK, HandlerTypeOK, Outside, AfterDelete
<1>4. CASE FindIdentity(r)
  <2> USE <1>4 DEF FindIdentity
  <2>1. \A i \in LiveIdentities(call[r].subject) : identities[i].account \in Request
    BY DEF LiveIdentities, StoreTypeOK
  <2>2. StepOf(r)
    BY <2>1 DEF StepOf, HandlerTypeOK, Step
  <2>3. Arguments'
    BY <2>1 DEF Arguments, Route, HandlerTypeOK, DeleteSteps, CreateSteps
  <2> QED BY <2>2, <2>3, QuietStep DEF store, StoreTypeOK, HandlerTypeOK, AfterDelete
<1>5. CASE FindAccount(r)
  <2> USE <1>5 DEF FindAccount, LiveAccounts
  <2>2. StepOf(r)
    BY DEF StepOf, HandlerTypeOK, Step
  <2>3. Arguments'
    BY DEF Arguments, Route, HandlerTypeOK, DeleteSteps, CreateSteps
  <2> QED BY <2>2, <2>3, QuietStep DEF store, StoreTypeOK, HandlerTypeOK, AfterDelete
<1> QED BY <1>1, <1>2, <1>3, <1>4, <1>5

(* Taking a connection from the pool.                                      *)
LEMMA AcquireStep ==
  ASSUME AccountInv, NEW r \in Request, Connect(r) \/ Begin(r)
  PROVE  AccountInv'
<1> USE DEF AccountInv, TypeOK, Connect, Begin, Acquire, Goto
<1>1. StepOf(r)
  BY DEF StepOf, HandlerTypeOK, Step
<1>2. call[r].op \in Operation
  BY DEF HandlerTypeOK, Call
<1>3. Arguments'
  <2>1. CASE Connect(r)
    BY <2>1, <1>2 DEF Arguments, Route, HandlerTypeOK, DeleteSteps, CreateSteps, Operation
  <2>2. CASE Begin(r)
    BY <2>2, <1>2 DEF Arguments, Route, HandlerTypeOK, DeleteSteps, CreateSteps, Operation
  <2> QED BY <2>1, <2>2
<1> QED BY <1>1, <1>3, QuietStep DEF StoreTypeOK, HandlerTypeOK, Outside, AfterDelete

-----------------------------------------------------------------------------
(* The steps that insert rows and take row locks.                          *)
LEMMA CreateAccountStep ==
  ASSUME AccountInv, NEW r \in Request, CreateAccount(r)
  PROVE  AccountInv'
<1> USE DEF AccountInv, TypeOK, CreateAccount
<1>0. call[r].op \in SigninOps \ {"signin_email"} /\ call[r].email \in Email \cup {None}
  BY DEF Arguments, Route, SigninOps, HandlerTypeOK, Call, Operation, DeleteSteps
<1>1. CASE EmailTaken(call[r].email)
  BY <1>0, <1>1, FailStep DEF Reply, Conflict
<1>2. CASE ~EmailTaken(call[r].email)
  <2> USE <1>2 DEF InsertAccount, GotoWith
  <2>1. StoreTypeOK'
    BY <1>0 DEF StoreTypeOK, AccountRow, Status
  <2>2. HandlerTypeOK'
    BY DEF HandlerTypeOK, Step
  <2>3. Arguments'
    BY DEF Arguments, Route, HandlerTypeOK, DeleteSteps, CreateSteps
  <2>4. OwnRows'
    BY <1>0 DEF OwnRows, CreateSteps, StoreTypeOK, HandlerTypeOK
  <2>5. accounts[r].status = "absent"
    BY DEF OwnRows, CreateSteps, StoreTypeOK, AccountRow, Status
  <2>6. LocksHeld'
    <3> SUFFICES ASSUME NEW q \in Request PROVE LockDiscipline(q)'
      BY DEF LocksHeld
    <3>1. CASE q = r
      BY <3>1 DEF LocksHeld, LockDiscipline, OwnRows, HandlerTypeOK, CreateSteps, AfterDelete
    <3>2. CASE q # r
      BY <2>5, <3>2 DEF LocksHeld, LockDiscipline, ActiveFor, StoreTypeOK, HandlerTypeOK
    <3> QED BY <3>1, <3>2
  <2>7. DeletesMark'
    BY DEF DeletesMark, MarkedBy, Unclosed, StoreTypeOK, HandlerTypeOK, AfterDelete, NoWrites
  <2>8. DeletedAccountsAreClosed'
    BY DEF DeletedAccountsAreClosed, StoreTypeOK
  <2> QED BY <2>1, <2>2, <2>3, <2>4, <2>6, <2>7, <2>8
<1> QED BY <1>1, <1>2

(* CreateIdentity up to the row lock.                                      *)
LEMMA LockAccountStep ==
  ASSUME AccountInv, NEW r \in Request, LockAccount(r)
  PROVE  AccountInv'
<1> USE DEF AccountInv, TypeOK, LockAccount
<1>0. call[r].op \in SigninOps \ {"signin_email"}
  BY DEF Arguments, Route, SigninOps, HandlerTypeOK, Call, Operation, DeleteSteps
<1>1. CASE ~ActiveFor(r, target[r])
  BY <1>0, <1>1, FailStep DEF Reply
<1>2. CASE ActiveFor(r, target[r])
  <2> USE <1>2 DEF LockRow, Goto, LockFree
  <2>0. target[r] \in Request
    BY DEF Arguments, CreateSteps
  <2>1. StoreTypeOK'
    BY DEF StoreTypeOK
  <2>2. HandlerTypeOK'
    BY DEF HandlerTypeOK, Step
  <2>3. Arguments'
    BY DEF Arguments, Route, HandlerTypeOK, DeleteSteps, CreateSteps
  <2>4. OwnRows'
    BY <1>0 DEF OwnRows, CreateSteps, StoreTypeOK, HandlerTypeOK
  <2>5. LocksHeld'
    <3> SUFFICES ASSUME NEW q \in Request PROVE LockDiscipline(q)'
      BY DEF LocksHeld
    <3>1. CASE q = r
      BY <1>0, <2>0, <3>1 DEF LocksHeld, LockDiscipline, OwnRows, ActiveFor, StoreTypeOK,
         HandlerTypeOK, CreateSteps
    <3>2. CASE q # r
      BY <2>0, <3>2, NoneAssumption, LockersHaveTargets DEF LocksHeld, LockDiscipline,
         ActiveFor, StoreTypeOK, HandlerTypeOK
    <3> QED BY <3>1, <3>2
  <2>6. DeletesMark'
    BY <2>0, NoneAssumption DEF DeletesMark, MarkedBy, Unclosed, StoreTypeOK, HandlerTypeOK,
       AfterDelete, NoWrites, Writes
  <2>7. DeletedAccountsAreClosed'
    BY DEF DeletedAccountsAreClosed
  <2> QED BY <2>1, <2>2, <2>3, <2>4, <2>5, <2>6, <2>7
<1> QED BY <1>1, <1>2

(* CreateIdentity from the row lock on.                                    *)
LEMMA InsertIdentityStep ==
  ASSUME AccountInv, NEW r \in Request, InsertIdentity(r)
  PROVE  AccountInv'
<1> USE DEF AccountInv, TypeOK, InsertIdentity
<1>0. /\ call[r].op \in SigninOps \ {"signin_email"}
      /\ call[r].email \in Email \cup {None}
      /\ IdentityKey(r) \in Email \cup Subject \cup {None}
  BY DEF Arguments, Route, SigninOps, HandlerTypeOK, Call, Operation, DeleteSteps, IdentityKey
<1>1. CASE KeyTaken(IdentityKey(r))
  BY <1>0, <1>1, FailStep DEF Reply, Conflict
<1>2. CASE ~KeyTaken(IdentityKey(r))
  <2> USE <1>2 DEF InsertIdentityRow, Goto
  <2>0. target[r] \in Request /\ locks[target[r]] = r /\ ActiveFor(r, target[r])
    BY LockersHaveTargets DEF LocksHeld, LockDiscipline
  <2>1. StoreTypeOK'
    BY <1>0, <2>0 DEF StoreTypeOK, IdentityRow, Status
  <2>2. HandlerTypeOK'
    BY DEF HandlerTypeOK, Step
  <2>3. Arguments'
    BY <1>0 DEF Arguments, Route, HandlerTypeOK, DeleteSteps, CreateSteps, SigninOps
  <2>4. OwnRows'
    BY <1>0 DEF OwnRows, CreateSteps, StoreTypeOK, HandlerTypeOK
  <2>5. LocksHeld'
    <3> SUFFICES ASSUME NEW q \in Request PROVE LockDiscipline(q)'
      BY DEF LocksHeld
    <3>1. CASE q = r
      BY <1>0, <2>0, <3>1 DEF LocksHeld, LockDiscipline, OwnRows, ActiveFor, StoreTypeOK,
         HandlerTypeOK, CreateSteps
    <3>2. CASE q # r
      BY <3>2 DEF LocksHeld, LockDiscipline, ActiveFor, StoreTypeOK, HandlerTypeOK
    <3> QED BY <3>1, <3>2
  <2>6. DeletesMark'
    <3> SUFFICES ASSUME NEW q \in Request PROVE MarkedBy(q)'
      BY DEF DeletesMark
    <3>1. CASE q = r
      BY <3>1 DEF DeletesMark, MarkedBy, HandlerTypeOK, AfterDelete, NoWrites
    <3>2. CASE q # r
      <4>1. r \notin doomed[q].identities /\ doomed[q].identities \subseteq Request
        BY DEF DeletesMark, MarkedBy, OwnRows, StoreTypeOK, Writes
      <4>2. doomed[q].accounts # {} =>
               Unclosed(identities, target[q])' \subseteq Unclosed(identities, target[q])
        BY <2>0, <3>2 DEF DeletesMark, MarkedBy, Unclosed, StoreTypeOK
      <4> QED BY <3>2, <4>1, <4>2 DEF DeletesMark, MarkedBy, HandlerTypeOK, StoreTypeOK, Unclosed
    <3> QED BY <3>1, <3>2
  <2>7. DeletedAccountsAreClosed'
    BY <2>0 DEF DeletedAccountsAreClosed, ActiveFor, StoreTypeOK
  <2> QED BY <2>1, <2>2, <2>3, <2>4, <2>5, <2>6, <2>7
<1> QED BY <1>1, <1>2

(* CreateSession, in a transaction and in signinEmail.                     *)
LEMMA CreateSessionStep ==
  ASSUME AccountInv, NEW r \in Request, CreateSession(r)
  PROVE  AccountInv'
<1> USE DEF AccountInv, TypeOK, CreateSession
<1>0. call[r].op \in SigninOps /\ target[r] \in Request /\ pc[r] # "done"
  BY DEF Arguments, Route, SigninOps, HandlerTypeOK, Call, Operation, CreateSteps, DeleteSteps
<1>1. CASE ~ActiveFor(r, target[r])
  BY <1>0, <1>1, FailStep DEF Reply
<1>2. ASSUME ActiveFor(r, target[r]), InsertSession(r, target[r]), Goto(r, "commit"),
             call[r].op # "signin_email"
      PROVE  AccountInv'
  <2> USE <1>0, <1>2 DEF InsertSession, Goto, LockFree
  <2>1. StoreTypeOK'
    BY DEF StoreTypeOK, SessionRow, Status
  <2>2. HandlerTypeOK'
    BY DEF HandlerTypeOK, Step
  <2>3. Arguments'
    BY DEF Arguments, Route, HandlerTypeOK, DeleteSteps, CreateSteps, SigninOps
  <2>4. OwnRows'
    BY DEF OwnRows, CreateSteps, StoreTypeOK, HandlerTypeOK
  <2>5. LocksHeld'
    <3> SUFFICES ASSUME NEW q \in Request PROVE LockDiscipline(q)'
      BY DEF LocksHeld
    <3>1. CASE q = r
      BY <3>1 DEF LocksHeld, LockDiscipline, ActiveFor, StoreTypeOK, HandlerTypeOK, CreateSteps
    <3>2. CASE q # r
      BY <3>2, NoneAssumption, LockersHaveTargets DEF LocksHeld, LockDiscipline, ActiveFor,
         StoreTypeOK, HandlerTypeOK
    <3> QED BY <3>1, <3>2
  <2>6. DeletesMark'
    <3> SUFFICES ASSUME NEW q \in Request PROVE MarkedBy(q)'
      BY DEF DeletesMark
    <3>1. CASE q = r
      BY <3>1 DEF DeletesMark, MarkedBy, HandlerTypeOK, AfterDelete, NoWrites
    <3>2. CASE q # r
      <4>1. /\ r \notin doomed[q].sessions
            /\ doomed[q].sessions \subseteq Request
            /\ doomed[q].accounts \subseteq Request
        BY DEF DeletesMark, MarkedBy, OwnRows, StoreTypeOK, Writes
      <4>2. doomed[q].accounts # {} =>
              /\ target[q] # target[r]
              /\ Unclosed(sessions, target[q])' \subseteq Unclosed(sessions, target[q])
        BY <3>2, <4>1, NoneAssumption DEF DeletesMark, MarkedBy, Unclosed, StoreTypeOK
      <4> QED BY <3>2, <4>1, <4>2 DEF DeletesMark, MarkedBy, HandlerTypeOK, StoreTypeOK, Unclosed
    <3> QED BY <3>1, <3>2
  <2>7. DeletedAccountsAreClosed'
    BY DEF DeletedAccountsAreClosed, ActiveFor, StoreTypeOK
  <2> QED BY <2>1, <2>2, <2>3, <2>4, <2>5, <2>6, <2>7
<1>3. ASSUME ActiveFor(r, target[r]), AutocommitSession(r, target[r]), AnswerDone(r),
             call[r].op = "signin_email"
      PROVE  AccountInv'
  <2> USE <1>0, <1>3 DEF AutocommitSession, AnswerDone, Answer, LockFree
  <2>1. StoreTypeOK'
    BY DEF StoreTypeOK, SessionRow, Status
  <2>2. HandlerTypeOK'
    BY DEF HandlerTypeOK, Step, Reply
  <2>3. Arguments'
    BY DEF Arguments, Route, HandlerTypeOK, DeleteSteps, CreateSteps
  <2>4. /\ accounts[r].status # "inserted"
        /\ identities[r].status # "inserted"
        /\ locks[target[r]] # r
    BY DEF OwnRows, LocksHeld, LockDiscipline
  <2>5. OwnRows'
    BY <2>4 DEF OwnRows, CreateSteps, StoreTypeOK, HandlerTypeOK
  <2>6. LocksHeld'
    BY <2>4 DEF LocksHeld, LockDiscipline, ActiveFor, StoreTypeOK, HandlerTypeOK
  <2>7. DeletesMark'
    <3> SUFFICES ASSUME NEW q \in Request PROVE MarkedBy(q)'
      BY DEF DeletesMark
    <3>1. CASE q = r
      BY <3>1 DEF DeletesMark, MarkedBy, HandlerTypeOK, AfterDelete, NoWrites
    <3>2. CASE q # r
      BY <3>2, NoneAssumption DEF DeletesMark, MarkedBy, HandlerTypeOK, StoreTypeOK, Unclosed
    <3> QED BY <3>1, <3>2
  <2>8. DeletedAccountsAreClosed'
    BY <2>4 DEF DeletedAccountsAreClosed, ActiveFor, StoreTypeOK
  <2> QED BY <2>1, <2>2, <2>3, <2>5, <2>6, <2>7, <2>8
<1> QED BY <1>1, <1>2, <1>3

(* Sign-out closes a committed session and inserts nothing.                *)
LEMMA RevokeSessionStep ==
  ASSUME AccountInv, NEW r \in Request, RevokeSession(r)
  PROVE  AccountInv'
<1> USE DEF AccountInv, TypeOK, RevokeSession, AutocommitRevoke, AnswerDone, Answer
<1>1. call[r].token \in Request
  BY DEF Arguments
<1>2. StoreTypeOK'
  BY <1>1 DEF StoreTypeOK, SessionRow, Status
<1>3. HandlerTypeOK'
  BY DEF HandlerTypeOK, Step, Reply
<1>4. Arguments'
  BY DEF Arguments, Route, HandlerTypeOK, DeleteSteps, CreateSteps
<1>5. OwnRows'
  BY <1>1 DEF OwnRows, CreateSteps, StoreTypeOK, HandlerTypeOK
<1>6. LocksHeld'
  BY <1>1 DEF LocksHeld, LockDiscipline, ActiveFor, StoreTypeOK, HandlerTypeOK, OwnRows,
     AfterDelete, CreateSteps
<1>7. DeletesMark'
  BY <1>1 DEF DeletesMark, MarkedBy, Unclosed, StoreTypeOK, HandlerTypeOK, AfterDelete
<1>8. DeletedAccountsAreClosed'
  BY <1>1 DEF DeletedAccountsAreClosed, StoreTypeOK
<1> QED BY <1>2, <1>3, <1>4, <1>5, <1>6, <1>7, <1>8

-----------------------------------------------------------------------------
(* DELETE marks the account, its identities and its sessions.              *)
LEMMA SoftDeleteAccountStep ==
  ASSUME AccountInv, NEW r \in Request, SoftDeleteAccount(r)
  PROVE  AccountInv'
<1> USE DEF AccountInv, TypeOK, SoftDeleteAccount, Goto, LockFree
<1>0. target[r] \in Request /\ call[r].op = "delete" /\ doomed[r] = NoWrites
  BY DEF Arguments, Route, HandlerTypeOK, Call, Operation, CreateSteps, DeleteSteps,
         DeletesMark, MarkedBy, AfterDelete
<1>1. StoreTypeOK'
  <2>1. locks' \in [Request -> Request \cup {None}]
    BY <1>0 DEF StoreTypeOK
  <2>2. [doomed[r] EXCEPT !.accounts = {target[r]}] \in Writes
    BY <1>0 DEF Writes, NoWrites
  <2>3. doomed' \in [Request -> Writes]
    BY <2>2 DEF StoreTypeOK
  <2> QED BY <2>1, <2>3 DEF StoreTypeOK
<1>2. HandlerTypeOK'
  BY DEF HandlerTypeOK, Step
<1>3. Arguments'
  BY <1>0 DEF Arguments, Route, HandlerTypeOK, DeleteSteps, CreateSteps
<1>4. OwnRows'
  BY DEF OwnRows, CreateSteps, StoreTypeOK, HandlerTypeOK
<1>5. LocksHeld'
  <2> SUFFICES ASSUME NEW q \in Request PROVE LockDiscipline(q)'
    BY DEF LocksHeld
  <2>1. CASE q = r
    BY <1>0, <2>1, NoneAssumption DEF LocksHeld, LockDiscipline, OwnRows, ActiveFor, StoreTypeOK,
       HandlerTypeOK, AfterDelete, CreateSteps
  <2>2. CASE q # r
    BY <1>0, <2>2, NoneAssumption, LockersHaveTargets DEF LocksHeld, LockDiscipline, ActiveFor,
       StoreTypeOK, HandlerTypeOK
  <2> QED BY <2>1, <2>2
<1>6. DeletesMark'
  <2> SUFFICES ASSUME NEW q \in Request PROVE MarkedBy(q)'
    BY DEF DeletesMark
  <2>1. CASE q = r
    <3>1. /\ doomed'[r].accounts # {} => doomed'[r].accounts = {target[r]} /\ locks'[target[r]] = r
          /\ doomed'[r].identities = {}
          /\ doomed'[r].sessions = {}
      BY <1>0 DEF StoreTypeOK, NoWrites
    <3>2. pc'[r] = "soft_delete_identities" /\ target'[r] = target[r]
      BY DEF HandlerTypeOK
    <3> QED BY <2>1, <3>1, <3>2 DEF MarkedBy, AfterDelete
  <2>2. CASE q # r
    <3>1. doomed[q].accounts \subseteq Request
      BY DEF StoreTypeOK, Writes
    <3> QED BY <1>0, <2>2, <3>1, NoneAssumption DEF DeletesMark, MarkedBy, StoreTypeOK,
        HandlerTypeOK, Unclosed
  <2> QED BY <2>1, <2>2
<1>7. DeletedAccountsAreClosed'
  BY DEF DeletedAccountsAreClosed
<1> QED BY <1>1, <1>2, <1>3, <1>4, <1>5, <1>6, <1>7

(* The second and third UPDATE of DELETE, under the account's lock.        *)
LEMMA MarkRowsStep ==
  ASSUME AccountInv, NEW r \in Request,
         SoftDeleteAccountIdentities(r) \/ RevokeAllAccountSessions(r)
  PROVE  AccountInv'
<1> USE DEF AccountInv, TypeOK, SoftDeleteAccountIdentities, RevokeAllAccountSessions, Goto
<1>0. target[r] \in Request /\ call[r].op = "delete"
  BY DEF Arguments, Route, HandlerTypeOK, Call, Operation, CreateSteps, DeleteSteps
<1>1. StoreTypeOK'
  <2>1. \A w \in Writes, S \in SUBSET Request :
          [w EXCEPT !.identities = S] \in Writes /\ [w EXCEPT !.sessions = S] \in Writes
    BY DEF Writes
  <2>2. doomed[r] \in Writes
    BY DEF StoreTypeOK
  <2>3. \E w \in Writes : doomed' = [doomed EXCEPT ![r] = w]
    <3>1. CASE SoftDeleteAccountIdentities(r)
      <4> DEFINE S == {i \in Request : identities[i].status = "live" /\ identities[i].account = target[r]}
      <4>1. [doomed[r] EXCEPT !.identities = S] \in Writes
        BY <2>1, <2>2
      <4> QED BY <3>1, <4>1 DEF StoreTypeOK
    <3>2. CASE RevokeAllAccountSessions(r)
      <4> DEFINE S == {t \in Request : sessions[t].status = "live" /\ sessions[t].account = target[r]}
      <4>1. [doomed[r] EXCEPT !.sessions = S] \in Writes
        BY <2>1, <2>2
      <4> QED BY <3>2, <4>1 DEF StoreTypeOK, OpenSessions
    <3> QED BY <3>1, <3>2
  <2>4. doomed' \in [Request -> Writes]
    BY <2>3 DEF StoreTypeOK
  <2> QED BY <2>4 DEF StoreTypeOK
<1>2. HandlerTypeOK'
  BY DEF HandlerTypeOK, Step
<1>3. Arguments'
  BY <1>0 DEF Arguments, Route, HandlerTypeOK, DeleteSteps, CreateSteps
<1>4. OwnRows'
  BY DEF OwnRows, CreateSteps, StoreTypeOK, HandlerTypeOK
<1>5. LocksHeld'
  BY DEF LocksHeld, LockDiscipline, OwnRows, ActiveFor, StoreTypeOK, HandlerTypeOK,
         AfterDelete, CreateSteps
<1>6. DeletesMark'
  <2> SUFFICES ASSUME NEW q \in Request PROVE MarkedBy(q)'
    BY DEF DeletesMark
  <2>1. CASE q = r
    <3>1. doomed[r].accounts # {} => \A p \in Request :
            /\ identities[p].status = "inserted" => identities[p].account # target[r]
            /\ sessions[p].status = "inserted" => sessions[p].account # target[r]
      BY DEF DeletesMark, MarkedBy, LocksHeld, LockDiscipline, OwnRows, CreateSteps
    <3>2. CASE SoftDeleteAccountIdentities(r)
      BY <2>1, <3>1, <3>2 DEF DeletesMark, MarkedBy, StoreTypeOK, HandlerTypeOK, Writes,
         AfterDelete, Unclosed
    <3>3. CASE RevokeAllAccountSessions(r)
      BY <2>1, <3>1, <3>3 DEF DeletesMark, MarkedBy, StoreTypeOK, HandlerTypeOK, Writes,
         AfterDelete, Unclosed, OpenSessions
    <3> QED BY <3>2, <3>3
  <2>2. CASE q # r
    BY <2>2 DEF DeletesMark, MarkedBy, StoreTypeOK, HandlerTypeOK, Unclosed
  <2> QED BY <2>1, <2>2
<1>7. DeletedAccountsAreClosed'
  BY DEF DeletedAccountsAreClosed
<1> QED BY <1>1, <1>2, <1>3, <1>4, <1>5, <1>6, <1>7

-----------------------------------------------------------------------------
(* COMMIT: the rows r inserted become live, the rows it marked closed.     *)
LEMMA CommitEffect ==
  ASSUME StoreTypeOK, DeletesMark, NEW r \in Request, CommitWrites(r)
  PROVE  /\ StoreTypeOK'
         /\ \A q \in Request :
              /\ accounts'[q].email = accounts[q].email
              /\ accounts'[q].status = IF q = r /\ accounts[q].status = "inserted" THEN "live"
                                       ELSE IF q \in doomed[r].accounts THEN "closed"
                                       ELSE accounts[q].status
              /\ identities'[q].account = identities[q].account
              /\ identities'[q].status = IF q = r /\ identities[q].status = "inserted" THEN "live"
                                         ELSE IF q \in doomed[r].identities THEN "closed"
                                         ELSE identities[q].status
              /\ sessions'[q].account = sessions[q].account
              /\ sessions'[q].status = IF q = r /\ sessions[q].status = "inserted" THEN "live"
                                       ELSE IF q \in doomed[r].sessions THEN "closed"
                                       ELSE sessions[q].status
              /\ locks'[q] = IF locks[q] = r THEN None ELSE locks[q]
              /\ doomed'[q] = IF q = r THEN NoWrites ELSE doomed[q]
<1> USE DEF CommitWrites, EndTransaction, Settled, StoreTypeOK
<1>1. accounts' \in [Request -> AccountRow]
  BY DEF AccountRow, Status
<1>2. identities' \in [Request -> IdentityRow]
  <2>1. \A row \in IdentityRow, new \in Status : [row EXCEPT !.status = new] \in IdentityRow
    BY DEF IdentityRow
  <2> QED BY <2>1 DEF Status
<1>3. sessions' \in [Request -> SessionRow]
  BY DEF SessionRow, Status
<1>4. doomed' \in [Request -> Writes]
  BY DEF Writes, NoWrites
<1>5. \A q \in Request :
        /\ accounts'[q].email = accounts[q].email
        /\ accounts'[q].status = IF q = r /\ accounts[q].status = "inserted" THEN "live"
                                 ELSE IF q \in doomed[r].accounts THEN "closed"
                                 ELSE accounts[q].status
  BY DEF AccountRow
<1>6. \A q \in Request :
        /\ identities'[q].account = identities[q].account
        /\ identities'[q].status = IF q = r /\ identities[q].status = "inserted" THEN "live"
                                   ELSE IF q \in doomed[r].identities THEN "closed"
                                   ELSE identities[q].status
  BY DEF IdentityRow
<1>7. \A q \in Request :
        /\ sessions'[q].account = sessions[q].account
        /\ sessions'[q].status = IF q = r /\ sessions[q].status = "inserted" THEN "live"
                                 ELSE IF q \in doomed[r].sessions THEN "closed"
                                 ELSE sessions[q].status
  BY DEF SessionRow
<1>8. \A q \in Request :
        /\ identities'[q].status # "absent" => identities'[q].account \in Request
        /\ sessions'[q].status # "absent" => sessions'[q].account \in Request
  BY <1>6, <1>7 DEF DeletesMark, MarkedBy
<1>9. StoreTypeOK'
  <2>1. locks' \in [Request -> Request \cup {None}]
    OBVIOUS
  <2>2. expired' \subseteq Request /\ conns' \subseteq Request
    OBVIOUS
  <2> QED BY ONLY <1>1, <1>2, <1>3, <1>4, <1>8, <2>1, <2>2 DEF StoreTypeOK
<1> QED BY <1>5, <1>6, <1>7, <1>9

(* After a COMMIT no marked account has an unclosed row left.              *)
LEMMA CommitStep ==
  ASSUME AccountInv, NEW r \in Request, Commit(r)
  PROVE  AccountInv'
<1> USE CommitEffect, NoneAssumption DEF AccountInv, TypeOK, Commit, AnswerDone, Answer
<1>0. /\ pc[r] = "commit" /\ pc'[r] = "done" /\ target[r] \in Request
      /\ \A q \in Request : q # r => pc'[q] = pc[q]
      /\ UNCHANGED <<call, target>>
  BY DEF HandlerTypeOK, Arguments, CreateSteps
<1>1. StoreTypeOK'
  OBVIOUS
<1>2. HandlerTypeOK'
  BY DEF HandlerTypeOK, Step, Reply
<1>3. Arguments'
  BY <1>0 DEF Arguments
<1>4. doomed[r].accounts # {} => accounts[target[r]].status = "live" \/ target[r] = r
  BY <1>0 DEF DeletesMark, MarkedBy, LocksHeld, LockDiscipline, ActiveFor
<1>5. OwnRows'
  BY <1>0, <1>4 DEF OwnRows, CreateSteps, DeletesMark, MarkedBy
<1>6. LocksHeld'
  <2> SUFFICES ASSUME NEW q \in Request PROVE LockDiscipline(q)'
    BY DEF LocksHeld
  <2>1. CASE q = r
    BY <1>0, <2>1 DEF LockDiscipline
  <2>2. CASE q # r
    <3>1. \A a \in doomed[r].accounts : a \in Request /\ locks[a] = r
      BY <1>0 DEF DeletesMark, MarkedBy
    <3> QED BY <1>0, <2>2, <3>1, LockersHaveTargets DEF LocksHeld, LockDiscipline, ActiveFor
  <2> QED BY <2>1, <2>2
<1>7. DeletesMark'
  <2> SUFFICES ASSUME NEW q \in Request PROVE MarkedBy(q)'
    BY DEF DeletesMark
  <2>1. CASE q = r
    BY <1>0, <2>1 DEF MarkedBy, AfterDelete, NoWrites
  <2>2. CASE q # r
    <3>1. /\ doomed[q].accounts \subseteq Request
          /\ doomed[q].identities \subseteq Request
          /\ doomed[q].sessions \subseteq Request
      BY DEF StoreTypeOK, Writes
    <3>2. /\ Unclosed(identities, target[q])' \subseteq Unclosed(identities, target[q])
          /\ Unclosed(sessions, target[q])' \subseteq Unclosed(sessions, target[q])
      BY <1>0 DEF Unclosed
    <3> QED BY <1>0, <2>2, <3>1, <3>2 DEF DeletesMark, MarkedBy
  <2> QED BY <2>1, <2>2
<1>8. DeletedAccountsAreClosed'
  <2> SUFFICES ASSUME NEW a \in Request, NEW q \in Request, accounts'[a].status = "closed"
               PROVE  /\ identities'[q].account = a => identities'[q].status \notin {"inserted", "live"}
                      /\ sessions'[q].account = a => sessions'[q].status \notin {"inserted", "live"}
    BY DEF DeletedAccountsAreClosed
  <2>1. CASE accounts[a].status = "closed"
    BY <2>1 DEF DeletedAccountsAreClosed
  <2>2. CASE accounts[a].status # "closed"
    <3>1. /\ a = target[r]
          /\ Unclosed(identities, a) \subseteq doomed[r].identities
          /\ Unclosed(sessions, a) \subseteq doomed[r].sessions
      BY <1>0, <2>2 DEF DeletesMark, MarkedBy
    <3>2. /\ identities[q].account = a => identities[q].status # "inserted"
          /\ sessions[q].account = a => sessions[q].status # "inserted"
      BY <3>1 DEF Unclosed, DeletesMark, MarkedBy
    <3> QED BY <3>1, <3>2 DEF Unclosed
  <2> QED BY <2>1, <2>2
<1> QED BY <1>1, <1>2, <1>3, <1>5, <1>6, <1>7, <1>8

-----------------------------------------------------------------------------
(* Expiry is only read by Authenticate.                                    *)
LEMMA ExpireStep ==
  ASSUME AccountInv, NEW t \in Request, Expire(t)
  PROVE  AccountInv'
BY DEF AccountInv, TypeOK, Expire, PassExpiry, handler, StoreTypeOK, HandlerTypeOK, Arguments,
       OwnRows, LocksHeld, LockDiscipline, ActiveFor, DeletesMark, MarkedBy, Unclosed,
       DeletedAccountsAreClosed

(* Nothing happens.                                                        *)
LEMMA StutterStep ==
  ASSUME AccountInv, UNCHANGED vars
  PROVE  AccountInv'
BY DEF AccountInv, TypeOK, vars, store, handler, StoreTypeOK, HandlerTypeOK, Arguments,
       OwnRows, LocksHeld, LockDiscipline, ActiveFor, DeletesMark, MarkedBy, Unclosed,
       DeletedAccountsAreClosed

(* No step of the account component leaves the invariant.                  *)
LEMMA NextPreserves == AccountInv /\ [Next]_vars => AccountInv'
<1> SUFFICES ASSUME AccountInv, [Next]_vars PROVE AccountInv'
  OBVIOUS
<1>1. ASSUME NEW r \in Request, Receive(r) PROVE AccountInv'
  BY <1>1, ReceiveStep
<1>2. ASSUME NEW r \in Request, Abort(r) PROVE AccountInv'
  BY <1>2, AbortStep
<1>3. ASSUME NEW r \in Request, Progress(r) PROVE AccountInv'
  BY <1>3, ReadStep, AcquireStep, CommitStep, CreateAccountStep, LockAccountStep,
     InsertIdentityStep, CreateSessionStep, RevokeSessionStep, SoftDeleteAccountStep,
     MarkRowsStep DEF Progress
<1>4. ASSUME NEW t \in Request, Expire(t) PROVE AccountInv'
  BY <1>4, ExpireStep
<1>5. CASE UNCHANGED vars
  BY <1>5, StutterStep
<1> QED BY <1>1, <1>2, <1>3, <1>4, <1>5 DEF Next, Quiescent

(* AccountInv holds in every reachable state of every instance.            *)
THEOREM Invariance == Spec => []AccountInv
BY InitEstablishes, NextPreserves, PTL DEF Spec

(* Types: see TypeOK in Account.                                           *)
THEOREM TypeCorrect == Spec => []TypeOK
<1>1. AccountInv => TypeOK
  BY DEF AccountInv
<1> QED BY <1>1, Invariance, PTL

(* service.go:275-285 with the FOR UPDATE of accounts.sql:28-35 and        *)
(* 115-122: whatever else is in flight, a deleted account is left with no  *)
(* identity and no session that is not closed.                             *)
THEOREM DeleteClosesEverything == Spec => []DeletedAccountsAreClosed
<1>1. AccountInv => DeletedAccountsAreClosed
  BY DEF AccountInv
<1> QED BY <1>1, Invariance, PTL
=============================================================================

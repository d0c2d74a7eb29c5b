------------------------ MODULE AccountRequestProofs ------------------------
(***************************************************************************)
(* What becomes of a request, for any number of requests, addresses,       *)
(* subjects and connections: what the second attempt of signinOAuth        *)
(* collides with, that no requests wait for each other, and that each of   *)
(* them comes to an end.                                                   *)
(***************************************************************************)
EXTENDS AccountAnswerProofs

-----------------------------------------------------------------------------
(* As long as no account is closed, a step of r leaves the accounts and    *)
(* the identities of the other requests as they are.                       *)
LEMMA OthersUntouched ==
  ASSUME AccountInv, AnswerInv, NEW r \in Request, Receive(r) \/ Progress(r) \/ Abort(r),
         NoneClosed', NEW q \in Request \ {r}
  PROVE  accounts'[q] = accounts[q] /\ identities'[q] = identities[q]
<1>0. StoreTypeOK /\ HandlerTypeOK
  BY DEF AccountInv, TypeOK
<1>1. accounts'[q] = accounts[q]
  BY OthersRows DEF NoneClosed
<1>2. CASE Commit(r)
  <2>1. CommitWrites(r) /\ target[r] \in Request /\ pc[r] = "commit"
    BY <1>2 DEF Commit, AccountInv, Arguments, CreateSteps
  <2>2. CASE call[r].op = "delete"
    <3>1. \/ target[r] \in doomed[r].accounts
          \/ accounts[target[r]].status = "closed"
      BY <2>1, <2>2 DEF AnswerInv, RequestInv, DeleteTies, AfterDelete
    <3>2. accounts'[target[r]].status = "closed"
      BY <1>2, <2>1, <2>2, <3>1, DeleteRows
    <3> QED BY <2>1, <3>2 DEF NoneClosed
  <2>3. CASE call[r].op # "delete"
    <3>1. doomed[r].identities = {}
      BY <2>3 DEF AnswerInv, RequestInv, MarkTies, NoWrites
    <3> QED BY <1>1, <2>1, <3>1, CommitRows
  <2> QED BY <2>2, <2>3
<1>3. CASE Abort(r) \/ \E result \in Reply : Fail(r, result)
  <2>1. Rollback(r)
    BY <1>3 DEF Abort, Fail
  <2> QED BY <1>0, <1>1, <2>1, RollbackEffect
<1>4. CASE CreateAccount(r) \/ LockAccount(r) \/ InsertIdentity(r) \/ CreateSession(r)
  BY <1>0, <1>1, <1>3, <1>4 DEF CreateAccount, LockAccount, InsertIdentity, CreateSession,
     InsertAccount, LockRow, InsertIdentityRow, InsertSession, AutocommitSession, StoreTypeOK,
     Reply, Conflict
<1>5. CASE \/ Receive(r) \/ Authenticate(r) \/ FindEmail(r) \/ Verify(r) \/ FindIdentity(r)
           \/ FindAccount(r) \/ Connect(r) \/ Begin(r) \/ RevokeSession(r)
           \/ SoftDeleteAccount(r) \/ SoftDeleteAccountIdentities(r) \/ RevokeAllAccountSessions(r)
  BY <1>1, <1>5 DEF Receive, Authenticate, FindEmail, Verify, FindIdentity, FindAccount, Connect,
     Begin, Acquire, RevokeSession, AutocommitRevoke, SoftDeleteAccount,
     SoftDeleteAccountIdentities, RevokeAllAccountSessions, store
<1> QED BY <1>2, <1>3, <1>4, <1>5 DEF Progress

(* Hence what is active stays so, and an active account does not get an    *)
(* identity row of its own any more.                                       *)
LEMMA ActiveRowsStand ==
  ASSUME AccountInv, AnswerInv, NEW r \in Request, Receive(r) \/ Progress(r) \/ Abort(r),
         NoneClosed', NEW e, NEW k
  PROVE  /\ NoneClosed
         /\ LiveAccounts(e) \subseteq LiveAccounts(e)'
         /\ LiveIdentities(k) \subseteq LiveIdentities(k)'
         /\ \A a \in LiveAccounts(e) : a \in LiveIdentities(k)' => a \in LiveIdentities(k)
<1>1. \A q \in Request \ {r} : accounts'[q] = accounts[q] /\ identities'[q] = identities[q]
  BY OthersUntouched
<1>2. accounts[r].status \notin Kept /\ identities[r].status \notin Kept /\ KeptRows
  BY KeptStay
<1>3. NoneClosed
  BY <1>2 DEF KeptRows, NoneClosed, Kept
<1>4. ASSUME NEW i \in Request, identities[i].status = "live"
      PROVE  /\ identities[i].account \in Request \ {r}
             /\ accounts[identities[i].account].status = "live"
  <2>1. identities[i].account \in Request
    BY <1>4 DEF AccountInv, TypeOK, StoreTypeOK
  <2>2. accounts[identities[i].account].status \in Kept
    BY <1>4 DEF AnswerInv, TableInv, IdentityMatches
  <2> QED BY <1>2, <1>3, <2>1, <2>2 DEF NoneClosed, Kept
<1>5. LiveAccounts(e) \subseteq LiveAccounts(e)'
  BY <1>1, <1>2 DEF LiveAccounts, Kept
<1>6. LiveIdentities(k) \subseteq LiveIdentities(k)'
  BY <1>1, <1>2, <1>4 DEF LiveIdentities, Kept
<1>7. ASSUME NEW a \in LiveAccounts(e), a \in LiveIdentities(k)' PROVE a \in LiveIdentities(k)
  <2>1. a \in Request \ {r} /\ identities'[a] = identities[a]
    BY <1>1, <1>2 DEF LiveAccounts, Kept
  <2>2. identities[a].status = "live" /\ identities[a].key = k
    BY <1>7, <2>1 DEF LiveIdentities
  <2> QED BY <1>4, <2>1, <2>2 DEF LiveIdentities
<1> QED BY <1>3, <1>5, <1>6, <1>7

(* So for the address and the subject a request goes on working with.      *)
LEMMA CollisionsStand ==
  ASSUME AccountInv, AnswerInv, NEW r \in Request, Receive(r) \/ Progress(r) \/ Abort(r),
         NoneClosed', NEW q \in Request, call'[q] = call[q]
  PROVE  /\ NoneClosed
         /\ LiveAccounts(call[q].email) \subseteq LiveAccounts(call[q].email)'
         /\ LiveIdentities(call[q].subject) \subseteq LiveIdentities(call[q].subject)'
         /\ Foreign(q) \subseteq Foreign(q)'
<1> PICK e, k : e = call[q].email /\ k = call[q].subject
  OBVIOUS
<1>1. /\ NoneClosed
      /\ LiveAccounts(e) \subseteq LiveAccounts(e)'
      /\ LiveIdentities(k) \subseteq LiveIdentities(k)'
      /\ \A a \in LiveAccounts(e) : a \in LiveIdentities(k)' => a \in LiveIdentities(k)
  BY ActiveRowsStand
<1>2. /\ LiveAccounts(call[q].email) = LiveAccounts(e)
      /\ LiveAccounts(call[q].email)' = LiveAccounts(e)'
      /\ LiveIdentities(call[q].subject) = LiveIdentities(k)
      /\ LiveIdentities(call[q].subject)' = LiveIdentities(k)'
  BY DEF LiveAccounts, LiveIdentities
<1> QED BY <1>1, <1>2 DEF Foreign

(* What is known of the other requests stays true.                         *)
LEMMA OthersConflict ==
  ASSUME AccountInv, AnswerInv, NEW r \in Request, Receive(r) \/ Progress(r) \/ Abort(r),
         NoneClosed', NEW q \in Request \ {r}, attempt'[q] = attempt[q], ConflictOf(q)
  PROVE  ConflictOf(q)'
<1>1. /\ pc'[q] = pc[q] /\ call'[q] = call[q] /\ target'[q] = target[q] /\ reply'[q] = reply[q]
  BY StepRest DEF HandlersRest
<1>2. /\ LiveAccounts(call[q].email) \subseteq LiveAccounts(call[q].email)'
      /\ LiveIdentities(call[q].subject) \subseteq LiveIdentities(call[q].subject)'
      /\ Foreign(q) \subseteq Foreign(q)'
  BY <1>1, CollisionsStand
<1>3. attempt'[q] > 1 => SecondAttempt(q)'
  BY <1>1, <1>2 DEF SecondAttempt, ConflictOf
<1> QED BY <1>1, <1>2, <1>3 DEF ConflictOf

(* A violated index means a committed, active row: what is being inserted  *)
(* or deleted by somebody else is waited for, and r has inserted nothing.  *)
LEMMA TakenEmailIsActive ==
  ASSUME AccountInv, AnswerInv, NEW r \in Request, CreateAccount(r), EmailTaken(call[r].email)
  PROVE  call[r].email # None /\ LiveAccounts(call[r].email) # {}
<1>1. PICK a \in Request : accounts[a].email = call[r].email /\ accounts[a].status \in {"inserted", "live"}
  BY DEF EmailTaken, AccountRivals
<1>2. accounts[r] = NoAccount
  BY NothingYet DEF CreateAccount, CreateSteps, AnswerInv
<1>3. accounts[a].status = "live"
  BY <1>1, <1>2 DEF CreateAccount, AwaitsAccountIndex, AccountIndexHolders,
     AccountRivals, Unsettling, EmailTaken, NoAccount
<1> QED BY <1>1, <1>3 DEF EmailTaken, LiveAccounts

LEMMA TakenKeyIsActive ==
  ASSUME AccountInv, AnswerInv, NoneClosed, NEW r \in Request, InsertIdentity(r),
         KeyTaken(IdentityKey(r))
  PROVE  LiveIdentities(IdentityKey(r)) # {}
<1>1. PICK i \in Request : identities[i].key = IdentityKey(r) /\ identities[i].status \in {"inserted", "live"}
  BY DEF KeyTaken, IdentityRivals
<1>2. identities[r].status # "inserted"
  BY DEF InsertIdentity, AccountInv, OwnRows
<1>3. identities[i].status = "live"
  BY <1>1, <1>2 DEF InsertIdentity, AwaitsIdentityIndex, IdentityIndexHolders,
     IdentityRivals, Unsettling
<1>4. accounts[identities[i].account].status = "live"
  <2>1. identities[i].account \in Request
    BY <1>3 DEF AccountInv, TypeOK, StoreTypeOK
  <2>2. accounts[identities[i].account].status \in Kept
    BY <1>3 DEF AnswerInv, TableInv, IdentityMatches
  <2> QED BY <2>1, <2>2 DEF NoneClosed, Kept
<1> QED BY <1>1, <1>3, <1>4 DEF LiveIdentities

(* signinOAuth counts its attempts, and nothing else touches the counter.  *)
EmailConflict(r) == CreateAccount(r) /\ EmailTaken(call[r].email) /\ Fail(r, "email_exists")
KeyConflict(r) == InsertIdentity(r) /\ KeyTaken(IdentityKey(r)) /\ Fail(r, "identity_exists")

LEMMA AttemptStep ==
  ASSUME AccountInv, NEW r \in Request, Receive(r) \/ Progress(r) \/ Abort(r)
  PROVE  /\ \A q \in Request \ {r} : attempt'[q] = attempt[q]
         /\ \/ attempt'[r] = attempt[r]
            \/ /\ EmailConflict(r) \/ KeyConflict(r)
               /\ call[r].op = "signin_oauth" /\ attempt[r] = 1 /\ attempt'[r] = 2
               /\ pc'[r] = "begin" /\ UNCHANGED <<call, reply>>
<1>0. HandlerTypeOK
  BY DEF AccountInv, TypeOK
<1>1. ASSUME NEW result \in Reply, Fail(r, result)
      PROVE  /\ \A q \in Request \ {r} : attempt'[q] = attempt[q]
             /\ \/ attempt'[r] = attempt[r]
                \/ /\ result \in Conflict /\ call[r].op = "signin_oauth"
                   /\ attempt[r] = 1 /\ attempt'[r] = 2
                   /\ pc'[r] = "begin" /\ UNCHANGED <<call, reply>>
  BY <1>0, <1>1 DEF Fail, Answer, HandlerTypeOK, MaxAttempts
<1>2. CASE EmailConflict(r)
  BY <1>1, <1>2 DEF EmailConflict, Reply, Conflict
<1>3. CASE KeyConflict(r)
  BY <1>1, <1>3 DEF KeyConflict, Reply, Conflict
<1>4. CASE Fail(r, "invalid_credentials")
  BY <1>1, <1>4 DEF Reply, Conflict
<1>5. UNCHANGED attempt \/ EmailConflict(r) \/ KeyConflict(r) \/ Fail(r, "invalid_credentials")
  BY DEF Progress, Receive, Abort, Authenticate, FindEmail, Verify, Connect, Begin, Commit,
         FindIdentity, FindAccount, CreateAccount, LockAccount, InsertIdentity, CreateSession,
         RevokeSession, SoftDeleteAccount, SoftDeleteAccountIdentities, RevokeAllAccountSessions,
         Goto, GotoWith, Answer, AnswerDone, EmailConflict, KeyConflict
<1> QED BY <1>2, <1>3, <1>4, <1>5

(* What is known of r itself, step by step.                                *)
LEMMA OwnConflict ==
  ASSUME AccountInv, AnswerInv, ConflictInv, NoneClosed',
         NEW r \in Request, Receive(r) \/ Progress(r) \/ Abort(r),
         call'[r].op = "signin_oauth"
  PROVE  ConflictOf(r)'
<1> USE DEF Goto, GotoWith, Answer, AnswerDone
<1>0. HandlerTypeOK /\ attempt[r] \in {1, 2}
  BY DEF AccountInv, TypeOK, HandlerTypeOK, MaxAttempts
<1>1. NoneClosed
  BY KeptStay DEF KeptRows, NoneClosed, Kept
<1>2. attempt[r] = 2 =>
        call[r].op = "signin_oauth" /\ pc[r] \notin {"idle", "verify"} /\ SecondAttempt(r)
  BY <1>1 DEF ConflictInv, ConflictOf
<1>3. reply[r] = "none"
  BY KeptStay DEF AnswerInv, RequestInv, Answered
<1>4. CASE Receive(r)
  <2>1. attempt[r] = 1 /\ UNCHANGED attempt
    BY <1>0, <1>2, <1>4 DEF Receive
  <2>2. reply'[r] \in {"none", "invalid_input", "unauthenticated"}
    BY <1>0, <1>3, <1>4 DEF Receive, HandlerTypeOK, Rejection
  <2> QED BY <2>1, <2>2 DEF ConflictOf, Conflict
<1> SUFFICES ASSUME Progress(r) \/ Abort(r) PROVE ConflictOf(r)'
  BY <1>4
<1>5. UNCHANGED call /\ call[r].op = "signin_oauth"
  BY DEF Progress, Abort, Authenticate, FindEmail, Verify, Connect, Begin, Commit,
         FindIdentity, FindAccount, CreateAccount, LockAccount, InsertIdentity, CreateSession,
         RevokeSession, SoftDeleteAccount, SoftDeleteAccountIdentities, RevokeAllAccountSessions, Fail
<1>6. /\ LiveAccounts(call[r].email) \subseteq LiveAccounts(call[r].email)'
      /\ LiveIdentities(call[r].subject) \subseteq LiveIdentities(call[r].subject)'
      /\ Foreign(r) \subseteq Foreign(r)'
  BY <1>5, CollisionsStand
<1>7. attempt'[r] = attempt[r] \/ EmailConflict(r) \/ KeyConflict(r)
  BY AttemptStep
<1>8. CASE EmailConflict(r)
  <2>1. call[r].email # None /\ LiveAccounts(call[r].email) # {} /\ attempt[r] = 1
    BY <1>0, <1>2, <1>8, TakenEmailIsActive DEF EmailConflict, CreateAccount, SecondAttempt
  <2>2. pc'[r] = "begin" /\ UNCHANGED <<call, reply>> /\ attempt'[r] = 2
    BY <1>0, <1>5, <1>8, <2>1 DEF EmailConflict, Fail, HandlerTypeOK, Conflict, MaxAttempts
  <2> QED BY <1>3, <1>6, <2>1, <2>2 DEF ConflictOf, SecondAttempt, Conflict
<1>9. CASE KeyConflict(r)
  <2>1. LiveIdentities(call[r].subject) # {} /\ pc[r] = "insert_identity"
    BY <1>1, <1>5, <1>9, TakenKeyIsActive DEF KeyConflict, IdentityKey, InsertIdentity
  <2>2. CASE attempt[r] = 1
    <3>1. pc'[r] = "begin" /\ UNCHANGED <<call, reply>> /\ attempt'[r] = 2
      BY <1>0, <1>5, <1>9, <2>2 DEF KeyConflict, Fail, HandlerTypeOK, Conflict, MaxAttempts
    <3> QED BY <1>3, <1>6, <2>1, <3>1 DEF ConflictOf, SecondAttempt, Conflict
  <2>3. CASE attempt[r] = 2
    <3>1. pc'[r] = "done" /\ UNCHANGED <<call, attempt>> /\ reply'[r] = "identity_exists"
      BY <1>0, <1>5, <1>9, <2>3 DEF KeyConflict, Fail, HandlerTypeOK, MaxAttempts
    <3>2. target[r] \in Foreign(r)
      BY <1>2, <2>1, <2>3 DEF SecondAttempt
    <3>3. target[r] \in Foreign(r)' /\ LiveIdentities(call[r].subject)' # {}
      BY <1>6, <2>1, <3>2
    <3>4. target[r] \in LiveAccounts(call[r].email)' /\ LiveIdentities(call[r].subject)' \ {target[r]} # {}
      BY <1>5, <3>1, <3>3 DEF Foreign
    <3> QED BY <1>5, <3>1, <3>4 DEF ConflictOf, SecondAttempt, Conflict
  <2> QED BY <1>0, <2>2, <2>3
<1> SUFFICES ASSUME ~EmailConflict(r), ~KeyConflict(r)
             PROVE  reply'[r] \notin Conflict /\ (attempt[r] = 2 => SecondAttempt(r)')
  BY <1>0, <1>7, <1>8, <1>9 DEF ConflictOf
<1>10. reply'[r] \notin Conflict
  BY <1>0, <1>3 DEF Progress, Abort, Authenticate, FindEmail, Verify, Connect, Begin, Commit,
         FindIdentity, FindAccount, CreateAccount, LockAccount, InsertIdentity, CreateSession,
         RevokeSession, SoftDeleteAccount, SoftDeleteAccountIdentities, RevokeAllAccountSessions,
         Fail, EmailConflict, KeyConflict, Conflict, HandlerTypeOK
<1>11. ASSUME attempt[r] = 2 PROVE SecondAttempt(r)'
  <2> USE <1>0, <1>5, <1>11 DEF HandlerTypeOK
  <2>0. SecondAttempt(r)
    BY <1>2
  <2>1. CASE Begin(r)
    <3>1. pc[r] = "begin" /\ pc'[r] = "find_identity"
      BY <2>1 DEF Begin
    <3> QED BY <1>6, <2>0, <3>1 DEF SecondAttempt
  <2>2. CASE FindIdentity(r)
    <3>1. CASE LiveIdentities(call[r].subject) # {}
      BY <2>2, <3>1 DEF FindIdentity, SecondAttempt
    <3>2. CASE LiveIdentities(call[r].subject) = {}
      <4>1. pc[r] = "find_identity" /\ call[r].email # None /\ Foreign(r) # {}
        BY <2>0, <2>2, <3>2 DEF FindIdentity, SecondAttempt, Foreign
      <4>2. pc'[r] = "find_account"
        BY <2>2, <3>2, <4>1 DEF FindIdentity
      <4> QED BY <1>6, <4>1, <4>2 DEF SecondAttempt
    <3> QED BY <3>1, <3>2
  <2>3. CASE FindAccount(r)
    <3>1. PICK a \in Foreign(r) : TRUE
      BY <2>0, <2>3 DEF FindAccount, SecondAttempt
    <3>2. call[r].email # None
      BY <2>3 DEF FindAccount, AnswerInv, RequestInv, LinkTies
    <3>3. \A b \in LiveAccounts(call[r].email) : b = a
      BY <3>1, <3>2 DEF Foreign, LiveAccounts, AnswerInv, TableInv, AddressesAreUnique, Holds
    <3>4. target'[r] = a /\ pc'[r] = "lock_account"
      BY <2>3, <3>1, <3>3 DEF FindAccount, Foreign
    <3> QED BY <1>6, <3>1, <3>4 DEF SecondAttempt
  <2>4. CASE LockAccount(r)
    <3>1. /\ pc[r] = "lock_account" /\ target'[r] = target[r]
          /\ pc'[r] \in {"insert_identity", "done"}
      BY <2>4 DEF LockAccount, Fail, Conflict
    <3> QED BY <1>6, <2>0, <3>1 DEF SecondAttempt
  <2>5. CASE ~(Begin(r) \/ FindIdentity(r) \/ FindAccount(r) \/ LockAccount(r))
    <3>1. pc[r] \notin {"verify", "create_account"}
      BY <1>2, <2>0 DEF SecondAttempt
    <3>2. pc'[r] \in {"create_session", "commit", "done"}
      <4>1. CASE Abort(r) \/ Commit(r)
        BY <4>1 DEF Abort, Commit
      <4>2. CASE InsertIdentity(r)
        BY <4>2 DEF InsertIdentity, KeyConflict
      <4>3. CASE CreateSession(r)
        BY <4>3 DEF CreateSession, Fail, Conflict
      <4>4. pc[r] \notin {"authenticate", "find_email", "connect", "revoke_session",
                          "soft_delete_account", "soft_delete_identities", "revoke_sessions"}
        <5>1. pc[r] \in {"idle", "done"} \cup Route("signin_oauth")
          BY DEF AccountInv, Arguments
        <5> QED BY <5>1 DEF Route, CreateSteps
      <4> QED BY <2>5, <3>1, <4>1, <4>2, <4>3, <4>4 DEF Progress, Authenticate, FindEmail, Verify,
          Connect, CreateAccount, RevokeSession, SoftDeleteAccount, SoftDeleteAccountIdentities,
          RevokeAllAccountSessions
    <3> QED BY <3>2 DEF SecondAttempt
  <2> QED BY <2>1, <2>2, <2>3, <2>4, <2>5
<1> QED BY <1>10, <1>11

(* Nobody has collided at first, and no step leaves the invariant.         *)
LEMMA ConflictInit == Init => ConflictInv
BY DEF Init, ConflictInv, ConflictOf, Conflict, NoCall

LEMMA ConflictStep == AccountInv /\ AnswerInv /\ ConflictInv /\ [Next]_vars => ConflictInv'
<1> SUFFICES ASSUME AccountInv, AnswerInv, ConflictInv, [Next]_vars PROVE ConflictInv'
  OBVIOUS
<1>0. HandlerTypeOK
  BY DEF AccountInv, TypeOK
<1>1. ASSUME NEW r \in Request, Receive(r) \/ Progress(r) \/ Abort(r) PROVE ConflictInv'
  <2>1. ASSUME NEW q \in Request, attempt'[q] > 1
        PROVE  call'[q].op = "signin_oauth" /\ pc'[q] \notin {"idle", "verify"}
    <3>1. CASE q # r
      BY <1>1, <2>1, <3>1, AttemptStep, StepRest DEF HandlersRest, ConflictInv
    <3>2. CASE q = r /\ attempt'[r] # attempt[r]
      BY <1>1, <3>2, AttemptStep
    <3>3. CASE q = r /\ attempt'[r] = attempt[r]
      <4>1. call[r].op = "signin_oauth" /\ ~Receive(r)
        BY <2>1, <3>3 DEF ConflictInv, Receive
      <4>2. UNCHANGED call
        BY <1>1, <4>1 DEF Progress, Abort, Authenticate, FindEmail, Verify, Connect, Begin, Commit,
           FindIdentity, FindAccount, CreateAccount, LockAccount, InsertIdentity, CreateSession,
           RevokeSession, SoftDeleteAccount, SoftDeleteAccountIdentities, RevokeAllAccountSessions,
           Fail, Goto, GotoWith, Answer, AnswerDone
      <4>3. pc'[r] \notin {"idle", "verify"}
        BY <1>0, <1>1, <4>1 DEF Progress, Abort, Authenticate, FindEmail, Verify, Connect, Begin,
           Commit, FindIdentity, FindAccount, CreateAccount, LockAccount, InsertIdentity,
           CreateSession, RevokeSession, SoftDeleteAccount, SoftDeleteAccountIdentities,
           RevokeAllAccountSessions, Fail, Goto, GotoWith, Answer, AnswerDone, HandlerTypeOK
      <4> QED BY <3>3, <4>1, <4>2, <4>3
    <3> QED BY <3>1, <3>2, <3>3
  <2>2. ASSUME NoneClosed', NEW q \in Request, call'[q].op = "signin_oauth" PROVE ConflictOf(q)'
    <3>1. CASE q = r
      BY <1>1, <2>2, <3>1, OwnConflict
    <3>2. CASE q # r
      <4>1. attempt'[q] = attempt[q] /\ call'[q] = call[q]
        BY <1>1, <3>2, AttemptStep, StepRest DEF HandlersRest
      <4>2. NoneClosed
        BY <1>1, <2>2, KeptStay DEF KeptRows, NoneClosed, Kept
      <4> QED BY <1>1, <2>2, <3>2, <4>1, <4>2, OthersConflict DEF ConflictInv
    <3> QED BY <3>1, <3>2
  <2> QED BY <2>1, <2>2 DEF ConflictInv
<1>2. CASE UNCHANGED vars \/ \E t \in Request : Expire(t)
  <2>1. UNCHANGED <<accounts, identities, pc, call, target, attempt, reply>>
    BY <1>2 DEF vars, store, handler, Expire, PassExpiry
  <2> QED BY <2>1 DEF ConflictInv, ConflictOf, SecondAttempt, Foreign, LiveAccounts, LiveIdentities,
      NoneClosed
<1> QED BY <1>1, <1>2 DEF Next, Quiescent

(* service.go:133-144: an OAuth sign-in is refused for a conflict only     *)
(* after its second attempt met an identity of its subject that another    *)
(* request than the owner of its address has linked, or after an account   *)
(* was deleted; a sign-up never for an identity (ConflictAnswersExplained  *)
(* in Account).                                                            *)
THEOREM ConflictsExplained == Spec => []ConflictAnswersExplained
<1>1. AccountInv /\ ConflictInv => OAuthConflictExplained
  BY DEF ConflictInv, ConflictOf, NoneClosed, OAuthConflictExplained
<1> QED
  BY <1>1, ConflictInit, ConflictStep, Invariance, AnswersHold, SignupConflicts, PTL
     DEF Spec, ConflictAnswersExplained
-----------------------------------------------------------------------------
(* By which right a request works on an account.  What the others have     *)
(* linked or been issued stays.                                            *)
LEMMA OthersRight ==
  ASSUME AccountInv, AnswerInv, NEW r \in Request, Receive(r) \/ Progress(r) \/ Abort(r),
         NEW q \in Request \ {r}, RightOf(q)
  PROVE  RightOf(q)'
<1>1. /\ pc'[q] = pc[q] /\ call'[q] = call[q] /\ target'[q] = target[q] /\ reply'[q] = reply[q]
  BY StepRest DEF HandlersRest
<1>2. KeptRows
  BY KeptStay
<1>3. /\ sessions'[q].account = sessions[q].account
      /\ sessions'[q].status = "absent" <=> sessions[q].status = "absent"
  BY OthersRows DEF Kept
<1>4. identities[q].status = "inserted" => identities'[q] = identities[q]
  BY OthersRows DEF Kept
<1>5. Linked(q) => Linked(q)'
  BY <1>1, <1>2, <1>4 DEF Linked, Credential, KeptRows
<1>6. DeletesAccount(q) =>
        sessions'[call[q].token].account = sessions[call[q].token].account
  BY <1>2, NoneAssumption DEF RightOf, AnswerInv, RequestInv, TokenTies, KeptRows
<1> QED BY <1>1, <1>3, <1>5, <1>6 DEF RightOf, SignsIn, DeletesAccount

(* Nor does r lose the identity it has found or inserted, as long as it is *)
(* not rolled back.                                                        *)
LEMMA LinkStays ==
  ASSUME AccountInv, NEW r \in Request, Receive(r) \/ Progress(r) \/ Abort(r),
         Linked(r), call'[r] = call[r], target'[r] = target[r],
         identities[r].status = "inserted" =>
            /\ identities'[r].status \in {"inserted", "live"}
            /\ identities'[r].account = identities[r].account
            /\ identities'[r].key = identities[r].key
  PROVE  Linked(r)'
BY KeptStay DEF Linked, Credential, KeptRows, Kept

LEMMA OwnRight ==
  ASSUME AccountInv, AnswerInv, NEW r \in Request, Receive(r) \/ Progress(r) \/ Abort(r), RightOf(r)
  PROVE  RightOf(r)'
<1> USE DEF Goto, GotoWith, Answer, AnswerDone
<1>0. StoreTypeOK /\ HandlerTypeOK /\ AccountInv
  BY DEF AccountInv, TypeOK
<1>1. /\ accounts[r].status \notin Kept /\ identities[r].status \notin Kept
      /\ sessions[r].status \notin Kept /\ KeptRows /\ pc[r] # "done"
  BY KeptStay
<1>2. /\ pc[r] \in {"idle"} \cup Route(call[r].op)
      /\ reply[r] = "none"
  BY <1>1 DEF AccountInv, Arguments, AnswerInv, RequestInv, Answered
<1>3. pc[r] \notin CreateSteps => sessions[r] = NoSession
  BY <1>1, NothingYet DEF AnswerInv
<1>4. ASSUME sessions'[r].status = "absent", pc'[r] = "done", reply'[r] # "ok" PROVE RightOf(r)'
  BY <1>4 DEF RightOf, SignsIn, DeletesAccount, CreateSteps, DeleteSteps
<1>5. CASE Receive(r)
  <2>1. sessions'[r].status = "absent" /\ reply'[r] # "ok"
    BY <1>0, <1>2, <1>3, <1>5 DEF Receive, store, CreateSteps, NoSession, HandlerTypeOK, Rejection
  <2>2. /\ pc'[r] \in {"done", "begin", "find_email", "verify", "connect", "authenticate"}
        /\ pc'[r] = "begin" => call'[r].op # "delete"
        /\ pc'[r] = "connect" => call'[r].op # "signin_email"
    BY <1>0, <1>5 DEF Receive, FirstStep, HandlerTypeOK
  <2> QED BY <2>1, <2>2 DEF RightOf, SignsIn, DeletesAccount, DeleteSteps
<1> SUFFICES ASSUME Progress(r) \/ Abort(r) PROVE RightOf(r)'
  BY <1>5
<1>6. UNCHANGED call
  BY DEF Progress, Abort, Authenticate, FindEmail, Verify, Connect, Begin, Commit,
         FindIdentity, FindAccount, CreateAccount, LockAccount, InsertIdentity, CreateSession,
         RevokeSession, SoftDeleteAccount, SoftDeleteAccountIdentities, RevokeAllAccountSessions, Fail
<1>7. ASSUME Rollback(r), reply'[r] # "ok", pc'[r] \in {"done", "begin"},
             pc'[r] = "begin" => call[r].op = "signin_oauth"
      PROVE  RightOf(r)'
  <2>1. sessions'[r].status = "absent"
    BY <1>0, <1>1, <1>7, RollbackEffect DEF StoreTypeOK, SessionRow, Status, Kept, NoSession
  <2> QED BY <1>4, <1>6, <1>7, <2>1 DEF RightOf, SignsIn, DeletesAccount
<1>8. ASSUME NEW result \in Reply, Fail(r, result), result # "ok" PROVE RightOf(r)'
  <2>1. Rollback(r) /\ pc'[r] \in {"done", "begin"} /\ reply'[r] \in {reply[r], result}
    BY <1>0, <1>8 DEF Fail, HandlerTypeOK
  <2>2. pc'[r] = "begin" => call[r].op = "signin_oauth"
    BY <1>0, <1>8 DEF Fail, HandlerTypeOK
  <2> QED BY <1>2, <1>7, <1>8, <2>1, <2>2
<1>9. CASE Abort(r)
  <2>1. Rollback(r) /\ pc'[r] = "done" /\ reply'[r] = "error"
    BY <1>0, <1>9 DEF Abort, HandlerTypeOK
  <2> QED BY <1>7, <2>1
<1>10. CASE Authenticate(r)
  <2>1. /\ UNCHANGED sessions /\ sessions[r] = NoSession
        /\ call[r].token \in Request
    BY <1>3, <1>10 DEF Authenticate, store, CreateSteps, AccountInv, Arguments
  <2>2. CASE Authentic(call[r].token)
    <3>1. pc'[r] = "begin" /\ target'[r] = sessions[call[r].token].account
      BY <1>0, <1>10, <2>2 DEF Authenticate, HandlerTypeOK
    <3> QED BY <1>6, <2>1, <3>1 DEF RightOf, SignsIn, DeletesAccount, NoSession
  <2>3. CASE ~Authentic(call[r].token)
    <3>1. pc'[r] = "done" /\ reply'[r] = "unauthenticated"
      BY <1>0, <1>10, <2>3 DEF Authenticate, HandlerTypeOK
    <3> QED BY <1>4, <2>1, <3>1 DEF NoSession
  <2> QED BY <2>2, <2>3
<1>11. CASE FindEmail(r)
  <2>1. sessions'[r] = NoSession /\ call[r].op = "signin_email" /\ UNCHANGED identities
    BY <1>2, <1>3, <1>11 DEF FindEmail, store, CreateSteps, Route, DeleteSteps
  <2>2. CASE pc'[r] = "connect"
    <3>1. \E i \in LiveIdentities(call[r].email) : target'[r] = identities[i].account
      BY <1>0, <1>11, <2>2 DEF FindEmail, HandlerTypeOK
    <3>2. Linked(r)'
      BY <1>6, <2>1, <3>1 DEF Linked, Credential, LiveIdentities, Kept
    <3> QED BY <1>6, <2>1, <3>2 DEF RightOf, DeletesAccount, NoSession
  <2>3. CASE pc'[r] = "done" /\ reply'[r] = "invalid_credentials"
    BY <1>4, <2>1, <2>3 DEF NoSession
  <2> QED BY <1>0, <1>11, <2>2, <2>3 DEF FindEmail, HandlerTypeOK
<1>12. CASE FindIdentity(r)
  <2>1. /\ sessions'[r] = NoSession /\ call[r].op = "signin_oauth" /\ UNCHANGED identities
        /\ pc'[r] \in {"create_session", "create_account", "find_account"} /\ reply'[r] = "none"
    BY <1>0, <1>2, <1>3, <1>12 DEF FindIdentity, store, CreateSteps, Route, DeleteSteps, HandlerTypeOK
  <2>2. CASE pc'[r] = "create_session"
    <3>1. \E i \in LiveIdentities(call[r].subject) : target'[r] = identities[i].account
      BY <1>0, <1>12, <2>2 DEF FindIdentity, HandlerTypeOK
    <3>2. Linked(r)'
      BY <1>6, <2>1, <3>1 DEF Linked, Credential, LiveIdentities, Kept
    <3> QED BY <1>6, <2>1, <3>2 DEF RightOf, DeletesAccount, NoSession
  <2>3. CASE pc'[r] # "create_session"
    BY <1>6, <2>1, <2>3 DEF RightOf, SignsIn, DeletesAccount, NoSession
  <2> QED BY <2>2, <2>3
<1>13. CASE Verify(r) \/ FindAccount(r)
  <2>1. /\ sessions'[r] = NoSession /\ call[r].op = "signin_oauth" /\ reply'[r] # "ok"
        /\ pc'[r] \in {"begin", "done", "lock_account", "create_account"}
    BY <1>0, <1>2, <1>3, <1>13 DEF Verify, FindAccount, store, CreateSteps, Route, DeleteSteps,
       HandlerTypeOK
  <2> QED BY <1>6, <2>1 DEF RightOf, SignsIn, DeletesAccount, NoSession
<1>14. CASE Connect(r)
  <2>1. /\ sessions'[r] = NoSession /\ UNCHANGED <<identities, target, reply>>
        /\ \/ call[r].op = "signout" /\ pc'[r] = "revoke_session"
           \/ call[r].op = "signin_email" /\ pc'[r] = "create_session"
    BY <1>0, <1>2, <1>3, <1>14 DEF Connect, Acquire, CreateSteps, Route, DeleteSteps, HandlerTypeOK
  <2>2. call[r].op = "signin_email" => Linked(r)
    BY <1>14 DEF Connect, RightOf, SignsIn
  <2>3. call[r].op = "signin_email" => Linked(r)'
    BY <1>6, <2>1, <2>2 DEF Linked, Credential
  <2> QED BY <1>6, <2>1, <2>3 DEF RightOf, SignsIn, DeletesAccount, NoSession
<1>15. CASE Begin(r) \/ SoftDeleteAccount(r) \/ SoftDeleteAccountIdentities(r) \/ RevokeAllAccountSessions(r)
  <2>1. sessions[r] = NoSession /\ UNCHANGED <<sessions, target, reply>>
    BY <1>3, <1>15 DEF Begin, Acquire, SoftDeleteAccount, SoftDeleteAccountIdentities,
       RevokeAllAccountSessions, CreateSteps
  <2>2. pc[r] \in {"begin"} \cup DeleteSteps
    BY <1>15 DEF Begin, SoftDeleteAccount, SoftDeleteAccountIdentities, RevokeAllAccountSessions,
       DeleteSteps
  <2>3. CASE call[r].op = "delete"
    BY <1>6, <2>1, <2>2, <2>3 DEF RightOf, SignsIn, DeletesAccount, NoSession
  <2>4. CASE call[r].op # "delete"
    <3>1. pc'[r] \in {"create_account", "find_identity"}
      BY <1>0, <1>2, <1>15, <2>4 DEF Begin, SoftDeleteAccount, SoftDeleteAccountIdentities,
         RevokeAllAccountSessions, Route, CreateSteps, HandlerTypeOK, Call, Operation
    <3> QED BY <1>6, <2>1, <2>4, <3>1 DEF RightOf, SignsIn, DeletesAccount, NoSession
  <2> QED BY <2>3, <2>4
<1>16. CASE (CreateAccount(r) \/ LockAccount(r)) /\ ~\E result \in Reply \ {"ok"} : Fail(r, result)
  <2>1. /\ sessions[r].status = "absent" /\ UNCHANGED <<sessions, reply>>
        /\ pc'[r] \in {"lock_account", "insert_identity"} /\ call[r].op # "delete"
    BY <1>0, <1>1, <1>2, <1>16 DEF CreateAccount, LockAccount, InsertAccount, LockRow, Reply, Conflict,
       HandlerTypeOK, AccountInv, OwnRows, StoreTypeOK, SessionRow, Status, Kept, Route, DeleteSteps
  <2> QED BY <1>2, <1>6, <2>1 DEF RightOf, SignsIn, DeletesAccount
<1>17. CASE InsertIdentity(r) /\ ~\E result \in Reply \ {"ok"} : Fail(r, result)
  <2>1. /\ UNCHANGED <<sessions, reply, target>> /\ call[r].op \in {"signup", "signin_oauth"}
        /\ identities'[r] = [status |-> "inserted", account |-> target[r],
                             key |-> IdentityKey(r), email |-> call[r].email]
    BY <1>0, <1>2, <1>17 DEF InsertIdentity, InsertIdentityRow, Reply, Conflict, StoreTypeOK,
       Route, DeleteSteps, HandlerTypeOK, Call, Operation
  <2>2. Linked(r)'
    BY <1>6, <2>1 DEF Linked, Credential, IdentityKey
  <2> QED BY <1>6, <2>1, <2>2 DEF RightOf, DeletesAccount
<1>18. CASE CreateSession(r) /\ ~\E result \in Reply \ {"ok"} : Fail(r, result)
  <2>1. /\ UNCHANGED <<identities, target>> /\ call[r].op # "delete"
        /\ sessions'[r].account = target[r]
    BY <1>0, <1>2, <1>18 DEF CreateSession, InsertSession, AutocommitSession, Reply, StoreTypeOK,
       Route, DeleteSteps
  <2>2. Linked(r)'
    <3>1. Linked(r)
      BY <1>18, <2>1 DEF CreateSession, RightOf, SignsIn
    <3> QED BY <1>6, <2>1, <3>1 DEF Linked, Credential
  <2> QED BY <1>6, <2>1, <2>2 DEF RightOf, DeletesAccount
<1>19. CASE RevokeSession(r)
  <2>1. /\ sessions[r] = NoSession /\ call[r].op = "signout" /\ pc'[r] = "done"
        /\ call[r].token \in Request
    BY <1>0, <1>2, <1>3, <1>19 DEF RevokeSession, CreateSteps, Route, DeleteSteps, HandlerTypeOK,
       AccountInv, Arguments
  <2>2. sessions'[r].status = "absent"
    <3>1. sessions[call[r].token].status \in Kept
      BY <2>1, NoneAssumption DEF AnswerInv, RequestInv, TokenTies
    <3>2. call[r].token # r
      BY <2>1, <3>1 DEF NoSession, Kept
    <3>3. sessions'[r] = sessions[r]
      BY <1>0, <1>19, <3>2 DEF RevokeSession, AutocommitRevoke, StoreTypeOK
    <3> QED BY <2>1, <3>3 DEF NoSession
  <2> QED BY <1>6, <2>1, <2>2 DEF RightOf, SignsIn, DeletesAccount
<1>20. CASE Commit(r)
  <2>1. /\ CommitWrites(r) /\ pc[r] = "commit" /\ pc'[r] = "done" /\ UNCHANGED target
    BY <1>0, <1>20 DEF Commit, HandlerTypeOK
  <2>2. /\ sessions'[r].account = sessions[r].account
        /\ sessions[r].status = "absent" => sessions'[r].status = "absent"
    <3>1. r \notin doomed[r].sessions
      BY <1>1 DEF AccountInv, DeletesMark, MarkedBy, Kept
    <3>2. sessions[r] \in SessionRow
      BY <1>0 DEF StoreTypeOK
    <3>3. sessions'[r] = IF sessions[r].status = "inserted"
                         THEN [sessions[r] EXCEPT !.status = "live"] ELSE sessions[r]
      BY <2>1, <3>1, CommitRows
    <3> QED BY <3>2, <3>3 DEF SessionRow
  <2>3. SignsIn(r)' => SignsIn(r)
    BY <2>1, <2>2 DEF SignsIn
  <2>4. Linked(r) => Linked(r)'
    <3>1. identities[r] \in IdentityRow
      BY <1>0 DEF StoreTypeOK
    <3>2. identities[r].status = "inserted" => identities'[r] = [identities[r] EXCEPT !.status = "live"]
      BY <2>1, CommitRows
    <3>3. identities[r].status = "inserted" =>
            /\ identities'[r].status \in {"inserted", "live"}
            /\ identities'[r].account = identities[r].account
            /\ identities'[r].key = identities[r].key
      BY <3>1, <3>2 DEF IdentityRow
    <3> QED BY <1>6, <2>1, <3>3, LinkStays
  <2>5. DeletesAccount(r)' => DeletesAccount(r) /\ sessions'[call[r].token].account = sessions[call[r].token].account
    <3>1. call[r].op = "delete" => DeletesAccount(r)
      BY <2>1 DEF DeletesAccount
    <3>2. call[r].op = "delete" => call[r].token \in Request /\ sessions[call[r].token].status \in Kept
      BY <3>1, NoneAssumption DEF RightOf, AnswerInv, RequestInv, TokenTies
    <3> QED BY <1>1, <1>6, <3>1, <3>2 DEF DeletesAccount, KeptRows
  <2> QED BY <1>6, <2>1, <2>2, <2>3, <2>4, <2>5 DEF RightOf
<1> QED
  BY <1>8, <1>9, <1>10, <1>11, <1>12, <1>13, <1>14, <1>15, <1>16, <1>17, <1>18, <1>19, <1>20 DEF Progress

LEMMA RightInit == Init => RightInv
BY DEF Init, StoreInit, NoSession, NoCall, RightInv, RightOf, SignsIn, DeletesAccount

LEMMA RightStep == AccountInv /\ AnswerInv /\ RightInv /\ [Next]_vars => RightInv'
<1> SUFFICES ASSUME AccountInv, AnswerInv, RightInv, [Next]_vars PROVE RightInv'
  OBVIOUS
<1>1. ASSUME NEW r \in Request, Receive(r) \/ Progress(r) \/ Abort(r) PROVE RightInv'
  BY <1>1, OthersRight, OwnRight DEF RightInv
<1>2. CASE UNCHANGED vars \/ \E t \in Request : Expire(t)
  <2>1. UNCHANGED <<identities, sessions, pc, call, target, reply>>
    BY <1>2 DEF vars, store, handler, Expire, PassExpiry
  <2> QED BY <2>1 DEF RightInv, RightOf, SignsIn, DeletesAccount, Linked, Credential
<1> QED BY <1>1, <1>2 DEF Next, Quiescent

(* Hence RightInv holds throughout.                                        *)
LEMMA RightsHold == Spec => []RightInv
BY RightInit, RightStep, AnswersHold, Invariance, PTL DEF Spec

(* service.go:275-285: a delete answered 204 leaves the account of its     *)
(* cookie closed, also when it found nothing to close (DeleteAnswerIsFinal *)
(* in Account).                                                            *)
THEOREM DeletesAreFinal == Spec => []DeleteAnswerIsFinal
<1>1. AnswerInv /\ RightInv => DeleteAnswerIsFinal
  BY DEF AnswerInv, RequestInv, DeleteTies, RightInv, RightOf, DeletesAccount, DeleteAnswerIsFinal
<1> QED BY <1>1, AnswersHold, RightsHold, PTL

(* A cookie stands for a committed session of an account that has the      *)
(* identity presented, and a refusal for no row at all (AnswersMatchTables *)
(* in Account).                                                            *)
THEOREM AnswersAgree == Spec => []AnswersMatchTables
<1>1. AccountInv /\ AnswerInv /\ RightInv => AnswersMatchTables
  <2> SUFFICES ASSUME AccountInv, AnswerInv, RightInv, NEW r \in Request,
                      reply[r] = "ok", call[r].op \in SigninOps
               PROVE  \E i \in Request :
                         /\ identities[i].status \in {"live", "closed"}
                         /\ identities[i].key = Credential(r)
                         /\ identities[i].account = sessions[r].account
    BY DEF AnswerInv, RequestInv, Answered, AnswersMatchTables
  <2>1. sessions[r].status \in Kept /\ pc[r] = "done"
    BY DEF AnswerInv, RequestInv, Answered, Kept
  <2>2. sessions[r].account = target[r] /\ Linked(r)
    BY <2>1 DEF RightInv, RightOf, SignsIn, Kept
  <2>3. identities[r].status # "inserted"
    BY <2>1 DEF AccountInv, OwnRows
  <2> QED BY <2>2, <2>3 DEF Linked, Kept
<1> QED BY <1>1, AnswersHold, RightsHold, Invariance, PTL
-----------------------------------------------------------------------------
(* Who closes what.  A DELETE that commits has the cookie of the account   *)
(* whose rows it has marked.                                               *)
LEMMA CommitClosesOwn ==
  ASSUME AccountInv, AnswerInv, RightInv, NEW r \in Request, Commit(r)
  PROVE  ClosedByRight
<1>0. StoreTypeOK /\ CommitWrites(r) /\ pc[r] = "commit" /\ target[r] \in Request
  BY DEF AccountInv, TypeOK, Commit, Arguments, CreateSteps
<1>1. CASE call[r].op = "delete"
  <2>1. target[r] = sessions[call[r].token].account
    BY <1>0, <1>1 DEF RightInv, RightOf, DeletesAccount
  <2>2. /\ \A a \in Closing(accounts) : a \in doomed[r].accounts
        /\ \A i \in Closing(identities) : identities[i].account = target[r]
        /\ \A t \in Closing(sessions) : sessions[t].account = target[r]
    BY <1>1, DeleteRows DEF Closing
  <2>3. \A a \in Closing(accounts) : a = target[r]
    BY <2>2, MarkedAccounts
  <2> QED BY <1>1, <2>1, <2>2, <2>3 DEF ClosedByRight, DeletesFor
<1>2. CASE call[r].op # "delete"
  <2>1. doomed[r] = NoWrites
    BY <1>2 DEF AnswerInv, RequestInv, MarkTies
  <2>2. Closing(accounts) = {} /\ Closing(identities) = {} /\ Closing(sessions) = {}
    <3>1. /\ accounts \in [Request -> AccountRow] /\ identities \in [Request -> IdentityRow]
          /\ sessions \in [Request -> SessionRow]
      BY <1>0 DEF StoreTypeOK
    <3>2. /\ accounts' = Settled(accounts, r, {}) /\ identities' = Settled(identities, r, {})
          /\ sessions' = Settled(sessions, r, {})
      BY <1>0, <2>1 DEF CommitWrites, NoWrites
    <3>3. Closing(accounts) = {}
      BY <3>1, <3>2 DEF Closing, Settled, AccountRow
    <3>4. Closing(identities) = {}
      BY <3>1, <3>2 DEF Closing, Settled, IdentityRow
    <3>5. Closing(sessions) = {}
      BY <3>1, <3>2 DEF Closing, Settled, SessionRow
    <3> QED BY <3>3, <3>4, <3>5
  <2> QED BY <2>2 DEF ClosedByRight
<1> QED BY <1>1, <1>2

LEMMA StepsCloseOwn ==
  ASSUME AccountInv, AnswerInv, RightInv, NEW r \in Request, Receive(r) \/ Progress(r) \/ Abort(r)
  PROVE  ClosedByRight
<1>0. StoreTypeOK
  BY DEF AccountInv, TypeOK
<1>1. CASE Commit(r)
  BY <1>1, CommitClosesOwn
<1>2. CASE RevokeSession(r)
  <2>1. Closing(accounts) = {} /\ Closing(identities) = {}
    BY <1>2 DEF Closing, RevokeSession, AutocommitRevoke
  <2>2. \A t \in Closing(sessions) : t = call[r].token
    BY <1>0, <1>2 DEF Closing, RevokeSession, AutocommitRevoke, StoreTypeOK
  <2> QED BY <1>2, <2>1, <2>2 DEF ClosedByRight
<1>3. CASE Abort(r) \/ \E result \in Reply : Fail(r, result)
  <2>1. Rollback(r)
    BY <1>3 DEF Abort, Fail
  <2>2. Closing(accounts) = {} /\ Closing(identities) = {} /\ Closing(sessions) = {}
    BY <1>0, <2>1, RollbackEffect DEF Closing, NoAccount, NoIdentity, NoSession
  <2> QED BY <2>2 DEF ClosedByRight
<1>4. CASE /\ CreateAccount(r) \/ LockAccount(r) \/ InsertIdentity(r) \/ CreateSession(r)
           /\ ~\E result \in Reply : Fail(r, result)
  <2>1. Closing(accounts) = {} /\ Closing(identities) = {} /\ Closing(sessions) = {}
    BY <1>0, <1>4 DEF CreateAccount, LockAccount, InsertIdentity, CreateSession, InsertAccount, LockRow,
       InsertIdentityRow, InsertSession, AutocommitSession, StoreTypeOK, Closing, Reply, Conflict
  <2> QED BY <2>1 DEF ClosedByRight
<1>5. CASE \/ Receive(r) \/ Authenticate(r) \/ FindEmail(r) \/ Verify(r) \/ FindIdentity(r)
           \/ FindAccount(r) \/ Connect(r) \/ Begin(r)
           \/ SoftDeleteAccount(r) \/ SoftDeleteAccountIdentities(r) \/ RevokeAllAccountSessions(r)
  <2>1. UNCHANGED <<accounts, identities, sessions>>
    BY <1>5 DEF Receive, Authenticate, FindEmail, Verify, FindIdentity, FindAccount, Connect, Begin,
       Acquire, SoftDeleteAccount, SoftDeleteAccountIdentities, RevokeAllAccountSessions, store
  <2> QED BY <2>1 DEF ClosedByRight, Closing
<1> QED BY <1>1, <1>2, <1>3, <1>4, <1>5 DEF Progress

(* service.go:268-285: whatever is closed, is closed by somebody with a    *)
(* cookie for it, although DeleteAccount looks the account up before its   *)
(* transaction (OnlyHoldersClose in Account).                              *)
THEOREM ClosingsAreAuthorized == Spec => OnlyHoldersClose
<1>1. AccountInv /\ AnswerInv /\ RightInv /\ [Next]_vars => [ClosedByRight]_vars
  <2> SUFFICES ASSUME AccountInv, AnswerInv, RightInv, [Next]_vars PROVE [ClosedByRight]_vars
    OBVIOUS
  <2>1. ASSUME NEW r \in Request, Receive(r) \/ Progress(r) \/ Abort(r) PROVE ClosedByRight
    BY <2>1, StepsCloseOwn
  <2>2. ASSUME NEW t \in Request, Expire(t) PROVE ClosedByRight
    BY <2>2 DEF Expire, PassExpiry, ClosedByRight, Closing
  <2> QED BY <2>1, <2>2 DEF Next, Quiescent
<1> QED BY <1>1, Invariance, AnswersHold, RightsHold, PTL DEF Spec, OnlyHoldersClose

(* A committed row is never taken back, never says something else, and     *)
(* once closed stays closed, through every failure and retry.              *)
CommittedRowsStay == [][KeptRows]_vars

THEOREM CommitsAreFinal == Spec => CommittedRowsStay
<1>1. AccountInv /\ [Next]_vars => [KeptRows]_vars
  <2> SUFFICES ASSUME AccountInv, [Next]_vars PROVE [KeptRows]_vars
    OBVIOUS
  <2>1. ASSUME NEW r \in Request, Receive(r) \/ Progress(r) \/ Abort(r) PROVE KeptRows
    BY <2>1, KeptStay
  <2>2. ASSUME NEW t \in Request, Expire(t) PROVE KeptRows
    BY <2>2 DEF Expire, PassExpiry, KeptRows
  <2> QED BY <2>1, <2>2 DEF Next, Quiescent
<1> QED BY <1>1, Invariance, PTL DEF Spec, CommittedRowsStay
-----------------------------------------------------------------------------
(* Waiting.  A request that is waited for is inside a transaction, and if  *)
(* it waits itself, then at a later kind of statement: connections first,  *)
(* then accounts' addresses, row locks, identities' keys and sessions.     *)
LockSteps == {"lock_account", "create_session", "soft_delete_account"}

Rank(step) ==
    CASE step \in Outside -> 1
      [] step = "create_account" -> 2
      [] step \in LockSteps -> 3
      [] step = "insert_identity" -> 4
      [] OTHER -> 5

(* Only requests at these steps can be kept waiting.                       *)
LEMMA WaitingSteps ==
  ASSUME NEW q, Blockers(q) # {}
  PROVE  pc[q] \in {"authenticate", "find_email", "connect", "begin", "create_account",
                    "insert_identity", "revoke_session", "revoke_sessions"} \cup LockSteps
BY DEF Blockers, LockSteps

(* The holder of the lock it needs does not wait for that lock.            *)
LEMMA HolderGoesOn ==
  ASSUME AccountInv, NEW q \in Request, NEW a \in Request, locks[a] = q, Blockers(q) # {}
  PROVE  pc[q] \in {"insert_identity", "revoke_sessions"}
<1>1. a = target[q] /\ pc[q] \in AfterDelete \cup CreateSteps
  BY DEF AccountInv, LocksHeld, LockDiscipline
<1>2. pc[q] \notin LockSteps
  BY <1>1 DEF Blockers, LockSteps
<1> QED BY <1>1, <1>2, WaitingSteps DEF AfterDelete, CreateSteps, LockSteps

(* A DELETE that has marked rows can only be waiting to revoke sessions,   *)
(* and no longer once it has marked those: whoever marked them before      *)
(* would hold the same account's lock.                                     *)
LEMMA MarkerGoesOn ==
  ASSUME AccountInv, AnswerInv, NEW q \in Request, doomed[q] # NoWrites
  PROVE  /\ pc[q] \in AfterDelete
         /\ Blockers(q) # {} => pc[q] = "revoke_sessions" /\ doomed[q].sessions = {}
<1>1. pc[q] \in AfterDelete
  BY DEF AccountInv, DeletesMark, MarkedBy
<1>2. ASSUME Blockers(q) # {} PROVE pc[q] = "revoke_sessions"
  BY <1>1, <1>2, WaitingSteps DEF AfterDelete, LockSteps
<1>3. ASSUME Blockers(q) # {}, doomed[q].sessions # {} PROVE FALSE
  <2>1. PICK d \in Request \ {q} : OpenSessions(target[q]) \cap doomed[d].sessions # {}
    BY <1>2, <1>3 DEF Blockers, SessionHolders
  <2>2. target[d] = target[q]
    BY <2>1 DEF OpenSessions, AnswerInv, RequestInv, MarkTies
  <2>3. doomed[q].accounts = {target[q]} /\ doomed[d].accounts = {target[d]}
    BY <1>3, <2>1 DEF AnswerInv, RequestInv, MarkTies
  <2>4. locks[target[q]] = q /\ locks[target[d]] = d
    BY <2>3 DEF AccountInv, DeletesMark, MarkedBy
  <2> QED BY <2>1, <2>2, <2>4
<1> QED BY <1>1, <1>2, <1>3

(* Those who keep an index entry unsettled are past that index.            *)
LEMMA WaitsForLater ==
  ASSUME AccountInv, AnswerInv, PoolInv, NEW r \in Request, NEW q \in Blockers(r)
  PROVE  /\ q \in Request
         /\ pc[q] \notin Outside
         /\ Blockers(q) # {} => Rank(pc[q]) > Rank(pc[r])
<1>0. StoreTypeOK /\ HandlerTypeOK
  BY DEF AccountInv, TypeOK
<1>1. /\ \A s \in AfterDelete \cup CreateSteps : s \notin Outside
      /\ Rank("insert_identity") = 4 /\ Rank("revoke_sessions") = 5
      /\ \A s \in LockSteps : Rank(s) = 3
  BY DEF AfterDelete, CreateSteps, Outside, Rank, LockSteps
<1>2. CASE pc[r] \in {"authenticate", "find_email", "connect", "begin"}
  <2>1. q \in conns
    BY <1>2 DEF Blockers
  <2>2. q \in Request /\ pc[q] \notin Outside
    BY <1>0, <2>1 DEF StoreTypeOK, PoolInv
  <2>3. Rank(pc[r]) = 1 /\ Rank(pc[q]) > 1
    BY <1>2, <2>2 DEF Rank, Outside, LockSteps
  <2> QED BY <2>2, <2>3
<1>3. CASE pc[r] = "create_account"
  <2>1. /\ q \in Request \ {r}
        /\ accounts[q].status = "inserted" \/ doomed[q].accounts # {}
    BY <1>3 DEF Blockers, AccountIndexHolders, Unsettling
  <2>2. Rank(pc[r]) = 2
    BY <1>3 DEF Rank, Outside, LockSteps
  <2>3. CASE accounts[q].status = "inserted"
    <3>1. pc[q] \in CreateSteps
      BY <2>1, <2>3 DEF AccountInv, OwnRows
    <3>2. Blockers(q) # {} => Rank(pc[q]) > 2
      BY <3>1, WaitingSteps DEF CreateSteps, Rank, Outside, LockSteps
    <3> QED BY <1>1, <2>1, <2>2, <3>1, <3>2
  <2>4. CASE doomed[q].accounts # {}
    BY <1>1, <2>1, <2>2, <2>4, MarkerGoesOn DEF NoWrites
  <2> QED BY <2>1, <2>3, <2>4
<1>4. CASE pc[r] \in LockSteps
  <2>1. q = locks[target[r]] /\ q # None /\ target[r] \in Request
    BY <1>4 DEF Blockers, LockSteps, AccountInv, Arguments, DeleteSteps, CreateSteps
  <2>2. q \in Request /\ pc[q] \in AfterDelete \cup CreateSteps
    BY <1>0, <2>1 DEF StoreTypeOK, AccountInv, LocksHeld, LockDiscipline
  <2>3. Blockers(q) # {} => pc[q] \in {"insert_identity", "revoke_sessions"}
    BY <2>1, <2>2, HolderGoesOn
  <2> QED BY <1>1, <1>4, <2>2, <2>3
<1>5. CASE pc[r] = "insert_identity"
  <2>1. /\ q \in Request \ {r}
        /\ identities[q].status = "inserted" \/ doomed[q].identities # {}
    BY <1>5 DEF Blockers, LockSteps, IdentityIndexHolders, Unsettling
  <2>2. CASE identities[q].status = "inserted"
    <3>1. pc[q] \in {"create_session", "commit"} /\ locks[target[q]] = q /\ target[q] \in Request
      BY <2>1, <2>2 DEF AccountInv, OwnRows, LocksHeld, LockDiscipline, Arguments, CreateSteps
    <3>2. Blockers(q) = {}
      BY <2>1, <3>1, HolderGoesOn
    <3> QED BY <1>1, <2>1, <3>1, <3>2 DEF CreateSteps
  <2>3. CASE doomed[q].identities # {}
    BY <1>1, <1>5, <2>1, <2>3, MarkerGoesOn DEF NoWrites
  <2> QED BY <2>1, <2>2, <2>3
<1>6. CASE pc[r] \in {"revoke_session", "revoke_sessions"}
  <2>1. q \in Request /\ doomed[q].sessions # {}
    BY <1>6 DEF Blockers, LockSteps, SessionHolders
  <2> QED BY <1>1, <2>1, MarkerGoesOn DEF NoWrites
<1> QED BY <1>2, <1>3, <1>4, <1>5, <1>6, WaitingSteps

(* Hence no group waits for itself: in it nobody could wait at the latest  *)
(* kind of statement, so nobody at the one before, and so on.              *)
LEMMA NoGroupWaits ==
  ASSUME AccountInv, AnswerInv, PoolInv, NEW W \in SUBSET Request,
         \A r \in W : Blockers(r) \cap W # {}
  PROVE  W = {}
<1>1. ASSUME NEW r \in W
      PROVE  \E q \in W : Rank(pc[q]) > Rank(pc[r])
  <2>1. PICK q \in W : q \in Blockers(r)
    BY <1>1
  <2>2. Blockers(q) # {}
    OBVIOUS
  <2> QED BY <2>1, <2>2, WaitsForLater
<1>2. \A r \in W : Rank(pc[r]) \in 1..5
  BY DEF Rank
<1>3. \A r \in W : Rank(pc[r]) # 5
  BY <1>1, <1>2
<1>4. \A r \in W : Rank(pc[r]) # 4
  BY <1>1, <1>2, <1>3
<1>5. \A r \in W : Rank(pc[r]) # 3
  BY <1>1, <1>2, <1>3, <1>4
<1>6. \A r \in W : Rank(pc[r]) # 2
  BY <1>1, <1>2, <1>3, <1>4, <1>5
<1> QED BY <1>1, <1>2, <1>3, <1>4, <1>5, <1>6

(* repository.go:33-95: connections, row locks and index entries never     *)
(* make requests wait for each other in a circle, and who is waited for is *)
(* inside a transaction it can finish (NoWaitCycle in Account).            *)
THEOREM WaitsEnd == Spec => []NoWaitCycle
<1>1. Init => PoolInv
  BY FS_EmptySet, ConnAssumption DEF Init, StoreInit, PoolInv
<1>2. AccountInv /\ PoolInv /\ [Next]_vars => PoolInv'
  BY PoolStep
<1>3. AccountInv /\ AnswerInv /\ PoolInv => NoWaitCycle
  BY WaitsForLater, NoGroupWaits DEF NoWaitCycle
<1> QED BY <1>1, <1>2, <1>3, Invariance, AnswersHold, PTL DEF Spec

(* What makes a request wait in the model, the guard of its next step, is  *)
(* that somebody blocks it.                                                *)
LEMMA BlockersAreGuards ==
  ASSUME AccountInv, PoolInv, NEW r \in Request
  PROVE  /\ pc[r] \in {"authenticate", "find_email", "connect", "begin"} =>
              (Blockers(r) = {} <=> FreeConn)
         /\ pc[r] = "create_account" =>
              (Blockers(r) = {} <=> ~AwaitsAccountIndex(r, call[r].email))
         /\ pc[r] \in LockSteps => (Blockers(r) = {} <=> LockFree(r, target[r]))
         /\ pc[r] = "insert_identity" =>
              (Blockers(r) = {} <=> ~AwaitsIdentityIndex(r, IdentityKey(r)))
         /\ pc[r] = "revoke_session" =>
              (Blockers(r) = {} <=> ~AwaitsSessions(r, {call[r].token}))
         /\ pc[r] = "revoke_sessions" =>
              (Blockers(r) = {} <=> ~AwaitsSessions(r, OpenSessions(target[r])))
<1>1. conns = {} => FreeConn
  BY FS_EmptySet, ConnAssumption DEF FreeConn
<1> QED BY <1>1 DEF Blockers, LockSteps, AwaitsAccountIndex, AwaitsIdentityIndex, AwaitsSessions, LockFree

-----------------------------------------------------------------------------
(* Ending.  The most steps a request may still take.                       *)
StepsTo(step) ==
    CASE step = "idle" -> 10
      [] step \in {"verify", "authenticate", "find_email"} -> 9
      [] step \in {"begin", "connect"} -> 8
      [] step = "find_identity" -> 7
      [] step = "find_account" -> 6
      [] step = "create_account" -> 5
      [] step \in {"lock_account", "soft_delete_account"} -> 4
      [] step \in {"insert_identity", "soft_delete_identities"} -> 3
      [] step \in {"create_session", "revoke_sessions"} -> 2
      [] OTHER -> 1

StepsLeft(r) == IF pc[r] = "done" THEN 0 ELSE StepsTo(pc[r]) + 6 * (MaxAttempts - attempt[r])

(* Every step is one of some request, of which it has one less left, while *)
(* the others have as many as before; or a session expires.                *)
StepCounts ==
    \/ \E r \in Request : /\ StepsLeft(r)' < StepsLeft(r)
                          /\ \A q \in Request \ {r} : StepsLeft(q)' = StepsLeft(q)
    \/ \E t \in Request : Expire(t)

EveryStepCounts == [][StepCounts]_vars

StepsBounded == \A r \in Request : StepsLeft(r) \in 0..16 /\ (StepsLeft(r) = 0 <=> pc[r] = "done")

LEMMA StepTaken ==
  ASSUME AccountInv, HandlerTypeOK', NEW r \in Request, Receive(r) \/ Progress(r) \/ Abort(r)
  PROVE  StepsLeft(r)' < StepsLeft(r)
<1> USE DEF StepsLeft, StepsTo, MaxAttempts
<1>0. /\ HandlerTypeOK /\ attempt[r] \in {1, 2} /\ attempt'[r] \in {1, 2}
      /\ pc[r] # "done"
  BY KeptStay DEF AccountInv, TypeOK, HandlerTypeOK
<1> USE <1>0 DEF HandlerTypeOK
<1>1. ASSUME pc'[r] = "done" PROVE StepsLeft(r)' < StepsLeft(r)
  BY <1>0, <1>1
<1>2. ASSUME attempt'[r] = attempt[r], pc'[r] # "done", StepsTo(pc'[r]) < StepsTo(pc[r])
      PROVE  StepsLeft(r)' < StepsLeft(r)
  BY <1>0, <1>2
<1>3. CASE attempt'[r] # attempt[r]
  <2>1. /\ pc[r] \in {"create_account", "insert_identity"}
        /\ attempt[r] = 1 /\ attempt'[r] = 2 /\ pc'[r] = "begin"
    BY <1>3, AttemptStep DEF EmailConflict, KeyConflict, CreateAccount, InsertIdentity
  <2> QED BY <2>1
<1>4. ASSUME NEW result \in Reply, Fail(r, result), attempt'[r] = attempt[r] PROVE pc'[r] = "done"
  BY <1>4 DEF Fail, Answer
<1>5. CASE attempt'[r] = attempt[r]
  <2>1. CASE Receive(r) \/ Authenticate(r) \/ FindEmail(r) \/ Verify(r)
    <3>1. pc'[r] = "done" \/ StepsTo(pc'[r]) < StepsTo(pc[r])
      BY <2>1 DEF Receive, FirstStep, Authenticate, FindEmail, Verify, Goto, GotoWith, Answer
    <3> QED BY <1>1, <1>2, <1>5, <3>1
  <2>2. CASE Connect(r) \/ Begin(r)
    BY <1>2, <1>5, <2>2 DEF Connect, Begin, Goto
  <2>3. CASE FindIdentity(r) \/ FindAccount(r)
    BY <1>2, <1>5, <2>3 DEF FindIdentity, FindAccount, Goto, GotoWith
  <2>4. CASE CreateAccount(r) \/ LockAccount(r) \/ InsertIdentity(r)
    BY <1>1, <1>2, <1>4, <1>5, <2>4 DEF CreateAccount, LockAccount, InsertIdentity, Goto, GotoWith,
       Reply, Conflict
  <2>5. CASE CreateSession(r)
    BY <1>1, <1>2, <1>4, <1>5, <2>5 DEF CreateSession, Goto, AnswerDone, Answer, Reply
  <2>6. CASE RevokeSession(r) \/ Commit(r) \/ Abort(r)
    BY <1>1, <2>6 DEF RevokeSession, Commit, Abort, AnswerDone, Answer
  <2>7. CASE SoftDeleteAccount(r) \/ SoftDeleteAccountIdentities(r) \/ RevokeAllAccountSessions(r)
    BY <1>2, <1>5, <2>7 DEF SoftDeleteAccount, SoftDeleteAccountIdentities, RevokeAllAccountSessions,
       Goto
  <2> QED BY <2>1, <2>2, <2>3, <2>4, <2>5, <2>6, <2>7 DEF Progress
<1> QED BY <1>3, <1>5

(* No handler runs for ever: whatever the others do, a request takes at    *)
(* most 16 steps, the most when signinOAuth uses both attempts             *)
(* (service.go:133-144).  With WaitsEnd this is the safety half of         *)
(* EveryRequestAnswered.                                                   *)
THEOREM RequestsEnd == Spec => []StepsBounded /\ EveryStepCounts
<1>1. AccountInv => StepsBounded
  <2> SUFFICES ASSUME AccountInv, NEW r \in Request
               PROVE  StepsLeft(r) \in 0..16 /\ (StepsLeft(r) = 0 <=> pc[r] = "done")
    BY DEF StepsBounded
  <2>1. attempt[r] \in {1, 2}
    BY DEF AccountInv, TypeOK, HandlerTypeOK, MaxAttempts
  <2>2. StepsTo(pc[r]) \in 1..10
    BY DEF StepsTo
  <2> QED BY <2>1, <2>2 DEF StepsLeft, MaxAttempts
<1>2. ASSUME AccountInv, AccountInv', [Next]_vars PROVE [StepCounts]_vars
  <2>1. ASSUME NEW r \in Request, Receive(r) \/ Progress(r) \/ Abort(r)
        PROVE  /\ StepsLeft(r)' < StepsLeft(r)
               /\ \A q \in Request \ {r} : StepsLeft(q)' = StepsLeft(q)
    <3>1. StepsLeft(r)' < StepsLeft(r)
      BY <1>2, <2>1, StepTaken DEF AccountInv, TypeOK
    <3>2. \A q \in Request \ {r} : pc'[q] = pc[q] /\ attempt'[q] = attempt[q]
      BY <1>2, <2>1, StepRest, AttemptStep DEF HandlersRest
    <3> QED BY <3>1, <3>2 DEF StepsLeft
  <2> QED BY <1>2, <2>1 DEF Next, Quiescent, StepCounts
<1> QED BY <1>1, <1>2, Invariance, PTL DEF Spec, EveryStepCounts
=============================================================================

------------------------- MODULE AccountAnswerProofs -------------------------
(***************************************************************************)
(* What answers promise, what an account keeps and what a request leaves   *)
(* behind, for any number of requests, addresses, subjects and             *)
(* connections: invariants relative to AccountInv.  At the end, that the   *)
(* component implements AccountRegistry.                                   *)
(***************************************************************************)
EXTENDS AccountProofs, FiniteSetTheorems

-----------------------------------------------------------------------------
(* Connections.                                                            *)
PoolInv ==
    /\ IsFiniteSet(conns)
    /\ Cardinality(conns) <= MaxConns
    /\ \A r \in conns : pc[r] \notin Outside

(* A request takes its connection as it leaves Outside, and gives it back  *)
(* as it returns there.                                                    *)
LEMMA PoolStep ==
  ASSUME AccountInv, PoolInv, [Next]_vars
  PROVE  PoolInv'
<1> USE DEF AccountInv, TypeOK, Outside
<1>1. ASSUME NEW r \in Request, pc' \in [Request -> Step],
             \A q \in Request \ {r} : pc'[q] = pc[q],
             \/ conns' = conns /\ (pc[r] \in Outside \/ pc'[r] \notin Outside)
             \/ Acquire(r) /\ pc'[r] \notin Outside
             \/ conns' = conns \ {r}
      PROVE  PoolInv'
  <2>1. conns \subseteq Request
    BY DEF StoreTypeOK
  <2>2. CASE conns' = conns /\ (pc[r] \in Outside \/ pc'[r] \notin Outside)
    BY <1>1, <2>1, <2>2 DEF PoolInv
  <2>3. CASE Acquire(r) /\ pc'[r] \notin Outside
    <3>1. Cardinality(conns) \in Nat
      BY FS_CardinalityType DEF PoolInv
    <3>2. IsFiniteSet(conns') /\ Cardinality(conns') <= Cardinality(conns) + 1
      BY <2>3, <3>1, FS_AddElement DEF Acquire, PoolInv
    <3>3. Cardinality(conns') <= MaxConns
      BY <2>3, <3>1, <3>2, FS_CardinalityType, ConnAssumption DEF Acquire, FreeConn
    <3>4. \A q \in conns' : pc'[q] \notin Outside
      BY <1>1, <2>1, <2>3 DEF Acquire, PoolInv
    <3> QED BY <3>2, <3>3, <3>4 DEF PoolInv
  <2>4. CASE conns' = conns \ {r}
    <3>1. IsFiniteSet(conns') /\ Cardinality(conns') <= Cardinality(conns)
      <4>1. IsFiniteSet(conns) /\ Cardinality(conns) \in Nat
        BY FS_CardinalityType DEF PoolInv
      <4>2. /\ IsFiniteSet(conns \ {r})
            /\ Cardinality(conns \ {r}) =
                  IF r \in conns THEN Cardinality(conns) - 1 ELSE Cardinality(conns)
        BY <4>1, FS_RemoveElement
      <4> QED BY <2>4, <4>1, <4>2
    <3>2. Cardinality(conns') <= MaxConns
      <4>1. Cardinality(conns') \in Nat /\ Cardinality(conns) \in Nat
        BY <3>1, FS_CardinalityType DEF PoolInv
      <4> QED BY <3>1, <4>1, ConnAssumption DEF PoolInv
    <3> QED BY <1>1, <2>1, <2>4, <3>1, <3>2 DEF PoolInv
  <2> QED BY <1>1, <2>2, <2>3, <2>4
<1>0. HandlerTypeOK' /\ HandlerTypeOK
  BY NextPreserves
<1> USE <1>0 DEF HandlerTypeOK
<1>2. ASSUME NEW r \in Request, Receive(r) \/ Authenticate(r) \/ FindEmail(r) \/ Verify(r)
      PROVE  PoolInv'
  BY <1>1, <1>2 DEF Receive, Authenticate, FindEmail, Verify, store, Goto, GotoWith, Answer
<1>3. ASSUME NEW r \in Request, Connect(r) \/ Begin(r)
      PROVE  PoolInv'
  <2>1. Acquire(r) /\ pc'[r] \notin Outside /\ \A q \in Request \ {r} : pc'[q] = pc[q]
    BY <1>3 DEF Connect, Begin, Goto
  <2> QED BY <1>1, <2>1
<1>4. ASSUME NEW r \in Request, Abort(r) \/ (\E result \in Reply : Fail(r, result))
      PROVE  PoolInv'
  BY <1>1, <1>4 DEF Abort, Fail, Rollback, EndTransaction, Answer
<1>5. ASSUME NEW r \in Request, Commit(r) \/ RevokeSession(r)
      PROVE  PoolInv'
  BY <1>1, <1>5 DEF Commit, CommitWrites, EndTransaction, RevokeSession, AutocommitRevoke,
     AnswerDone, Answer
<1>6. ASSUME NEW r \in Request, FindIdentity(r) \/ FindAccount(r)
      PROVE  PoolInv'
  BY <1>1, <1>6 DEF FindIdentity, FindAccount, store, Goto, GotoWith
<1>7. ASSUME NEW r \in Request, CreateAccount(r) \/ LockAccount(r) \/ InsertIdentity(r)
      PROVE  PoolInv'
  BY <1>1, <1>4, <1>7 DEF CreateAccount, LockAccount, InsertIdentity, InsertAccount, LockRow,
     InsertIdentityRow, Goto, GotoWith, Reply, Conflict
<1>8. ASSUME NEW r \in Request, CreateSession(r)
      PROVE  PoolInv'
  BY <1>1, <1>4, <1>8 DEF CreateSession, InsertSession, AutocommitSession, AnswerDone, Answer,
     Goto, Reply
<1>9. ASSUME NEW r \in Request,
             SoftDeleteAccount(r) \/ SoftDeleteAccountIdentities(r) \/ RevokeAllAccountSessions(r)
      PROVE  PoolInv'
  BY <1>1, <1>9 DEF SoftDeleteAccount, SoftDeleteAccountIdentities, RevokeAllAccountSessions, Goto
<1>10. CASE UNCHANGED vars \/ \E t \in Request : Expire(t)
  BY <1>10 DEF vars, store, handler, Expire, PassExpiry, PoolInv
<1> QED
  BY <1>2, <1>3, <1>4, <1>5, <1>6, <1>7, <1>8, <1>9, <1>10 DEF Next, Progress, Quiescent

(* Whichever way a request gets out of a transaction or statement, it      *)
(* leaves no connection, lock or uncommitted write behind, and the pool is *)
(* never overdrawn: see NothingLeaks in Account.                           *)
THEOREM RequestsLeaveNothing == Spec => []NothingLeaks
<1>1. Init => PoolInv
  BY FS_EmptySet, ConnAssumption DEF Init, StoreInit, PoolInv
<1>2. AccountInv /\ PoolInv /\ [Next]_vars => PoolInv'
  BY PoolStep
<1>3. AccountInv /\ PoolInv => NothingLeaks
  <2> SUFFICES ASSUME AccountInv, PoolInv, NEW r \in Request, pc[r] \in Outside
               PROVE  /\ r \notin conns
                      /\ \A a \in Request : locks[a] # r
                      /\ doomed[r] = NoWrites
                      /\ accounts[r].status # "inserted"
                      /\ identities[r].status # "inserted"
                      /\ sessions[r].status # "inserted"
    BY DEF NothingLeaks, PoolInv
  <2>1. pc[r] \notin AfterDelete \cup CreateSteps
    BY DEF Outside, AfterDelete, CreateSteps
  <2> QED
    BY <2>1 DEF AccountInv, OwnRows, LocksHeld, LockDiscipline, DeletesMark, MarkedBy,
       CreateSteps, PoolInv
<1> QED BY <1>1, <1>2, <1>3, Invariance, PTL DEF Spec
-----------------------------------------------------------------------------
(* Rows, calls and answers.  First of one request by itself: what it has   *)
(* inserted at each step, and what its answer says of that.                *)
InsertedInOrder(r) ==
    /\ accounts[r].status = "absent" => accounts[r] = NoAccount
    /\ identities[r].status = "absent" => identities[r] = NoIdentity
    /\ sessions[r].status = "absent" => sessions[r] = NoSession
    /\ "inserted" \in {accounts[r].status, identities[r].status, sessions[r].status} =>
          call[r].op \in {"signup", "signin_oauth"}
    /\ pc[r] \in {"create_session", "commit"} /\ accounts[r].status = "inserted" =>
          identities[r].status = "inserted" /\ identities[r].account = r
    /\ pc[r] = "commit" /\ call[r].op \in SigninOps => sessions[r].status = "inserted"
    /\ pc[r] \in CreateSteps /\ call[r].op = "signup" => target[r] = r

Answered(r) ==
    /\ pc[r] # "done" => reply[r] = "none"
    /\ pc[r] \notin {"idle", "done"} \/ reply[r] = "ok" => ~Rejected(call[r])
    /\ reply[r] = "ok" /\ call[r].op \in SigninOps => sessions[r].status \in {"live", "closed"}
    /\ reply[r] \in Conflict \cup {"invalid_credentials"} =>
          accounts[r] = NoAccount /\ identities[r] = NoIdentity /\ sessions[r] = NoSession
    /\ call[r].op = "signup" => reply[r] # "identity_exists"

(* Then how it is tied to the rows it works on: those never go away, and   *)
(* keep their address and their account.                                   *)
TokenTies(r) ==
    call[r].token # None =>
        /\ sessions[call[r].token].status \in Kept
        /\ call[r].op = "signout" /\ reply[r] = "ok" => sessions[call[r].token].status = "closed"

DeleteTies(r) ==
    call[r].op = "delete" =>
        /\ pc[r] \in {"begin", "soft_delete_account"} \cup AfterDelete =>
              accounts[target[r]].status \in Kept
        /\ pc[r] \in AfterDelete =>
              target[r] \in doomed[r].accounts \/ accounts[target[r]].status = "closed"
        /\ reply[r] = "ok" => target[r] \in Request /\ accounts[target[r]].status = "closed"

MarkTies(r) ==
    /\ call[r].op # "delete" => doomed[r] = NoWrites
    /\ doomed[r].identities # {} \/ doomed[r].sessions # {} => doomed[r].accounts = {target[r]}
    /\ \A i \in doomed[r].identities : identities[i].account = target[r]
    /\ \A t \in doomed[r].sessions : sessions[t].account = target[r]

LinkTies(r) ==
    /\ pc[r] \in {"lock_account", "insert_identity"} =>
          /\ accounts[target[r]].email = call[r].email
          /\ \/ accounts[target[r]].status \in Kept /\ call[r].email # None
             \/ target[r] = r /\ accounts[r].status = "inserted"
    /\ pc[r] = "find_account" => call[r].email # None
    /\ identities[r].status = "inserted" =>
          identities[r].email # None \/ (identities[r].account = r /\ accounts[r].status = "inserted")

RequestInv ==
    \A r \in Request :
        /\ InsertedInOrder(r) /\ Answered(r)
        /\ TokenTies(r) /\ DeleteTies(r) /\ MarkTies(r) /\ LinkTies(r)

(* Finally of the tables: who owns an identity or an address.              *)
IdentityMatches(i) ==
    identities[i].status \in {"inserted", "live"} =>
        /\ accounts[identities[i].account].email = identities[i].email
        /\ identities[i].key \in Email => identities[i].key = identities[i].email
        /\ identities[i].status = "live" => accounts[identities[i].account].status \in Kept

Holds(a) == accounts[a].status \in {"inserted", "live"}

AddressesAreUnique ==
    \A a, b \in Request :
        Holds(a) /\ Holds(b) /\ accounts[a].email = accounts[b].email =>
            a = b \/ accounts[a].email = None

KeysAreUnique ==
    /\ \A i \in Request : identities[i].status # "absent" => identities[i].key \in Email \cup Subject
    /\ \A i, j \in Request :
          /\ identities[i].status \in {"inserted", "live"}
          /\ identities[j].status \in {"inserted", "live"}
          /\ identities[i].key = identities[j].key
          => i = j

TableInv ==
    /\ KeysAreUnique
    /\ \A i \in Request : IdentityMatches(i)
    /\ AddressesAreUnique
    /\ LiveAccountsCanSignIn

AnswerInv == RequestInv /\ TableInv

-----------------------------------------------------------------------------
(* What a step of r may do to the other requests and their rows: nothing,  *)
(* but close committed rows.                                               *)
ClosedAtMost(table, new, q) ==
    \/ new[q] = table[q]
    \/ table[q].status \in Kept /\ new[q] = [table[q] EXCEPT !.status = "closed"]

HandlersRest(r) ==
    \A q \in Request \ {r} :
        /\ pc'[q] = pc[q] /\ call'[q] = call[q] /\ target'[q] = target[q]
        /\ reply'[q] = reply[q] /\ doomed'[q] = doomed[q]

RowsRest(r) ==
    \A q \in Request \ {r} :
        /\ ClosedAtMost(accounts, accounts', q)
        /\ ClosedAtMost(identities, identities', q)
        /\ ClosedAtMost(sessions, sessions', q)

(* The rows a COMMIT leaves, whole.                                        *)
LEMMA CommitRows ==
  ASSUME AccountInv, NEW r \in Request, CommitWrites(r)
  PROVE  \A q \in Request :
           /\ accounts'[q] = IF q = r /\ accounts[q].status = "inserted"
                             THEN [accounts[q] EXCEPT !.status = "live"]
                             ELSE IF q \in doomed[r].accounts
                                  THEN [accounts[q] EXCEPT !.status = "closed"] ELSE accounts[q]
           /\ identities'[q] = IF q = r /\ identities[q].status = "inserted"
                               THEN [identities[q] EXCEPT !.status = "live"]
                               ELSE IF q \in doomed[r].identities
                                    THEN [identities[q] EXCEPT !.status = "closed"] ELSE identities[q]
           /\ sessions'[q] = IF q = r /\ sessions[q].status = "inserted"
                             THEN [sessions[q] EXCEPT !.status = "live"]
                             ELSE IF q \in doomed[r].sessions
                                  THEN [sessions[q] EXCEPT !.status = "closed"] ELSE sessions[q]
BY DEF CommitWrites, Settled

(* A marked account is live, or the marking request's own.                 *)
LEMMA MarkedAccounts ==
  ASSUME AccountInv, NEW r \in Request, NEW a \in doomed[r].accounts
  PROVE  a = target[r] /\ (accounts[a].status = "live" \/ a = r)
<1>1. target[r] \in Request
  BY DEF AccountInv, TypeOK, StoreTypeOK, Writes, DeletesMark, MarkedBy
<1> QED
  BY <1>1 DEF AccountInv, DeletesMark, MarkedBy, LocksHeld, LockDiscipline, ActiveFor

(* Every step of a request obeys that.                                     *)
LEMMA StepRest ==
  ASSUME AccountInv, NEW r \in Request, Receive(r) \/ Progress(r) \/ Abort(r)
  PROVE  HandlersRest(r) /\ RowsRest(r)
<1> USE DEF HandlersRest, RowsRest, ClosedAtMost, Kept, Goto, GotoWith, Answer, AnswerDone
<1>0. StoreTypeOK /\ HandlerTypeOK
  BY DEF AccountInv, TypeOK
<1> USE <1>0 DEF StoreTypeOK, HandlerTypeOK
<1>1. CASE Receive(r) \/ Authenticate(r) \/ FindEmail(r) \/ Verify(r) \/ FindIdentity(r) \/ FindAccount(r)
  BY <1>1 DEF Receive, Authenticate, FindEmail, Verify, FindIdentity, FindAccount, store
<1>2. CASE Connect(r) \/ Begin(r)
  BY <1>2 DEF Connect, Begin, Acquire
<1>3. CASE Abort(r) \/ \E result \in Reply : Fail(r, result)
  BY <1>3 DEF Abort, Fail, Rollback, Undone, EndTransaction
<1>4. CASE CreateAccount(r) \/ LockAccount(r) \/ InsertIdentity(r)
  BY <1>3, <1>4 DEF CreateAccount, LockAccount, InsertIdentity, InsertAccount, LockRow,
     InsertIdentityRow, Reply, Conflict
<1>5. CASE CreateSession(r)
  BY <1>3, <1>5 DEF CreateSession, InsertSession, AutocommitSession, Reply
<1>6. CASE RevokeSession(r)
  <2>1. call[r].token \in Request
    BY <1>6 DEF AccountInv, Arguments, RevokeSession
  <2>2. HandlersRest(r) /\ UNCHANGED <<accounts, identities>>
    BY <1>6 DEF RevokeSession, AutocommitRevoke
  <2>3. ASSUME NEW q \in Request \ {r} PROVE ClosedAtMost(sessions, sessions', q)
    <3>1. CASE q = call[r].token /\ sessions[q].status = "live"
      BY <1>6, <2>1, <3>1 DEF RevokeSession, AutocommitRevoke
    <3>2. CASE q = call[r].token /\ sessions[q].status # "live"
      <4>1. sessions'[q] = [sessions[q] EXCEPT !.status = sessions[q].status]
        BY <1>6, <2>1, <3>2 DEF RevokeSession, AutocommitRevoke
      <4>2. sessions[q] \in SessionRow
        OBVIOUS
      <4>3. sessions'[q] = sessions[q]
        BY <4>1, <4>2 DEF SessionRow
      <4> QED BY <4>3
    <3>3. CASE q # call[r].token
      BY <1>6, <2>1, <3>3 DEF RevokeSession, AutocommitRevoke
    <3> QED BY <3>1, <3>2, <3>3
  <2> QED BY <2>2, <2>3
<1>7. CASE SoftDeleteAccount(r) \/ SoftDeleteAccountIdentities(r) \/ RevokeAllAccountSessions(r)
  BY <1>7 DEF SoftDeleteAccount, SoftDeleteAccountIdentities, RevokeAllAccountSessions
<1>8. CASE Commit(r)
  <2>1. \A q \in Request \ {r} :
          /\ q \in doomed[r].accounts => accounts[q].status = "live"
          /\ q \in doomed[r].identities => identities[q].status \in Kept
          /\ q \in doomed[r].sessions => sessions[q].status \in Kept
    BY MarkedAccounts DEF AccountInv, DeletesMark, MarkedBy
  <2>2. ASSUME NEW q \in Request \ {r}
        PROVE  /\ ClosedAtMost(accounts, accounts', q)
               /\ ClosedAtMost(identities, identities', q)
               /\ ClosedAtMost(sessions, sessions', q)
    <3>1. CommitWrites(r)
      BY <1>8 DEF Commit
    <3>2. ClosedAtMost(accounts, accounts', q)
      BY <2>1, <3>1, CommitRows
    <3>3. ClosedAtMost(identities, identities', q)
      BY <2>1, <3>1, CommitRows
    <3>4. ClosedAtMost(sessions, sessions', q)
      BY <2>1, <3>1, CommitRows
    <3> QED BY <3>2, <3>3, <3>4
  <2>3. HandlersRest(r)
    BY <1>8 DEF Commit, CommitWrites, EndTransaction
  <2> QED BY <2>2, <2>3
<1> QED
  BY <1>1, <1>2, <1>3, <1>4, <1>5, <1>6, <1>7, <1>8 DEF Progress

(* Field by field: a row of another request is as it was, or was committed *)
(* and is closed now.                                                      *)
LEMMA OthersRows ==
  ASSUME AccountInv, NEW r \in Request, Receive(r) \/ Progress(r) \/ Abort(r),
         NEW q \in Request \ {r}
  PROVE  /\ \/ accounts'[q] = accounts[q]
            \/ /\ accounts[q].status \in Kept /\ accounts'[q].status = "closed"
               /\ accounts'[q].email = accounts[q].email
         /\ \/ identities'[q] = identities[q]
            \/ /\ identities[q].status \in Kept /\ identities'[q].status = "closed"
               /\ identities'[q].account = identities[q].account
               /\ identities'[q].key = identities[q].key
               /\ identities'[q].email = identities[q].email
         /\ \/ sessions'[q] = sessions[q]
            \/ /\ sessions[q].status \in Kept /\ sessions'[q].status = "closed"
               /\ sessions'[q].account = sessions[q].account
<1>1. RowsRest(r)
  BY StepRest
<1>2. accounts[q] \in AccountRow /\ identities[q] \in IdentityRow /\ sessions[q] \in SessionRow
  BY DEF AccountInv, TypeOK, StoreTypeOK
<1>3. /\ ClosedAtMost(accounts, accounts', q)
      /\ ClosedAtMost(identities, identities', q)
      /\ ClosedAtMost(sessions, sessions', q)
  BY <1>1 DEF RowsRest
<1>4. \/ accounts'[q] = accounts[q]
      \/ /\ accounts[q].status \in Kept /\ accounts'[q].status = "closed"
         /\ accounts'[q].email = accounts[q].email
  BY <1>2, <1>3 DEF ClosedAtMost, AccountRow
<1>5. \/ identities'[q] = identities[q]
      \/ /\ identities[q].status \in Kept /\ identities'[q].status = "closed"
         /\ identities'[q].account = identities[q].account
         /\ identities'[q].key = identities[q].key
         /\ identities'[q].email = identities[q].email
  BY <1>2, <1>3 DEF ClosedAtMost, IdentityRow
<1>6. \/ sessions'[q] = sessions[q]
      \/ /\ sessions[q].status \in Kept /\ sessions'[q].status = "closed"
         /\ sessions'[q].account = sessions[q].account
  BY <1>2, <1>3 DEF ClosedAtMost, SessionRow
<1> QED BY <1>4, <1>5, <1>6

(* Committed rows stay committed, with what they say.                      *)
KeptRows ==
    \A q \in Request :
        /\ accounts[q].status \in Kept =>
              /\ accounts'[q].status \in Kept /\ accounts'[q].email = accounts[q].email
              /\ accounts[q].status = "closed" => accounts'[q].status = "closed"
        /\ identities[q].status \in Kept =>
              /\ identities'[q].status \in Kept
              /\ identities'[q].account = identities[q].account
              /\ identities'[q].key = identities[q].key
              /\ identities[q].status = "closed" => identities'[q].status = "closed"
        /\ sessions[q].status \in Kept =>
              /\ sessions'[q].status \in Kept /\ sessions'[q].account = sessions[q].account
              /\ sessions[q].status = "closed" => sessions'[q].status = "closed"

(* A request that takes a step has none of its own yet.                    *)
LEMMA KeptStay ==
  ASSUME AccountInv, NEW r \in Request, Receive(r) \/ Progress(r) \/ Abort(r)
  PROVE  /\ KeptRows
         /\ accounts[r].status \notin Kept
         /\ identities[r].status \notin Kept
         /\ sessions[r].status \notin Kept
         /\ pc[r] # "done"
<1>2. pc[r] # "done"
  BY DEF Receive, Progress, Abort, Authenticate, FindEmail, Verify, Connect, Begin, Commit,
         FindIdentity, FindAccount, CreateAccount, LockAccount, InsertIdentity, CreateSession,
         RevokeSession, SoftDeleteAccount, SoftDeleteAccountIdentities, RevokeAllAccountSessions
<1>3. /\ accounts[r].status \notin Kept
      /\ identities[r].status \notin Kept
      /\ sessions[r].status \notin Kept
  BY <1>2 DEF AccountInv, OwnRows, Kept
<1>5. KeptRows
  BY <1>3, OthersRows DEF KeptRows, Kept
<1> QED BY <1>2, <1>3, <1>5

(* Hence what is known of the others stays true.                           *)
LEMMA OthersStay ==
  ASSUME AccountInv, RequestInv, NEW r \in Request, Receive(r) \/ Progress(r) \/ Abort(r),
         NEW q \in Request \ {r}
  PROVE  /\ InsertedInOrder(q)' /\ Answered(q)'
         /\ TokenTies(q)' /\ DeleteTies(q)' /\ MarkTies(q)' /\ LinkTies(q)'
<1>1. HandlersRest(r)
  BY StepRest
<1>0. /\ \/ accounts'[q] = accounts[q]
         \/ accounts[q].status \in Kept /\ accounts'[q].status = "closed"
      /\ \/ identities'[q] = identities[q]
         \/ identities[q].status \in Kept /\ identities'[q].status = "closed"
      /\ \/ sessions'[q] = sessions[q]
         \/ sessions[q].status \in Kept /\ sessions'[q].status = "closed"
  BY OthersRows
<1>2. /\ KeptRows
      /\ accounts[r].status \notin Kept
      /\ identities[r].status \notin Kept
      /\ sessions[r].status \notin Kept
  BY KeptStay
<1>3. StoreTypeOK /\ HandlerTypeOK
  BY DEF AccountInv, TypeOK
<1>4. /\ pc'[q] = pc[q] /\ call'[q] = call[q] /\ target'[q] = target[q]
      /\ reply'[q] = reply[q] /\ doomed'[q] = doomed[q]
  BY <1>1 DEF HandlersRest
<1>5. /\ InsertedInOrder(q) /\ Answered(q)
      /\ TokenTies(q) /\ DeleteTies(q) /\ MarkTies(q) /\ LinkTies(q)
  BY DEF RequestInv
<1>6. InsertedInOrder(q)'
  BY <1>0, <1>4, <1>5 DEF InsertedInOrder, Kept
<1>7. Answered(q)'
  BY <1>0, <1>4, <1>5 DEF Answered, Kept, Rejected, NoAccount, NoIdentity, NoSession
<1>8. TokenTies(q)'
  BY <1>2, <1>3, <1>4, <1>5 DEF TokenTies, KeptRows, HandlerTypeOK, Call
<1>9. DeleteTies(q)'
  <2>1. pc[q] \in {"begin", "soft_delete_account"} \cup AfterDelete /\ call[q].op = "delete" =>
          target[q] \in Request
    BY DEF AccountInv, Arguments, DeleteSteps, CreateSteps, AfterDelete
  <2> QED BY <1>2, <1>4, <1>5, <2>1 DEF DeleteTies, KeptRows, AfterDelete, Kept
<1>10. MarkTies(q)'
  <2>1. doomed[q].identities \subseteq Request /\ doomed[q].sessions \subseteq Request
    BY <1>3 DEF StoreTypeOK, Writes
  <2>2. /\ \A i \in doomed[q].identities : identities[i].status \in Kept
        /\ \A t \in doomed[q].sessions : sessions[t].status \in Kept
    BY DEF AccountInv, DeletesMark, MarkedBy, Kept
  <2> QED BY <1>2, <1>4, <1>5, <2>1, <2>2 DEF MarkTies, KeptRows
<1>11. LinkTies(q)'
  <2>1. pc[q] \in {"lock_account", "insert_identity"} => target[q] \in Request
    BY DEF AccountInv, Arguments, CreateSteps
  <2> QED BY <1>0, <1>2, <1>4, <1>5, <2>1 DEF LinkTies, KeptRows, Kept
<1> QED BY <1>6, <1>7, <1>8, <1>9, <1>10, <1>11

-----------------------------------------------------------------------------
(* What is known of the request that takes the step.                       *)
OwnInv(r) ==
    /\ InsertedInOrder(r) /\ Answered(r)
    /\ TokenTies(r) /\ DeleteTies(r) /\ MarkTies(r) /\ LinkTies(r)

(* A request on its way has inserted rows only after CreateAccount.        *)
LEMMA NothingYet ==
  ASSUME AccountInv, RequestInv, NEW r \in Request, pc[r] \notin CreateSteps \cup {"done"}
  PROVE  accounts[r] = NoAccount /\ identities[r] = NoIdentity /\ sessions[r] = NoSession
<1>1. /\ accounts[r].status \in Status
      /\ identities[r].status \in Status
      /\ sessions[r].status \in Status
  BY DEF AccountInv, TypeOK, StoreTypeOK, AccountRow, IdentityRow, SessionRow
<1> QED BY <1>1 DEF Status, AccountInv, OwnRows, CreateSteps, RequestInv, InsertedInOrder

(* The cookie's session stays, and stays closed.                           *)
LEMMA TokenStays ==
  ASSUME AccountInv, RequestInv, NEW r \in Request, Progress(r) \/ Abort(r),
         UNCHANGED call, call[r].op = "signout" => reply'[r] # "ok"
  PROVE  TokenTies(r)'
<1>1. KeptRows
  BY KeptStay
<1>2. call[r] \in Call
  BY DEF AccountInv, TypeOK, HandlerTypeOK
<1> QED BY <1>1, <1>2 DEF TokenTies, KeptRows, RequestInv, Call

(* Steps that only read, or take a connection.                             *)
LEMMA OwnReads ==
  ASSUME AccountInv, RequestInv, NEW r \in Request,
         \/ Receive(r) \/ Authenticate(r) \/ FindEmail(r) \/ Verify(r)
         \/ FindIdentity(r) \/ FindAccount(r) \/ Connect(r) \/ Begin(r)
  PROVE  OwnInv(r)'
<1> USE DEF OwnInv, Goto, GotoWith, Answer
<1>0. StoreTypeOK /\ HandlerTypeOK
  BY DEF AccountInv, TypeOK
<1>1. /\ UNCHANGED <<accounts, identities, sessions, doomed>>
      /\ pc[r] \notin CreateSteps \cup AfterDelete \cup {"done"}
  BY DEF Receive, Authenticate, FindEmail, Verify, FindIdentity, FindAccount, Connect, Begin,
     Acquire, store, CreateSteps, AfterDelete
<1>2. /\ accounts[r] = NoAccount /\ identities[r] = NoIdentity /\ sessions[r] = NoSession
      /\ doomed[r] = NoWrites
  BY <1>1, NothingYet DEF AccountInv, DeletesMark, MarkedBy
<1>3. MarkTies(r)'
  BY <1>1, <1>2 DEF MarkTies, NoWrites
<1>4. reply[r] = "none" /\ pc[r] \in {"idle", "done"} \cup Route(call[r].op)
  BY <1>1 DEF RequestInv, Answered, AccountInv, Arguments
<1>5. CASE Receive(r)
  <2> PICK c \in Calls :
        /\ c.token # None => Issued(c.token)
        /\ call' = [call EXCEPT ![r] = c]
        /\ IF Rejected(c)
           THEN /\ pc' = [pc EXCEPT ![r] = "done"]
                /\ reply' = [reply EXCEPT ![r] = Rejection(c)]
           ELSE /\ pc' = [pc EXCEPT ![r] = FirstStep(c.op)]
                /\ UNCHANGED reply
    BY <1>5 DEF Receive
  <2>1. call'[r] = c /\ c \in Call /\ target' = target
    BY <1>0, <1>5, CallsAssumption DEF HandlerTypeOK, Receive
  <2>2. /\ pc'[r] \in {"done", "begin", "find_email", "verify", "connect", "authenticate"}
        /\ pc'[r] = "done" => reply'[r] \in {"invalid_input", "unauthenticated"}
        /\ pc'[r] # "done" => reply'[r] = "none" /\ ~Rejected(c)
        /\ pc'[r] = "begin" => c.op # "delete"
    BY <1>0, <1>4, <2>1 DEF HandlerTypeOK, FirstStep, Rejection
  <2>3. InsertedInOrder(r)'
    BY <1>1, <1>2, <2>2 DEF InsertedInOrder, NoAccount, NoIdentity, NoSession, CreateSteps
  <2>4. Answered(r)'
    BY <2>1, <2>2 DEF Answered, Conflict, Rejected
  <2>5. TokenTies(r)'
    BY <1>1, <2>1, <2>2 DEF TokenTies, Issued, Kept
  <2>6. DeleteTies(r)' /\ LinkTies(r)'
    BY <1>1, <1>2, <2>1, <2>2 DEF DeleteTies, LinkTies, AfterDelete, NoIdentity
  <2> QED BY <1>3, <2>3, <2>4, <2>5, <2>6
<1>6. CASE ~Receive(r)
  <2>1. UNCHANGED call /\ pc[r] # "idle"
    BY <1>6 DEF Authenticate, FindEmail, Verify, FindIdentity, FindAccount, Connect, Begin
  <2>2. reply'[r] \in {"none", "invalid_credentials", "unauthenticated", "provider_unavailable"}
    BY <1>0, <1>4, <1>6 DEF Authenticate, FindEmail, Verify, FindIdentity, FindAccount, Connect,
       Begin, HandlerTypeOK
  <2>3. pc'[r] # "done" => reply'[r] = "none"
    BY <1>0, <1>4, <1>6 DEF Authenticate, FindEmail, Verify, FindIdentity, FindAccount, Connect,
       Begin, HandlerTypeOK
  <2>4. TokenTies(r)'
    BY <1>6, <2>1, <2>2, TokenStays DEF Progress
  <2>5. Answered(r)'
    BY <1>1, <1>2, <1>4, <2>1, <2>2, <2>3 DEF Answered, Conflict, RequestInv, Rejected
  <2>6. InsertedInOrder(r)'
    <3>1. pc'[r] \in CreateSteps => call[r].op # "signup" /\ pc'[r] # "commit"
      BY <1>0, <1>4, <1>6 DEF Authenticate, FindEmail, Verify, FindIdentity, FindAccount, Connect,
         Begin, HandlerTypeOK, CreateSteps, Route
    <3> QED BY <1>1, <1>2, <2>1, <3>1 DEF InsertedInOrder, NoAccount, NoIdentity, NoSession, CreateSteps
  <2>7. DeleteTies(r)'
    <3>1. CASE Authenticate(r)
      BY <1>0, <1>1, <1>4, <2>2, <3>1 DEF Authenticate, Authentic, DeleteTies, HandlerTypeOK, Kept,
         AfterDelete
    <3>2. CASE Begin(r)
      BY <1>0, <1>1, <1>4, <2>2, <3>2 DEF Begin, DeleteTies, HandlerTypeOK, RequestInv, AfterDelete
    <3>3. CASE ~Authenticate(r) /\ ~Begin(r)
      <4>1. call[r].op # "delete"
        BY <1>4, <1>6, <3>3 DEF FindEmail, Verify, FindIdentity, FindAccount, Connect, Route,
           DeleteSteps
      <4> QED BY <2>1, <4>1 DEF DeleteTies
    <3> QED BY <3>1, <3>2, <3>3
  <2>8. LinkTies(r)'
    <3>1. CASE FindAccount(r)
      <4>1. call[r].email # None
        BY <3>1 DEF FindAccount, RequestInv, LinkTies
      <4> QED BY <1>0, <1>1, <1>2, <2>1, <3>1, <4>1 DEF FindAccount, LiveAccounts, LinkTies,
          HandlerTypeOK, Kept, NoIdentity
    <3>2. CASE ~FindAccount(r)
      <4>1. /\ pc'[r] \notin {"lock_account", "insert_identity"}
            /\ pc'[r] = "find_account" => call[r].email # None
        BY <1>0, <1>6, <3>2 DEF Authenticate, FindEmail, Verify, FindIdentity, Connect, Begin,
           HandlerTypeOK
      <4> QED BY <1>1, <1>2, <2>1, <4>1 DEF LinkTies, NoIdentity
    <3> QED BY <3>1, <3>2
  <2> QED BY <1>3, <2>4, <2>5, <2>6, <2>7, <2>8
<1> QED BY <1>5, <1>6

(* A rolled back request keeps nothing, and is not told "ok".              *)
LEMMA OwnRollback ==
  ASSUME AccountInv, RequestInv, NEW r \in Request, Progress(r) \/ Abort(r), Rollback(r),
         UNCHANGED call,
         \/ pc'[r] = "begin" /\ reply'[r] = reply[r] /\ call[r].op # "delete"
         \/ pc'[r] = "done" /\ reply'[r] # "ok",
         call[r].op = "signup" => reply'[r] # "identity_exists"
  PROVE  OwnInv(r)'
<1>0. StoreTypeOK /\ HandlerTypeOK /\ pc[r] \notin {"idle", "done"}
  <2>1. pc[r] # "done"
    BY KeptStay
  <2>2. pc[r] # "idle"
    BY DEF Progress, Abort, Authenticate, FindEmail, Verify, Connect, Begin, Commit,
         FindIdentity, FindAccount, CreateAccount, LockAccount, InsertIdentity, CreateSession,
         RevokeSession, SoftDeleteAccount, SoftDeleteAccountIdentities, RevokeAllAccountSessions
  <2> QED BY <2>1, <2>2 DEF AccountInv, TypeOK
<1>1. /\ accounts'[r] = NoAccount /\ identities'[r] = NoIdentity /\ sessions'[r] = NoSession
      /\ doomed'[r] = NoWrites
  <2>1. /\ accounts[r].status \in {"absent", "inserted"}
        /\ identities[r].status \in {"absent", "inserted"}
        /\ sessions[r].status \in {"absent", "inserted"}
    BY <1>0, KeptStay DEF StoreTypeOK, AccountRow, IdentityRow, SessionRow, Status, Kept
  <2> QED BY <1>0, <2>1, RollbackEffect DEF RequestInv, InsertedInOrder
<1>2. reply[r] = "none" /\ ~Rejected(call[r])
  BY <1>0 DEF RequestInv, Answered
<1>3. InsertedInOrder(r)' /\ MarkTies(r)' /\ LinkTies(r)' /\ DeleteTies(r)'
  BY <1>1, <1>2 DEF InsertedInOrder, MarkTies, LinkTies, DeleteTies, NoAccount, NoIdentity,
     NoSession, NoWrites, CreateSteps, AfterDelete
<1>4. Answered(r)'
  BY <1>1, <1>2 DEF Answered, Rejected, Conflict
<1>5. TokenTies(r)'
  BY <1>2, TokenStays
<1> QED BY <1>3, <1>4, <1>5 DEF OwnInv

(* Statements of a sign-in that fail.                                      *)
LEMMA OwnFail ==
  ASSUME AccountInv, RequestInv, NEW r \in Request, Progress(r), NEW result \in Reply,
         Fail(r, result), result # "ok", call[r].op \in SigninOps,
         call[r].op = "signup" => result # "identity_exists"
  PROVE  OwnInv(r)'
<1>1. /\ UNCHANGED call
      /\ \/ pc'[r] = "begin" /\ reply'[r] = reply[r]
         \/ pc'[r] = "done" /\ reply'[r] = result
  BY DEF Fail, Answer, AccountInv, TypeOK, HandlerTypeOK
<1>2. reply[r] # "identity_exists" \/ call[r].op # "signup"
  BY DEF RequestInv, Answered
<1> QED BY <1>1, <1>2, OwnRollback DEF Fail, SigninOps

(* A sign-up that has its account's row cannot lose the identity's index:  *)
(* an identity with its address as key would belong to an account with the *)
(* same address, hence to its own.                                         *)
LEMMA SignupOwnsItsKey ==
  ASSUME AccountInv, RequestInv, TableInv, NEW r \in Request, InsertIdentity(r),
         call[r].op = "signup"
  PROVE  ~KeyTaken(IdentityKey(r))
<1> DEFINE e == call[r].email
<1> SUFFICES ASSUME NEW i \in Request, identities[i].key = e,
                    identities[i].status \in {"inserted", "live"}
             PROVE  FALSE
  BY DEF KeyTaken, IdentityRivals, IdentityKey
<1>0. StoreTypeOK /\ HandlerTypeOK /\ pc[r] = "insert_identity"
  BY DEF AccountInv, TypeOK, InsertIdentity
<1>1. e \in Email /\ target[r] = r
  BY <1>0 DEF RequestInv, Answered, Rejected, HandlerTypeOK, Call, InsertedInOrder, CreateSteps
<1>2. /\ locks[r] = r
      /\ accounts[r].status = "inserted"
      /\ accounts[r].email = e
  BY <1>0, <1>1 DEF AccountInv, OwnRows, LocksHeld, LockDiscipline, ActiveFor, RequestInv, LinkTies
<1>3. identities[i].account \in Request /\ accounts[identities[i].account].email = e
  BY <1>0, <1>1 DEF StoreTypeOK, TableInv, IdentityMatches
<1>4. Holds(identities[i].account)
  <2>1. CASE identities[i].status = "inserted"
    BY <1>3, <2>1 DEF AccountInv, LocksHeld, LockDiscipline, ActiveFor, Holds
  <2>2. CASE identities[i].status = "live"
    BY <1>3, <2>2 DEF TableInv, IdentityMatches, AccountInv, DeletedAccountsAreClosed, Kept, Holds
  <2> QED BY <2>1, <2>2
<1>5. identities[i].account = r
  BY <1>1, <1>2, <1>3, <1>4, NoneAssumption DEF TableInv, AddressesAreUnique, Holds
<1>6. identities[i].status = "inserted"
  BY <1>2, <1>5 DEF TableInv, IdentityMatches, Kept
<1>7. i = r
  BY <1>2, <1>5, <1>6 DEF AccountInv, LocksHeld, LockDiscipline
<1> QED BY <1>0, <1>6, <1>7 DEF AccountInv, OwnRows

(* The statements that insert.                                             *)
LEMMA OwnInserts ==
  ASSUME AccountInv, RequestInv, TableInv, NEW r \in Request,
         CreateAccount(r) \/ LockAccount(r) \/ InsertIdentity(r) \/ CreateSession(r)
  PROVE  OwnInv(r)'
<1> USE DEF Goto, GotoWith, Answer
<1>0. StoreTypeOK /\ HandlerTypeOK /\ Progress(r)
  BY DEF AccountInv, TypeOK, Progress
<1>1. /\ call[r].op \in SigninOps
      /\ call[r].op = "signin_email" => pc[r] = "create_session"
      /\ pc[r] \in {"create_account", "lock_account", "insert_identity", "create_session"}
  BY <1>0 DEF CreateAccount, LockAccount, InsertIdentity, CreateSession, AccountInv, Arguments,
     Route, SigninOps, DeleteSteps, HandlerTypeOK, Call, Operation
<1>2. /\ OwnInv(r)
      /\ reply[r] = "none"
      /\ doomed[r] = NoWrites
  BY <1>1 DEF RequestInv, OwnInv, Answered, MarkTies, SigninOps
<1>3. CASE CreateAccount(r)
  <2>1. CASE EmailTaken(call[r].email)
    BY <1>0, <1>1, <1>3, <2>1, OwnFail DEF CreateAccount, Reply, Conflict
  <2>2. CASE ~EmailTaken(call[r].email)
    <3>1. /\ accounts'[r] = [status |-> "inserted", email |-> call[r].email]
          /\ UNCHANGED <<identities, sessions, doomed, call, reply>>
          /\ pc'[r] = "lock_account" /\ target'[r] = r
      BY <1>0, <1>3, <2>2 DEF CreateAccount, InsertAccount, StoreTypeOK, HandlerTypeOK
    <3>2. TokenTies(r)'
      BY <1>0, <1>2, <3>1, TokenStays
    <3>3. identities[r] = NoIdentity /\ sessions[r] = NoSession
      BY <1>3, NothingYet DEF CreateAccount, CreateSteps
    <3>4. InsertedInOrder(r)'
      BY <1>1, <1>3, <3>1, <3>3 DEF InsertedInOrder, NoIdentity, NoSession, CreateAccount, SigninOps
    <3>5. Answered(r)'
      BY <1>2, <1>3, <3>1 DEF OwnInv, Answered, Rejected, Conflict, CreateAccount
    <3>6. MarkTies(r)'
      BY <1>2, <3>1 DEF MarkTies, NoWrites
    <3>7. LinkTies(r)'
      BY <3>1, <3>3 DEF LinkTies, NoIdentity
    <3> QED
      BY <1>1, <3>1, <3>2, <3>4, <3>5, <3>6, <3>7 DEF OwnInv, DeleteTies, SigninOps
  <2> QED BY <2>1, <2>2
<1>4. CASE LockAccount(r)
  <2>1. CASE ~ActiveFor(r, target[r])
    BY <1>0, <1>1, <1>4, <2>1, OwnFail DEF LockAccount, Reply
  <2>2. CASE ActiveFor(r, target[r])
    <3>1. /\ UNCHANGED <<accounts, identities, sessions, doomed, call, target, reply>>
          /\ pc'[r] = "insert_identity" /\ pc[r] = "lock_account"
      BY <1>0, <1>4, <2>2 DEF LockAccount, LockRow, HandlerTypeOK
    <3> QED
      BY <1>1, <1>2, <3>1 DEF OwnInv, InsertedInOrder, Answered, TokenTies, DeleteTies, MarkTies,
         LinkTies, CreateSteps, SigninOps, Rejected
  <2> QED BY <2>1, <2>2
<1>5. CASE InsertIdentity(r)
  <2>1. CASE KeyTaken(IdentityKey(r))
    BY <1>0, <1>1, <1>5, <2>1, OwnFail, SignupOwnsItsKey DEF InsertIdentity, Reply, Conflict
  <2>2. CASE ~KeyTaken(IdentityKey(r))
    <3>1. /\ identities'[r] = [status |-> "inserted", account |-> target[r],
                               key |-> IdentityKey(r), email |-> call[r].email]
          /\ UNCHANGED <<accounts, sessions, doomed, call, target, reply>>
          /\ pc'[r] = "create_session" /\ pc[r] = "insert_identity"
      BY <1>0, <1>5, <2>2 DEF InsertIdentity, InsertIdentityRow, StoreTypeOK, HandlerTypeOK
    <3>2. InsertedInOrder(r)'
      BY <1>1, <1>2, <3>1 DEF OwnInv, InsertedInOrder, CreateSteps, SigninOps, AccountInv, OwnRows
    <3>3. MarkTies(r)'
      BY <1>2, <3>1 DEF MarkTies, NoWrites
    <3>4. Answered(r)'
      BY <1>2, <3>1 DEF OwnInv, Answered, Rejected, Conflict
    <3>5. TokenTies(r)'
      BY <1>0, <1>2, <3>1, TokenStays
    <3>6. LinkTies(r)'
      BY <1>2, <3>1 DEF OwnInv, LinkTies
    <3> QED
      BY <1>1, <3>1, <3>2, <3>3, <3>4, <3>5, <3>6 DEF OwnInv, DeleteTies, SigninOps
  <2> QED BY <2>1, <2>2
<1>6. CASE CreateSession(r)
  <2>1. CASE ~ActiveFor(r, target[r])
    BY <1>0, <1>1, <1>6, <2>1, OwnFail DEF CreateSession, Reply
  <2>2. CASE ActiveFor(r, target[r])
    <3>1. /\ sessions'[r].status \in {"inserted", "live"}
          /\ \A q \in Request \ {r} : sessions'[q] = sessions[q]
          /\ UNCHANGED <<accounts, identities, doomed, call, target>>
          /\ pc[r] = "create_session"
          /\ \/ /\ pc'[r] = "commit" /\ reply'[r] = "none"
                /\ sessions'[r].status = "inserted"
             \/ /\ pc'[r] = "done" /\ reply'[r] \in {"ok", "error"}
                /\ sessions'[r].status = "live" /\ call[r].op = "signin_email"
          /\ call[r].op = "signin_email" => pc'[r] = "done"
      BY <1>0, <1>2, <1>6, <2>2 DEF CreateSession, InsertSession, AutocommitSession, AnswerDone,
         StoreTypeOK, HandlerTypeOK
    <3>2. TokenTies(r)'
      BY <1>0, <1>1, <3>1, TokenStays DEF SigninOps
    <3>3. InsertedInOrder(r)'
      BY <1>1, <1>2, <3>1 DEF OwnInv, InsertedInOrder, CreateSteps, SigninOps, AccountInv, OwnRows
    <3>4. Answered(r)'
      BY <1>2, <3>1 DEF OwnInv, Answered, Rejected, Conflict
    <3>5. MarkTies(r)'
      BY <1>2, <3>1 DEF MarkTies, NoWrites
    <3>6. LinkTies(r)'
      BY <1>2, <3>1 DEF OwnInv, LinkTies
    <3> QED
      BY <1>1, <3>1, <3>2, <3>3, <3>4, <3>5, <3>6 DEF OwnInv, DeleteTies, SigninOps
  <2> QED BY <2>1, <2>2
<1> QED BY <1>3, <1>4, <1>5, <1>6

(* Sign-out, and the three UPDATEs of a delete.                            *)
LEMMA OwnCloses ==
  ASSUME AccountInv, RequestInv, NEW r \in Request,
         \/ RevokeSession(r) \/ SoftDeleteAccount(r)
         \/ SoftDeleteAccountIdentities(r) \/ RevokeAllAccountSessions(r)
  PROVE  OwnInv(r)'
<1> USE DEF Goto, Answer
<1>0. /\ StoreTypeOK /\ HandlerTypeOK /\ Progress(r)
      /\ OwnInv(r) /\ pc[r] \in {"revoke_session"} \cup DeleteSteps
      /\ reply[r] = "none" /\ ~Rejected(call[r])
  BY DEF AccountInv, TypeOK, Progress, RequestInv, OwnInv, Answered, DeleteSteps,
     RevokeSession, SoftDeleteAccount, SoftDeleteAccountIdentities, RevokeAllAccountSessions
<1>1. accounts[r] = NoAccount /\ identities[r] = NoIdentity /\ sessions[r] = NoSession
  BY <1>0, NothingYet DEF CreateSteps, DeleteSteps
<1>2. CASE RevokeSession(r)
  <2>0. /\ call[r].op = "signout" /\ call[r].token \in Request
        /\ sessions[call[r].token].status \in Kept
    BY <1>0, <1>2, NoneAssumption DEF RevokeSession, AccountInv, Arguments, Route, DeleteSteps,
       CreateSteps, HandlerTypeOK, Call, Operation, OwnInv, TokenTies
  <2>1. /\ UNCHANGED <<accounts, identities, doomed, call, target>>
        /\ pc'[r] = "done" /\ reply'[r] \in {"ok", "error"}
        /\ sessions'[call[r].token].status = "closed"
        /\ sessions'[r] = NoSession
    <3>1. r # call[r].token
      BY <1>1, <2>0 DEF Kept, NoSession
    <3> QED BY <1>0, <1>1, <1>2, <2>0, <3>1 DEF RevokeSession, AutocommitRevoke, AnswerDone,
        StoreTypeOK, HandlerTypeOK, SessionRow, Kept
  <2>2. InsertedInOrder(r)' /\ Answered(r)'
    BY <1>0, <1>1, <2>0, <2>1 DEF InsertedInOrder, Answered, Conflict, SigninOps, CreateSteps,
       NoAccount, NoIdentity, NoSession, Rejected
  <2>3. TokenTies(r)' /\ DeleteTies(r)' /\ LinkTies(r)'
    BY <1>0, <1>1, <2>0, <2>1 DEF TokenTies, DeleteTies, LinkTies, Kept, NoIdentity
  <2>4. MarkTies(r)'
    BY <1>0, <2>0, <2>1 DEF MarkTies, NoWrites, OwnInv
  <2> QED BY <2>2, <2>3, <2>4 DEF OwnInv
<1>3. CASE ~RevokeSession(r)
  <2>0. call[r].op = "delete" /\ target[r] \in Request /\ pc[r] \in DeleteSteps
    BY <1>3 DEF AccountInv, TypeOK, HandlerTypeOK, Arguments, Route, DeleteSteps, CreateSteps,
       Call, Operation, SoftDeleteAccount, SoftDeleteAccountIdentities, RevokeAllAccountSessions
  <2>1. /\ UNCHANGED <<accounts, identities, sessions, call, target, reply>>
        /\ pc'[r] \in AfterDelete
    BY <1>0, <1>3 DEF SoftDeleteAccount, SoftDeleteAccountIdentities, RevokeAllAccountSessions,
       HandlerTypeOK, AfterDelete, store
  <2>2. /\ InsertedInOrder(r)' /\ Answered(r)' /\ TokenTies(r)' /\ LinkTies(r)'
    BY <1>0, <1>1, <2>0, <2>1 DEF OwnInv, InsertedInOrder, Answered, TokenTies, LinkTies, Conflict,
       SigninOps, NoAccount, NoIdentity, NoSession, Rejected, AfterDelete
  <2>3. accounts[target[r]].status \in Kept
    BY <1>0, <2>0 DEF OwnInv, DeleteTies, AfterDelete, DeleteSteps
  <2>4. DeleteTies(r)' /\ MarkTies(r)'
    <3>1. CASE SoftDeleteAccount(r)
      <4>1. doomed[r] = NoWrites
        BY <3>1 DEF SoftDeleteAccount, AccountInv, DeletesMark, MarkedBy, AfterDelete
      <4>2. /\ doomed'[r].identities = {} /\ doomed'[r].sessions = {}
            /\ target[r] \in doomed'[r].accounts \/ accounts[target[r]].status = "closed"
        BY <1>0, <2>3, <3>1, <4>1 DEF SoftDeleteAccount, StoreTypeOK, NoWrites, Kept
      <4> QED BY <1>0, <2>0, <2>1, <2>3, <4>2 DEF DeleteTies, MarkTies
    <3>2. CASE SoftDeleteAccountIdentities(r)
      <4> DEFINE S == {i \in Request : identities[i].status = "live" /\ identities[i].account = target[r]}
      <4>1. /\ doomed'[r].identities = S /\ doomed'[r].accounts = doomed[r].accounts
            /\ doomed'[r].sessions = doomed[r].sessions
        BY <1>0, <3>2 DEF SoftDeleteAccountIdentities, StoreTypeOK, Writes
      <4>2. target[r] \in doomed[r].accounts \/ accounts[target[r]].status = "closed"
        BY <1>0, <2>0, <3>2 DEF OwnInv, DeleteTies, AfterDelete, SoftDeleteAccountIdentities
      <4>3. S # {} => doomed[r].accounts = {target[r]}
        BY <2>0, <4>2 DEF AccountInv, DeletedAccountsAreClosed, DeletesMark, MarkedBy
      <4> QED BY <1>0, <2>0, <2>1, <2>3, <4>1, <4>2, <4>3 DEF DeleteTies, MarkTies, OwnInv
    <3>3. CASE RevokeAllAccountSessions(r)
      <4> DEFINE S == {t \in Request : sessions[t].status = "live" /\ sessions[t].account = target[r]}
      <4>1. /\ doomed'[r].identities = doomed[r].identities
            /\ doomed'[r].accounts = doomed[r].accounts
            /\ doomed'[r].sessions = S
        BY <1>0, <3>3 DEF RevokeAllAccountSessions, OpenSessions, StoreTypeOK, Writes
      <4>2. target[r] \in doomed[r].accounts \/ accounts[target[r]].status = "closed"
        BY <1>0, <2>0, <3>3 DEF OwnInv, DeleteTies, AfterDelete, RevokeAllAccountSessions
      <4>3. S # {} => doomed[r].accounts = {target[r]}
        BY <2>0, <4>2 DEF AccountInv, DeletedAccountsAreClosed, DeletesMark, MarkedBy
      <4> QED BY <1>0, <2>0, <2>1, <2>3, <4>1, <4>2, <4>3 DEF DeleteTies, MarkTies, OwnInv
    <3> QED BY <1>3, <3>1, <3>2, <3>3
  <2> QED BY <2>2, <2>4 DEF OwnInv
<1> QED BY <1>2, <1>3

(* COMMIT: what was inserted is there, what was marked is closed.          *)
LEMMA OwnCommit ==
  ASSUME AccountInv, RequestInv, NEW r \in Request, Commit(r)
  PROVE  OwnInv(r)'
<1>0. /\ StoreTypeOK /\ HandlerTypeOK /\ DeletesMark /\ Progress(r) /\ CommitWrites(r)
      /\ OwnInv(r) /\ pc[r] = "commit" /\ target[r] \in Request
      /\ call[r].op \in {"signup", "signin_oauth", "delete"}
  BY DEF AccountInv, TypeOK, Progress, RequestInv, OwnInv, Commit, Arguments, Route, CreateSteps,
     DeleteSteps, HandlerTypeOK, Call, Operation
<1>1. /\ UNCHANGED <<call, target>>
      /\ pc'[r] = "done" /\ reply'[r] \in {"ok", "error"} /\ doomed'[r] = NoWrites
      /\ ~Rejected(call[r])
  BY <1>0, CommitEffect DEF Commit, AnswerDone, Answer, HandlerTypeOK, OwnInv, Answered
<1>2. /\ accounts[r].status = "absent" => accounts'[r] = NoAccount
      /\ identities[r].status = "absent" => identities'[r] = NoIdentity
      /\ sessions[r].status = "absent" => sessions'[r] = NoSession
      /\ accounts'[r].status # "inserted" /\ identities'[r].status # "inserted"
      /\ sessions'[r].status # "inserted"
      /\ sessions[r].status = "inserted" => sessions'[r].status = "live"
      /\ accounts[r].status # "absent" => accounts'[r].status # "absent"
      /\ identities[r].status # "absent" => identities'[r].status # "absent"
      /\ sessions[r].status # "absent" => sessions'[r].status # "absent"
  <2>1. /\ accounts[r].status = "absent" => r \notin doomed[r].accounts
        /\ identities[r].status = "absent" => r \notin doomed[r].identities
        /\ sessions[r].status = "absent" => r \notin doomed[r].sessions
    BY <1>0 DEF DeletesMark, MarkedBy, AccountInv, LocksHeld, LockDiscipline, ActiveFor
  <2>2. /\ accounts[r].status = "absent" => accounts[r] = NoAccount
        /\ identities[r].status = "absent" => identities[r] = NoIdentity
        /\ sessions[r].status = "absent" => sessions[r] = NoSession
    BY <1>0 DEF OwnInv, InsertedInOrder
  <2>3. /\ accounts[r].status = "absent" => accounts'[r] = accounts[r]
        /\ identities[r].status = "absent" => identities'[r] = identities[r]
        /\ sessions[r].status = "absent" => sessions'[r] = sessions[r]
    BY <1>0, <2>1, CommitRows
  <2>4. /\ accounts'[r].status # "inserted" /\ identities'[r].status # "inserted"
        /\ sessions'[r].status # "inserted"
        /\ sessions[r].status = "inserted" => sessions'[r].status = "live"
        /\ accounts[r].status # "absent" => accounts'[r].status # "absent"
        /\ identities[r].status # "absent" => identities'[r].status # "absent"
        /\ sessions[r].status # "absent" => sessions'[r].status # "absent"
    BY <1>0, CommitEffect
  <2> QED BY <2>2, <2>3, <2>4
<1>3. InsertedInOrder(r)' /\ MarkTies(r)' /\ LinkTies(r)'
  BY <1>1, <1>2 DEF InsertedInOrder, MarkTies, LinkTies, NoWrites, CreateSteps
<1>4. Answered(r)'
  BY <1>0, <1>1, <1>2 DEF OwnInv, InsertedInOrder, Answered, Conflict, Rejected
<1>5. TokenTies(r)'
  BY <1>0, <1>1, TokenStays
<1>6. DeleteTies(r)'
  <2>1. CASE call[r].op = "delete"
    <3>1. /\ accounts[target[r]].status \in Kept
          /\ target[r] \in doomed[r].accounts \/ accounts[target[r]].status = "closed"
      BY <1>0, <2>1 DEF OwnInv, DeleteTies, AfterDelete
    <3>2. accounts'[target[r]].status = "closed"
      BY <1>0, <3>1, CommitEffect DEF Kept
    <3> QED BY <1>0, <1>1, <3>2 DEF DeleteTies, AfterDelete
  <2>2. CASE call[r].op # "delete"
    BY <1>1, <2>2 DEF DeleteTies
  <2> QED BY <2>1, <2>2
<1> QED BY <1>3, <1>4, <1>5, <1>6 DEF OwnInv

-----------------------------------------------------------------------------
(* The tables.  An identity in them belongs to an account that is in them. *)
LEMMA IdentityOwners ==
  ASSUME AccountInv, TableInv, NEW i \in Request, identities[i].status \in {"inserted", "live"}
  PROVE  /\ identities[i].account \in Request
         /\ \/ accounts[identities[i].account].status \in Kept
            \/ identities[i].account = i /\ accounts[i].status = "inserted"
         /\ identities[i].status = "inserted" =>
              \/ accounts[identities[i].account].status = "live"
              \/ identities[i].account = i /\ accounts[i].status = "inserted"
         /\ accounts[identities[i].account].email = identities[i].email
         /\ identities[i].key \in Email => identities[i].key = identities[i].email
BY DEF AccountInv, TypeOK, StoreTypeOK, LocksHeld, LockDiscipline, ActiveFor, TableInv,
       IdentityMatches, Kept

(* Steps that leave both tables alone.                                     *)
LEMMA TablesAtRest ==
  ASSUME TableInv, UNCHANGED <<accounts, identities>>
  PROVE  TableInv'
BY DEF TableInv, KeysAreUnique, IdentityMatches, AddressesAreUnique, Holds, LiveAccountsCanSignIn

(* A rollback takes away rows nobody else refers to.                       *)
LEMMA TablesRolledBack ==
  ASSUME AccountInv, TableInv, NEW r \in Request, Rollback(r)
  PROVE  TableInv'
<1>0. StoreTypeOK
  BY DEF AccountInv, TypeOK
<1>1. \A q \in Request :
        /\ \/ accounts'[q] = accounts[q]
           \/ q = r /\ accounts[q].status = "inserted" /\ accounts'[q] = NoAccount
        /\ \/ identities'[q] = identities[q]
           \/ q = r /\ identities[q].status = "inserted" /\ identities'[q] = NoIdentity
  <2>1. \A q \in Request :
          /\ accounts'[q] = IF q = r /\ accounts[q].status = "inserted" THEN NoAccount ELSE accounts[q]
          /\ identities'[q] = IF q = r /\ identities[q].status = "inserted"
                              THEN NoIdentity ELSE identities[q]
    BY <1>0, RollbackEffect
  <2> QED BY <2>1
<1>2. ASSUME NEW i \in Request PROVE IdentityMatches(i)'
  <2> SUFFICES ASSUME identities'[i].status \in {"inserted", "live"} PROVE IdentityMatches(i)'
    BY DEF IdentityMatches
  <2>1. identities'[i] = identities[i]
    BY <1>1 DEF NoIdentity
  <2>2. i = r => identities[i].status # "inserted"
    BY <2>1, <1>0, RollbackEffect DEF NoIdentity
  <2>3. accounts'[identities[i].account] = accounts[identities[i].account]
    BY <1>1, <2>1, <2>2, IdentityOwners DEF TableInv, IdentityMatches, Kept
  <2> QED BY <2>1, <2>3 DEF TableInv, IdentityMatches
<1>3. AddressesAreUnique'
  BY <1>1 DEF TableInv, AddressesAreUnique, Holds, NoAccount
<1>4. LiveAccountsCanSignIn'
  BY <1>1 DEF TableInv, LiveAccountsCanSignIn, NoAccount
<1>5. KeysAreUnique'
  BY <1>1 DEF TableInv, KeysAreUnique, NoIdentity
<1> QED BY <1>2, <1>3, <1>4, <1>5 DEF TableInv

(* An INSERT passes its unique index, and an identity is linked to the     *)
(* account that has its address.                                           *)
LEMMA TablesInserted ==
  ASSUME AccountInv, RequestInv, TableInv, NEW r \in Request, CreateAccount(r) \/ InsertIdentity(r)
  PROVE  TableInv'
<1>0. StoreTypeOK /\ HandlerTypeOK
  BY DEF AccountInv, TypeOK
<1>1. CASE CreateAccount(r) /\ EmailTaken(call[r].email)
  BY <1>1, TablesRolledBack DEF CreateAccount, Fail
<1>2. CASE InsertIdentity(r) /\ KeyTaken(IdentityKey(r))
  BY <1>2, TablesRolledBack DEF InsertIdentity, Fail
<1>3. CASE CreateAccount(r) /\ ~EmailTaken(call[r].email)
  <2>1. /\ accounts'[r] = [status |-> "inserted", email |-> call[r].email]
        /\ \A q \in Request \ {r} : accounts'[q] = accounts[q]
        /\ UNCHANGED identities
    BY <1>0, <1>3 DEF CreateAccount, InsertAccount, StoreTypeOK
  <2>2. accounts[r] = NoAccount /\ identities[r] = NoIdentity
    BY <1>3, NothingYet DEF CreateAccount, CreateSteps
  <2>3. \A i \in Request : IdentityMatches(i)'
    BY <2>1, <2>2, IdentityOwners DEF TableInv, IdentityMatches, NoAccount, Kept
  <2>4. \A a \in Request \ {r} : Holds(a) /\ accounts[a].email = call[r].email => call[r].email = None
    BY <1>3 DEF EmailTaken, AccountRivals, Holds
  <2>5. AddressesAreUnique'
    BY <2>1, <2>4 DEF TableInv, AddressesAreUnique, Holds
  <2>6. LiveAccountsCanSignIn'
    BY <2>1 DEF TableInv, LiveAccountsCanSignIn
  <2>7. KeysAreUnique'
    BY <2>1 DEF TableInv, KeysAreUnique
  <2> QED BY <2>3, <2>5, <2>6, <2>7 DEF TableInv
<1>4. CASE InsertIdentity(r) /\ ~KeyTaken(IdentityKey(r))
  <2>1. /\ identities'[r] = [status |-> "inserted", account |-> target[r],
                             key |-> IdentityKey(r), email |-> call[r].email]
        /\ \A q \in Request \ {r} : identities'[q] = identities[q]
        /\ UNCHANGED accounts
    BY <1>0, <1>4 DEF InsertIdentity, InsertIdentityRow, StoreTypeOK
  <2>2. accounts[target[r]].email = call[r].email
    BY <1>4 DEF RequestInv, LinkTies, InsertIdentity
  <2>3. IdentityKey(r) \in Email => IdentityKey(r) = call[r].email
    BY <1>0, KeyAssumption, NoneAssumption DEF IdentityKey, HandlerTypeOK, Call
  <2>4. \A i \in Request : IdentityMatches(i)'
    BY <2>1, <2>2, <2>3 DEF TableInv, IdentityMatches
  <2>5. identities[r].status # "live"
    BY <1>4 DEF InsertIdentity, AccountInv, OwnRows
  <2>6. AddressesAreUnique' /\ LiveAccountsCanSignIn'
    BY <2>1, <2>5 DEF TableInv, AddressesAreUnique, Holds, LiveAccountsCanSignIn
  <2>7. IdentityKey(r) \in Email \cup Subject
    BY <1>0, <1>4 DEF IdentityKey, HandlerTypeOK, Call, Operation, RequestInv, Answered, Rejected,
       InsertIdentity, AccountInv, Arguments, Route, CreateSteps, DeleteSteps
  <2>8. KeysAreUnique'
    BY <1>4, <2>1, <2>7 DEF TableInv, KeysAreUnique, KeyTaken, IdentityRivals
  <2> QED BY <2>4, <2>6, <2>8 DEF TableInv
<1> QED BY <1>1, <1>2, <1>3, <1>4

(* A COMMIT publishes an account together with its identity, or closes it  *)
(* with all of them.                                                       *)
LEMMA TablesCommitted ==
  ASSUME AccountInv, RequestInv, TableInv, NEW r \in Request, Commit(r)
  PROVE  TableInv'
<1>0. StoreTypeOK /\ DeletesMark /\ CommitWrites(r) /\ pc[r] = "commit"
  BY DEF AccountInv, TypeOK, Commit
<1>1. KeptRows
  BY KeptStay DEF Progress
<1>2. \A q \in Request :
        /\ accounts'[q].email = accounts[q].email
        /\ accounts'[q].status \in {"inserted", "live"} => Holds(q)
        /\ accounts'[q].status = "live" =>
              \/ q = r /\ accounts[q].status = "inserted"
              \/ accounts[q].status = "live" /\ q \notin doomed[r].accounts
        /\ q = r /\ accounts[q].status = "inserted" => accounts'[q].status = "live"
  BY <1>0, CommitEffect DEF Holds
<1>3. \A q \in Request :
        /\ identities'[q].account = identities[q].account
        /\ identities'[q].key = identities[q].key /\ identities'[q].email = identities[q].email
  <2>1. \A row \in IdentityRow, new \in Status :
          /\ [row EXCEPT !.status = new].account = row.account
          /\ [row EXCEPT !.status = new].key = row.key
          /\ [row EXCEPT !.status = new].email = row.email
    BY DEF IdentityRow
  <2> TAKE q \in Request
  <2>2. identities[q] \in IdentityRow
    BY <1>0 DEF StoreTypeOK
  <2>3. CASE identities'[q] = identities[q]
    BY <2>3
  <2>4. CASE \E new \in {"live", "closed"} : identities'[q] = [identities[q] EXCEPT !.status = new]
    <3>1. PICK new \in Status : identities'[q] = [identities[q] EXCEPT !.status = new]
      BY <2>4 DEF Status
    <3> QED BY <2>1, <2>2, <3>1
  <2> QED BY <1>0, <2>3, <2>4, CommitRows
<1>4. \A q \in Request :
        /\ identities'[q].status = "live" =>
              \/ q = r /\ identities[q].status = "inserted"
              \/ identities[q].status = "live"
        /\ identities'[q].status = "inserted" => identities[q].status = "inserted"
        /\ q = r /\ identities[q].status = "inserted" => identities'[q].status = "live"
        /\ identities[q].status = "live" /\ q \notin doomed[r].identities => identities'[q].status = "live"
  BY <1>0, CommitEffect
<1>5. ASSUME NEW i \in Request PROVE IdentityMatches(i)'
  <2> SUFFICES ASSUME identities'[i].status \in {"inserted", "live"}
               PROVE  /\ accounts'[identities[i].account].email = identities[i].email
                      /\ identities[i].key \in Email => identities[i].key = identities[i].email
                      /\ identities'[i].status = "live" =>
                            accounts'[identities[i].account].status \in Kept
    BY <1>3 DEF IdentityMatches
  <2>1. identities[i].status \in {"inserted", "live"}
    BY <1>4
  <2>2. /\ accounts'[identities[i].account].email = identities[i].email
        /\ identities[i].key \in Email => identities[i].key = identities[i].email
    BY <1>2, <2>1, IdentityOwners
  <2>3. CASE identities[i].status = "live"
    BY <1>1, <2>2, <2>3, IdentityOwners DEF TableInv, IdentityMatches, KeptRows
  <2>4. CASE i = r /\ identities[i].status = "inserted"
    BY <1>1, <1>2, <2>2, <2>4, IdentityOwners DEF KeptRows, Kept
  <2>5. CASE i # r /\ identities[i].status = "inserted"
    BY <1>4, <2>2, <2>5
  <2> QED BY <2>1, <2>3, <2>4, <2>5
<1>6. AddressesAreUnique'
  BY <1>2 DEF TableInv, AddressesAreUnique, Holds
<1>7. ASSUME NEW a \in Request, accounts'[a].status = "live"
      PROVE  \E i \in Request : identities'[i].status = "live" /\ identities'[i].account = a
  <2>1. CASE a = r /\ accounts[a].status = "inserted"
    BY <1>0, <1>3, <1>4, <2>1 DEF RequestInv, InsertedInOrder
  <2>2. CASE accounts[a].status = "live" /\ a \notin doomed[r].accounts
    <3>1. PICK i \in Request : identities[i].status = "live" /\ identities[i].account = a
      BY <2>2 DEF TableInv, LiveAccountsCanSignIn
    <3>2. i \notin doomed[r].identities
      BY <2>2, <3>1 DEF RequestInv, MarkTies
    <3> QED BY <1>3, <1>4, <3>1, <3>2
  <2> QED BY <1>2, <1>7, <2>1, <2>2
<1>8. KeysAreUnique'
  <2>1. \A i \in Request : identities'[i].status # "absent" => identities[i].status # "absent"
    BY <1>0, CommitEffect DEF DeletesMark, MarkedBy
  <2>2. \A i \in Request : identities'[i].status \in {"inserted", "live"} =>
          identities[i].status \in {"inserted", "live"}
    BY <1>4
  <2> QED BY <1>3, <2>1, <2>2 DEF TableInv, KeysAreUnique
<1> QED BY <1>5, <1>6, <1>7, <1>8 DEF TableInv, LiveAccountsCanSignIn

-----------------------------------------------------------------------------
(* At first nothing was asked and nothing inserted.                        *)
LEMMA AnswerInit == Init => AnswerInv
BY NoneAssumption DEF Init, StoreInit, AnswerInv, RequestInv, InsertedInOrder, Answered, TokenTies, DeleteTies,
   MarkTies, LinkTies, TableInv, KeysAreUnique, IdentityMatches, AddressesAreUnique, Holds,
   LiveAccountsCanSignIn, NoAccount, NoIdentity, NoSession, NoCall, NoWrites, Conflict, CreateSteps, AfterDelete

(* No step leaves it.                                                      *)
LEMMA AnswerStep == AccountInv /\ AnswerInv /\ [Next]_vars => AnswerInv'
<1> SUFFICES ASSUME AccountInv, AnswerInv, [Next]_vars PROVE AnswerInv'
  OBVIOUS
<1> USE DEF AnswerInv
<1>1. ASSUME NEW r \in Request, Receive(r) \/ Progress(r) \/ Abort(r) PROVE AnswerInv'
  <2>1. OwnInv(r)'
    <3>1. CASE Abort(r)
      <4>1. /\ UNCHANGED call /\ pc'[r] = "done" /\ reply'[r] = "error" /\ Rollback(r)
        BY <3>1 DEF Abort, Answer, AccountInv, TypeOK, HandlerTypeOK
      <4> QED BY <3>1, <4>1, OwnRollback
    <3>2. CASE Receive(r)
      BY <3>2, OwnReads
    <3>3. CASE Progress(r)
      BY <3>3, OwnReads, OwnInserts, OwnCloses, OwnCommit DEF Progress
    <3> QED BY <1>1, <3>1, <3>2, <3>3
  <2>2. \A q \in Request \ {r} : OwnInv(q)'
    BY <1>1, OthersStay DEF OwnInv
  <2>3. RequestInv'
    BY <2>1, <2>2 DEF RequestInv, OwnInv
  <2>4. TableInv'
    <3>1. CASE Commit(r)
      BY <3>1, TablesCommitted
    <3>2. CASE CreateAccount(r) \/ InsertIdentity(r)
      BY <3>2, TablesInserted
    <3>3. CASE Abort(r) \/ \E result \in Reply : Fail(r, result)
      BY <3>3, TablesRolledBack DEF Abort, Fail
    <3>4. CASE LockAccount(r) \/ CreateSession(r)
      BY <3>3, <3>4, TablesAtRest DEF LockAccount, LockRow, CreateSession, InsertSession,
         AutocommitSession, Reply
    <3>5. CASE \/ Receive(r) \/ Authenticate(r) \/ FindEmail(r) \/ Verify(r) \/ FindIdentity(r)
               \/ FindAccount(r) \/ Connect(r) \/ Begin(r) \/ RevokeSession(r)
               \/ SoftDeleteAccount(r) \/ SoftDeleteAccountIdentities(r) \/ RevokeAllAccountSessions(r)
      BY <3>5, TablesAtRest DEF Receive, Authenticate, FindEmail, Verify, FindIdentity, FindAccount,
         Connect, Begin, Acquire, RevokeSession, AutocommitRevoke, SoftDeleteAccount,
         SoftDeleteAccountIdentities, RevokeAllAccountSessions, store
    <3> QED BY <1>1, <3>1, <3>2, <3>3, <3>4, <3>5 DEF Progress
  <2> QED BY <2>3, <2>4
<1>2. CASE UNCHANGED vars \/ \E t \in Request : Expire(t)
  <2>1. UNCHANGED <<accounts, identities, sessions, doomed, pc, call, target, reply>>
    BY <1>2 DEF vars, store, handler, Expire, PassExpiry
  <2> QED BY <2>1, TablesAtRest DEF RequestInv, InsertedInOrder, Answered, TokenTies, DeleteTies,
      MarkTies, LinkTies
<1> QED BY <1>1, <1>2 DEF Next, Quiescent

(* Hence AnswerInv holds throughout.                                       *)
LEMMA AnswersHold == Spec => []AnswerInv
BY AnswerInit, AnswerStep, Invariance, PTL DEF Spec

-----------------------------------------------------------------------------
(* service.go:268-272: a sign-out answered 204 has revoked the session,    *)
(* whichever DELETE it met on the way (SignoutEndsSession in Account).     *)
THEOREM SignoutsAreFinal == Spec => []SignoutEndsSession
<1>1. AnswerInv => SignoutEndsSession
  BY DEF AnswerInv, RequestInv, Answered, Rejected, TokenTies, SignoutEndsSession, SigninOps
<1> QED BY <1>1, AnswersHold, PTL

(* service.go:43-86: no active account without an identity to sign in     *)
(* with (LiveAccountsCanSignIn in Account).                                *)
THEOREM AccountsAreReachable == Spec => []LiveAccountsCanSignIn
<1>1. AnswerInv => LiveAccountsCanSignIn
  BY DEF AnswerInv, TableInv
<1> QED BY <1>1, AnswersHold, PTL

(* service.go:146-208: an identity is live only with its account, whose    *)
(* address it carries and which no other active account has                *)
(* (IdentitiesMatchAccounts in Account).                                   *)
THEOREM IdentitiesBelong == Spec => []IdentitiesMatchAccounts
<1>1. AccountInv /\ AnswerInv => IdentitiesMatchAccounts
  BY DEF AccountInv, TypeOK, StoreTypeOK, DeletedAccountsAreClosed, AnswerInv, TableInv, IdentityMatches,
     AddressesAreUnique, Holds, Kept, IdentitiesMatchAccounts
<1> QED BY <1>1, AnswersHold, Invariance, PTL

(* A sign-up is never answered ErrIdentityAlreadyExists                    *)
(* (SignupConflictIsEmail in Account): by then it holds its address.       *)
THEOREM SignupConflicts == Spec => []SignupConflictIsEmail
<1>1. AnswerInv => SignupConflictIsEmail
  BY DEF AnswerInv, RequestInv, Answered, SignupConflictIsEmail
<1> QED BY <1>1, AnswersHold, PTL

-----------------------------------------------------------------------------
(* The registry.  Its variables as functions of a table, and how they      *)
(* change with it.                                                         *)
Keys == Email \cup Subject
AddressOf(table) == [a \in Request |-> IF a \in Committed(table) THEN table[a].email ELSE None]
OwnerOf(table) ==
    [k \in Email \cup Subject |-> AccountOf(table, {i \in Live(table) : table[i].key = k})]
SignedInOf(table) == [t \in Request |-> AccountOf(table, {t} \cap Live(table))]

(* Nothing committed changes from one table to the other.                  *)
Unseen(old, new) ==
    \A q \in Request :
        new[q] = old[q] \/ (new[q].status \notin Kept /\ old[q].status \notin Kept)

OneRowPerKey(table) ==
    \A i, j \in Live(table) : table[i].key = table[j].key => i = j

(* The live identity with a key says who owns it.                          *)
LEMMA OwnerIs ==
  ASSUME NEW table, OneRowPerKey(table), NEW k \in Keys
  PROVE  /\ \A i \in Live(table) : table[i].key = k => OwnerOf(table)[k] = table[i].account
         /\ (\A i \in Live(table) : table[i].key # k) => OwnerOf(table)[k] = None
<1> DEFINE rows == {i \in Live(table) : table[i].key = k}
<1>1. OwnerOf(table)[k] = AccountOf(table, rows)
  BY DEF OwnerOf, Keys
<1>2. ASSUME NEW i \in rows PROVE OwnerOf(table)[k] = table[i].account
  <2>1. (CHOOSE j \in rows : TRUE) \in rows
    OBVIOUS
  <2>2. (CHOOSE j \in rows : TRUE) = i
    BY <2>1 DEF OneRowPerKey
  <2> QED BY <1>1, <2>2 DEF AccountOf
<1>3. rows = {} => OwnerOf(table)[k] = None
  BY <1>1 DEF AccountOf
<1> QED BY <1>2, <1>3

(* A live session says whom it signs in.                                   *)
LEMMA SignedInIs ==
  ASSUME NEW table, NEW t \in Request
  PROVE  SignedInOf(table)[t] = IF t \in Live(table) THEN table[t].account ELSE None
<1>1. SignedInOf(table)[t] = AccountOf(table, {t} \cap Live(table))
  BY DEF SignedInOf
<1>2. CASE t \in Live(table)
  <2>1. {t} \cap Live(table) = {t} /\ (CHOOSE j \in {t} : TRUE) = t
    BY <1>2
  <2> QED BY <1>1, <1>2, <2>1 DEF AccountOf
<1>3. CASE t \notin Live(table)
  <2>1. {t} \cap Live(table) = {}
    BY <1>3
  <2> QED BY <1>1, <1>3, <2>1 DEF AccountOf
<1> QED BY <1>2, <1>3

(* Uncommitted rows do not show.                                           *)
LEMMA TableRests ==
  ASSUME NEW old, NEW new, Unseen(old, new)
  PROVE  /\ Live(new) = Live(old) /\ Committed(new) = Committed(old)
         /\ AddressOf(new) = AddressOf(old)
         /\ OwnerOf(new) = OwnerOf(old)
         /\ SignedInOf(new) = SignedInOf(old)
<1>1. Live(new) = Live(old) /\ Committed(new) = Committed(old)
  BY DEF Live, Committed, Kept, Unseen
<1>2. \A i \in Committed(old) : new[i] = old[i]
  BY DEF Committed, Kept, Unseen
<1>3. Live(old) \subseteq Committed(old)
  BY DEF Live, Committed
<1>4. AddressOf(new) = AddressOf(old)
  BY <1>1, <1>2 DEF AddressOf
<1>5. ASSUME NEW rows \in SUBSET Live(old) PROVE AccountOf(new, rows) = AccountOf(old, rows)
  <2>1. rows # {} => (CHOOSE i \in rows : TRUE) \in rows
    OBVIOUS
  <2> QED BY <1>2, <1>3, <2>1 DEF AccountOf
<1>6. OwnerOf(new) = OwnerOf(old)
  <2>1. ASSUME NEW k \in Email \cup Subject
        PROVE  AccountOf(new, {i \in Live(new) : new[i].key = k})
                  = AccountOf(old, {i \in Live(old) : old[i].key = k})
    <3>1. {i \in Live(new) : new[i].key = k} = {i \in Live(old) : old[i].key = k}
      BY <1>1, <1>2, <1>3
    <3> QED BY <1>5, <3>1
  <2> QED BY <2>1 DEF OwnerOf
<1>7. SignedInOf(new) = SignedInOf(old)
  BY <1>1, <1>5 DEF SignedInOf
<1> QED BY <1>1, <1>4, <1>6, <1>7

(* A row appears.                                                          *)
Appears(old, new, r) ==
    /\ old[r].status \notin Kept /\ new[r].status = "live"
    /\ \A q \in Request \ {r} : new[q] = old[q]

LEMMA RowAppears ==
  ASSUME NEW old, NEW new, NEW r \in Request, Appears(old, new, r)
  PROVE  /\ Live(new) = Live(old) \cup {r} /\ Committed(new) = Committed(old) \cup {r}
         /\ r \notin Committed(old)
         /\ AddressOf(new) = [AddressOf(old) EXCEPT ![r] = new[r].email]
         /\ \A t \in Request :
              SignedInOf(new)[t] = IF t = r THEN new[r].account ELSE SignedInOf(old)[t]
         /\ OneRowPerKey(new) /\ new[r].key \in Keys =>
              /\ OwnerOf(new) = [OwnerOf(old) EXCEPT ![new[r].key] = new[r].account]
              /\ OwnerOf(old)[new[r].key] = None
<1> USE DEF Appears
<1>1. /\ Live(new) = Live(old) \cup {r} /\ Committed(new) = Committed(old) \cup {r}
      /\ r \notin Committed(old) /\ r \notin Live(old)
  BY DEF Live, Committed, Kept
<1>2. AddressOf(new) = [AddressOf(old) EXCEPT ![r] = new[r].email]
  BY <1>1 DEF AddressOf
<1>3. \A t \in Request : SignedInOf(new)[t] = IF t = r THEN new[r].account ELSE SignedInOf(old)[t]
  BY <1>1, SignedInIs DEF Live
<1>4. ASSUME OneRowPerKey(new), new[r].key \in Keys
      PROVE  /\ OwnerOf(new) = [OwnerOf(old) EXCEPT ![new[r].key] = new[r].account]
             /\ OwnerOf(old)[new[r].key] = None
  <2>1. OneRowPerKey(old)
    BY <1>1, <1>4 DEF OneRowPerKey, Live
  <2>2. \A i \in Live(old) : i \in Request \ {r} /\ new[i] = old[i]
    BY <1>1 DEF Live
  <2>3. \A i \in Live(old) : old[i].key # new[r].key
    BY <1>1, <1>4, <2>2 DEF OneRowPerKey
  <2>4. OwnerOf(new)[new[r].key] = new[r].account
    BY <1>1, <1>4, OwnerIs
  <2>5. ASSUME NEW k \in Keys, k # new[r].key PROVE OwnerOf(new)[k] = OwnerOf(old)[k]
    <3>1. CASE \E i \in Live(old) : old[i].key = k
      BY <1>1, <1>4, <2>1, <2>2, <3>1, OwnerIs
    <3>2. CASE \A i \in Live(old) : old[i].key # k
      BY <1>1, <1>4, <2>1, <2>2, <2>5, <3>2, OwnerIs
    <3> QED BY <3>1, <3>2
  <2>6. /\ OwnerOf(new) = [k \in Keys |-> OwnerOf(new)[k]]
        /\ OwnerOf(old) = [k \in Keys |-> OwnerOf(old)[k]]
    BY DEF OwnerOf, Keys
  <2>7. OwnerOf(old)[new[r].key] = None
    BY <1>4, <2>1, <2>3, OwnerIs
  <2> QED BY <1>4, <2>4, <2>5, <2>6, <2>7
<1> QED BY <1>1, <1>2, <1>3, <1>4

(* The rows of one account are closed.                                     *)
Closes(old, new, a) ==
    /\ Live(new) = {q \in Live(old) : old[q].account # a}
    /\ \A q \in Live(new) : new[q] = old[q]
    /\ \A q \in Live(old) : old[q].account # None

LEMMA RowsClose ==
  ASSUME NEW old, NEW new, NEW a, a # None, Closes(old, new, a)
  PROVE  /\ OneRowPerKey(old) => \A k \in Keys :
              OwnerOf(new)[k] = IF OwnerOf(old)[k] = a THEN None ELSE OwnerOf(old)[k]
         /\ \A t \in Request :
              SignedInOf(new)[t] = IF SignedInOf(old)[t] = a THEN None ELSE SignedInOf(old)[t]
<1> USE DEF Closes
<1>1. ASSUME OneRowPerKey(old)
      PROVE \A k \in Keys : OwnerOf(new)[k] = IF OwnerOf(old)[k] = a THEN None ELSE OwnerOf(old)[k]
  <2>1. OneRowPerKey(new)
    BY <1>1 DEF OneRowPerKey
  <2>2. ASSUME NEW k \in Keys
        PROVE  OwnerOf(new)[k] = IF OwnerOf(old)[k] = a THEN None ELSE OwnerOf(old)[k]
    <3>1. CASE \A i \in Live(old) : old[i].key # k
      <4>1. OwnerOf(old)[k] = None
        BY <1>1, <3>1, OwnerIs
      <4>2. \A i \in Live(new) : new[i].key # k
        BY <3>1
      <4>3. OwnerOf(new)[k] = None
        BY <2>1, <4>2, OwnerIs
      <4> QED BY <4>1, <4>3
    <3>2. ASSUME NEW i \in Live(old), old[i].key = k
          PROVE  OwnerOf(new)[k] = IF OwnerOf(old)[k] = a THEN None ELSE OwnerOf(old)[k]
      <4>1. OwnerOf(old)[k] = old[i].account
        BY <1>1, <3>2, OwnerIs
      <4>2. CASE old[i].account = a
        <5>1. \A j \in Live(new) : new[j].key # k
          BY <1>1, <3>2, <4>2 DEF OneRowPerKey
        <5>2. OwnerOf(new)[k] = None
          BY <2>1, <5>1, OwnerIs
        <5> QED BY <4>1, <4>2, <5>2
      <4>3. CASE old[i].account # a
        <5>1. i \in Live(new) /\ new[i] = old[i]
          BY <4>3
        <5>2. OwnerOf(new)[k] = old[i].account
          BY <2>1, <3>2, <5>1, OwnerIs
        <5> QED BY <4>1, <4>3, <5>2
      <4> QED BY <4>2, <4>3
    <3> QED BY <3>1, <3>2
  <2> QED BY <2>2
<1>2. ASSUME NEW t \in Request
      PROVE  SignedInOf(new)[t] = IF SignedInOf(old)[t] = a THEN None ELSE SignedInOf(old)[t]
  BY SignedInIs
<1> QED BY <1>1, <1>2

-----------------------------------------------------------------------------
(* The registry as the committed rows show it.                             *)
Shown == <<Live(accounts), Committed(accounts) \ Live(accounts), AddressOf(accounts),
           OwnerOf(identities), SignedInOf(sessions), Committed(sessions)>>

(* Whatever is not a COMMIT or an autocommitted statement does not show.   *)
LEMMA HiddenSteps ==
  ASSUME AccountInv, NEW r \in Request, Receive(r) \/ Progress(r) \/ Abort(r)
  PROVE  \/ UNCHANGED Shown
         \/ Commit(r)
         \/ CreateSession(r) /\ ActiveFor(r, target[r]) /\ AutocommitSession(r, target[r])
         \/ RevokeSession(r) /\ sessions[call[r].token].status = "live"
<1> USE DEF Goto, GotoWith, Answer
<1>0. /\ StoreTypeOK
      /\ accounts[r].status \notin Kept /\ identities[r].status \notin Kept
      /\ sessions[r].status \notin Kept
  BY KeptStay DEF AccountInv, TypeOK
<1>1. Unseen(accounts, accounts') /\ Unseen(identities, identities') /\ Unseen(sessions, sessions')
         => UNCHANGED Shown
  BY TableRests DEF Shown
<1>2. CASE \/ Receive(r) \/ Authenticate(r) \/ FindEmail(r) \/ Verify(r) \/ FindIdentity(r)
           \/ FindAccount(r) \/ Connect(r) \/ Begin(r) \/ SoftDeleteAccount(r)
           \/ SoftDeleteAccountIdentities(r) \/ RevokeAllAccountSessions(r)
  <2>1. UNCHANGED <<accounts, identities, sessions>>
    BY <1>2 DEF Receive, Authenticate, FindEmail, Verify, FindIdentity, FindAccount, Connect, Begin,
       Acquire, SoftDeleteAccount, SoftDeleteAccountIdentities, RevokeAllAccountSessions, store
  <2> QED BY <1>1, <2>1 DEF Unseen
<1>3. CASE Abort(r) \/ \E result \in Reply : Fail(r, result)
  <2>1. Rollback(r)
    BY <1>3 DEF Abort, Fail
  <2>2. Unseen(accounts, accounts') /\ Unseen(identities, identities') /\ Unseen(sessions, sessions')
    BY <1>0, <2>1, RollbackEffect DEF Unseen, NoAccount, NoIdentity, NoSession, Kept
  <2> QED BY <1>1, <2>2
<1>4. CASE CreateAccount(r) \/ LockAccount(r) \/ InsertIdentity(r)
  <2>1. CASE \E result \in Reply : Fail(r, result)
    BY <1>3, <2>1
  <2>2. CASE ~\E result \in Reply : Fail(r, result)
    <3>1. /\ \A q \in Request \ {r} : /\ accounts'[q] = accounts[q]
                                       /\ identities'[q] = identities[q]
                                       /\ sessions'[q] = sessions[q]
          /\ accounts'[r].status \notin Kept /\ identities'[r].status \notin Kept
          /\ sessions'[r] = sessions[r]
      BY <1>0, <1>4, <2>2 DEF CreateAccount, LockAccount, InsertIdentity, InsertAccount, LockRow,
         InsertIdentityRow, StoreTypeOK, Reply, Conflict, Kept
    <3> QED BY <1>0, <1>1, <3>1 DEF Unseen
  <2> QED BY <2>1, <2>2
<1>5. CASE CreateSession(r)
  <2>1. CASE Fail(r, "invalid_credentials")
    BY <1>3, <2>1 DEF Reply
  <2>2. CASE ActiveFor(r, target[r]) /\ AutocommitSession(r, target[r])
    BY <1>5, <2>2
  <2>3. CASE InsertSession(r, target[r])
    <3>1. UNCHANGED <<accounts, identities>> /\ Unseen(sessions, sessions')
      BY <1>0, <2>3 DEF InsertSession, Unseen, StoreTypeOK, Kept
    <3> QED BY <1>1, <3>1 DEF Unseen
  <2> QED BY <1>5, <2>1, <2>2, <2>3 DEF CreateSession
<1>6. CASE RevokeSession(r) /\ sessions[call[r].token].status # "live"
  <2>1. call[r].token \in Request
    BY <1>6 DEF RevokeSession, AccountInv, Arguments
  <2>2. \A q \in Request : sessions[q] \in SessionRow
    BY <1>0 DEF StoreTypeOK
  <2>3. \A row \in SessionRow : [row EXCEPT !.status = row.status] = row
    BY DEF SessionRow
  <2>4. sessions' = [sessions EXCEPT ![call[r].token] =
                       [sessions[call[r].token] EXCEPT !.status = sessions[call[r].token].status]]
    BY <1>6 DEF RevokeSession, AutocommitRevoke
  <2>5. sessions' = sessions
    BY <1>0, <2>1, <2>2, <2>3, <2>4 DEF StoreTypeOK
  <2>6. UNCHANGED <<accounts, identities>>
    BY <1>6 DEF RevokeSession, AutocommitRevoke
  <2> QED BY <1>1, <2>5, <2>6 DEF Unseen
<1>7. CASE RevokeSession(r) /\ sessions[call[r].token].status = "live"
  BY <1>7
<1>8. CASE Commit(r)
  BY <1>8
<1> QED BY <1>2, <1>3, <1>4, <1>5, <1>6, <1>7, <1>8 DEF Progress

(* A COMMIT that deletes nothing publishes r's rows.                       *)
LEMMA Publishes ==
  ASSUME AccountInv, AnswerInv, NEW r \in Request, Commit(r), call[r].op # "delete"
  PROVE  /\ accounts[r].status = "absent" => accounts' = accounts
         /\ identities[r].status = "absent" => identities' = identities
         /\ accounts[r].status = "inserted" =>
              /\ accounts'[r].status = "live" /\ accounts'[r].email = accounts[r].email
              /\ \A q \in Request \ {r} : accounts'[q] = accounts[q]
         /\ identities[r].status = "inserted" =>
              /\ identities'[r].status = "live" /\ identities'[r].account = identities[r].account
              /\ identities'[r].key = identities[r].key
              /\ \A q \in Request \ {r} : identities'[q] = identities[q]
         /\ sessions[r].status = "inserted" /\ sessions[r].account = target[r]
         /\ sessions'[r].status = "live" /\ sessions'[r].account = target[r]
         /\ \A q \in Request \ {r} : sessions'[q] = sessions[q]
<1>0. StoreTypeOK /\ StoreTypeOK' /\ CommitWrites(r) /\ DeletesMark
  BY CommitStep DEF AccountInv, TypeOK, Commit
<1>1. doomed[r].accounts = {} /\ doomed[r].identities = {} /\ doomed[r].sessions = {}
  BY DEF AnswerInv, RequestInv, MarkTies, NoWrites
<1>2. sessions[r].status = "inserted" /\ sessions[r].account = target[r]
  <2>1. call[r].op \in {"signup", "signin_oauth"}
    BY DEF AccountInv, TypeOK, HandlerTypeOK, Call, Operation, Arguments, Route, Commit
  <2> QED BY <2>1 DEF AnswerInv, RequestInv, InsertedInOrder, SigninOps, AccountInv, LocksHeld,
      LockDiscipline, Commit
<1>3. \A q \in Request :
        /\ accounts'[q] = IF q = r /\ accounts[q].status = "inserted"
                          THEN [accounts[q] EXCEPT !.status = "live"] ELSE accounts[q]
        /\ identities'[q] = IF q = r /\ identities[q].status = "inserted"
                            THEN [identities[q] EXCEPT !.status = "live"] ELSE identities[q]
        /\ sessions'[q] = IF q = r /\ sessions[q].status = "inserted"
                          THEN [sessions[q] EXCEPT !.status = "live"] ELSE sessions[q]
  BY <1>0, <1>1, CommitRows
<1>4. /\ accounts[r] \in AccountRow /\ identities[r] \in IdentityRow /\ sessions[r] \in SessionRow
      /\ accounts = [q \in Request |-> accounts[q]] /\ identities = [q \in Request |-> identities[q]]
      /\ accounts' = [q \in Request |-> accounts'[q]]
      /\ identities' = [q \in Request |-> identities'[q]]
  BY <1>0 DEF StoreTypeOK
<1>5. accounts[r].status = "inserted" =>
        /\ accounts'[r].status = "live" /\ accounts'[r].email = accounts[r].email
        /\ \A q \in Request \ {r} : accounts'[q] = accounts[q]
  BY <1>3, <1>4 DEF AccountRow
<1>6. identities[r].status = "inserted" =>
        /\ identities'[r].status = "live" /\ identities'[r].account = identities[r].account
        /\ identities'[r].key = identities[r].key
        /\ \A q \in Request \ {r} : identities'[q] = identities[q]
  BY <1>3, <1>4 DEF IdentityRow
<1>7. /\ sessions'[r].status = "live" /\ sessions'[r].account = target[r]
      /\ \A q \in Request \ {r} : sessions'[q] = sessions[q]
  BY <1>2, <1>3, <1>4 DEF SessionRow
<1>8. accounts[r].status = "absent" => accounts' = accounts
  BY <1>3, <1>4
<1>9. identities[r].status = "absent" => identities' = identities
  BY <1>3, <1>4
<1> QED BY <1>2, <1>5, <1>6, <1>7, <1>8, <1>9

(* What the registry's variables stand for.                                *)
LEMMA RegistryShown ==
  /\ Registry!registry = Shown
  /\ Live(accounts) = {a \in Request : accounts[a].status = "live"}
BY DEF Registry!registry, Shown, AddressOf, OwnerOf, SignedInOf, Live

(* At most one live row per key.                                           *)
LEMMA KeysShown ==
  TableInv => OneRowPerKey(identities) /\ \A i \in Live(identities) : identities[i].key \in Keys
BY DEF TableInv, KeysAreUnique, OneRowPerKey, Live, Keys

(* A committed registration.                                               *)
LEMMA RegisterStep ==
  ASSUME AccountInv, AnswerInv, AnswerInv', NEW r \in Request, Commit(r), call[r].op # "delete",
         accounts[r].status = "inserted"
  PROVE  Registry!Register(r, accounts[r].email, identities[r].key, r)
<1>1. identities[r].status = "inserted" /\ identities[r].account = r /\ target[r] = r
  BY DEF AnswerInv, RequestInv, InsertedInOrder, Commit, AccountInv, OwnRows
<1>2. /\ Live(accounts)' = Live(accounts) \cup {r}
      /\ Committed(accounts)' = Committed(accounts) \cup {r}
      /\ r \notin Committed(accounts)
      /\ AddressOf(accounts)' = [AddressOf(accounts) EXCEPT ![r] = accounts[r].email]
  <2>1. Appears(accounts, accounts', r) /\ accounts'[r].email = accounts[r].email
    BY Publishes DEF Appears, Kept
  <2> QED BY <2>1, RowAppears
<1>3. /\ identities[r].key \in Keys
      /\ OwnerOf(identities)' = [OwnerOf(identities) EXCEPT ![identities[r].key] = r]
      /\ OwnerOf(identities)[identities[r].key] = None
  <2>2. identities[r].key \in Keys
    BY <1>1 DEF AnswerInv, TableInv, KeysAreUnique, Keys
  <2>3. OneRowPerKey(identities')
    BY DEF AnswerInv, TableInv, KeysAreUnique, OneRowPerKey, Live
  <2>4. /\ Appears(identities, identities', r)
        /\ identities'[r].account = r /\ identities'[r].key = identities[r].key
    BY <1>1, Publishes DEF Appears, Kept
  <2> QED BY <2>2, <2>3, <2>4, RowAppears
<1>4. /\ SignedInOf(sessions)' = [SignedInOf(sessions) EXCEPT ![r] = r]
      /\ Committed(sessions)' = Committed(sessions) \cup {r}
      /\ r \notin Committed(sessions)
  <2>1. Appears(sessions, sessions', r) /\ sessions'[r].account = r
    BY <1>1, Publishes DEF Appears, Kept
  <2>2. SignedInOf(sessions') = [SignedInOf(sessions) EXCEPT ![r] = r]
    <3>1. \A t \in Request : SignedInOf(sessions')[t] = IF t = r THEN r ELSE SignedInOf(sessions)[t]
      BY <2>1, RowAppears
    <3>2. /\ SignedInOf(sessions') = [t \in Request |-> SignedInOf(sessions')[t]]
          /\ SignedInOf(sessions) = [t \in Request |-> SignedInOf(sessions)[t]]
      BY DEF SignedInOf
    <3> QED BY <3>1, <3>2
  <2>3. /\ Committed(sessions') = Committed(sessions) \cup {r}
        /\ r \notin Committed(sessions)
    BY <2>1, RowAppears
  <2> QED BY <2>1, <2>2, <2>3
<1>5. accounts[r].email # None => \A b \in Live(accounts) : AddressOf(accounts)[b] # accounts[r].email
  BY DEF Live, Committed, AddressOf, AnswerInv, TableInv, AddressesAreUnique, Holds
<1>6. Live(accounts) \subseteq Committed(accounts)
  BY DEF Live, Committed
<1>7. (Committed(accounts) \ Live(accounts))' = Committed(accounts) \ Live(accounts)
  BY <1>2, <1>6
<1> QED
  BY <1>2, <1>3, <1>4, <1>5, <1>6, <1>7
     DEF Registry!Register, Registry!Issue, AddressOf, OwnerOf, SignedInOf, Keys

(* The session a sign-in issues.                                           *)
LEMMA IssueStep ==
  ASSUME NEW r \in Request, NEW a, Appears(sessions, sessions', r), sessions'[r].account = a
  PROVE  /\ SignedInOf(sessions)' = [SignedInOf(sessions) EXCEPT ![r] = a]
         /\ Committed(sessions)' = Committed(sessions) \cup {r}
         /\ r \notin Committed(sessions)
<1>1. \A t \in Request : SignedInOf(sessions')[t] = IF t = r THEN a ELSE SignedInOf(sessions)[t]
  BY RowAppears
<1>2. /\ SignedInOf(sessions') = [t \in Request |-> SignedInOf(sessions')[t]]
      /\ SignedInOf(sessions) = [t \in Request |-> SignedInOf(sessions)[t]]
  BY DEF SignedInOf
<1>3. SignedInOf(sessions') = [SignedInOf(sessions) EXCEPT ![r] = a]
  BY <1>1, <1>2
<1>4. /\ Committed(sessions') = Committed(sessions) \cup {r}
      /\ r \notin Committed(sessions)
  BY RowAppears
<1> QED BY <1>3, <1>4

(* A committed link: to an account that is live, since r holds its lock,   *)
(* and has an address, since it was found by it.                           *)
LEMMA LinkStep ==
  ASSUME AccountInv, AnswerInv, AnswerInv', NEW r \in Request, Commit(r), call[r].op # "delete",
         accounts[r].status = "absent", identities[r].status = "inserted"
  PROVE  Registry!Link(target[r], identities[r].key, r)
<1>1. /\ identities[r].account = target[r] /\ target[r] \in Request
      /\ accounts[target[r]].status = "live"
  BY DEF AccountInv, LocksHeld, LockDiscipline, ActiveFor, TypeOK, StoreTypeOK
<1>2. accounts[target[r]].email # None
  BY <1>1 DEF AnswerInv, TableInv, IdentityMatches, RequestInv, LinkTies
<1>3. UNCHANGED accounts
  BY Publishes
<1>4. /\ identities[r].key \in Keys
      /\ OwnerOf(identities)' = [OwnerOf(identities) EXCEPT ![identities[r].key] = target[r]]
      /\ OwnerOf(identities)[identities[r].key] = None
  <2>2. identities[r].key \in Keys
    BY DEF AnswerInv, TableInv, KeysAreUnique, Keys
  <2>3. OneRowPerKey(identities')
    BY DEF AnswerInv, TableInv, KeysAreUnique, OneRowPerKey, Live
  <2>4. /\ Appears(identities, identities', r)
        /\ identities'[r].account = target[r] /\ identities'[r].key = identities[r].key
    BY <1>1, Publishes DEF Appears, Kept
  <2> QED BY <2>2, <2>3, <2>4, RowAppears
<1>5. Appears(sessions, sessions', r) /\ sessions'[r].account = target[r]
  BY Publishes DEF Appears, Kept
<1>6. target[r] \in Live(accounts) /\ AddressOf(accounts)[target[r]] # None
  BY <1>1, <1>2 DEF Live, Committed, AddressOf
<1>7. /\ Live(accounts)' = Live(accounts) /\ Committed(accounts)' = Committed(accounts)
      /\ AddressOf(accounts)' = AddressOf(accounts)
  BY <1>3 DEF Live, Committed, AddressOf
<1> QED
  BY <1>4, <1>5, <1>6, <1>7, IssueStep
     DEF Registry!Link, Registry!Issue, AddressOf, OwnerOf, SignedInOf, Keys

(* A committed sign-in: the account is live, so one of its identities is.  *)
LEMMA SignInStep ==
  ASSUME AccountInv, AnswerInv, NEW r \in Request, target[r] \in Request,
         UNCHANGED <<accounts, identities>>, accounts[target[r]].status = "live",
         Appears(sessions, sessions', r), sessions'[r].account = target[r]
  PROVE  \E k \in Keys : Registry!SignIn(k, r)
<1>1. PICK i \in Request : identities[i].status = "live" /\ identities[i].account = target[r]
  BY DEF AnswerInv, TableInv, LiveAccountsCanSignIn
<1>2. i \in Live(identities) /\ OneRowPerKey(identities) /\ identities[i].key \in Keys
  BY <1>1, KeysShown DEF Live, AnswerInv
<1>3. OwnerOf(identities)[identities[i].key] = target[r]
  BY <1>1, <1>2, OwnerIs
<1>4. target[r] \in Live(accounts)
  BY DEF Live
<1>5. /\ Live(accounts)' = Live(accounts) /\ Committed(accounts)' = Committed(accounts)
      /\ AddressOf(accounts)' = AddressOf(accounts) /\ OwnerOf(identities)' = OwnerOf(identities)
  BY DEF Live, Committed, AddressOf, OwnerOf, AccountOf
<1>6. Registry!SignIn(identities[i].key, r)
  BY <1>2, <1>3, <1>4, <1>5, IssueStep
     DEF Registry!SignIn, Registry!Issue, AddressOf, OwnerOf, SignedInOf, Keys
<1> QED BY <1>2, <1>6

(* A sign-out.                                                             *)
LEMMA SignOutStep ==
  ASSUME AccountInv, NEW r \in Request, RevokeSession(r), sessions[call[r].token].status = "live"
  PROVE  call[r].token \in Request /\ Registry!SignOut(call[r].token)
<1> DEFINE t == call[r].token
<1>1. StoreTypeOK /\ t \in Request
  BY DEF AccountInv, TypeOK, Arguments, RevokeSession
<1>2. /\ sessions'[t].status = "closed" /\ UNCHANGED <<accounts, identities>>
      /\ \A q \in Request \ {t} : sessions'[q] = sessions[q]
  BY <1>1 DEF RevokeSession, AutocommitRevoke, StoreTypeOK, SessionRow
<1>3. Live(sessions') = Live(sessions) \ {t} /\ Committed(sessions') = Committed(sessions)
      /\ t \in Live(sessions)
  BY <1>1, <1>2 DEF Live, Committed
<1>4. SignedInOf(sessions)[t] # None
  <2>1. sessions[t].account \in Request
    BY <1>1 DEF StoreTypeOK
  <2> QED BY <1>1, <1>3, <2>1, SignedInIs, NoneAssumption
<1>5. SignedInOf(sessions') = [SignedInOf(sessions) EXCEPT ![t] = None]
  <2>1. \A q \in Request : SignedInOf(sessions')[q] = IF q = t THEN None ELSE SignedInOf(sessions)[q]
    BY <1>2, <1>3, SignedInIs
  <2>2. /\ SignedInOf(sessions') = [q \in Request |-> SignedInOf(sessions')[q]]
        /\ SignedInOf(sessions) = [q \in Request |-> SignedInOf(sessions)[q]]
    BY DEF SignedInOf
  <2> QED BY <2>1, <2>2
<1>6. /\ Live(accounts)' = Live(accounts) /\ Committed(accounts)' = Committed(accounts)
      /\ AddressOf(accounts)' = AddressOf(accounts) /\ OwnerOf(identities)' = OwnerOf(identities)
  BY <1>2 DEF Live, Committed, AddressOf, OwnerOf, AccountOf
<1> QED
  BY <1>1, <1>3, <1>4, <1>5, <1>6 DEF Registry!SignOut, AddressOf, OwnerOf, SignedInOf

(* What a DELETE commits: nothing of its own, and closed rows of its       *)
(* account.                                                                *)
LEMMA DeleteRows ==
  ASSUME AccountInv, AnswerInv, NEW r \in Request, Commit(r), call[r].op = "delete"
  PROVE  \A q \in Request :
           /\ \/ q \notin doomed[r].accounts /\ accounts'[q] = accounts[q]
              \/ /\ q \in doomed[r].accounts
                 /\ accounts[q].status = "live" /\ accounts'[q].status = "closed"
                 /\ accounts'[q].email = accounts[q].email
           /\ \/ q \notin doomed[r].identities /\ identities'[q] = identities[q]
              \/ /\ q \in doomed[r].identities
                 /\ identities[q].account = target[r] /\ identities'[q].status = "closed"
                 /\ identities[q].status \in Kept
           /\ \/ q \notin doomed[r].sessions /\ sessions'[q] = sessions[q]
              \/ /\ q \in doomed[r].sessions
                 /\ sessions[q].account = target[r] /\ sessions'[q].status = "closed"
                 /\ sessions[q].status \in Kept
<1>1. StoreTypeOK /\ CommitWrites(r)
  BY DEF AccountInv, TypeOK, Commit
<1>2. /\ accounts[r].status # "inserted" /\ identities[r].status # "inserted"
      /\ sessions[r].status # "inserted"
  BY DEF AnswerInv, RequestInv, InsertedInOrder
<1>3. ASSUME NEW a \in doomed[r].accounts PROVE a = target[r] /\ accounts[a].status = "live"
  <2>1. a = target[r] /\ locks[target[r]] = r /\ a \in Request
    BY <1>1, <1>3 DEF AccountInv, DeletesMark, MarkedBy, StoreTypeOK, Writes
  <2>2. ActiveFor(r, a)
    BY <2>1 DEF AccountInv, LocksHeld, LockDiscipline
  <2> QED BY <1>2, <2>1, <2>2 DEF ActiveFor
<1>4. /\ \A i \in doomed[r].identities : identities[i].account = target[r] /\ identities[i].status \in Kept
      /\ \A t \in doomed[r].sessions : sessions[t].account = target[r] /\ sessions[t].status \in Kept
  BY DEF AnswerInv, RequestInv, MarkTies, AccountInv, DeletesMark, MarkedBy, Kept
<1>5. ASSUME NEW q \in Request
      PROVE  /\ accounts'[q] = IF q \in doomed[r].accounts
                               THEN [accounts[q] EXCEPT !.status = "closed"] ELSE accounts[q]
             /\ identities'[q] = IF q \in doomed[r].identities
                                 THEN [identities[q] EXCEPT !.status = "closed"] ELSE identities[q]
             /\ sessions'[q] = IF q \in doomed[r].sessions
                               THEN [sessions[q] EXCEPT !.status = "closed"] ELSE sessions[q]
             /\ accounts[q] \in AccountRow /\ identities[q] \in IdentityRow /\ sessions[q] \in SessionRow
  <2>1. accounts'[q] = IF q \in doomed[r].accounts
                       THEN [accounts[q] EXCEPT !.status = "closed"] ELSE accounts[q]
    BY <1>1, <1>2, CommitRows
  <2>2. identities'[q] = IF q \in doomed[r].identities
                         THEN [identities[q] EXCEPT !.status = "closed"] ELSE identities[q]
    BY <1>1, <1>2, CommitRows
  <2>3. sessions'[q] = IF q \in doomed[r].sessions
                       THEN [sessions[q] EXCEPT !.status = "closed"] ELSE sessions[q]
    BY <1>1, <1>2, CommitRows
  <2> QED BY <1>1, <2>1, <2>2, <2>3 DEF StoreTypeOK
<1>6. ASSUME NEW q \in Request
      PROVE  \/ q \notin doomed[r].accounts /\ accounts'[q] = accounts[q]
             \/ /\ q \in doomed[r].accounts
                /\ accounts[q].status = "live" /\ accounts'[q].status = "closed"
                /\ accounts'[q].email = accounts[q].email
  BY <1>3, <1>5 DEF AccountRow
<1>7. ASSUME NEW q \in Request
      PROVE  /\ \/ q \notin doomed[r].identities /\ identities'[q] = identities[q]
                \/ /\ q \in doomed[r].identities
                   /\ identities[q].account = target[r] /\ identities'[q].status = "closed"
                   /\ identities[q].status \in Kept
             /\ \/ q \notin doomed[r].sessions /\ sessions'[q] = sessions[q]
                \/ /\ q \in doomed[r].sessions
                   /\ sessions[q].account = target[r] /\ sessions'[q].status = "closed"
                   /\ sessions[q].status \in Kept
  BY <1>4, <1>5 DEF IdentityRow, SessionRow
<1> QED BY <1>6, <1>7

(* A committed DELETE: it closes its account with all its rows, or finds   *)
(* that somebody else did.                                                 *)
LEMMA CloseStep ==
  ASSUME AccountInv, AnswerInv, NEW r \in Request, Commit(r), call[r].op = "delete"
  PROVE  \/ UNCHANGED Shown
         \/ target[r] \in Request /\ Registry!Close(target[r])
<1> DEFINE a == target[r]
<1>0. /\ StoreTypeOK /\ pc[r] = "commit" /\ a \in Request /\ a # None
  BY NoneAssumption DEF AccountInv, TypeOK, Commit, Arguments, CreateSteps
<1>1. CASE doomed[r].accounts = {}
  <2>1. doomed[r].identities = {} /\ doomed[r].sessions = {}
    BY <1>1 DEF AnswerInv, RequestInv, MarkTies
  <2>2. Unseen(accounts, accounts') /\ Unseen(identities, identities') /\ Unseen(sessions, sessions')
    BY <1>1, <2>1, DeleteRows DEF Unseen
  <2> QED BY <2>2, TableRests DEF Shown
<1>2. CASE doomed[r].accounts # {}
  <2>1. /\ doomed[r].accounts = {a}
        /\ Unclosed(identities, a) \subseteq doomed[r].identities
        /\ Unclosed(sessions, a) \subseteq doomed[r].sessions
    BY <1>0, <1>2 DEF AccountInv, DeletesMark, MarkedBy
  <2>2. /\ a \in Live(accounts) /\ Live(accounts') = Live(accounts) \ {a}
        /\ Committed(accounts') = Committed(accounts)
        /\ AddressOf(accounts') = AddressOf(accounts)
    <3>1. /\ accounts[a].status = "live" /\ accounts'[a].status = "closed"
          /\ accounts'[a].email = accounts[a].email
          /\ \A q \in Request \ {a} : accounts'[q] = accounts[q]
      BY <1>0, <2>1, DeleteRows
    <3>2. a \in Live(accounts) /\ Live(accounts') = Live(accounts) \ {a}
      BY <1>0, <3>1 DEF Live
    <3>3. Committed(accounts') = Committed(accounts)
      BY <1>0, <3>1 DEF Committed
    <3>4. \A q \in Committed(accounts) : accounts'[q].email = accounts[q].email
      BY <3>1 DEF Committed
    <3> QED BY <3>2, <3>3, <3>4 DEF AddressOf
  <2>3. Closes(identities, identities', a)
    <3>1. \A q \in Live(identities) : identities[q].account # None
      BY <1>0, NoneAssumption DEF Live, StoreTypeOK
    <3>2. ASSUME NEW q \in Request
          PROVE  identities'[q].status = "live" <=>
                    identities[q].status = "live" /\ identities[q].account # a
      BY <2>1, DeleteRows DEF Unclosed
    <3>3. ASSUME NEW q \in Request, identities'[q].status = "live" PROVE identities'[q] = identities[q]
      BY <3>3, DeleteRows
    <3> QED BY <3>1, <3>2, <3>3 DEF Closes, Live
  <2>4. Closes(sessions, sessions', a)
    <3>1. \A q \in Live(sessions) : sessions[q].account # None
      BY <1>0, NoneAssumption DEF Live, StoreTypeOK
    <3>2. ASSUME NEW q \in Request
          PROVE  sessions'[q].status = "live" <=>
                    sessions[q].status = "live" /\ sessions[q].account # a
      BY <2>1, DeleteRows DEF Unclosed
    <3>3. ASSUME NEW q \in Request, sessions'[q].status = "live" PROVE sessions'[q] = sessions[q]
      BY <3>3, DeleteRows
    <3> QED BY <3>1, <3>2, <3>3 DEF Closes, Live
  <2>5. Committed(sessions') = Committed(sessions)
    BY DeleteRows DEF Committed, Kept
  <2>6. OwnerOf(identities') =
           [k \in Keys |-> IF OwnerOf(identities)[k] = a THEN None ELSE OwnerOf(identities)[k]]
    <3>1. \A k \in Keys : OwnerOf(identities')[k] =
             IF OwnerOf(identities)[k] = a THEN None ELSE OwnerOf(identities)[k]
      BY <1>0, <2>3, KeysShown, RowsClose DEF AnswerInv
    <3>2. OwnerOf(identities') = [k \in Keys |-> OwnerOf(identities')[k]]
      BY DEF OwnerOf, Keys
    <3> QED BY <3>1, <3>2
  <2>7. SignedInOf(sessions') =
           [t \in Request |-> IF SignedInOf(sessions)[t] = a THEN None ELSE SignedInOf(sessions)[t]]
    <3>1. \A t \in Request : SignedInOf(sessions')[t] =
             IF SignedInOf(sessions)[t] = a THEN None ELSE SignedInOf(sessions)[t]
      BY <1>0, <2>4, RowsClose
    <3>2. SignedInOf(sessions') = [t \in Request |-> SignedInOf(sessions')[t]]
      BY DEF SignedInOf
    <3> QED BY <3>1, <3>2
  <2>8. Live(accounts) \subseteq Committed(accounts)
    BY DEF Live, Committed
  <2>9. Committed(accounts') \ Live(accounts') = (Committed(accounts) \ Live(accounts)) \cup {a}
    BY <2>2, <2>8
  <2> QED
    BY <1>0, <2>2, <2>5, <2>6, <2>7, <2>9
       DEF Registry!Close, AddressOf, OwnerOf, SignedInOf, Keys
<1> QED BY <1>1, <1>2

(* Every step of a request is one of the registry's or does not show.      *)
LEMMA RegistryStep ==
  ASSUME AccountInv, AnswerInv, AnswerInv', NEW r \in Request, Receive(r) \/ Progress(r) \/ Abort(r)
  PROVE  Registry!Next \/ UNCHANGED Shown
<1>0. StoreTypeOK /\ HandlerTypeOK
  BY DEF AccountInv, TypeOK
<1>1. CASE Commit(r) /\ call[r].op = "delete"
  BY <1>1, CloseStep DEF Registry!Next
<1>2. CASE Commit(r) /\ call[r].op # "delete"
  <2>0. target[r] \in Request /\ accounts[r].status \notin Kept /\ identities[r].status \notin Kept
    BY <1>2, KeptStay DEF AccountInv, Arguments, Commit, CreateSteps
  <2>1. CASE accounts[r].status = "inserted"
    <3>1. Registry!Register(r, accounts[r].email, identities[r].key, r)
      BY <1>2, <2>1, RegisterStep
    <3>2. identities[r].status = "inserted"
      BY <1>2, <2>1 DEF AnswerInv, RequestInv, InsertedInOrder, Commit
    <3>3. accounts[r].email \in Email \cup {None} /\ identities[r].key \in Email \cup Subject
      BY <1>0, <3>2 DEF StoreTypeOK, AccountRow, AnswerInv, TableInv, KeysAreUnique
    <3> QED BY <3>1, <3>3 DEF Registry!Next
  <2>2. CASE accounts[r].status # "inserted" /\ identities[r].status = "inserted"
    <3>1. accounts[r].status = "absent"
      BY <1>0, <2>0, <2>2 DEF StoreTypeOK, AccountRow, Status, Kept
    <3>2. Registry!Link(target[r], identities[r].key, r)
      BY <1>2, <2>2, <3>1, LinkStep
    <3>3. identities[r].key \in Email \cup Subject
      BY <2>2 DEF AnswerInv, TableInv, KeysAreUnique
    <3> QED BY <2>0, <3>2, <3>3 DEF Registry!Next
  <2>3. CASE accounts[r].status # "inserted" /\ identities[r].status # "inserted"
    <3>1. accounts[r].status = "absent" /\ identities[r].status = "absent"
      BY <1>0, <2>0, <2>3 DEF StoreTypeOK, AccountRow, IdentityRow, Status, Kept
    <3>2. /\ UNCHANGED <<accounts, identities>> /\ Appears(sessions, sessions', r)
          /\ sessions'[r].account = target[r] /\ sessions[r].status = "inserted"
      BY <1>2, <3>1, Publishes DEF Appears, Kept
    <3>3. accounts[target[r]].status = "live"
      <4>1. ActiveFor(r, target[r])
        BY <2>0, <3>2 DEF AccountInv, LocksHeld, LockDiscipline
      <4> QED BY <3>1, <4>1 DEF ActiveFor
    <3> QED BY <2>0, <3>2, <3>3, SignInStep DEF Registry!Next, Keys
  <2> QED BY <2>1, <2>2, <2>3
<1>3. CASE CreateSession(r) /\ ActiveFor(r, target[r]) /\ AutocommitSession(r, target[r])
  <2>1. target[r] \in Request /\ sessions[r].status \notin Kept
    BY <1>3, KeptStay DEF AccountInv, Arguments, CreateSession, CreateSteps
  <2>2. UNCHANGED <<accounts, identities>> /\ Appears(sessions, sessions', r)
        /\ sessions'[r].account = target[r]
    BY <1>0, <1>3, <2>1 DEF AutocommitSession, Appears, StoreTypeOK
  <2>3. accounts[target[r]].status = "live"
    <3>1. sessions'[r].status = "live"
      BY <2>2 DEF Appears
    <3>2. call[r].op = "signin_email"
      BY <1>0, <1>3, <3>1 DEF CreateSession, InsertSession, Fail, Rollback, Undone, NoSession, StoreTypeOK
    <3>3. accounts[r].status # "inserted"
      BY <3>2 DEF AccountInv, OwnRows
    <3> QED BY <1>3, <3>3 DEF ActiveFor
  <2> QED BY <2>1, <2>2, <2>3, SignInStep DEF Registry!Next, Keys
<1>4. CASE RevokeSession(r) /\ sessions[call[r].token].status = "live"
  BY <1>4, SignOutStep DEF Registry!Next
<1> QED BY <1>1, <1>2, <1>3, <1>4, HiddenSteps

(* Read through its committed rows, the component is the registry: every   *)
(* COMMIT and every autocommitted statement is one of its indivisible      *)
(* steps, and nothing else shows.  See RefinesRegistry in Account.         *)
THEOREM AccountImplementsRegistry == Spec => RefinesRegistry
<1>1. Init => Registry!Init
  <2> SUFFICES ASSUME Init PROVE Registry!Init
    OBVIOUS
  <2>1. /\ Live(accounts) = {} /\ Committed(accounts) = {} /\ Live(identities) = {}
        /\ Live(sessions) = {} /\ Committed(sessions) = {}
    BY DEF Init, StoreInit, Live, Committed, NoAccount, NoIdentity, NoSession
  <2>2. \A k \in Email \cup Subject :
          AccountOf(identities, {i \in Live(identities) : identities[i].key = k}) = None
    <3>1. \A k : {i \in Live(identities) : identities[i].key = k} = {}
      BY <2>1
    <3> QED BY <3>1 DEF AccountOf
  <2>3. \A t \in Request : AccountOf(sessions, {t} \cap Live(sessions)) = None
    <3>1. \A t \in Request : {t} \cap Live(sessions) = {}
      BY <2>1
    <3> QED BY <3>1 DEF AccountOf
  <2> QED BY <2>1, <2>2, <2>3 DEF Registry!Init
<1>2. AccountInv /\ AnswerInv /\ AnswerInv' /\ [Next]_vars => [Registry!Next]_(Registry!registry)
  <2> SUFFICES ASSUME AccountInv, AnswerInv, AnswerInv', [Next]_vars
               PROVE  Registry!Next \/ UNCHANGED Shown
    BY RegistryShown DEF Registry!registry, Shown, AddressOf, OwnerOf, SignedInOf
  <2>1. ASSUME NEW r \in Request, Receive(r) \/ Progress(r) \/ Abort(r)
        PROVE  Registry!Next \/ UNCHANGED Shown
    BY <2>1, RegistryStep
  <2>2. CASE UNCHANGED vars \/ \E t \in Request : Expire(t)
    <3>1. UNCHANGED <<accounts, identities, sessions>>
      BY <2>2 DEF vars, store, Expire, PassExpiry
    <3> QED BY <3>1, TableRests DEF Unseen, Shown
  <2> QED BY <2>1, <2>2 DEF Next, Quiescent
<1> QED
  BY <1>1, <1>2, Invariance, AnswersHold, PTL DEF Spec, RefinesRegistry, Registry!Spec
=============================================================================

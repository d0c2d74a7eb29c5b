------------------------------- MODULE Account -------------------------------
(***************************************************************************)
(* The account endpoints of src/internal/account: sign up by e-mail, sign  *)
(* in by e-mail or by an OAuth provider, sign out and delete the account.  *)
(* Every request is a goroutine that runs a handler of handlers.go, the    *)
(* Service method behind it (service.go) and the statements that method    *)
(* issues (AccountStore), one step each; requests interleave between any   *)
(* two steps.                                                              *)
(***************************************************************************)
EXTENDS AccountStore

CONSTANT Calls  \* the calls clients may make

Operation == {"signup", "signin_email", "signin_oauth", "signout", "delete"}

(* email: the body's normalized address, for an OAuth call the profile's   *)
(* verified one; None when NormalizeEmail rejects it or nothing is         *)
(* verified.  subject: what the access token stands for, None for an empty *)
(* token.  token: the session cookie, named after the request that issued  *)
(* it; None when absent.                                                   *)
Call == [op : Operation, email : Email \cup {None}, subject : Subject \cup {None},
         token : Request \cup {None}]

ASSUME CallsAssumption == Calls \subseteq Call

VARIABLES
    pc,       \* the next step of the request
    call,     \* what the client asked for
    target,   \* the account the handler works on
    attempt,  \* the loop counter of signinOAuth
    reply     \* the answer, named after the error behind the HTTP status

handler == <<pc, call, target, attempt, reply>>
vars == <<store, handler>>

MaxAttempts_One == 1
MaxAttempts == 2

NoCall == [op |-> "signup", email |-> None, subject |-> None, token |-> None]

Step == {"idle", "done", "authenticate", "find_email", "verify", "connect", "begin",
         "find_identity", "find_account", "create_account", "lock_account",
         "insert_identity", "create_session", "revoke_session", "soft_delete_account",
         "soft_delete_identities", "revoke_sessions", "commit"}

Conflict == {"email_exists", "identity_exists"}

(* "error" is any other failure: a cancelled context, a broken connection, *)
(* or a result that was lost on the way back.                              *)
Reply == {"none", "ok", "invalid_input", "invalid_credentials", "unauthenticated",
          "provider_unavailable", "error"} \cup Conflict

HandlerTypeOK ==
    /\ pc \in [Request -> Step]
    /\ call \in [Request -> Call]
    /\ target \in [Request -> Request \cup {None}]
    /\ attempt \in [Request -> 1..MaxAttempts]
    /\ reply \in [Request -> Reply]

(* Every variable has its type; a row that exists names its account, and   *)
(* signinOAuth never counts past its second attempt.                       *)
TypeOK == StoreTypeOK /\ HandlerTypeOK

Init ==
    /\ StoreInit
    /\ pc = [r \in Request |-> "idle"]
    /\ call = [r \in Request |-> NoCall]
    /\ target = [r \in Request |-> None]
    /\ attempt = [r \in Request |-> 1]
    /\ reply = [r \in Request |-> "none"]

-----------------------------------------------------------------------------
Goto(r, step) ==
    /\ pc' = [pc EXCEPT ![r] = step]
    /\ UNCHANGED <<call, target, attempt, reply>>

GotoWith(r, a, step) ==
    /\ pc' = [pc EXCEPT ![r] = step]
    /\ target' = [target EXCEPT ![r] = a]
    /\ UNCHANGED <<call, attempt, reply>>

Answer(r, result) ==
    /\ pc' = [pc EXCEPT ![r] = "done"]
    /\ reply' = [reply EXCEPT ![r] = result]
    /\ UNCHANGED <<call, target, attempt>>

(* WithTx returns an error: the deferred Rollback runs, and signinOAuth    *)
(* tries once more when the error is a conflict.                           *)
Fail(r, result) ==
    /\ Rollback(r)
    /\ IF /\ call[r].op = "signin_oauth"
          /\ result \in Conflict
          /\ attempt[r] < MaxAttempts
       THEN /\ pc' = [pc EXCEPT ![r] = "begin"]
            /\ attempt' = [attempt EXCEPT ![r] = @ + 1]
            /\ target' = [target EXCEPT ![r] = None]
            /\ UNCHANGED <<call, reply>>
       ELSE Answer(r, result)

(* The request ran an autocommitted statement or its COMMIT: the client    *)
(* gets the result, or an error although the database has the effect.      *)
AnswerDone(r) == \E result \in {"ok", "error"} : Answer(r, result)

-----------------------------------------------------------------------------
(* Handlers: decodeJSON, the session cookie, and input validation.         *)

Issued(token) == sessions[token].status \in {"live", "closed"} /\ reply[token] = "ok"

Rejected(c) ==
    CASE c.op \in {"signup", "signin_email"} -> c.email = None
      [] c.op = "signin_oauth" -> c.subject = None
      [] OTHER -> c.token = None

Rejection(c) == IF c.op \in {"signout", "delete"} THEN "unauthenticated" ELSE "invalid_input"

FirstStep(op) ==
    CASE op = "signup" -> "begin"
      [] op = "signin_email" -> "find_email"
      [] op = "signin_oauth" -> "verify"
      [] op = "signout" -> "connect"
      [] OTHER -> "authenticate"

Receive(r) ==
    /\ pc[r] = "idle"
    /\ \E c \in Calls :
          /\ c.token # None => Issued(c.token)
          /\ call' = [call EXCEPT ![r] = c]
          /\ IF Rejected(c)
             THEN /\ pc' = [pc EXCEPT ![r] = "done"]
                  /\ reply' = [reply EXCEPT ![r] = Rejection(c)]
             ELSE /\ pc' = [pc EXCEPT ![r] = FirstStep(c.op)]
                  /\ UNCHANGED reply
    /\ UNCHANGED <<store, target, attempt>>

(* Authenticate: one read, outside the transaction that deletes.           *)
Authenticate(r) ==
    /\ pc[r] = "authenticate"
    /\ FreeConn
    /\ IF Authentic(call[r].token)
       THEN GotoWith(r, sessions[call[r].token].account, "begin")
       ELSE Answer(r, "unauthenticated")
    /\ UNCHANGED store

(* signinEmail: one read, then the password is compared.                   *)
FindEmail(r) ==
    /\ pc[r] = "find_email"
    /\ FreeConn
    /\ \/ \E i \in LiveIdentities(call[r].email) :
              GotoWith(r, identities[i].account, "connect")
       \/ Answer(r, "invalid_credentials")   \* no such identity or wrong password
    /\ UNCHANGED store

(* signinOAuth: the provider is asked before any transaction is open.      *)
Verify(r) ==
    /\ pc[r] = "verify"
    /\ \/ Goto(r, "begin")
       \/ Answer(r, "invalid_credentials")
       \/ Answer(r, "provider_unavailable")
    /\ UNCHANGED store

-----------------------------------------------------------------------------
(* Connections: an autocommitted statement takes one, and so does WithTx.  *)

Connect(r) ==
    /\ pc[r] = "connect"
    /\ Acquire(r)
    /\ Goto(r, IF call[r].op = "signout" THEN "revoke_session" ELSE "create_session")

Begin(r) ==
    /\ pc[r] = "begin"
    /\ Acquire(r)
    /\ Goto(r, CASE call[r].op = "signup" -> "create_account"
                 [] call[r].op = "signin_oauth" -> "find_identity"
                 [] OTHER -> "soft_delete_account")

Commit(r) ==
    /\ pc[r] = "commit"
    /\ CommitWrites(r)
    /\ AnswerDone(r)

-----------------------------------------------------------------------------
(* SignupEmail and signinOAuthProfile.                                     *)

FindIdentity(r) ==
    /\ pc[r] = "find_identity"
    /\ IF LiveIdentities(call[r].subject) # {}
       THEN \E i \in LiveIdentities(call[r].subject) :
                GotoWith(r, identities[i].account, "create_session")
       ELSE Goto(r, IF call[r].email = None THEN "create_account" ELSE "find_account")
    /\ UNCHANGED store

FindAccount(r) ==
    /\ pc[r] = "find_account"
    /\ IF LiveAccounts(call[r].email) # {}
       THEN \E a \in LiveAccounts(call[r].email) : GotoWith(r, a, "lock_account")
       ELSE Goto(r, "create_account")
    /\ UNCHANGED store

CreateAccount(r) ==
    /\ pc[r] = "create_account"
    /\ ~AwaitsAccountIndex(r, call[r].email)
    /\ IF EmailTaken(call[r].email)
       THEN Fail(r, "email_exists")
       ELSE InsertAccount(r, call[r].email) /\ GotoWith(r, r, "lock_account")

(* CreateIdentity: the CTE locks the account row, then the row is inserted *)
(* while the lock is held.                                                 *)
LockAccount(r) ==
    /\ pc[r] = "lock_account"
    /\ LockFree(r, target[r])
    /\ IF ActiveFor(r, target[r])
       THEN LockRow(r, target[r]) /\ Goto(r, "insert_identity")
       ELSE Fail(r, "invalid_credentials")

IdentityKey(r) == IF call[r].op = "signup" THEN call[r].email ELSE call[r].subject

InsertIdentity(r) ==
    /\ pc[r] = "insert_identity"
    /\ ~AwaitsIdentityIndex(r, IdentityKey(r))
    /\ IF KeyTaken(IdentityKey(r))
       THEN Fail(r, "identity_exists")
       ELSE /\ InsertIdentityRow(r, target[r], IdentityKey(r), call[r].email)
            /\ Goto(r, "create_session")

(* createSession: part of the transaction, or by itself in signinEmail.    *)
CreateSession(r) ==
    /\ pc[r] = "create_session"
    /\ LockFree(r, target[r])
    /\ \/ /\ ~ActiveFor(r, target[r])
          /\ Fail(r, "invalid_credentials")
       \/ /\ ActiveFor(r, target[r])
          /\ call[r].op # "signin_email"
          /\ InsertSession(r, target[r])
          /\ Goto(r, "commit")
       \/ /\ ActiveFor(r, target[r])
          /\ call[r].op = "signin_email"
          /\ AutocommitSession(r, target[r])
          /\ AnswerDone(r)

-----------------------------------------------------------------------------
(* Signout.                                                                *)

RevokeSession_SkipLocked(r) ==
    /\ pc[r] = "revoke_session"
    /\ IF AwaitsSessions(r, {call[r].token})
       THEN conns' = conns \ {r} /\ UNCHANGED <<accounts, identities, sessions, expired, locks, doomed>>
       ELSE AutocommitRevoke(r, call[r].token)
    /\ AnswerDone(r)

RevokeSession(r) ==
    /\ pc[r] = "revoke_session"
    /\ ~AwaitsSessions(r, {call[r].token})
    /\ AutocommitRevoke(r, call[r].token)
    /\ AnswerDone(r)

-----------------------------------------------------------------------------
(* DeleteAccount.                                                          *)

SoftDeleteAccount_SkipLocked(r) ==
    /\ pc[r] = "soft_delete_account"
    /\ IF LockFree(r, target[r]) /\ accounts[target[r]].status = "live"
       THEN /\ locks' = [locks EXCEPT ![target[r]] = r]
            /\ doomed' = [doomed EXCEPT ![r].accounts = {target[r]}]
       ELSE UNCHANGED <<locks, doomed>>
    /\ UNCHANGED <<accounts, identities, sessions, expired, conns>>
    /\ Goto(r, "soft_delete_identities")

SoftDeleteAccount_IdentitiesFirst(r) ==
    LET own == {i \in Request : identities[i].status = "live" /\ identities[i].account = target[r]} IN
    /\ pc[r] = "soft_delete_account"
    /\ \/ /\ doomed[r].identities # own
          /\ doomed' = [doomed EXCEPT ![r].identities = own]
          /\ UNCHANGED locks
          /\ Goto(r, "soft_delete_account")
       \/ /\ doomed[r].identities = own
          /\ LockFree(r, target[r])
          /\ IF accounts[target[r]].status = "live"
             THEN /\ locks' = [locks EXCEPT ![target[r]] = r]
                  /\ doomed' = [doomed EXCEPT ![r].accounts = {target[r]}]
             ELSE UNCHANGED <<locks, doomed>>
          /\ Goto(r, "revoke_sessions")
    /\ UNCHANGED <<accounts, identities, sessions, expired, conns>>

(* An account somebody else deleted meanwhile matches no row: no error, no *)
(* lock, and the transaction goes on.                                      *)
SoftDeleteAccount(r) ==
    /\ pc[r] = "soft_delete_account"
    /\ LockFree(r, target[r])
    /\ IF accounts[target[r]].status = "live"
       THEN /\ locks' = [locks EXCEPT ![target[r]] = r]
            /\ doomed' = [doomed EXCEPT ![r].accounts = {target[r]}]
       ELSE UNCHANGED <<locks, doomed>>
    /\ UNCHANGED <<accounts, identities, sessions, expired, conns>>
    /\ Goto(r, "soft_delete_identities")

SoftDeleteAccountIdentities(r) ==
    /\ pc[r] = "soft_delete_identities"
    /\ doomed' = [doomed EXCEPT ![r].identities =
                    {i \in Request : identities[i].status = "live" /\ identities[i].account = target[r]}]
    /\ UNCHANGED <<accounts, identities, sessions, expired, locks, conns>>
    /\ Goto(r, "revoke_sessions")

RevokeAllAccountSessions(r) ==
    /\ pc[r] = "revoke_sessions"
    /\ ~AwaitsSessions(r, OpenSessions(target[r]))
    /\ doomed' = [doomed EXCEPT ![r].sessions = OpenSessions(target[r])]
    /\ UNCHANGED <<accounts, identities, sessions, expired, locks, conns>>
    /\ Goto(r, "commit")

-----------------------------------------------------------------------------
(* The client goes away, a connection breaks or the server stops: whatever *)
(* transaction the request has open is rolled back.                        *)
Abort(r) ==
    /\ pc[r] \notin {"idle", "done"}
    /\ Rollback(r)
    /\ Answer(r, "error")

Expire(token) == PassExpiry(token) /\ UNCHANGED handler

(* All requests have been answered.                                        *)
Quiescent == (\A r \in Request : pc[r] = "done") /\ UNCHANGED vars

Progress(r) ==
    \/ Authenticate(r) \/ FindEmail(r) \/ Verify(r)
    \/ Connect(r) \/ Begin(r) \/ Commit(r)
    \/ FindIdentity(r) \/ FindAccount(r) \/ CreateAccount(r)
    \/ LockAccount(r) \/ InsertIdentity(r) \/ CreateSession(r)
    \/ RevokeSession(r)
    \/ SoftDeleteAccount(r) \/ SoftDeleteAccountIdentities(r) \/ RevokeAllAccountSessions(r)

Next ==
    \/ \E r \in Request : Receive(r) \/ Progress(r) \/ Abort(r)
    \/ \E t \in Request : Expire(t)
    \/ Quiescent

Spec == Init /\ [][Next]_vars

FairSpec == Spec /\ \A r \in Request : WF_vars(Progress(r))

-----------------------------------------------------------------------------
(***************************************************************************)
(* What the component promises.                                            *)
(***************************************************************************)

SigninOps == {"signup", "signin_email", "signin_oauth"}

(* A deleted account keeps neither a way to sign in nor an open session,   *)
(* whatever was being linked or signed in while DELETE ran: CreateIdentity *)
(* and CreateSession take the account row FOR UPDATE.                      *)
DeletedAccountsAreClosed ==
    \A a, r \in Request :
        accounts[a].status = "closed" =>
            /\ identities[r].account = a => identities[r].status \notin {"inserted", "live"}
            /\ sessions[r].account = a => sessions[r].status \notin {"inserted", "live"}

(* Signing up is all or nothing: an active account always has an identity  *)
(* its owner can sign in with, although the two rows are two statements.   *)
LiveAccountsCanSignIn ==
    \A a \in Request :
        accounts[a].status = "live" =>
            \E i \in Request : identities[i].status = "live" /\ identities[i].account = a

(* accountForNewOAuthIdentity links by e-mail only: an identity carries    *)
(* the address of its account, and no two active accounts share one.       *)
IdentitiesMatchAccounts ==
    /\ \A i \in Request :
          identities[i].status = "live" =>
              /\ accounts[identities[i].account].status = "live"
              /\ accounts[identities[i].account].email = identities[i].email
    /\ \A a, b \in Request :
          /\ accounts[a].status = "live" /\ accounts[b].status = "live"
          /\ accounts[a].email = accounts[b].email
          => a = b \/ accounts[a].email = None

(* DELETE answers 204 only if the account of its cookie is deleted, also   *)
(* when a second DELETE finds the row already closed or the first is       *)
(* rolled back.                                                            *)
DeleteAnswerIsFinal ==
    \A r \in Request :
        call[r].op = "delete" /\ reply[r] = "ok" =>
            accounts[sessions[call[r].token].account].status = "closed"

(* What a sign-in presents: the address or the provider's subject.         *)
Credential(r) == IF call[r].op = "signin_oauth" THEN call[r].subject ELSE call[r].email

(* A sign-in answered with a cookie has its session committed, and for an  *)
(* account that has what it presented as an identity, however it was found *)
(* or linked; one refused for a conflict or bad credentials has left no    *)
(* row behind.                                                             *)
AnswersMatchTables ==
    \A r \in Request :
        /\ reply[r] = "ok" /\ call[r].op \in SigninOps =>
              /\ sessions[r].status \in {"live", "closed"}
              /\ \E i \in Request :
                    /\ identities[i].status \in {"live", "closed"}
                    /\ identities[i].key = Credential(r)
                    /\ identities[i].account = sessions[r].account
        /\ reply[r] \in Conflict \cup {"invalid_credentials"} =>
              /\ accounts[r] = NoAccount
              /\ identities[r] = NoIdentity
              /\ sessions[r] = NoSession

(* Sign out waits for a DELETE that is closing the same session, so a 204  *)
(* means the session is revoked even if that DELETE is rolled back.        *)
SignoutEndsSession ==
    \A r \in Request :
        call[r].op = "signout" /\ reply[r] = "ok" => sessions[call[r].token].status = "closed"

(* The second attempt of signinOAuth finds the row the first collided      *)
(* with.  It fails only if an account was deleted meanwhile, or if two     *)
(* requests got ahead of it: the account with its address is one's, the    *)
(* identity with its subject another's.                                    *)
OAuthConflictExplained ==
    \A r \in Request :
        call[r].op = "signin_oauth" /\ reply[r] \in Conflict =>
            \/ \E a \in Request : accounts[a].status = "closed"
            \/ /\ reply[r] = "identity_exists"
               /\ \E a \in LiveAccounts(call[r].email) :
                     LiveIdentities(call[r].subject) \ {a} # {}

(* A sign-up that loses the race for its address is told so by the index   *)
(* on accounts (409): ErrIdentityAlreadyExists, which writeError answers   *)
(* with 500, never comes out of SignupEmail.                               *)
SignupConflictIsEmail ==
    \A r \in Request : call[r].op = "signup" => reply[r] # "identity_exists"

(* So every conflict that is answered has a reason the user can act on.    *)
ConflictAnswersExplained == OAuthConflictExplained /\ SignupConflictIsEmail

(* A request that is not inside WithTx or a statement holds no connection, *)
(* no row lock and no uncommitted write, whichever way it got out.         *)
Outside == {"idle", "done", "authenticate", "find_email", "verify", "connect", "begin"}
NothingLeaks ==
    /\ Cardinality(conns) <= MaxConns
    /\ \A r \in Request : pc[r] \in Outside =>
          /\ r \notin conns
          /\ \A a \in Request : locks[a] # r
          /\ doomed[r] = NoWrites
          /\ accounts[r].status # "inserted"
          /\ identities[r].status # "inserted"
          /\ sessions[r].status # "inserted"

(* Whom a request waits for: everyone with a connection when the pool is   *)
(* empty, the holder of a row lock, or those who may still change what its *)
(* statement is about.                                                     *)
Blockers(r) ==
    CASE pc[r] \in {"authenticate", "find_email", "connect", "begin"} ->
            IF FreeConn THEN {} ELSE conns
      [] pc[r] = "create_account" -> AccountIndexHolders(r, call[r].email)
      [] pc[r] \in {"lock_account", "create_session", "soft_delete_account"} ->
            {locks[target[r]]} \ {None, r}
      [] pc[r] = "insert_identity" -> IdentityIndexHolders(r, IdentityKey(r))
      [] pc[r] = "revoke_session" -> SessionHolders(r, {call[r].token})
      [] pc[r] = "revoke_sessions" -> SessionHolders(r, OpenSessions(target[r]))
      [] OTHER -> {}

(* No group of requests waits for each other, over connections, row locks  *)
(* and index entries together, and whoever is waited for is inside a       *)
(* transaction or statement, so that it can finish.                        *)
NoWaitCycle ==
    /\ \A r \in Request : \A q \in Blockers(r) : pc[q] \notin Outside
    /\ \A W \in SUBSET Request : W # {} => \E r \in W : Blockers(r) \cap W = {}

(* Nobody closes what is not theirs: an account and its identities are     *)
(* closed only by the COMMIT of a DELETE whose cookie was issued for that  *)
(* account, a session only by such a DELETE or by a sign-out with its own  *)
(* cookie, although the account is looked up before the transaction.       *)
DeletesFor(r, a) == Commit(r) /\ call[r].op = "delete" /\ sessions[call[r].token].account = a

Closing(table) == {i \in Request : table[i].status # "closed" /\ table'[i].status = "closed"}

ClosedByRight ==
    /\ \A a \in Closing(accounts) : \E r \in Request : DeletesFor(r, a)
    /\ \A i \in Closing(identities) : \E r \in Request : DeletesFor(r, identities[i].account)
    /\ \A t \in Closing(sessions) : \E r \in Request :
          DeletesFor(r, sessions[t].account) \/ (RevokeSession(r) /\ call[r].token = t)

OnlyHoldersClose == [][ClosedByRight]_vars

(* Row locks, index waits and the pool never leave requests waiting for    *)
(* each other: every request that was received is answered.                *)
EveryRequestAnswered == \A r \in Request : pc[r] # "idle" ~> pc[r] = "done"

-----------------------------------------------------------------------------
(* Read through its committed rows, the component is the registry of       *)
(* AccountRegistry: a COMMIT or an autocommitted statement is one of its   *)
(* indivisible steps, everything else changes nothing.                     *)
Committed(table) == {i \in Request : table[i].status \in {"live", "closed"}}
Live(table) == {i \in Request : table[i].status = "live"}
AccountOf(table, rows) == IF rows = {} THEN None ELSE table[CHOOSE i \in rows : TRUE].account

Registry == INSTANCE AccountRegistry WITH
    Account <- Request,
    Session <- Request,
    Key <- Email \cup Subject,
    Address <- Email,
    Nobody <- None,
    open <- Live(accounts),
    closed <- Committed(accounts) \ Live(accounts),
    address <- [a \in Request |-> IF a \in Committed(accounts) THEN accounts[a].email ELSE None],
    owner <- [k \in Email \cup Subject |->
                AccountOf(identities, {i \in Live(identities) : identities[i].key = k})],
    signedIn <- [t \in Request |-> AccountOf(sessions, {t} \cap Live(sessions))],
    issued <- Committed(sessions)

RefinesRegistry == Registry!Spec
=============================================================================

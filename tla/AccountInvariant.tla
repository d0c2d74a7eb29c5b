-------------------------- MODULE AccountInvariant --------------------------
(***************************************************************************)
(* The inductive invariant behind DeletedAccountsAreClosed: what the row   *)
(* lock of an account guarantees between the statements of a transaction.  *)
(* And the one behind OAuthConflictExplained: what the second attempt of   *)
(* signinOAuth finds in the tables.  And the one behind what answers say   *)
(* of accounts: by which right a request works on its account.             *)
(***************************************************************************)
EXTENDS Account

Kept == {"live", "closed"}  \* the status of a committed row

DeleteSteps == {"soft_delete_account", "soft_delete_identities", "revoke_sessions"}
AfterDelete == {"soft_delete_identities", "revoke_sessions", "commit"}
CreateSteps == {"lock_account", "insert_identity", "create_session", "commit"}

(* The steps each operation goes through.                                  *)
Route(op) ==
    CASE op = "signup" -> {"begin", "create_account"} \cup CreateSteps
      [] op = "signin_email" -> {"find_email", "connect", "create_session"}
      [] op = "signin_oauth" ->
            {"verify", "begin", "find_identity", "find_account", "create_account"} \cup CreateSteps
      [] op = "signout" -> {"connect", "revoke_session"}
      [] OTHER -> {"authenticate", "begin", "commit"} \cup DeleteSteps

(* A handler has the arguments of the step it is about to take.            *)
Arguments ==
    \A r \in Request :
        /\ pc[r] \in {"idle", "done"} \cup Route(call[r].op)
        /\ pc[r] \in DeleteSteps \cup CreateSteps => target[r] \in Request
        /\ pc[r] = "begin" /\ call[r].op = "delete" => target[r] \in Request
        /\ pc[r] = "connect" /\ call[r].op # "signout" => target[r] \in Request
        /\ pc[r] = "connect" /\ call[r].op = "signout" => call[r].token \in Request
        /\ pc[r] \in {"authenticate", "revoke_session"} => call[r].token \in Request

(* The rows a request inserts stay uncommitted until it is answered.       *)
OwnRows ==
    \A r \in Request :
        /\ accounts[r].status \in {"live", "closed"} => pc[r] = "done"
        /\ identities[r].status \in {"live", "closed"} => pc[r] = "done"
        /\ sessions[r].status \in {"live", "closed"} => pc[r] = "done"
        /\ accounts[r].status = "inserted" =>
              pc[r] \in CreateSteps /\ target[r] = r /\ call[r].op # "signin_email"
        /\ identities[r].status = "inserted" =>
              pc[r] \in {"create_session", "commit"} /\ call[r].op # "signin_email"
        /\ sessions[r].status = "inserted" => pc[r] = "commit"

(* Only an open transaction holds a lock, on the account it works on; that *)
(* account is active or its own.  Whoever has inserted an identity or a    *)
(* session for an account holds the account's lock.                        *)
LockDiscipline(r) ==
    /\ \A a \in Request : locks[a] = r =>
          /\ pc[r] \in AfterDelete \cup CreateSteps
          /\ a = target[r]
          /\ ActiveFor(r, a)
          /\ call[r].op # "signin_email"
    /\ pc[r] = "insert_identity" => locks[target[r]] = r
    /\ identities[r].status = "inserted" =>
          identities[r].account = target[r] /\ locks[target[r]] = r
    /\ sessions[r].status = "inserted" =>
          sessions[r].account = target[r] /\ locks[target[r]] = r

LocksHeld == \A r \in Request : LockDiscipline(r)

(* What a DELETE has marked so far: nothing before its first UPDATE, then  *)
(* the account it holds the lock of, every identity and every session.     *)
Unclosed(table, a) ==
    {i \in Request : table[i].status \in {"inserted", "live"} /\ table[i].account = a}

MarkedBy(r) ==
    /\ pc[r] \notin AfterDelete => doomed[r] = NoWrites
    /\ \A i \in doomed[r].identities : identities[i].status \in {"live", "closed"}
    /\ \A t \in doomed[r].sessions : sessions[t].status \in {"live", "closed"}
    /\ doomed[r].accounts # {} =>
          /\ doomed[r].accounts = {target[r]}
          /\ locks[target[r]] = r
          /\ pc[r] \in {"revoke_sessions", "commit"} =>
                Unclosed(identities, target[r]) \subseteq doomed[r].identities
          /\ pc[r] = "commit" => Unclosed(sessions, target[r]) \subseteq doomed[r].sessions

DeletesMark == \A r \in Request : MarkedBy(r)

AccountInv ==
    TypeOK /\ Arguments /\ OwnRows /\ LocksHeld /\ DeletesMark /\ DeletedAccountsAreClosed
-----------------------------------------------------------------------------
NoneClosed == \A a \in Request : accounts[a].status # "closed"

(* The row that made the first attempt fail is still there.  When it is    *)
(* the account, not the identity, the second attempt links its identity to *)
(* that account, which has none with this subject of its own.              *)
Foreign(r) == LiveAccounts(call[r].email) \ LiveIdentities(call[r].subject)

SecondAttempt(r) ==
    /\ pc[r] # "create_account"
    /\ pc[r] \in {"begin", "find_identity"} =>
          \/ call[r].email # None /\ LiveAccounts(call[r].email) # {}
          \/ LiveIdentities(call[r].subject) # {}
    /\ pc[r] = "find_account" => Foreign(r) # {}
    /\ pc[r] \in {"lock_account", "insert_identity"} => target[r] \in Foreign(r)

ConflictOf(r) ==
    /\ attempt[r] > 1 => SecondAttempt(r)
    /\ reply[r] \in Conflict =>
          /\ reply[r] = "identity_exists"
          /\ \E a \in LiveAccounts(call[r].email) : LiveIdentities(call[r].subject) \ {a} # {}

ConflictInv ==
    /\ \A r \in Request :
          attempt[r] > 1 => call[r].op = "signin_oauth" /\ pc[r] \notin {"idle", "verify"}
    /\ NoneClosed => \A r \in Request : call[r].op = "signin_oauth" => ConflictOf(r)
-----------------------------------------------------------------------------
(* A sign-in works on an account that has the identity it presents, from   *)
(* where it has found or inserted it, and so does its session.             *)
Linked(r) ==
    \E i \in Request :
        /\ identities[i].account = target[r]
        /\ identities[i].key = Credential(r)
        /\ identities[i].status \in Kept \/ (i = r /\ identities[i].status = "inserted")

SignsIn(r) ==
    \/ pc[r] \in {"create_session", "commit"} /\ call[r].op # "delete"
    \/ pc[r] = "connect" /\ call[r].op = "signin_email"
    \/ sessions[r].status # "absent"

(* A DELETE works on the account of its cookie's session.                  *)
DeletesAccount(r) ==
    call[r].op = "delete" /\ (pc[r] \in {"begin", "commit"} \cup DeleteSteps \/ reply[r] = "ok")

RightOf(r) ==
    /\ sessions[r].status # "absent" => sessions[r].account = target[r]
    /\ SignsIn(r) => Linked(r)
    /\ DeletesAccount(r) =>
          call[r].token \in Request /\ target[r] = sessions[call[r].token].account

RightInv == \A r \in Request : RightOf(r)
=============================================================================

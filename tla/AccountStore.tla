---------------------------- MODULE AccountStore ----------------------------
(***************************************************************************)
(* The account tables of src/db/migrations/00002_accounts.sql and the SQL  *)
(* statements of src/db/queries/accounts.sql, run by PostgreSQL at its     *)
(* default isolation level, READ COMMITTED.  What the code relies on:      *)
(*                                                                         *)
(*  - a plain SELECT sees committed rows only and never waits;             *)
(*  - an UPDATE or a SELECT ... FOR UPDATE waits for the transaction that  *)
(*    holds the row lock, then evaluates its WHERE clause again;           *)
(*  - an INSERT into a unique index waits while a row with the same key is *)
(*    being inserted or deleted by an open transaction, and fails on a     *)
(*    committed one;                                                       *)
(*  - locks are kept, and writes stay invisible, until the transaction     *)
(*    ends; then the writes appear together or vanish.                     *)
(*                                                                         *)
(* A request inserts at most one row of each table (the second attempt of  *)
(* an OAuth sign-in starts after the first was rolled back), so rows are   *)
(* named after the request that inserts them.                              *)
(***************************************************************************)
EXTENDS Integers, FiniteSets

CONSTANTS
    Request,    \* HTTP requests, each served once; also the row names
    Email,      \* normalized e-mail addresses
    Subject,    \* (OAuth provider, provider subject) pairs
    MaxConns,   \* connections of the pgx pool
    None        \* SQL NULL, no owner, no argument

ASSUME NoneAssumption == None \notin Request \cup Email \cup Subject
ASSUME KeyAssumption == Email \cap Subject = {}
ASSUME ConnAssumption == MaxConns \in Nat \ {0}

VARIABLES
    accounts,   \* accounts: status and normalized_email
    identities, \* account_identities: status, account_id, key, normalized_email
    sessions,   \* account_sessions: status and account_id
    expired,    \* sessions whose expires_at has passed
    locks,      \* account row -> the open transaction holding its row lock
    doomed,     \* request -> rows its open transaction has closed
    conns       \* requests holding a connection of the pool

store == <<accounts, identities, sessions, expired, locks, doomed, conns>>

-----------------------------------------------------------------------------
(* "inserted": by a transaction still open.  "live": committed, deleted_at *)
(* (accounts, identities) or revoked_at (sessions) IS NULL.  "closed":     *)
(* committed with that column set.                                         *)
Status == {"absent", "inserted", "live", "closed"}

AccountRow == [status : Status, email : Email \cup {None}]
IdentityRow == [status : Status, account : Request \cup {None},
                key : Email \cup Subject \cup {None}, email : Email \cup {None}]
SessionRow == [status : Status, account : Request \cup {None}]
Writes == [accounts : SUBSET Request, identities : SUBSET Request, sessions : SUBSET Request]

NoAccount == [status |-> "absent", email |-> None]
NoIdentity == [status |-> "absent", account |-> None, key |-> None, email |-> None]
NoSession == [status |-> "absent", account |-> None]
NoWrites == [accounts |-> {}, identities |-> {}, sessions |-> {}]

StoreTypeOK ==
    /\ accounts \in [Request -> AccountRow]
    /\ identities \in [Request -> IdentityRow]
    /\ sessions \in [Request -> SessionRow]
    /\ \A r \in Request :
          /\ identities[r].status # "absent" => identities[r].account \in Request
          /\ sessions[r].status # "absent" => sessions[r].account \in Request
    /\ expired \subseteq Request
    /\ locks \in [Request -> Request \cup {None}]
    /\ doomed \in [Request -> Writes]
    /\ conns \subseteq Request

StoreInit ==
    /\ accounts = [r \in Request |-> NoAccount]
    /\ identities = [r \in Request |-> NoIdentity]
    /\ sessions = [r \in Request |-> NoSession]
    /\ expired = {}
    /\ locks = [r \in Request |-> None]
    /\ doomed = [r \in Request |-> NoWrites]
    /\ conns = {}

-----------------------------------------------------------------------------
(* What a statement of request r sees.                                     *)

FreeConn == Cardinality(conns) < MaxConns

(* FindIdentityWithAccount, FindEmailIdentityWithAccount: the key is the   *)
(* provider subject, which for provider 'email' is the normalized address. *)
LiveIdentities(key) ==
    {i \in Request : /\ identities[i].status = "live"
                     /\ identities[i].key = key
                     /\ accounts[identities[i].account].status = "live"}

(* FindActiveAccountByNormalizedEmail.                                     *)
LiveAccounts(email) ==
    {a \in Request : accounts[a].status = "live" /\ accounts[a].email = email}

(* FindAccountBySessionTokenHash.                                          *)
Authentic(token) ==
    /\ sessions[token].status = "live"
    /\ token \notin expired
    /\ accounts[sessions[token].account].status = "live"

(* The row lock of account a is free for r; the locked_account CTE finds a *)
(* row when the account is live, or r's own uncommitted one.               *)
LockFree_WithoutForUpdate(r, a) == TRUE
LockFree(r, a) == locks[a] \in {None, r}
ActiveFor_NotRechecked(r, a) == TRUE
ActiveFor(r, a) == accounts[a].status = "live" \/ (a = r /\ accounts[a].status = "inserted")

(* Unique indexes: the other requests whose open transaction may yet make  *)
(* one of the entries appear or disappear are waited for; a settled live   *)
(* entry is a violation.                                                   *)
Unsettling(r, table, rivals, closing) ==
    {q \in Request \ {r} :
        \/ q \in rivals /\ table[q].status = "inserted"
        \/ \E i \in rivals \cap closing[q] : table[i].status = "live"}

AccountRivals(e) ==
    {a \in Request : accounts[a].email = e /\ accounts[a].status \in {"inserted", "live"}}
IdentityRivals(k) ==
    {i \in Request : identities[i].key = k /\ identities[i].status \in {"inserted", "live"}}

AccountIndexHolders(r, e) ==
    IF e = None THEN {}
    ELSE Unsettling(r, accounts, AccountRivals(e), [d \in Request |-> doomed[d].accounts])
IdentityIndexHolders(r, k) ==
    Unsettling(r, identities, IdentityRivals(k), [d \in Request |-> doomed[d].identities])

AwaitsAccountIndex(r, e) == AccountIndexHolders(r, e) # {}
AwaitsIdentityIndex(r, k) == IdentityIndexHolders(r, k) # {}

EmailTaken_WithoutIndex(e) == FALSE
EmailTaken(e) == e # None /\ AccountRivals(e) # {}
KeyTaken(k) == IdentityRivals(k) # {}

(* An UPDATE of sessions waits for rows another open transaction closed.   *)
SessionHolders(r, rows) == {d \in Request \ {r} : rows \cap doomed[d].sessions # {}}
AwaitsSessions(r, rows) == SessionHolders(r, rows) # {}
OpenSessions_OfEverybody(a) == {t \in Request : sessions[t].status = "live"}
OpenSessions(a) == {t \in Request : sessions[t].status = "live" /\ sessions[t].account = a}

-----------------------------------------------------------------------------
(* What statements and transaction ends do.                                *)

Acquire(r) ==
    /\ FreeConn
    /\ conns' = conns \cup {r}
    /\ UNCHANGED <<accounts, identities, sessions, expired, locks, doomed>>

InsertAccount_OutsideTx(r, e) ==
    /\ accounts' = [accounts EXCEPT ![r] = [status |-> "live", email |-> e]]
    /\ UNCHANGED <<identities, sessions, expired, locks, doomed, conns>>

InsertAccount(r, e) ==
    /\ accounts' = [accounts EXCEPT ![r] = [status |-> "inserted", email |-> e]]
    /\ UNCHANGED <<identities, sessions, expired, locks, doomed, conns>>

LockRow(r, a) ==
    /\ locks' = [locks EXCEPT ![a] = r]
    /\ UNCHANGED <<accounts, identities, sessions, expired, doomed, conns>>

InsertIdentityRow(r, a, k, e) ==
    /\ identities' = [identities EXCEPT ![r] =
                        [status |-> "inserted", account |-> a, key |-> k, email |-> e]]
    /\ UNCHANGED <<accounts, sessions, expired, locks, doomed, conns>>

InsertSession_OnSecondConn(r, a) ==
    /\ FreeConn
    /\ sessions' = [sessions EXCEPT ![r] = [status |-> "inserted", account |-> a]]
    /\ locks' = [locks EXCEPT ![a] = r]
    /\ UNCHANGED <<accounts, identities, expired, doomed, conns>>

InsertSession(r, a) ==
    /\ sessions' = [sessions EXCEPT ![r] = [status |-> "inserted", account |-> a]]
    /\ locks' = [locks EXCEPT ![a] = r]
    /\ UNCHANGED <<accounts, identities, expired, doomed, conns>>

(* The same statement outside a transaction commits at once.               *)
AutocommitSession(r, a) ==
    /\ sessions' = [sessions EXCEPT ![r] = [status |-> "live", account |-> a]]
    /\ conns' = conns \ {r}
    /\ UNCHANGED <<accounts, identities, expired, locks, doomed>>

(* RevokeAccountSession, outside a transaction.                            *)
AutocommitRevoke(r, token) ==
    /\ sessions' = [sessions EXCEPT ![token].status =
                      IF @ = "live" THEN "closed" ELSE @]
    /\ conns' = conns \ {r}
    /\ UNCHANGED <<accounts, identities, expired, locks, doomed>>

Settled(table, r, closing) ==
    [i \in Request |->
        IF i = r /\ table[i].status = "inserted" THEN [table[i] EXCEPT !.status = "live"]
        ELSE IF i \in closing THEN [table[i] EXCEPT !.status = "closed"]
        ELSE table[i]]

EndTransaction_KeepsConn(r) ==
    /\ locks' = [a \in Request |-> IF locks[a] = r THEN None ELSE locks[a]]
    /\ doomed' = [doomed EXCEPT ![r] = NoWrites]
    /\ UNCHANGED <<expired, conns>>

EndTransaction(r) ==
    /\ locks' = [a \in Request |-> IF locks[a] = r THEN None ELSE locks[a]]
    /\ doomed' = [doomed EXCEPT ![r] = NoWrites]
    /\ conns' = conns \ {r}
    /\ UNCHANGED expired

CommitWrites(r) ==
    /\ accounts' = Settled(accounts, r, doomed[r].accounts)
    /\ identities' = Settled(identities, r, doomed[r].identities)
    /\ sessions' = Settled(sessions, r, doomed[r].sessions)
    /\ EndTransaction(r)

Undone_Kept(table, r, empty) == table
Undone(table, r, empty) == IF table[r].status = "inserted" THEN [table EXCEPT ![r] = empty] ELSE table

Rollback(r) ==
    /\ accounts' = Undone(accounts, r, NoAccount)
    /\ identities' = Undone(identities, r, NoIdentity)
    /\ sessions' = Undone(sessions, r, NoSession)
    /\ EndTransaction(r)

(* A session's expires_at passes.                                          *)
PassExpiry(token) ==
    /\ sessions[token].status = "live"
    /\ token \notin expired
    /\ expired' = expired \cup {token}
    /\ UNCHANGED <<accounts, identities, sessions, locks, doomed, conns>>
=============================================================================

----------------------------- MODULE V1Sessions ------------------------------
(***************************************************************************)
(* The v1 API beside the account endpoints: requireSession and             *)
(* accountForSession (internal/httpserver/hunch_api.go) over the accounts  *)
(* and sessions that AccountRegistry describes.  A call takes two          *)
(* critical sections of hunchStore.mu: the middleware finds the v1 account *)
(* of the cookie, the handler works on it.  What happens in between, and a *)
(* restart that loses the store but not the database, is explicit.         *)
(***************************************************************************)
EXTENDS FiniteSets

CONSTANTS
    Account, Session, Key, Address, Nobody,     \* see AccountRegistry
    Stranger,       \* cookie values no session was issued for
    Profile,        \* v1 accounts, each created at most once
    Call            \* calls of the v1 API in flight

ASSUME NobodyAssumption == Nobody \notin Account \cup Address \cup Profile \cup Session \cup Stranger
ASSUME StrangerAssumption == Stranger \cap Session = {}

VARIABLES
    open, closed, address, owner, signedIn, issued,     \* AccountRegistry
    holder,     \* session -> account_id of its row, kept when it is revoked
    accounts,   \* key of a cookie -> its v1 account: hunchStore.accounts
    created,    \* v1 accounts created so far
    writers,    \* v1 account -> the accounts it was changed for
    cookie,     \* call -> the value of its cookie
    context     \* call -> the v1 account the middleware has put in its context

Registry == INSTANCE AccountRegistry

registry == <<open, closed, address, owner, signedIn, issued>>
store == <<accounts, created, writers>>
calls == <<cookie, context>>
vars == <<registry, holder, store, calls>>

Cookie == Session \cup Stranger

(* The account a cookie was issued for; a stranger's was issued for none.  *)
IssuedFor(k) == IF k \in Session THEN holder[k] ELSE Nobody

RegistryTypeOK ==
    /\ open \subseteq Account
    /\ closed \subseteq Account
    /\ issued \subseteq Session
    /\ signedIn \in [Session -> Account \cup {Nobody}]

(* Every variable has its type; only issued sessions are signed in.        *)
TypeOK ==
    /\ RegistryTypeOK
    /\ \A s \in Session : signedIn[s] # Nobody => s \in issued
    /\ holder \in [Session -> Account \cup {Nobody}]
    /\ accounts \in [Cookie -> Profile \cup {Nobody}]
    /\ created \subseteq Profile
    /\ writers \in [Profile -> SUBSET (Account \cup {Nobody})]
    /\ cookie \in [Call -> Cookie \cup {Nobody}]
    /\ context \in [Call -> Profile \cup {Nobody}]
    /\ \A c \in Call : context[c] # Nobody => cookie[c] # Nobody

Init ==
    /\ Registry!Init
    /\ holder = [s \in Session |-> Nobody]
    /\ accounts = [k \in Cookie |-> Nobody]
    /\ created = {}
    /\ writers = [p \in Profile |-> {}]
    /\ cookie = [c \in Call |-> Nobody]
    /\ context = [c \in Call |-> Nobody]

-----------------------------------------------------------------------------
(* A sign-up, sign-in, sign-out or deletion; account_id is set when the    *)
(* row of a session is inserted and never changes.                         *)
AccountStep ==
    /\ Registry!Next
    /\ holder' = [s \in Session |-> IF s \in issued' \ issued THEN signedIn'[s] ELSE holder[s]]
    /\ UNCHANGED <<store, calls>>

(* A client sends the token of a session it was issued, now or ever, or    *)
(* any other text.                                                         *)
Arrive(c, k) ==
    /\ cookie[c] = Nobody
    /\ k \in issued \cup Stranger
    /\ cookie' = [cookie EXCEPT ![c] = k]
    /\ UNCHANGED <<registry, holder, store, context>>

HashKey_Shared(k) == CHOOSE j \in Cookie : TRUE

(* The SHA-256 of the cookie: distinct for distinct values.                *)
HashKey(k) == k

AccountForSession_AlwaysNew(c) ==
    \E p \in Profile \ created :
        /\ created' = created \cup {p}
        /\ accounts' = [accounts EXCEPT ![HashKey(cookie[c])] = p]
        /\ context' = [context EXCEPT ![c] = p]

AccountForSession(c) ==
    LET k == HashKey(cookie[c]) IN
    \/ /\ accounts[k] # Nobody
       /\ context' = [context EXCEPT ![c] = accounts[k]]
       /\ UNCHANGED <<accounts, created>>
    \/ /\ accounts[k] = Nobody
       /\ \E p \in Profile \ created :
             /\ created' = created \cup {p}
             /\ accounts' = [accounts EXCEPT ![k] = p]
             /\ context' = [context EXCEPT ![c] = p]

(* Any cookie will do: the sessions table is not asked.                    *)
RequireSession(c) ==
    /\ cookie[c] # Nobody
    /\ context[c] = Nobody
    /\ AccountForSession(c)
    /\ UNCHANGED <<registry, holder, writers, cookie>>

(* A handler: it works on the account in its context and answers.          *)
Handle(c) ==
    /\ context[c] # Nobody
    /\ writers' = [writers EXCEPT ![context[c]] = @ \cup {IssuedFor(cookie[c])}]
    /\ cookie' = [cookie EXCEPT ![c] = Nobody]
    /\ context' = [context EXCEPT ![c] = Nobody]
    /\ UNCHANGED <<registry, holder, accounts, created>>

(* The process stops and starts: the store and the calls in flight are     *)
(* gone, the database is not.                                              *)
Restart ==
    /\ accounts' = [k \in Cookie |-> Nobody]
    /\ cookie' = [c \in Call |-> Nobody]
    /\ context' = [c \in Call |-> Nobody]
    /\ UNCHANGED <<registry, holder, created, writers>>

Next ==
    \/ AccountStep
    \/ \E c \in Call, k \in Cookie : Arrive(c, k)
    \/ \E c \in Call : RequireSession(c) \/ Handle(c)
    \/ Restart

Spec == Init /\ [][Next]_vars

-----------------------------------------------------------------------------
(* The account a handler works on is the one the store has for the cookie, *)
(* although it was looked up in an earlier critical section: calls that    *)
(* arrive first together share one account, and nothing replaces it.       *)
ContextIsCurrent ==
    \A c \in Call : context[c] # Nobody => accounts[HashKey(cookie[c])] = context[c]

(* No two people's data meet: whatever was done to a v1 account was done   *)
(* for one account of the registry, through sign-outs, deletions, new      *)
(* sign-ins and restarts.                                                  *)
OneWriterPerProfile == \A p \in Profile : \A a, b \in writers[p] : a = b

-----------------------------------------------------------------------------
(* "Soft-deleted accounts must receive `unauthenticated` or `forbidden`":  *)
(* no handler runs for a call with a session of a deleted account.         *)
DeletedAccountsAreRefused ==
    [][\A c \in Call : Handle(c) => IssuedFor(cookie[c]) \notin closed]_vars
=============================================================================

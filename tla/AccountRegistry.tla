--------------------------- MODULE AccountRegistry ---------------------------
(***************************************************************************)
(* What the account endpoints promise, with no transactions in sight: each *)
(* request changes the registry in one indivisible step, or not at all.    *)
(***************************************************************************)
CONSTANTS Account, Session, Key, Address, Nobody  \* Nobody is no account and no address

VARIABLES
    open,       \* accounts in use
    closed,     \* deleted accounts
    address,    \* account -> the e-mail address it was opened with, or Nobody
    owner,      \* sign-in key -> the open account it signs in to, or Nobody
    signedIn,   \* session -> the open account it authenticates, or Nobody
    issued      \* sessions ever issued

registry == <<open, closed, address, owner, signedIn, issued>>

Init ==
    /\ open = {}
    /\ closed = {}
    /\ address = [a \in Account |-> Nobody]
    /\ owner = [k \in Key |-> Nobody]
    /\ signedIn = [s \in Session |-> Nobody]
    /\ issued = {}

Issue(s, a) ==
    /\ s \notin issued
    /\ issued' = issued \cup {s}
    /\ signedIn' = [signedIn EXCEPT ![s] = a]

(* A new account, its first key and its first session appear together.     *)
Register(a, e, k, s) ==
    /\ a \notin open \cup closed
    /\ e # Nobody => \A b \in open : address[b] # e
    /\ owner[k] = Nobody
    /\ open' = open \cup {a}
    /\ address' = [address EXCEPT ![a] = e]
    /\ owner' = [owner EXCEPT ![k] = a]
    /\ Issue(s, a)
    /\ UNCHANGED closed

(* Another key for the open account that has a known address.              *)
Link(a, k, s) ==
    /\ a \in open
    /\ address[a] # Nobody
    /\ owner[k] = Nobody
    /\ owner' = [owner EXCEPT ![k] = a]
    /\ Issue(s, a)
    /\ UNCHANGED <<open, closed, address>>

SignIn(k, s) ==
    /\ owner[k] \in open
    /\ Issue(s, owner[k])
    /\ UNCHANGED <<open, closed, address, owner>>

SignOut(s) ==
    /\ signedIn[s] # Nobody
    /\ signedIn' = [signedIn EXCEPT ![s] = Nobody]
    /\ UNCHANGED <<open, closed, address, owner, issued>>

(* Deleting takes every key and every session of the account with it.      *)
Close(a) ==
    /\ a \in open
    /\ open' = open \ {a}
    /\ closed' = closed \cup {a}
    /\ owner' = [k \in Key |-> IF owner[k] = a THEN Nobody ELSE owner[k]]
    /\ signedIn' = [s \in Session |-> IF signedIn[s] = a THEN Nobody ELSE signedIn[s]]
    /\ UNCHANGED <<address, issued>>

Next ==
    \/ \E a \in Account, e \in Address \cup {Nobody}, k \in Key, s \in Session : Register(a, e, k, s)
    \/ \E a \in Account, k \in Key, s \in Session : Link(a, k, s)
    \/ \E k \in Key, s \in Session : SignIn(k, s)
    \/ \E s \in Session : SignOut(s)
    \/ \E a \in Account : Close(a)

Spec == Init /\ [][Next]_registry
=============================================================================

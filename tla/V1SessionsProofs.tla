-------------------------- MODULE V1SessionsProofs --------------------------
(* What is proved about V1Sessions for any number of accounts, sessions,   *)
(* cookie values, profiles and calls.                                      *)
EXTENDS V1Sessions, TLAPS

-----------------------------------------------------------------------------
(* Cookies that are sent or known to the store were issued or are a        *)
(* stranger's: whose they are is settled.                                  *)
CookiesAreSettled ==
    /\ \A c \in Call : cookie[c] # Nobody => cookie[c] \in issued \cup Stranger
    /\ \A k \in Cookie : accounts[k] # Nobody => k \in issued \cup Stranger

(* A v1 account hangs on one cookie value, and none is handed out twice.   *)
OneCookiePerProfile ==
    /\ \A k \in Cookie : accounts[k] # Nobody => accounts[k] \in created
    /\ \A j, k \in Cookie : accounts[j] # Nobody /\ accounts[j] = accounts[k] => j = k

(* What was done to a v1 account was done for whom its cookie was issued.  *)
WritersAreHolders ==
    /\ \A p \in Profile : writers[p] # {} => p \in created
    /\ \A k \in Cookie : accounts[k] # Nobody => writers[accounts[k]] \subseteq {IssuedFor(k)}

V1Inv ==
    /\ TypeOK /\ CookiesAreSettled /\ OneCookiePerProfile /\ WritersAreHolders
    /\ ContextIsCurrent /\ OneWriterPerProfile

(* An empty registry and an empty store.                                   *)
LEMMA V1InvInit == Init => V1Inv
  BY NobodyAssumption
  DEF Init, Registry!Init, V1Inv, TypeOK, RegistryTypeOK, CookiesAreSettled, OneCookiePerProfile,
      WritersAreHolders, ContextIsCurrent, OneWriterPerProfile

(* The registry moves on; holders of issued sessions stay.                 *)
LEMMA AccountStepKeeps == V1Inv /\ AccountStep => V1Inv'
<1> SUFFICES ASSUME V1Inv, AccountStep PROVE V1Inv'
  OBVIOUS
<1> USE NobodyAssumption, StrangerAssumption DEF V1Inv, AccountStep, store, calls
<1>1. /\ RegistryTypeOK'
      /\ \A s \in Session : signedIn'[s] # Nobody => s \in issued'
      /\ issued \subseteq issued'
  <2> USE DEF TypeOK, RegistryTypeOK, Registry!Issue
  <2>1. ASSUME NEW a \in Account, NEW e \in Address \cup {Nobody}, NEW k \in Key, NEW s \in Session,
               Registry!Register(a, e, k, s)
        PROVE  <1>1!:
    BY <2>1 DEF Registry!Register
  <2>2. ASSUME NEW a \in Account, NEW k \in Key, NEW s \in Session, Registry!Link(a, k, s)
        PROVE  <1>1!:
    BY <2>2 DEF Registry!Link
  <2>3. ASSUME NEW k \in Key, NEW s \in Session, Registry!SignIn(k, s) PROVE <1>1!:
    BY <2>3 DEF Registry!SignIn
  <2>4. ASSUME NEW s \in Session, Registry!SignOut(s) PROVE <1>1!:
    BY <2>4 DEF Registry!SignOut
  <2>5. ASSUME NEW a \in Account, Registry!Close(a) PROVE <1>1!:
    BY <2>5 DEF Registry!Close
  <2> QED
    BY <2>1, <2>2, <2>3, <2>4, <2>5 DEF Registry!Next
<1>2. TypeOK'
  BY <1>1 DEF TypeOK, RegistryTypeOK
<1>3. \A k \in Cookie : k \in issued \cup Stranger => IssuedFor(k)' = IssuedFor(k)
  BY DEF IssuedFor, Cookie, TypeOK, RegistryTypeOK
<1>4. CookiesAreSettled' /\ OneCookiePerProfile' /\ ContextIsCurrent' /\ OneWriterPerProfile'
  BY <1>1 DEF CookiesAreSettled, OneCookiePerProfile, ContextIsCurrent, OneWriterPerProfile
<1>5. WritersAreHolders'
  BY <1>3 DEF WritersAreHolders, CookiesAreSettled
<1> QED
  BY <1>2, <1>4, <1>5

(* The calls and a restart preserve the invariant.                         *)
LEMMA CallStepKeeps == V1Inv /\ [Next]_vars /\ ~AccountStep => V1Inv'
<1> SUFFICES ASSUME V1Inv, [Next]_vars, ~AccountStep PROVE V1Inv'
  OBVIOUS
<1> USE NobodyAssumption, StrangerAssumption
    DEF V1Inv, TypeOK, RegistryTypeOK, CookiesAreSettled, OneCookiePerProfile, WritersAreHolders,
        ContextIsCurrent, OneWriterPerProfile, IssuedFor, HashKey, Cookie, registry, store, calls
<1>1. ASSUME NEW c \in Call, NEW k \in Cookie, Arrive(c, k) PROVE V1Inv'
  BY <1>1 DEF Arrive
<1>2. ASSUME NEW c \in Call, RequireSession(c) PROVE V1Inv'
  <2>1. CASE accounts[cookie[c]] # Nobody
    BY <1>2, <2>1 DEF RequireSession, AccountForSession
  <2>2. CASE accounts[cookie[c]] = Nobody
    BY <1>2, <2>2 DEF RequireSession, AccountForSession
  <2> QED
    BY <2>1, <2>2
<1>3. ASSUME NEW c \in Call, Handle(c) PROVE V1Inv'
  BY <1>3 DEF Handle
<1>4. CASE Restart
  BY <1>4 DEF Restart
<1>5. CASE UNCHANGED vars
  BY <1>5 DEF vars
<1> QED
  BY <1>1, <1>2, <1>3, <1>4, <1>5 DEF Next

(* The invariant holds in every reachable state.                           *)
THEOREM V1Invariance == Spec => []V1Inv
<1>1. Init => V1Inv
  BY V1InvInit
<1>2. V1Inv /\ [Next]_vars => V1Inv'
  BY AccountStepKeeps, CallStepKeeps
<1> QED
  BY <1>1, <1>2, PTL DEF Spec

-----------------------------------------------------------------------------
(* A handler works on the account the store has for its cookie, although   *)
(* the middleware found it in an earlier critical section.                 *)
THEOREM HandlersUseTheirAccount == Spec => []ContextIsCurrent
  BY V1Invariance, PTL DEF V1Inv

(* Two people's calls never change the same v1 account, through sign-outs, *)
(* deletions and restarts.                                                 *)
THEOREM ProfilesAreNotShared == Spec => []OneWriterPerProfile
  BY V1Invariance, PTL DEF V1Inv

-----------------------------------------------------------------------------
(* The registry does not notice the v1 API: calls and restarts leave       *)
(* accounts and sessions alone, so that what is proved of AccountRegistry, *)
(* which Account implements, is true here.                                 *)
THEOREM CallsSpareRegistry == Spec => Registry!Spec
<1>1. Init => Registry!Init
  BY DEF Init
<1>2. [Next]_vars => [Registry!Next]_(Registry!registry)
  BY DEF Next, vars, registry, Registry!registry, AccountStep, Arrive, RequireSession, Handle, Restart
<1> QED
  BY <1>1, <1>2, PTL DEF Spec, Registry!Spec

-----------------------------------------------------------------------------
(* What a look at account_sessions would tell: a session that is signed in *)
(* belongs to the account it was issued for, and that account is open.     *)
SessionsTell ==
    /\ open \cap closed = {}
    /\ \A k \in Key : owner[k] # Nobody => owner[k] \in open
    /\ \A s \in Session : signedIn[s] # Nobody => signedIn[s] = holder[s] /\ holder[s] \in open

(* Each step of the registry keeps it so.                                  *)
LEMMA RegistryTells == TypeOK /\ SessionsTell /\ AccountStep => SessionsTell'
<1> SUFFICES ASSUME TypeOK, SessionsTell, AccountStep PROVE SessionsTell'
  OBVIOUS
<1> USE NobodyAssumption DEF TypeOK, RegistryTypeOK, SessionsTell, AccountStep, Registry!Issue
<1>1. ASSUME NEW a \in Account, NEW e \in Address \cup {Nobody}, NEW k \in Key, NEW s \in Session,
             Registry!Register(a, e, k, s)
      PROVE  SessionsTell'
  BY <1>1 DEF Registry!Register
<1>2. ASSUME NEW a \in Account, NEW k \in Key, NEW s \in Session, Registry!Link(a, k, s)
      PROVE  SessionsTell'
  BY <1>2 DEF Registry!Link
<1>3. ASSUME NEW k \in Key, NEW s \in Session, Registry!SignIn(k, s) PROVE SessionsTell'
  BY <1>3 DEF Registry!SignIn
<1>4. ASSUME NEW s \in Session, Registry!SignOut(s) PROVE SessionsTell'
  BY <1>4 DEF Registry!SignOut
<1>5. ASSUME NEW a \in Account, Registry!Close(a) PROVE SessionsTell'
  BY <1>5 DEF Registry!Close
<1> QED
  BY <1>1, <1>2, <1>3, <1>4, <1>5 DEF Registry!Next

(* It holds in every reachable state.                                      *)
THEOREM SessionsAreTelling == Spec => []SessionsTell
<1>1. Init => SessionsTell
  BY DEF Init, Registry!Init, SessionsTell
<1>2. V1Inv /\ SessionsTell /\ [Next]_vars => SessionsTell'
  <2> SUFFICES ASSUME V1Inv, SessionsTell, [Next]_vars PROVE SessionsTell'
    OBVIOUS
  <2>1. CASE AccountStep
    BY <2>1, RegistryTells DEF V1Inv
  <2>2. CASE UNCHANGED <<registry, holder>>
    BY <2>2 DEF registry, SessionsTell
  <2> QED
    BY <2>1, <2>2 DEF Next, vars, Arrive, RequireSession, Handle, Restart
<1> QED
  BY <1>1, <1>2, V1Invariance, PTL DEF Spec

(* A requireSession that asks account_sessions when the handler runs:      *)
(* calls with sessions that are signed out or closed are not handled.      *)
OnlySignedInHandled ==
    [][\A c \in Call : Handle(c) /\ cookie[c] \in Session => signedIn[cookie[c]] # Nobody]_vars

(* Finding 3 comes from nothing but the lookup the middleware leaves out:  *)
(* where handlers run for signed-in sessions only, none runs for a deleted *)
(* account, since closing an account takes its sessions with it.           *)
THEOREM LookupRefusesDeleted == Spec /\ OnlySignedInHandled => DeletedAccountsAreRefused
<1>1. ASSUME V1Inv, SessionsTell, NEW c \in Call, Handle(c),
             cookie[c] \in Session => signedIn[cookie[c]] # Nobody
      PROVE  IssuedFor(cookie[c]) \notin closed
  BY <1>1, NobodyAssumption DEF V1Inv, TypeOK, RegistryTypeOK, SessionsTell, IssuedFor
<1>2. /\ V1Inv /\ SessionsTell
      /\ [\A c \in Call : Handle(c) /\ cookie[c] \in Session => signedIn[cookie[c]] # Nobody]_vars
      => [\A c \in Call : Handle(c) => IssuedFor(cookie[c]) \notin closed]_vars
  BY <1>1
<1> QED
  BY <1>2, V1Invariance, SessionsAreTelling, PTL DEF OnlySignedInHandled, DeletedAccountsAreRefused
=============================================================================

------------------------------ MODULE MCAccount ------------------------------
(* Instances of Account: three or four requests.   *)
EXTENDS AccountInvariant, TLC

CallOf(o, e, s, t) == [op |-> o, email |-> e, subject |-> s, token |-> t]

Signups == {CallOf("signup", e, None, None) : e \in Email}
Signins == {CallOf("signin_email", e, None, None) : e \in Email}
OAuth == {CallOf("signin_oauth", e, s, None) : e \in Email \cup {None}, s \in Subject}
Signouts == {CallOf("signout", None, None, t) : t \in Request}
Deletes == {CallOf("delete", None, None, t) : t \in Request}
BadCalls == {CallOf(o, None, None, None) : o \in Operation}

GoodCalls == Signups \cup Signins \cup OAuth \cup Signouts \cup Deletes
AllCalls == GoodCalls \cup BadCalls

RequestSymmetry == Permutations(Request)
=============================================================================

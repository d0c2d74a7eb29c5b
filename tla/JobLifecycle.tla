---------------------------- MODULE JobLifecycle ----------------------------
(* The life of a background job as a user of the queue thinks of it: it is *)
(* taken a limited number of times and settles once.                       *)
EXTENDS Naturals

CONSTANTS Job, MaxAttempts

VARIABLES state, tries

Init ==
    /\ state = [j \in Job |-> "absent"]
    /\ tries = [j \in Job |-> 0]

Move(j, from, to) == state[j] = from /\ state' = [state EXCEPT ![j] = to]

Submit(j) == Move(j, "absent", "queued") /\ UNCHANGED tries
Take(j) == Move(j, "queued", "running") /\ tries' = [tries EXCEPT ![j] = @ + 1]
Succeed(j) == Move(j, "running", "succeeded") /\ UNCHANGED tries
GiveBack(j) == Move(j, "running", "queued") /\ tries[j] < MaxAttempts /\ UNCHANGED tries
GiveUp(j) == Move(j, "running", "failed") /\ tries[j] = MaxAttempts /\ UNCHANGED tries

Next == \E j \in Job : Submit(j) \/ Take(j) \/ Succeed(j) \/ GiveBack(j) \/ GiveUp(j)

Spec == Init /\ [][Next]_<<state, tries>>
=============================================================================

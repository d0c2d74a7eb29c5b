----------------------------- MODULE MCJobQueue -----------------------------
(* Instances of JobQueue: two or three jobs, two or three workers.         *)
EXTENDS JobQueue, TLC

QueueSymmetry == Permutations(Job) \cup Permutations(Worker)
=============================================================================

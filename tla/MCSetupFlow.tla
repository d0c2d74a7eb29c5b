----------------------------- MODULE MCSetupFlow ----------------------------
(* Instances of Bootstrap.                                                 *)
EXTENDS Bootstrap, TLC

SessionSymmetry == Permutations(SessionId)
SetupSymmetry == SessionSymmetry \cup Permutations(Label)
ProfileSymmetry == SessionSymmetry \cup Permutations(Name) \cup Permutations(Device)
=============================================================================

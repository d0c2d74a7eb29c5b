---------------------------- MODULE MCV1Sessions -----------------------------
(* Instances of V1Sessions.                                                *)
EXTENDS V1Sessions, TLC

V1Symmetry ==
    Permutations(Account) \cup Permutations(Session) \cup Permutations(Key)
      \cup Permutations(Profile) \cup Permutations(Call)
=============================================================================

------------------------------ MODULE Bootstrap ------------------------------
(***************************************************************************)
(* What GET /v1/me/bootstrap derives from setup sessions, profile and      *)
(* claims: where the app goes next, how far setup has come, and which      *)
(* claims replies may use (internal/httpserver/hunch_api.go).              *)
(***************************************************************************)
EXTENDS SetupFlow

(* setup.next_step.                                                        *)
NextStep ==
    CASE profile.status = "not_started" /\ active = Nil -> "create_setup_session"
      [] profile.status = "not_started" /\ active # Nil -> "continue_setup"
      [] profile.status # "not_started" /\ NeedsReview # {} -> "review_memory"
      [] profile.status # "not_started" /\ NeedsReview = {} -> "start_conversation"

(* setupProgress and roundRatio: the share of answered steps in hundredths,*)
(* rounded half up.                                                        *)
Percent(s) == (200 * Cardinality(Answered(s)) + Cardinality(Step)) \div (2 * Cardinality(Step))

CompletionRatio ==
    CASE profile.status = "completed" -> 100
      [] profile.status # "completed" /\ active = Nil -> 0
      [] profile.status # "completed" /\ active # Nil -> Percent(active)

(* Claims held back until the user has reviewed them.                      *)
Usable == UsableClaims(profile.review)
Withheld == UsableClaims(FALSE) \ Usable

-----------------------------------------------------------------------------
(* Where bootstrap sends the app it can go on: setup continues in a        *)
(* session that takes answers, and is created where none is open.          *)
BootstrapLeadsOn ==
    /\ NextStep = "continue_setup" => InProgress(active)
    /\ NextStep = "create_setup_session" => \A s \in SessionId : ~InProgress(s)

(* A reply never uses a claim the user cannot see in the self model, and   *)
(* never leaves one out without bootstrap asking for its review.           *)
NothingBehindTheScenes ==
    /\ Usable \subseteq ShownByDefault
    /\ Withheld # {} => NextStep = "review_memory"

(* completion_ratio only falls when the user skips: repeated calls, late   *)
(* answers and new setups never set the app back.                          *)
ProgressLostBySkipOnly ==
    [][CompletionRatio' < CompletionRatio => \E s \in SessionId : SkipSetup(s)]_vars

(* A claim that was held back for review is used only after the user has   *)
(* reviewed that very claim or has completed another setup that asks for   *)
(* no review.                                                              *)
GateOpensKnowingly ==
    [][\A c \in ClaimId :
          c \in Withheld /\ c \in Usable' =>
             PatchClaim(c) \/ \E s \in SessionId, m \in BOOLEAN : CompleteSetup(s, m, FALSE)]_vars

-----------------------------------------------------------------------------
(* "If `review_before_use = true`, generated claims are stored with        *)
(* `review_state = unreviewed` and excluded from response personalization  *)
(* until confirmed."                                                       *)
WithheldUntilReviewed ==
    [][\A c \in ClaimId : c \in Withheld /\ c \in Usable' => PatchClaim(c)]_vars
=============================================================================

----------------------------- MODULE SelfModel ------------------------------
(***************************************************************************)
(* The self-model claims of one v1 account (internal/httpserver/           *)
(* hunch_api.go): statements about the user seeded from setup answers and  *)
(* reviewed one by one.                                                    *)
(*                                                                         *)
(* A setup session is completed at most once, so a claim is named after    *)
(* the session that seeded it, its field and the label it was seeded with. *)
(***************************************************************************)
CONSTANTS
    SessionId,  \* setup sessions
    Label,      \* claim texts, case folded
    Nil         \* nil, an empty string, an unanswered step

VARIABLE claims

Field == {"core_desires", "values"}
ClaimId == SessionId \X Field \X Label
ReviewState == {"unreviewed", "confirmed", "corrected", "rejected", "hidden"}

Claim == [label : Label, status : {"active", "retired"}, review : ReviewState]
ASSUME ClaimAssumption == Nil \notin Claim

NewClaim(label) == [label |-> label, status |-> "active", review |-> "unreviewed"]

ClaimsTypeOK == claims \in [ClaimId -> Claim \cup {Nil}]
ClaimsInit == claims = [c \in ClaimId |-> Nil]

Exists(c) == claims[c] # Nil
Active(c) == Exists(c) /\ claims[c].status = "active"

Same(c, d) == c[2] = d[2] /\ claims[c].label = claims[d].label

-----------------------------------------------------------------------------
AlreadyHeld_Unchecked(field, label) == FALSE

(* addClaimIfMissing looks at active claims only.                          *)
AlreadyHeld(field, label) == \E c \in ClaimId : Active(c) /\ c[2] = field /\ claims[c].label = label

SeedSelfModelClaims(seeds) ==
    claims' = [c \in ClaimId |->
                  IF c \in seeds /\ ~AlreadyHeld(c[2], c[3]) THEN NewClaim(c[3]) ELSE claims[c]]

(* handlePatchClaim.                                                       *)
Review(c, label, status, review) ==
    /\ Exists(c)
    /\ claims' = [claims EXCEPT ![c] = [label |-> label, status |-> status, review |-> review]]

Confirm(c) == Review(c, claims[c].label, "active", "confirmed")
Correct(c, label) == Review(c, label, "active", "corrected")
Reject_Deletes(c) == Exists(c) /\ claims' = [claims EXCEPT ![c] = Nil]

Reject(c) == Review(c, claims[c].label, "retired", "rejected")
Hide(c) == Review(c, claims[c].label, "active", "hidden")

PatchClaim(c) ==
    \/ Confirm(c)
    \/ \E label \in Label : Correct(c, label)
    \/ Reject(c)
    \/ Hide(c)

-----------------------------------------------------------------------------
(* What others are told of the claims.                                     *)
NeedsReview == {c \in ClaimId : Active(c) /\ claims[c].review = "unreviewed"}

(* handleGetSelfModel without include_hidden and filters.                  *)
ShownByDefault == {c \in ClaimId : Exists(c) /\ claims[c].review # "hidden"}

UsableClaims_HiddenToo(requireReviewed) ==
    {c \in ClaimId : Active(c) /\ (requireReviewed => claims[c].review # "unreviewed")}

(* activeUsableClaimIDs: the claims a reply may draw on.                   *)
UsableClaims(requireReviewed) ==
    {c \in ClaimId :
        /\ Active(c)
        /\ claims[c].review \notin {"hidden", "rejected"}
        /\ requireReviewed => claims[c].review \in {"confirmed", "corrected"}}
=============================================================================

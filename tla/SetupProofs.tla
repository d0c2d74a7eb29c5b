---------------------------- MODULE SetupProofs -----------------------------
(* What is proved about SetupFlow, and about what Bootstrap derives from   *)
(* it, for any number of setup sessions, names, labels and devices.        *)
EXTENDS Bootstrap, FiniteSetTheorems, TLAPS

-----------------------------------------------------------------------------
(* The setup part of the state: sessions, the active one, the status.      *)
FlowInv == ActiveIsOpen /\ FirstSetupIsUnique /\ AnswersInOrder /\ StatusFollowsSessions

SetupInv == TypeOK /\ FlowInv /\ EvidenceStands

(* A new account.                                                          *)
LEMMA SetupInvInit == Init => SetupInv
<1> SUFFICES ASSUME Init PROVE SetupInv
  OBVIOUS
<1> USE NilAssumption, LocaleAssumption, VersionAssumption DEF Init, ClaimsInit
<1>1. TypeOK
  BY DEF TypeOK, ClaimsTypeOK, AnswersTypeOK, ProfileTypeOK, SessionStatus, NoAnswers
<1>2. FlowInv
  BY DEF FlowInv, ActiveIsOpen, FirstSetupIsUnique, AnswersInOrder, StatusFollowsSessions,
         InProgress, Answered, NoAnswers
<1>3. EvidenceStands
  BY DEF EvidenceStands, Exists
<1> QED
  BY <1>1, <1>2, <1>3 DEF SetupInv

-----------------------------------------------------------------------------
(* Preserving the types.                                                   *)
LEMMA TypeStep == TypeOK /\ [Next]_vars => TypeOK'
<1> SUFFICES ASSUME TypeOK, [Next]_vars PROVE TypeOK'
  OBVIOUS
<1> USE NilAssumption, LocaleAssumption, VersionAssumption
    DEF TypeOK, sessions, SessionStatus
<1>1. ASSUME NEW locale \in Locale \cup {Nil}, CreateSetupSession(locale) PROVE TypeOK'
  <2> USE <1>1 DEF CreateSetupSession
  <2>1. ClaimsTypeOK' /\ AnswersTypeOK'
    BY DEF ClaimsTypeOK, AnswersTypeOK
  <2>2. ProfileTypeOK'
    BY DEF ProfileTypeOK, Given
  <2> QED
    BY <2>1, <2>2
<1>2. ASSUME NEW s \in SessionId, NEW step \in Step, SaveSetupAnswer(s, step) PROVE TypeOK'
  <2>1. PICK answer \in ValidAnswer(step) : answers' = [answers EXCEPT ![s][step] = answer]
    BY <1>2 DEF SaveSetupAnswer
  <2>2. AnswersTypeOK'
    <3>1. \A t \in SessionId, k \in Step :
             answers'[t][k] = IF t = s /\ k = step THEN answer ELSE answers[t][k]
      BY <2>1 DEF AnswersTypeOK
    <3>2. answers' = [t \in SessionId |-> [k \in Step |-> answers'[t][k]]]
      <4>1. DOMAIN answers = SessionId /\ DOMAIN answers[s] = Step
        BY DEF AnswersTypeOK
      <4>2. answers' = [t \in SessionId |->
                          IF t = s THEN [answers[s] EXCEPT ![step] = answer] ELSE answers[t]]
        BY <2>1, <4>1
      <4>3. \A t \in SessionId : answers[t] = [k \in Step |-> answers[t][k]]
        BY DEF AnswersTypeOK
      <4>4. \A t \in SessionId : answers'[t] = [k \in Step |-> answers'[t][k]]
        <5> SUFFICES ASSUME NEW t \in SessionId PROVE answers'[t] = [k \in Step |-> answers'[t][k]]
          OBVIOUS
        <5>1. CASE t = s
          <6>1. answers'[t] = [k \in Step |-> IF k = step THEN answer ELSE answers[s][k]]
            BY <4>1, <4>2, <5>1
          <6> QED
            BY <6>1
        <5>2. CASE t # s
          <6>1. answers'[t] = answers[t]
            BY <4>2, <5>2
          <6> QED
            BY <4>3, <6>1
        <5> QED
          BY <5>1, <5>2
      <4> QED
        BY <4>2, <4>4
    <3> QED
      BY <3>1, <3>2 DEF AnswersTypeOK
  <2>3. ClaimsTypeOK' /\ ProfileTypeOK'
    BY <1>2 DEF SaveSetupAnswer, ClaimsTypeOK, ProfileTypeOK
  <2> QED
    BY <1>2, <2>2, <2>3 DEF SaveSetupAnswer
<1>3. ASSUME NEW s \in SessionId, SkipSetup(s) PROVE TypeOK'
  <2> USE <1>3 DEF SkipSetup
  <2>1. ClaimsTypeOK' /\ AnswersTypeOK'
    BY DEF ClaimsTypeOK, AnswersTypeOK
  <2>2. profile.version + 1 \in 1..MaxVersion
    BY DEF ProfileTypeOK
  <2>3. ProfileTypeOK'
    BY <2>2 DEF ProfileTypeOK
  <2> QED
    BY <2>1, <2>3
<1>4. ASSUME NEW s \in SessionId, NEW m \in BOOLEAN, NEW r \in BOOLEAN, CompleteSetup(s, m, r)
      PROVE TypeOK'
  <2> USE <1>4 DEF CompleteSetup
  <2>1. AnswersTypeOK'
    BY DEF AnswersTypeOK
  <2>2. answers[s]["display_name"] \in Name
    BY DEF AnswersTypeOK, ValidAnswer, Answered, Step, Position
  <2>3. ProfileTypeOK'
    BY <2>2 DEF ProfileTypeOK, Given
  <2>4. ClaimsTypeOK'
    BY DEF ClaimsTypeOK, SeedSelfModelClaims, NewClaim, Claim, ReviewState, ClaimId
  <2> QED
    BY <2>1, <2>3, <2>4
<1>5. ASSUME NEW d \in Device, GetProfile(d) PROVE TypeOK'
  <2> USE <1>5 DEF GetProfile
  <2>1. ClaimsTypeOK' /\ AnswersTypeOK'
    BY DEF ClaimsTypeOK, AnswersTypeOK
  <2>2. ProfileTypeOK'
    BY DEF ProfileTypeOK, View, ProfileView
  <2> QED
    BY <2>1, <2>2
<1>6. ASSUME NEW d \in Device, PatchProfile(d) PROVE TypeOK'
  <2> USE <1>6 DEF PatchProfile
  <2>1. ClaimsTypeOK' /\ AnswersTypeOK'
    BY DEF ClaimsTypeOK, AnswersTypeOK
  <2>2. PICK name \in Name \cup {Nil}, locale \in Locale \cup {Nil}, memory \in BOOLEAN \cup {Nil} :
          profile' = [profile EXCEPT !.name = Given(name, @), !.locale = Given(locale, @),
                                     !.memory = Given(memory, @), !.version = @ + 1]
    OBVIOUS
  <2>3. View(profile') \in ProfileView
    BY <2>2 DEF ProfileTypeOK, View, ProfileView, Given
  <2>4. ProfileTypeOK'
    <3>1. profile.version + 1 \in 1..MaxVersion
      BY DEF ProfileTypeOK
    <3>2. /\ Given(name, profile.name) \in Name \cup {Nil}
          /\ Given(locale, profile.locale) \in Locale
          /\ Given(memory, profile.memory) \in BOOLEAN
      BY DEF ProfileTypeOK, Given
    <3>3. profile' \in [status : {"not_started", "skipped", "completed"}, version : 1..MaxVersion,
                        name : Name \cup {Nil}, locale : Locale, memory : BOOLEAN, review : BOOLEAN]
      BY <2>2, <3>1, <3>2 DEF ProfileTypeOK
    <3> QED
      BY <2>3, <3>3 DEF ProfileTypeOK
  <2> QED
    BY <2>1, <2>4
<1>7. ASSUME NEW c \in ClaimId, PatchClaim(c), UNCHANGED <<sessions, active, profile, seen>>
      PROVE TypeOK'
  <2>1. AnswersTypeOK' /\ ProfileTypeOK'
    BY <1>7 DEF AnswersTypeOK, ProfileTypeOK
  <2>2. ClaimsTypeOK'
    BY <1>7 DEF ClaimsTypeOK, PatchClaim, Confirm, Correct, Reject, Hide, Review, Exists,
                Claim, ReviewState
  <2> QED
    BY <1>7, <2>1, <2>2
<1>8. CASE UNCHANGED vars
  BY <1>8 DEF vars, ClaimsTypeOK, AnswersTypeOK, ProfileTypeOK
<1> QED
  BY <1>1, <1>2, <1>3, <1>4, <1>5, <1>6, <1>7, <1>8 DEF Next, Read

-----------------------------------------------------------------------------
(* Preserving the agreement of sessions, active session and status.        *)
LEMMA FlowStep == TypeOK /\ FlowInv /\ [Next]_vars => FlowInv'
<1> SUFFICES ASSUME TypeOK, FlowInv, [Next]_vars PROVE FlowInv'
  OBVIOUS
<1> USE NilAssumption
    DEF TypeOK, FlowInv, ActiveIsOpen, FirstSetupIsUnique, AnswersInOrder, StatusFollowsSessions,
        InProgress, Answered, SessionStatus, ProfileTypeOK, sessions
<1>1. ASSUME NEW locale \in Locale \cup {Nil}, CreateSetupSession(locale) PROVE FlowInv'
  BY <1>1 DEF CreateSetupSession
<1>2. ASSUME NEW s \in SessionId, NEW step \in Step, SaveSetupAnswer(s, step) PROVE FlowInv'
  <2>1. PICK answer \in ValidAnswer(step) : answers' = [answers EXCEPT ![s][step] = answer]
    BY <1>2 DEF SaveSetupAnswer
  <2>2. answer # Nil
    BY AnswerAssumption
  <2>3. \A t \in SessionId, k \in Step :
           answers'[t][k] = IF t = s /\ k = step THEN answer ELSE answers[t][k]
    BY <2>1 DEF AnswersTypeOK
  <2>4. /\ \A t \in SessionId \ {s} : Answered(t)' = Answered(t)
        /\ Answered(s)' = Answered(s) \cup {step}
    BY <2>2, <2>3
  <2>5. step \in Answered(s) \/ Earlier(step) \subseteq Answered(s)
    BY <1>2 DEF SaveSetupAnswer, CurrentSetupStep
  <2>6. AnswersInOrder'
    BY <1>2, <2>4, <2>5 DEF SaveSetupAnswer
  <2> QED
    BY <1>2, <2>6 DEF SaveSetupAnswer
<1>3. ASSUME NEW s \in SessionId, SkipSetup(s) PROVE FlowInv'
  BY <1>3 DEF SkipSetup
<1>4. ASSUME NEW s \in SessionId, NEW m \in BOOLEAN, NEW r \in BOOLEAN, CompleteSetup(s, m, r)
      PROVE FlowInv'
  BY <1>4 DEF CompleteSetup
<1>5. ASSUME NEW d \in Device, GetProfile(d) PROVE FlowInv'
  BY <1>5 DEF GetProfile
<1>6. ASSUME NEW d \in Device, PatchProfile(d) PROVE FlowInv'
  BY <1>6 DEF PatchProfile
<1>7. ASSUME NEW c \in ClaimId, PatchClaim(c), UNCHANGED <<sessions, active, profile, seen>>
      PROVE FlowInv'
  BY <1>7
<1>8. CASE UNCHANGED vars
  BY <1>8 DEF vars
<1> QED
  BY <1>1, <1>2, <1>3, <1>4, <1>5, <1>6, <1>7, <1>8 DEF Next, Read

(* Preserving the evidence of claims: only a session in progress takes     *)
(* answers, and claims come from sessions that are over.                   *)
LEMMA EvidenceStep == TypeOK /\ EvidenceStands /\ [Next]_vars => EvidenceStands'
<1> SUFFICES ASSUME TypeOK, EvidenceStands, [Next]_vars, NEW c \in ClaimId, Exists(c)'
             PROVE status'[c[1]] \in {"completed", "skipped"} /\ c \in Seeds(c[1])'
  BY DEF EvidenceStands
<1> c[1] \in SessionId
  BY DEF ClaimId
<1> USE DEF TypeOK, EvidenceStands, InProgress, Exists, sessions
<1>1. ASSUME NEW locale \in Locale \cup {Nil}, CreateSetupSession(locale)
      PROVE status'[c[1]] \in {"completed", "skipped"} /\ c \in Seeds(c[1])'
  BY <1>1 DEF CreateSetupSession, Seeds
<1>2. ASSUME NEW s \in SessionId, NEW step \in Step, SaveSetupAnswer(s, step)
      PROVE status'[c[1]] \in {"completed", "skipped"} /\ c \in Seeds(c[1])'
  <2>1. status[c[1]] \in {"completed", "skipped"} /\ c \in Seeds(c[1]) /\ UNCHANGED status
    BY <1>2 DEF SaveSetupAnswer
  <2>2. answers'[c[1]] = answers[c[1]]
    BY <1>2, <2>1 DEF SaveSetupAnswer, AnswersTypeOK
  <2> QED
    BY <2>1, <2>2 DEF Seeds
<1>3. ASSUME NEW s \in SessionId, SkipSetup(s)
      PROVE status'[c[1]] \in {"completed", "skipped"} /\ c \in Seeds(c[1])'
  BY <1>3 DEF SkipSetup, Seeds
<1>4. ASSUME NEW s \in SessionId, NEW m \in BOOLEAN, NEW r \in BOOLEAN, CompleteSetup(s, m, r)
      PROVE status'[c[1]] \in {"completed", "skipped"} /\ c \in Seeds(c[1])'
  <2>1. CASE Exists(c)
    BY <1>4, <2>1 DEF CompleteSetup, Seeds
  <2>2. CASE ~Exists(c)
    <3>1. c \in Seeds(s)
      BY <1>4, <2>2 DEF CompleteSetup, SeedSelfModelClaims
    <3>2. c[1] = s
      BY <3>1 DEF Seeds
    <3> QED
      BY <1>4, <3>1, <3>2 DEF CompleteSetup, Seeds
  <2> QED
    BY <2>1, <2>2
<1>5. ASSUME NEW d \in Device, GetProfile(d)
      PROVE status'[c[1]] \in {"completed", "skipped"} /\ c \in Seeds(c[1])'
  BY <1>5 DEF GetProfile, Seeds
<1>6. ASSUME NEW d \in Device, PatchProfile(d)
      PROVE status'[c[1]] \in {"completed", "skipped"} /\ c \in Seeds(c[1])'
  BY <1>6 DEF PatchProfile, Seeds
<1>7. ASSUME NEW d \in ClaimId, PatchClaim(d), UNCHANGED <<sessions, active, profile, seen>>
      PROVE status'[c[1]] \in {"completed", "skipped"} /\ c \in Seeds(c[1])'
  <2>1. Exists(c)
    BY <1>7 DEF PatchClaim, Confirm, Correct, Reject, Hide, Review, ClaimsTypeOK
  <2> QED
    BY <1>7, <2>1 DEF Seeds
<1>8. CASE UNCHANGED vars
  BY <1>8 DEF vars, Seeds
<1> QED
  BY <1>1, <1>2, <1>3, <1>4, <1>5, <1>6, <1>7, <1>8 DEF Next, Read

-----------------------------------------------------------------------------
(* One step preserves all of it.                                           *)
LEMMA SetupInvStep == SetupInv /\ [Next]_vars => SetupInv'
  BY TypeStep, FlowStep, EvidenceStep DEF SetupInv

(* Setup sessions, the active session, setup_status and the claims agree   *)
(* in every reachable state.                                               *)
THEOREM SetupInvariance == Spec => []SetupInv
<1>1. Init => SetupInv
  BY SetupInvInit
<1>2. SetupInv /\ [Next]_vars => SetupInv'
  BY SetupInvStep
<1> QED
  BY <1>1, <1>2, PTL DEF Spec

(* Every variable of setup, profile and claims keeps its type.             *)
THEOREM SetupTypeCorrect == Spec => []TypeOK
  BY SetupInvariance, PTL DEF SetupInv

(* A claim's evidence can no longer be changed and still says what the     *)
(* claim was seeded with.                                                  *)
THEOREM ClaimsKeepEvidence == Spec => []EvidenceStands
  BY SetupInvariance, PTL DEF SetupInv

(* The active session takes answers.                                       *)
THEOREM ActiveSessionIsOpen == Spec => []ActiveIsOpen
  BY SetupInvariance, PTL DEF SetupInv, FlowInv

(* Until a first setup is finished the active session is the only one that *)
(* takes answers, however often it was created.                            *)
THEOREM OneFirstSetup == Spec => []FirstSetupIsUnique
  BY SetupInvariance, PTL DEF SetupInv, FlowInv

(* Answers come in order and no setup is completed with a gap.             *)
THEOREM NoGapInAnswers == Spec => []AnswersInOrder
  BY SetupInvariance, PTL DEF SetupInv, FlowInv

(* setup_status is what the sessions say, however often devices skip and   *)
(* repeat.                                                                 *)
THEOREM SetupIsConsistent == Spec => []StatusFollowsSessions
  BY SetupInvariance, PTL DEF SetupInv, FlowInv

-----------------------------------------------------------------------------
(* Every step but a PATCH on the claim leaves an existing claim alone: a   *)
(* setup seeds its own claims, and it is completed once.                   *)
LEMMA ClaimStep ==
  ASSUME SetupInv, [Next]_vars, NEW c \in ClaimId, Exists(c), claims'[c] # claims[c]
  PROVE  PatchClaim(c)
<1> USE DEF SetupInv, TypeOK, ClaimsTypeOK, sessions
<1>1. ASSUME NEW s \in SessionId, NEW m \in BOOLEAN, NEW r \in BOOLEAN, CompleteSetup(s, m, r)
      PROVE FALSE
  <2>1. c \in Seeds(s)
    BY <1>1 DEF CompleteSetup, SeedSelfModelClaims
  <2>2. c[1] = s
    BY <2>1 DEF Seeds
  <2> QED
    BY <1>1, <2>2 DEF CompleteSetup, EvidenceStands, InProgress
<1>2. ASSUME NEW d \in ClaimId, PatchClaim(d) PROVE PatchClaim(c)
  <2>1. d = c
    BY <1>2 DEF PatchClaim, Confirm, Correct, Reject, Hide, Review
  <2> QED
    BY <1>2, <2>1
<1> QED
  BY <1>1, <1>2 DEF Next, Read, vars, CreateSetupSession, SaveSetupAnswer, SkipSetup, GetProfile,
                    PatchProfile

(* Only completing a setup makes claims, and only the ones it has the      *)
(* evidence for and the self model does not hold.                          *)
LEMMA SeedStep ==
  ASSUME SetupInv, [Next]_vars, NEW c \in ClaimId, ~Exists(c), Exists(c)'
  PROVE  /\ \E s \in SessionId :
               InProgress(s) /\ c \in Seeds(s) /\ SeedSelfModelClaims(Seeds(s))
         /\ ~AlreadyHeld(c[2], c[3])
         /\ claims'[c] = NewClaim(c[3])
<1> USE DEF SetupInv, TypeOK, ClaimsTypeOK, sessions, Exists
<1>1. ASSUME NEW s \in SessionId, NEW m \in BOOLEAN, NEW r \in BOOLEAN, CompleteSetup(s, m, r)
      PROVE InProgress(s) /\ SeedSelfModelClaims(Seeds(s))
  BY <1>1 DEF CompleteSetup
<1>2. ASSUME NEW d \in ClaimId, PatchClaim(d) PROVE FALSE
  BY <1>2 DEF PatchClaim, Confirm, Correct, Reject, Hide, Review
<1>3. PICK s \in SessionId : InProgress(s) /\ SeedSelfModelClaims(Seeds(s))
  BY <1>1, <1>2 DEF Next, Read, vars, CreateSetupSession, SaveSetupAnswer, SkipSetup, GetProfile,
                    PatchProfile
<1> QED
  BY <1>3 DEF SeedSelfModelClaims

(* What the user decided about a claim is changed by that user only, and   *)
(* the answers of a session become claims at most once, so that no repeat  *)
(* brings a rejected claim back.                                           *)
THEOREM ReviewsStand == Spec => ReviewStands
<1>1. ASSUME SetupInv, [Next]_vars, NEW c \in ClaimId, claims'[c] # claims[c], ~PatchClaim(c),
             NEW d \in ClaimId, Exists(d)
      PROVE  d[1] # c[1]
  <2>1. ~Exists(c) /\ claims'[c] # Nil
    BY <1>1, ClaimStep DEF Exists
  <2>2. PICK s \in SessionId : c \in Seeds(s) /\ InProgress(s)
    BY <1>1, <2>1, SeedStep DEF Exists
  <2>3. c[1] = s
    BY <2>2 DEF Seeds
  <2>4. status[d[1]] \in {"completed", "skipped"}
    BY <1>1 DEF SetupInv, EvidenceStands
  <2> QED
    BY <2>2, <2>3, <2>4 DEF InProgress
<1>2. SetupInv /\ [Next]_vars =>
         [\A c \in ClaimId : claims'[c] # claims[c] /\ ~PatchClaim(c) =>
             \A d \in ClaimId : Exists(d) => d[1] # c[1]]_vars
  BY <1>1
<1> QED
  BY <1>2, SetupInvariance, PTL DEF Spec, ReviewStands

(* However many setups are completed, none adds what the self model holds. *)
THEOREM NoDuplicateClaims == Spec => SetupAddsNoDuplicate
<1>1. ASSUME SetupInv, [Next]_vars, NEW c \in ClaimId, NEW d \in ClaimId,
             ~Exists(c), c # d, Active(c)', Active(d)'
      PROVE  ~Same(c, d)'
  <2> SUFFICES ASSUME Same(c, d)' PROVE FALSE
    OBVIOUS
  <2>1. PICK s \in SessionId : c \in Seeds(s) /\ SeedSelfModelClaims(Seeds(s))
    BY <1>1, SeedStep DEF Active
  <2>2. ~AlreadyHeld(c[2], c[3]) /\ claims'[c] = NewClaim(c[3])
    BY <1>1, SeedStep DEF Active
  <2>3. claims'[c].label = c[3] /\ c[2] = d[2] /\ claims'[d].label = c[3]
    BY <2>2 DEF NewClaim, Same
  <2>4. CASE claims'[d] = claims[d]
    BY <1>1, <2>2, <2>3, <2>4 DEF AlreadyHeld, Active, Exists
  <2>5. CASE claims'[d] # claims[d]
    <3>1. d \in Seeds(s) /\ claims'[d] = NewClaim(d[3])
      BY <2>1, <2>5 DEF SeedSelfModelClaims
    <3>2. d[3] = c[3]
      BY <2>3, <3>1 DEF NewClaim
    <3>3. c[1] = s /\ d[1] = s
      BY <2>1, <3>1 DEF Seeds
    <3> QED
      BY <1>1, <2>3, <3>2, <3>3 DEF ClaimId
  <2> QED
    BY <2>4, <2>5
<1>2. SetupInv /\ [Next]_vars =>
         [\A c, d \in ClaimId :
             ~Exists(c) /\ c # d /\ Active(c)' /\ Active(d)' => ~Same(c, d)']_vars
  BY <1>1
<1> QED
  BY <1>2, SetupInvariance, PTL DEF Spec, SetupAddsNoDuplicate

-----------------------------------------------------------------------------
(* Preferences and memory setting change only together with the version.   *)
LEMMA VersionStep ==
  TypeOK /\ VersionGuardsPreferences /\ [Next]_vars => VersionGuardsPreferences'
<1> SUFFICES ASSUME TypeOK, VersionGuardsPreferences, [Next]_vars
             PROVE VersionGuardsPreferences'
  OBVIOUS
<1> USE NilAssumption, VersionAssumption
    DEF TypeOK, VersionGuardsPreferences, ProfileTypeOK, ProfileView, View, sessions
<1>1. ASSUME NEW locale \in Locale \cup {Nil}, CreateSetupSession(locale)
      PROVE VersionGuardsPreferences'
  BY <1>1 DEF CreateSetupSession
<1>2. ASSUME NEW s \in SessionId, NEW step \in Step, SaveSetupAnswer(s, step)
      PROVE VersionGuardsPreferences'
  BY <1>2 DEF SaveSetupAnswer
<1>3. ASSUME NEW s \in SessionId, SkipSetup(s) PROVE VersionGuardsPreferences'
  BY <1>3 DEF SkipSetup
<1>4. ASSUME NEW s \in SessionId, NEW m \in BOOLEAN, NEW r \in BOOLEAN, CompleteSetup(s, m, r)
      PROVE VersionGuardsPreferences'
  BY <1>4 DEF CompleteSetup
<1>5. ASSUME NEW d \in Device, GetProfile(d) PROVE VersionGuardsPreferences'
  BY <1>5 DEF GetProfile
<1>6. ASSUME NEW d \in Device, PatchProfile(d) PROVE VersionGuardsPreferences'
  <2>1. seen' = [seen EXCEPT ![d] = View(profile')] /\ profile'.version = profile.version + 1
    BY <1>6 DEF PatchProfile
  <2>2. \A e \in Device \ {d} : seen'[e] = seen[e]
    BY <2>1
  <2>3. seen'[d] = View(profile')
    BY <2>1
  <2> QED
    BY <2>1, <2>2, <2>3
<1>7. ASSUME NEW c \in ClaimId, PatchClaim(c), UNCHANGED <<sessions, active, profile, seen>>
      PROVE VersionGuardsPreferences'
  BY <1>7
<1>8. CASE UNCHANGED vars
  BY <1>8 DEF vars
<1> QED
  BY <1>1, <1>2, <1>3, <1>4, <1>5, <1>6, <1>7, <1>8 DEF Next, Read

(* A PATCH whose version is current overwrites preferences its sender has  *)
(* seen.                                                                   *)
THEOREM NoLostPreferences == Spec => []VersionGuardsPreferences
<1>1. Init => VersionGuardsPreferences
  BY DEF Init, VersionGuardsPreferences
<1>2. SetupInv /\ VersionGuardsPreferences /\ [Next]_vars => VersionGuardsPreferences'
  BY VersionStep DEF SetupInv
<1> QED
  BY <1>1, <1>2, SetupInvariance, PTL DEF Spec

-----------------------------------------------------------------------------
(* A claim in the self model means that some setup is finished.            *)
LEMMA ClaimsNeedSetup ==
  ASSUME SetupInv, NEW c \in ClaimId, Exists(c) PROVE profile.status # "not_started"
  BY DEF SetupInv, FlowInv, StatusFollowsSessions, EvidenceStands, ClaimId

(* A withheld claim is an active one nobody has reviewed.                  *)
LEMMA WithheldNeedsReview == SetupInv => Withheld \subseteq NeedsReview /\ (Withheld # {} => profile.review)
  BY DEF SetupInv, TypeOK, ClaimsTypeOK, ProfileTypeOK, Withheld, Usable, UsableClaims, NeedsReview,
         Active, Exists, Claim, ReviewState

(* Where bootstrap sends the app it can go on.                             *)
THEOREM BootstrapNeverStrands == Spec => []BootstrapLeadsOn
<1>1. SetupInv => BootstrapLeadsOn
  <2> SUFFICES ASSUME SetupInv PROVE BootstrapLeadsOn
    OBVIOUS
  <2> USE NilAssumption DEF SetupInv, FlowInv
  <2>1. NextStep = "continue_setup" => active # Nil
    BY DEF NextStep, TypeOK, ProfileTypeOK
  <2>2. NextStep = "create_setup_session" => profile.status = "not_started" /\ active = Nil
    BY DEF NextStep, TypeOK, ProfileTypeOK
  <2>3. NextStep = "continue_setup" => InProgress(active)
    BY <2>1 DEF ActiveIsOpen
  <2>4. NextStep = "create_setup_session" => \A s \in SessionId : ~InProgress(s)
    BY <2>2 DEF FirstSetupIsUnique
  <2> QED
    BY <2>3, <2>4 DEF BootstrapLeadsOn
<1> QED
  BY <1>1, SetupInvariance, PTL

(* Replies use only what the self model shows, and what they leave out is  *)
(* up for review.                                                          *)
THEOREM RepliesAreTransparent == Spec => []NothingBehindTheScenes
<1>1. SetupInv => NothingBehindTheScenes
  <2> SUFFICES ASSUME SetupInv PROVE NothingBehindTheScenes
    OBVIOUS
  <2>1. Usable \subseteq ShownByDefault
    BY DEF Usable, UsableClaims, ShownByDefault, Active
  <2>2. ASSUME Withheld # {} PROVE NextStep = "review_memory"
    <3>1. NeedsReview # {}
      BY <2>2, WithheldNeedsReview
    <3>2. profile.status # "not_started"
      BY <3>1, ClaimsNeedSetup DEF NeedsReview, Active
    <3> QED
      BY <3>1, <3>2 DEF NextStep
  <2> QED
    BY <2>1, <2>2 DEF NothingBehindTheScenes
<1> QED
  BY <1>1, SetupInvariance, PTL

(* The review gate opens for one claim by its review, and for all of them  *)
(* by a setup that asks for no review only.                                *)
THEOREM GateOpensByUserOnly == Spec => GateOpensKnowingly
<1>1. ASSUME SetupInv, [Next]_vars, NEW c \in ClaimId, c \in Withheld, c \in Usable'
      PROVE  PatchClaim(c) \/ \E s \in SessionId, m \in BOOLEAN : CompleteSetup(s, m, FALSE)
  <2>1. Exists(c) /\ claims[c].review = "unreviewed" /\ profile.review = TRUE
    <3>1. c \in NeedsReview /\ profile.review
      BY <1>1, WithheldNeedsReview
    <3>2. profile.review \in BOOLEAN
      BY <1>1 DEF SetupInv, TypeOK, ProfileTypeOK
    <3> QED
      BY <3>1, <3>2 DEF NeedsReview, Active
  <2>2. CASE claims'[c] # claims[c]
    BY <1>1, <2>1, <2>2, ClaimStep
  <2>3. CASE claims'[c] = claims[c]
    <3>1. profile'.review # TRUE
      BY <1>1, <2>1, <2>3 DEF Usable, UsableClaims
    <3>2. PICK s \in SessionId, m \in BOOLEAN, r \in BOOLEAN : CompleteSetup(s, m, r)
      BY <1>1, <2>1, <3>1
      DEF SetupInv, TypeOK, ProfileTypeOK, Next, Read, vars, CreateSetupSession, SaveSetupAnswer,
          SkipSetup, GetProfile, PatchProfile
    <3>3. r = FALSE
      BY <3>1, <3>2 DEF CompleteSetup
    <3> QED
      BY <3>2, <3>3
  <2> QED
    BY <2>2, <2>3
<1>2. SetupInv /\ [Next]_vars =>
         [\A c \in ClaimId :
             c \in Withheld /\ c \in Usable' =>
                PatchClaim(c) \/ \E s \in SessionId, m \in BOOLEAN : CompleteSetup(s, m, FALSE)]_vars
  BY <1>1
<1> QED
  BY <1>2, SetupInvariance, PTL DEF Spec, GateOpensKnowingly
-----------------------------------------------------------------------------
(* Clients that skip a setup session only while it takes answers.          *)
SkipsOfOpenSessions == [][\A s \in SessionId : SkipSetup(s) => InProgress(s)]_vars

(* The pointer finds every session that takes answers.                     *)
OpenIsActive == \A s \in SessionId : InProgress(s) => s = active

(* Only a skip of a session that is over takes the pointer from one that   *)
(* still takes answers: sessions are created when the pointer finds none,  *)
(* and completed while they are the one it names.                          *)
LEMMA PointerStep ==
  ASSUME TypeOK, OpenIsActive, [Next]_vars, \A s \in SessionId : SkipSetup(s) => InProgress(s)
  PROVE  OpenIsActive'
<1> USE NilAssumption DEF TypeOK, OpenIsActive, InProgress, SessionStatus, sessions
<1>1. ASSUME NEW locale \in Locale \cup {Nil}, CreateSetupSession(locale) PROVE OpenIsActive'
  BY <1>1 DEF CreateSetupSession
<1>2. ASSUME NEW s \in SessionId, SkipSetup(s) PROVE OpenIsActive'
  BY <1>2 DEF SkipSetup
<1>3. ASSUME NEW s \in SessionId, NEW m \in BOOLEAN, NEW r \in BOOLEAN, CompleteSetup(s, m, r)
      PROVE  OpenIsActive'
  BY <1>3 DEF CompleteSetup
<1>4. ASSUME UNCHANGED <<status, active>> PROVE OpenIsActive'
  BY <1>4
<1>5. \/ UNCHANGED <<status, active>>
      \/ \E locale \in Locale \cup {Nil} : CreateSetupSession(locale)
      \/ \E s \in SessionId : SkipSetup(s)
      \/ \E s \in SessionId, m, r \in BOOLEAN : CompleteSetup(s, m, r)
  BY DEF Next, Read, vars, SaveSetupAnswer, GetProfile, PatchProfile
<1> QED
  BY <1>1, <1>2, <1>3, <1>4, <1>5

(* The duplicate sessions of finding 1 come from nothing but skips of      *)
(* sessions that are over: without them POST /setup/sessions never makes a *)
(* second open one, however calls of create, skip and complete follow each *)
(* other.                                                                  *)
THEOREM DuplicatesComeFromLateSkips == Spec /\ SkipsOfOpenSessions => [](OneOpenSession /\ OpenIsActive)
<1>1. Init => OpenIsActive
  BY DEF Init, OpenIsActive, InProgress
<1>2. /\ SetupInv /\ OpenIsActive /\ [Next]_vars
      /\ [\A s \in SessionId : SkipSetup(s) => InProgress(s)]_vars
      => OpenIsActive'
  <2> SUFFICES ASSUME SetupInv, OpenIsActive, [Next]_vars,
                      [\A s \in SessionId : SkipSetup(s) => InProgress(s)]_vars
               PROVE  OpenIsActive'
    OBVIOUS
  <2>1. CASE UNCHANGED vars
    BY <2>1 DEF vars, sessions, OpenIsActive, InProgress
  <2>2. CASE \A s \in SessionId : SkipSetup(s) => InProgress(s)
    BY <2>2, PointerStep DEF SetupInv
  <2> QED
    BY <2>1, <2>2
<1>3. OpenIsActive => OneOpenSession
  BY DEF OpenIsActive, OneOpenSession
<1> QED
  BY <1>1, <1>2, <1>3, SetupInvariance, PTL DEF Spec, SkipsOfOpenSessions

-----------------------------------------------------------------------------
(* Setups that all ask for review before use.                              *)
EverySetupAsksReview == [][\A s \in SessionId, m \in BOOLEAN : ~CompleteSetup(s, m, FALSE)]_vars

(* The gate of finding 2 is opened by a setup that asks for no review only:*)
(* where every setup asks for it, a claim held back is used only after its *)
(* own review, whatever is skipped, corrected or completed again.          *)
THEOREM GateHoldsIfAlwaysAsked == Spec /\ EverySetupAsksReview => WithheldUntilReviewed
<1>1. /\ [\A c \in ClaimId :
             c \in Withheld /\ c \in Usable' =>
                PatchClaim(c) \/ \E s \in SessionId, m \in BOOLEAN : CompleteSetup(s, m, FALSE)]_vars
      /\ [\A s \in SessionId, m \in BOOLEAN : ~CompleteSetup(s, m, FALSE)]_vars
      => [\A c \in ClaimId : c \in Withheld /\ c \in Usable' => PatchClaim(c)]_vars
  OBVIOUS
<1> QED
  BY <1>1, GateOpensByUserOnly, PTL DEF GateOpensKnowingly, EverySetupAsksReview, WithheldUntilReviewed

-----------------------------------------------------------------------------
(* Setup has six steps.                                                    *)
LEMMA StepCount == IsFiniteSet(Step) /\ Cardinality(Step) = 6
<1> DEFINE a == {} \cup {"display_name"}
           b == a \cup {"focus_areas"}
           c == b \cup {"current_context"}
           d == c \cup {"conversation_style"}
           e == d \cup {"values_and_boundaries"}
           f == e \cup {"memory_consent"}
<1>1. IsFiniteSet({}) /\ Cardinality({}) = 0
  BY FS_EmptySet
<1>2. IsFiniteSet(a) /\ Cardinality(a) = 1
  BY <1>1, FS_AddElement
<1>3. IsFiniteSet(b) /\ Cardinality(b) = 2
  <2>1. "focus_areas" \notin a
    OBVIOUS
  <2> HIDE DEF a
  <2> QED
    BY <1>2, <2>1, FS_AddElement
<1>4. IsFiniteSet(c) /\ Cardinality(c) = 3
  <2>1. "current_context" \notin b
    OBVIOUS
  <2> HIDE DEF b
  <2> QED
    BY <1>3, <2>1, FS_AddElement
<1>5. IsFiniteSet(d) /\ Cardinality(d) = 4
  <2>1. "conversation_style" \notin c
    OBVIOUS
  <2> HIDE DEF c
  <2> QED
    BY <1>4, <2>1, FS_AddElement
<1>6. IsFiniteSet(e) /\ Cardinality(e) = 5
  <2>1. "values_and_boundaries" \notin d
    OBVIOUS
  <2> HIDE DEF d
  <2> QED
    BY <1>5, <2>1, FS_AddElement
<1>7. IsFiniteSet(f) /\ Cardinality(f) = 6
  <2>1. "memory_consent" \notin e
    OBVIOUS
  <2> HIDE DEF e
  <2> QED
    BY <1>6, <2>1, FS_AddElement
<1>8. Step = f
  BY DEF Step, Position
<1> QED
  BY <1>7, <1>8

(* The progress of a setup grows with its answers, and ends at 100.        *)
LEMMA PercentGrows ==
  ASSUME NEW S \in SUBSET Step, NEW T \in SUBSET S
  PROVE  LET p(R) == (200 * Cardinality(R) + Cardinality(Step)) \div (2 * Cardinality(Step))
         IN  p(T) \in 0..100 /\ p(S) \in 0..100 /\ p(T) <= p(S)
<1>1. IsFiniteSet(S) /\ Cardinality(S) <= 6 /\ IsFiniteSet(T)
  BY StepCount, FS_Subset
<1>2. Cardinality(T) <= Cardinality(S)
  BY <1>1, FS_Subset
<1>3. Cardinality(S) \in Nat /\ Cardinality(T) \in Nat
  BY <1>1, FS_CardinalityType
<1>4. \A m, n \in Nat :
         m <= n /\ n <= 6 =>
            /\ (200 * m + 6) \div (2 * 6) \in 0..100
            /\ (200 * n + 6) \div (2 * 6) \in 0..100
            /\ (200 * m + 6) \div (2 * 6) <= (200 * n + 6) \div (2 * 6)
  OBVIOUS
<1> QED
  BY <1>1, <1>2, <1>3, <1>4, StepCount

(* Repeated calls, late answers and new setups never set the app back.     *)
THEOREM ProgressIsKept == Spec => ProgressLostBySkipOnly
<1>1. ASSUME SetupInv, [Next]_vars, \A s \in SessionId : ~SkipSetup(s)
      PROVE  ~(CompletionRatio' < CompletionRatio)
  <2> USE NilAssumption DEF SetupInv, TypeOK, ProfileTypeOK
  <2>1. \A s \in SessionId : Percent(s) \in 0..100
    BY PercentGrows DEF Percent, Answered
  <2>2. \A s \in SessionId : Percent(s)' \in 0..100
    BY PercentGrows DEF Percent, Answered
  <2>3. CompletionRatio \in 0..100
    BY <1>1, <2>1 DEF CompletionRatio
  <2>4. CASE profile'.status = "completed"
    <3>1. CompletionRatio' = 100
      BY <2>4 DEF CompletionRatio
    <3> QED
      BY <2>3, <3>1
  <2>5. CASE profile'.status # "completed"
    <3>1. profile.status # "completed"
      <4>1. ASSUME NEW locale \in Locale \cup {Nil}, CreateSetupSession(locale)
            PROVE  profile'.status = profile.status
        BY <1>1, <4>1 DEF CreateSetupSession
      <4>2. ASSUME NEW d \in Device, PatchProfile(d) PROVE profile'.status = profile.status
        BY <1>1, <4>2 DEF PatchProfile
      <4>3. ASSUME NEW s \in SessionId, NEW m \in BOOLEAN, NEW r \in BOOLEAN, CompleteSetup(s, m, r)
            PROVE  FALSE
        BY <2>5, <4>3 DEF CompleteSetup
      <4>4. profile'.status = profile.status
        BY <1>1, <4>1, <4>2, <4>3 DEF Next, Read, vars, SaveSetupAnswer, GetProfile, sessions
      <4> QED
        BY <2>5, <4>4
    <3>2. CASE active = Nil
      <4>1. CompletionRatio = 0
        BY <3>1, <3>2 DEF CompletionRatio
      <4>2. active' = Nil \/ active' \in SessionId
        BY <1>1, TypeStep
      <4>3. CompletionRatio' \in 0..100
        BY <2>2, <2>5, <4>2 DEF CompletionRatio
      <4> QED
        BY <4>1, <4>3
    <3>3. CASE active # Nil
      <4>1. active \in SessionId /\ InProgress(active)
        BY <1>1, <3>3 DEF FlowInv, ActiveIsOpen
      <4>2. active' = active /\ Answered(active) \subseteq Answered(active)'
        <5>1. ASSUME NEW s \in SessionId, NEW step \in Step, SaveSetupAnswer(s, step)
              PROVE  active' = active /\ Answered(active) \subseteq Answered(active)'
          <6>1. PICK answer \in ValidAnswer(step) : answers' = [answers EXCEPT ![s][step] = answer]
            BY <5>1 DEF SaveSetupAnswer
          <6>2. answer # Nil
            BY AnswerAssumption
          <6> QED
            BY <4>1, <5>1, <6>1, <6>2 DEF SaveSetupAnswer, Answered, AnswersTypeOK
        <5>2. ASSUME NEW s \in SessionId, NEW m \in BOOLEAN, NEW r \in BOOLEAN, CompleteSetup(s, m, r)
              PROVE  FALSE
          BY <2>5, <5>2 DEF CompleteSetup
        <5>3. ASSUME UNCHANGED <<active, answers>>
              PROVE  active' = active /\ Answered(active) \subseteq Answered(active)'
          BY <5>3 DEF Answered
        <5>4. \A locale \in Locale \cup {Nil} : ~CreateSetupSession(locale)
          BY <3>3, <4>1 DEF CreateSetupSession
        <5>5. \/ \E s \in SessionId, step \in Step : SaveSetupAnswer(s, step)
              \/ UNCHANGED <<active, answers>>
          <6>1. \A d \in Device : GetProfile(d) \/ PatchProfile(d) => UNCHANGED <<active, answers>>
            BY DEF GetProfile, PatchProfile, sessions
          <6> QED
            BY <1>1, <5>2, <5>4, <6>1 DEF Next, Read, vars, sessions
        <5> QED
          BY <5>1, <5>3, <5>5
      <4>3. Percent(active) <= Percent(active)' /\ Percent(active)' \in 0..100
        <5> DEFINE S == Answered(active)'
                   T == Answered(active)
        <5>1. S \in SUBSET Step /\ T \in SUBSET S
          BY <4>2 DEF Answered
        <5>2. active' = active
          BY <4>2
        <5> HIDE DEF S, T
        <5> QED
          BY <5>1, <5>2, PercentGrows DEF Percent, S, T
      <4>4. CompletionRatio = Percent(active)
        BY <3>1, <3>3 DEF CompletionRatio
      <4>5. CompletionRatio' = Percent(active)'
        BY <2>5, <3>3, <4>2 DEF CompletionRatio
      <4> QED
        BY <2>1, <4>1, <4>3, <4>4, <4>5
    <3> QED
      BY <3>2, <3>3
  <2> QED
    BY <2>4, <2>5
<1>2. SetupInv /\ [Next]_vars =>
         [CompletionRatio' < CompletionRatio => \E s \in SessionId : SkipSetup(s)]_vars
  BY <1>1
<1> QED
  BY <1>2, SetupInvariance, PTL DEF Spec, ProgressLostBySkipOnly
=============================================================================

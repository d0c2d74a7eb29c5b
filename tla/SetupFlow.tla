------------------------------ MODULE SetupFlow -----------------------------
(***************************************************************************)
(* Setup sessions and the profile of one v1 account (internal/httpserver/  *)
(* hunch_api.go).  Handlers run one after the other under hunchStore.mu;   *)
(* what interleaves is the calls of the user's devices, which repeat       *)
(* calls, hold old session ids and old versions of the profile.  A call    *)
(* that is refused changes nothing and is not a step.                      *)
(***************************************************************************)
EXTENDS Integers, FiniteSets, SelfModel

CONSTANTS
    Name,           \* display names; stands for the other preferences too
    Locale,         \* locale and timezone
    DefaultLocale,
    MaxValues,      \* longest list of values an answer may carry
    Device,         \* clients that read and patch the profile
    MaxVersion      \* bound of the version counter

ASSUME NilAssumption == Nil \notin SessionId \cup Label \cup Name \cup Locale \cup BOOLEAN
ASSUME LocaleAssumption == DefaultLocale \in Locale
ASSUME VersionAssumption == MaxValues \in Nat /\ MaxVersion \in Nat \ {0}

VARIABLES
    status,     \* setup session id -> its status
    context,    \* setup session id -> the locale of its client_context
    answers,    \* setup session id -> step -> answer
    active,     \* ActiveSetupSessionID
    profile,
    seen        \* device -> the profile as the device last got it

sessions == <<status, context, answers>>
vars == <<claims, sessions, active, profile, seen>>

-----------------------------------------------------------------------------
(* setupSteps: six required steps, in this order.                          *)
Position == [display_name |-> 1, focus_areas |-> 2, current_context |-> 3,
             conversation_style |-> 4, values_and_boundaries |-> 5, memory_consent |-> 6]
Step == DOMAIN Position

(* Answers validateSetupAnswer lets through.                               *)
ValidAnswer(step) ==
    CASE step = "display_name" -> Name
      [] step = "current_context" -> Label
      [] step = "values_and_boundaries" -> {v \in SUBSET Label : Cardinality(v) <= MaxValues}
      [] step = "memory_consent" -> BOOLEAN
      [] OTHER -> {"given"}

ASSUME AnswerAssumption == \A step \in Step : \A v \in ValidAnswer(step) : v # Nil

NoAnswers == [step \in Step |-> Nil]
Answered(s) == {step \in Step : answers[s][step] # Nil}
Earlier(step) == {k \in Step : Position[k] < Position[step]}

CurrentSetupStep_Any(s, step) == step \notin Answered(s)
CurrentSetupStep(s, step) == step \notin Answered(s) /\ Earlier(step) \subseteq Answered(s)

SessionStatus == {"absent", "in_progress", "skipped", "completed"}
InProgress(s) == status[s] = "in_progress"

(* What GET and PATCH /v1/me/profile return.                               *)
ProfileView == [version : 1..MaxVersion, name : Name \cup {Nil}, locale : Locale, memory : BOOLEAN]
View(p) == [version |-> p.version, name |-> p.name, locale |-> p.locale, memory |-> p.memory]

AnswersTypeOK ==
    /\ answers = [s \in SessionId |-> [step \in Step |-> answers[s][step]]]
    /\ \A s \in SessionId, step \in Step : answers[s][step] \in ValidAnswer(step) \cup {Nil}

ProfileTypeOK ==
    /\ profile \in [status : {"not_started", "skipped", "completed"}, version : 1..MaxVersion,
                    name : Name \cup {Nil}, locale : Locale, memory : BOOLEAN, review : BOOLEAN]
    /\ seen \in [Device -> ProfileView \cup {Nil}]

(* Every variable has its type, every answer is one its step allows.       *)
TypeOK ==
    /\ ClaimsTypeOK
    /\ status \in [SessionId -> SessionStatus]
    /\ context \in [SessionId -> Locale \cup {Nil}]
    /\ active \in SessionId \cup {Nil}
    /\ AnswersTypeOK
    /\ ProfileTypeOK

(* accountForSession.                                                      *)
Init ==
    /\ ClaimsInit
    /\ status = [s \in SessionId |-> "absent"]
    /\ context = [s \in SessionId |-> Nil]
    /\ answers = [s \in SessionId |-> NoAnswers]
    /\ active = Nil
    /\ profile = [status |-> "not_started", version |-> 1, name |-> Nil, locale |-> DefaultLocale,
                  memory |-> FALSE, review |-> FALSE]
    /\ seen = [d \in Device |-> Nil]

-----------------------------------------------------------------------------
Given(value, old) == IF value # Nil THEN value ELSE old

CreateSetupSession_Always(locale) ==
    /\ \E s \in SessionId :
          /\ status[s] = "absent"
          /\ status' = [status EXCEPT ![s] = "in_progress"]
          /\ context' = [context EXCEPT ![s] = locale]
          /\ active' = s
    /\ profile' = [profile EXCEPT !.locale = Given(locale, @)]
    /\ UNCHANGED <<claims, answers, seen>>

(* While the active session is in progress the answer is that session.     *)
CreateSetupSession(locale) ==
    /\ ~(active # Nil /\ InProgress(active))
    /\ \E s \in SessionId :
          /\ status[s] = "absent"
          /\ status' = [status EXCEPT ![s] = "in_progress"]
          /\ context' = [context EXCEPT ![s] = locale]
          /\ active' = s
    /\ profile' = [profile EXCEPT !.locale = Given(locale, @)]
    /\ UNCHANGED <<claims, answers, seen>>

SaveSetupAnswer_AnyStatus(s, step) ==
    /\ status[s] # "absent"
    /\ step \in Answered(s) \/ CurrentSetupStep(s, step)
    /\ \E answer \in ValidAnswer(step) : answers' = [answers EXCEPT ![s][step] = answer]
    /\ UNCHANGED <<claims, status, context, active, profile, seen>>

SaveSetupAnswer(s, step) ==
    /\ InProgress(s)
    /\ step \in Answered(s) \/ CurrentSetupStep(s, step)
    /\ \E answer \in ValidAnswer(step) : answers' = [answers EXCEPT ![s][step] = answer]
    /\ UNCHANGED <<claims, status, context, active, profile, seen>>

SkipSetup_KeepsActive(s) ==
    /\ status[s] # "absent"
    /\ profile.version < MaxVersion
    /\ status' = [status EXCEPT ![s] = "skipped"]
    /\ profile' = [profile EXCEPT !.status = "skipped", !.version = @ + 1]
    /\ UNCHANGED <<claims, context, answers, active, seen>>

SkipSetup_ResetsReview(s) ==
    /\ status[s] # "absent"
    /\ profile.version < MaxVersion
    /\ status' = [status EXCEPT ![s] = "skipped"]
    /\ active' = Nil
    /\ profile' = [profile EXCEPT !.status = "skipped", !.version = @ + 1, !.review = FALSE]
    /\ UNCHANGED <<claims, context, answers, seen>>

SkipSetup_KeepsProfile(s) ==
    /\ status[s] # "absent"
    /\ status' = [status EXCEPT ![s] = "skipped"]
    /\ active' = Nil
    /\ UNCHANGED <<claims, context, answers, profile, seen>>

(* Whatever the session's status.                                          *)
SkipSetup(s) ==
    /\ status[s] # "absent"
    /\ profile.version < MaxVersion
    /\ status' = [status EXCEPT ![s] = "skipped"]
    /\ active' = Nil
    /\ profile' = [profile EXCEPT !.status = "skipped", !.version = @ + 1]
    /\ UNCHANGED <<claims, context, answers, seen>>

(* seedSelfModelClaims: one claim for the context, one for each value.     *)
Seeds(s) ==
    {<<s, "core_desires", answers[s]["current_context"]>>}
      \cup {<<s, "values", v>> : v \in answers[s]["values_and_boundaries"]}

CompleteSetup_Repeatable(s, memoryOptIn, reviewBeforeUse) ==
    /\ Answered(s) = Step
    /\ profile.version < MaxVersion
    /\ status' = [status EXCEPT ![s] = "completed"]
    /\ active' = Nil
    /\ profile' = [profile EXCEPT !.status = "completed", !.version = @ + 1]
    /\ IF memoryOptIn THEN SeedSelfModelClaims(Seeds(s)) ELSE UNCHANGED claims
    /\ UNCHANGED <<context, answers, seen>>

(* A completed session is returned as it is.                               *)
CompleteSetup(s, memoryOptIn, reviewBeforeUse) ==
    /\ InProgress(s)
    /\ Answered(s) = Step
    /\ profile.version < MaxVersion
    /\ status' = [status EXCEPT ![s] = "completed"]
    /\ active' = Nil
    /\ profile' = [status |-> "completed",
                   version |-> profile.version + 1,
                   name |-> answers[s]["display_name"],
                   locale |-> Given(context[s], profile.locale),
                   memory |-> memoryOptIn,
                   review |-> reviewBeforeUse]
    /\ IF memoryOptIn THEN SeedSelfModelClaims(Seeds(s)) ELSE UNCHANGED claims
    /\ UNCHANGED <<context, answers, seen>>

GetProfile(d) ==
    /\ seen' = [seen EXCEPT ![d] = View(profile)]
    /\ UNCHANGED <<claims, sessions, active, profile>>

PatchProfile_VersionKept(d) ==
    /\ seen[d] # Nil
    /\ seen[d].version = profile.version
    /\ \E name \in Name \cup {Nil} : profile' = [profile EXCEPT !.name = Given(name, @)]
    /\ seen' = [seen EXCEPT ![d] = View(profile')]
    /\ UNCHANGED <<claims, sessions, active>>

(* The request carries the version last seen; absent fields are Nil.       *)
PatchProfile(d) ==
    /\ seen[d] # Nil
    /\ seen[d].version = profile.version
    /\ profile.version < MaxVersion
    /\ \E name \in Name \cup {Nil}, locale \in Locale \cup {Nil}, memory \in BOOLEAN \cup {Nil} :
          profile' = [profile EXCEPT !.name = Given(name, @), !.locale = Given(locale, @),
                                     !.memory = Given(memory, @), !.version = @ + 1]
    /\ seen' = [seen EXCEPT ![d] = View(profile')]
    /\ UNCHANGED <<claims, sessions, active>>

(* GET bootstrap, setup session and self model.                            *)
Read == UNCHANGED vars

Next ==
    \/ Read
    \/ \E locale \in Locale \cup {Nil} : CreateSetupSession(locale)
    \/ \E s \in SessionId, step \in Step : SaveSetupAnswer(s, step)
    \/ \E s \in SessionId : SkipSetup(s)
    \/ \E s \in SessionId, m, r \in BOOLEAN : CompleteSetup(s, m, r)
    \/ \E d \in Device : GetProfile(d) \/ PatchProfile(d)
    \/ \E c \in ClaimId : PatchClaim(c) /\ UNCHANGED <<sessions, active, profile, seen>>

Spec == Init /\ [][Next]_vars

-----------------------------------------------------------------------------
(* ActiveSetupSessionID never names a session that is over, so POST        *)
(* /setup/sessions and bootstrap's continue_setup lead to one that still   *)
(* takes answers.                                                          *)
ActiveIsOpen == active # Nil => InProgress(active)

(* Until some setup is finished there is no second session: however often  *)
(* devices create one, they get the session bootstrap names.               *)
FirstSetupIsUnique ==
    profile.status = "not_started" => \A s \in SessionId : InProgress(s) => s = active

(* Answers are given in order, also when devices replace earlier ones, and *)
(* a completed session has them all.                                       *)
AnswersInOrder ==
    \A s \in SessionId :
        /\ \A step \in Answered(s) : Earlier(step) \subseteq Answered(s)
        /\ status[s] = "completed" => Answered(s) = Step

(* setup_status follows the sessions: a profile says completed only while  *)
(* a session still is, and not_started only while none was finished.       *)
StatusFollowsSessions ==
    /\ profile.status = "completed" => \E s \in SessionId : status[s] = "completed"
    /\ profile.status = "skipped" => \E s \in SessionId : status[s] = "skipped"
    /\ profile.status = "not_started" =>
          \A s \in SessionId : status[s] \in {"absent", "in_progress"}

(* Claims stay backed by evidence: the answer a claim cites still says     *)
(* what the claim was seeded with and can no longer be replaced, although  *)
(* replacing an answer keeps its id.                                       *)
EvidenceStands ==
    \A c \in ClaimId :
        Exists(c) =>
            /\ status[c[1]] \in {"completed", "skipped"}
            /\ c \in Seeds(c[1])

(* Optimistic locking: a device whose version is the current one has seen  *)
(* the preferences and the memory setting it is about to overwrite.        *)
VersionGuardsPreferences ==
    \A d \in Device :
        seen[d] # Nil =>
            /\ seen[d].version <= profile.version
            /\ seen[d].version = profile.version =>
                  seen[d].name = profile.name /\ seen[d].memory = profile.memory

(* Claims change by PATCH on that very claim.  All else that may happen to *)
(* them is that the first completion of a session adds claims: no late or  *)
(* repeated call turns answers into claims again, so that what the user    *)
(* rejected or corrected does not come back from the same evidence.        *)
ReviewStands ==
    [][\A c \in ClaimId :
          claims'[c] # claims[c] /\ ~PatchClaim(c) =>
             \A d \in ClaimId : Exists(d) => d[1] # c[1]]_vars

(* Completing a setup, however many were completed before, never leaves a  *)
(* second active claim with the same field and label.                      *)
SetupAddsNoDuplicate ==
    [][\A c, d \in ClaimId :
          ~Exists(c) /\ c # d /\ Active(c)' /\ Active(d)' => ~Same(c, d)']_vars

-----------------------------------------------------------------------------
(* "If an active setup session exists, return 200 with the existing        *)
(* session instead of creating a duplicate."                               *)
OneOpenSession == \A s, t \in SessionId : InProgress(s) /\ InProgress(t) => s = t
=============================================================================

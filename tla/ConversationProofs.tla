------------------------- MODULE ConversationProofs -------------------------
(* What is proved about Conversation for any number of conversations,      *)
(* messages, setup sessions and seconds.                                   *)
EXTENDS Conversation, SetupProofs

-----------------------------------------------------------------------------
(* LastMessageAt is the newest message, a second after its question.       *)
LastIsAnswered ==
    \A c \in talks :
        LET m == messages[c] IN Len(m) >= 2 => last[c] = m[Len(m) - 1].at + 1

(* What replies cite exists.                                               *)
CitedExist ==
    \A c \in talks : \A i \in DOMAIN messages[c] : \A k \in messages[c][i].cites : Exists(k)

TalkTypes ==
    /\ talks \subseteq ConversationId
    /\ messages \in [ConversationId -> Seq(Message)]
    /\ \A c \in ConversationId \ talks : messages[c] = <<>>
    /\ last \in [ConversationId -> Moment]
    /\ \A f \in feedback : f[1] \in talks /\ f[2] \in DOMAIN messages[f[1]]
    /\ now \in Time

OrderInv == TurnsAreWhole /\ TimesWithinASecond /\ LastIsAnswered

TalkInv == SetupInv /\ TalkTypes /\ OrderInv /\ CitedExist

(* No conversations yet.                                                   *)
LEMMA TalkInvInit == TalkInit => TalkInv
<1> SUFFICES ASSUME TalkInit PROVE TalkInv
  OBVIOUS
<1> USE TalkAssumption DEF TalkInit
<1>1. SetupInv
  BY SetupInvInit
<1>2. TalkTypes
  BY DEF TalkTypes, Time, Moment
<1>3. OrderInv /\ CitedExist
  BY DEF OrderInv, TurnsAreWhole, TimesWithinASecond, LastIsAnswered, CitedExist
<1> QED
  BY <1>1, <1>2, <1>3 DEF TalkInv

-----------------------------------------------------------------------------
(* The messages a turn leaves.                                             *)
LEMMA TurnMessages ==
  ASSUME TalkInv, NEW c \in ConversationId, Turn(c)
  PROVE  LET m == messages[c]
             n == messages'[c]
         IN  /\ m \in Seq(Message) /\ n \in Seq(Message)
             /\ Len(m) \in Nat /\ Len(n) = Len(m) + 2
             /\ \A i \in 1..Len(m) : n[i] = m[i]
             /\ n[Len(m) + 1] = UserMessage
             /\ n[Len(m) + 2] = AssistantMessage
             /\ \A d \in ConversationId \ {c} : messages'[d] = messages[d]
<1> DEFINE m == messages[c]
<1>1. m \in Seq(Message) /\ now \in Time
  BY DEF TalkInv, TalkTypes
<1>2. UserMessage \in Message /\ AssistantMessage \in Message
  BY <1>1, TalkAssumption
  DEF UserMessage, AssistantMessage, Message, Moment, Time, Usable, UsableClaims
<1>3. messages' = [messages EXCEPT ![c] = m \o <<UserMessage, AssistantMessage>>]
  BY DEF Turn
<1>4. messages'[c] = m \o <<UserMessage, AssistantMessage>>
  BY <1>3 DEF TalkInv, TalkTypes
<1>5. \A d \in ConversationId \ {c} : messages'[d] = messages[d]
  BY <1>3 DEF TalkInv, TalkTypes
<1> HIDE DEF m
<1>6. /\ m \o <<UserMessage, AssistantMessage>> \in Seq(Message)
      /\ Len(m \o <<UserMessage, AssistantMessage>>) = Len(m) + 2
      /\ Len(m) \in Nat
      /\ \A i \in 1..Len(m) : (m \o <<UserMessage, AssistantMessage>>)[i] = m[i]
      /\ (m \o <<UserMessage, AssistantMessage>>)[Len(m) + 1] = UserMessage
      /\ (m \o <<UserMessage, AssistantMessage>>)[Len(m) + 2] = AssistantMessage
  BY <1>1, <1>2
<1> QED
  BY <1>1, <1>4, <1>5, <1>6 DEF m
(* A turn keeps messages whole and times within a second.                  *)
LEMMA TurnKeepsOrder == ASSUME TalkInv, NEW c \in ConversationId, Turn(c) PROVE OrderInv'
<1> DEFINE m == messages[c]
           n == messages'[c]
<1>1. /\ Len(m) \in Nat /\ Len(n) = Len(m) + 2
      /\ m \in Seq(Message) /\ n \in Seq(Message)
      /\ \A i \in 1..Len(m) : n[i] = m[i]
      /\ n[Len(m) + 1] = UserMessage
      /\ n[Len(m) + 2] = AssistantMessage
  BY TurnMessages
<1>2. \A d \in ConversationId \ {c} : messages'[d] = messages[d]
  BY TurnMessages
<1>3. /\ c \in talks /\ talks' = talks /\ now' = now /\ now \in Nat
      /\ last' = [last EXCEPT ![c] = now + 1]
      /\ talks \subseteq ConversationId
  BY TalkAssumption DEF Turn, TalkInv, TalkTypes, Time
<1>4. /\ last'[c] = now + 1
      /\ \A d \in ConversationId \ {c} : last'[d] = last[d]
  BY <1>3 DEF TalkInv, TalkTypes
<1>5. /\ UserMessage.role = "user" /\ UserMessage.at = now
      /\ AssistantMessage.role = "assistant" /\ AssistantMessage.at = now + 1
  BY DEF UserMessage, AssistantMessage
<1>6. /\ DOMAIN m = 1..Len(m) /\ DOMAIN n = 1..Len(n)
      /\ \A i \in 1..Len(m) : m[i].at \in Nat /\ m[i].role \in {"user", "assistant"}
  <2>1. DOMAIN m = 1..Len(m) /\ DOMAIN n = 1..Len(n) /\ \A i \in 1..Len(m) : m[i] \in Message
    BY <1>1
  <2>2. \A x \in Message : x.at \in Moment /\ x.role \in {"user", "assistant"}
    BY DEF Message
  <2>3. Moment \subseteq Nat
    BY TalkAssumption DEF Moment
  <2> HIDE DEF m, n
  <2> QED
    BY <2>1, <2>2, <2>3
<1>7. last[c] \in Nat /\ last[c] <= now + 1 /\ \A i \in 1..Len(m) : m[i].at <= last[c]
  <2>1. last[c] \in Nat
    BY <1>3, TalkAssumption DEF TalkInv, TalkTypes, Moment
  <2>2. last[c] <= now + 1 /\ \A i \in DOMAIN m : m[i].at <= last[c]
    BY <1>3 DEF TalkInv, OrderInv, TimesWithinASecond
  <2> QED
    BY <1>6, <2>1, <2>2
<1>8. \A i \in 1..Len(m) : \A j \in i..Len(m) : m[i].at <= m[j].at + 1
  BY <1>3, <1>6 DEF TalkInv, OrderInv, TimesWithinASecond
<1>9. \A i \in 1..Len(m) :
         /\ m[i].role = "assistant" =>
               i > 1 /\ m[i - 1].role = "user" /\ m[i].at = m[i - 1].at + 1
         /\ m[i].role = "user" /\ i > 1 => i < Len(m) /\ m[i + 1].role = "assistant"
  BY <1>3, <1>6 DEF TalkInv, OrderInv, TurnsAreWhole
<1> HIDE DEF m, n
<1>10. \A i \in DOMAIN n : i \in 1..Len(m) \/ i = Len(m) + 1 \/ i = Len(m) + 2
  BY <1>1, <1>6
<1>11. \A i \in DOMAIN n :
          /\ n[i].role = "assistant" =>
                i > 1 /\ n[i - 1].role = "user" /\ n[i].at = n[i - 1].at + 1
          /\ n[i].role = "user" /\ i > 1 => i < Len(n) /\ n[i + 1].role = "assistant"
  <2> SUFFICES ASSUME NEW i \in DOMAIN n
      PROVE /\ n[i].role = "assistant" =>
                  i > 1 /\ n[i - 1].role = "user" /\ n[i].at = n[i - 1].at + 1
            /\ n[i].role = "user" /\ i > 1 => i < Len(n) /\ n[i + 1].role = "assistant"
    OBVIOUS
  <2>1. CASE i \in 1..Len(m)
    <3>1. n[i] = m[i] /\ i \in Nat /\ i <= Len(m)
      BY <1>1, <2>1
    <3>2. i > 1 => n[i - 1] = m[i - 1]
      BY <1>1, <2>1
    <3>3. i < Len(m) => n[i + 1] = m[i + 1]
      BY <1>1, <2>1
    <3> QED
      BY <1>1, <1>9, <2>1, <3>1, <3>2, <3>3
  <2>2. CASE i = Len(m) + 1
    <3>1. n[i].role = "user" /\ n[i + 1].role = "assistant" /\ i < Len(n)
      BY <1>1, <1>5, <2>2
    <3> QED
      BY <3>1
  <2>3. CASE i = Len(m) + 2
    <3>1. n[i].role = "assistant" /\ i > 1 /\ n[i].at = now + 1
      BY <1>1, <1>5, <2>3
    <3>2. n[i - 1].role = "user" /\ n[i - 1].at = now
      BY <1>1, <1>5, <2>3
    <3> QED
      BY <3>1, <3>2
  <2> QED
    BY <1>10, <2>1, <2>2, <2>3
<1>12. \A i \in DOMAIN n :
          n[i].at <= now + 1 /\ \A j \in i..Len(n) : n[i].at <= n[j].at + 1
  <2> SUFFICES ASSUME NEW i \in DOMAIN n
               PROVE  n[i].at <= now + 1 /\ \A j \in i..Len(n) : n[i].at <= n[j].at + 1
    OBVIOUS
  <2>1. n[i].at \in Nat /\ n[i].at <= now + 1
    <3>1. CASE i \in 1..Len(m)
      <4>1. n[i] = m[i] /\ m[i].at \in Nat /\ m[i].at <= last[c]
        BY <1>1, <1>6, <1>7, <3>1
      <4> QED
        BY <1>3, <1>7, <4>1
    <3>2. CASE i = Len(m) + 1
      BY <1>1, <1>3, <1>5, <3>2
    <3>3. CASE i = Len(m) + 2
      BY <1>1, <1>3, <1>5, <3>3
    <3> QED
      BY <1>10, <3>1, <3>2, <3>3
  <2>2. ASSUME NEW j \in i..Len(n) PROVE n[i].at <= n[j].at + 1
    <3>1. j \in DOMAIN n
      BY <1>1, <1>6
    <3>2. CASE j \in 1..Len(m)
      <4>1. i \in 1..Len(m) /\ j \in i..Len(m)
        BY <1>1, <1>6, <3>2
      <4> QED
        BY <1>1, <1>8, <4>1
    <3>3. CASE j = Len(m) + 1
      BY <1>1, <1>3, <1>5, <2>1, <3>3
    <3>4. CASE j = Len(m) + 2
      BY <1>1, <1>3, <1>5, <2>1, <3>4
    <3> QED
      BY <1>10, <3>1, <3>2, <3>3, <3>4
  <2> QED
    BY <2>1, <2>2
<1>13. Len(n) >= 2 => now + 1 = n[Len(n) - 1].at + 1
  BY <1>1, <1>3, <1>5
<1>14. TurnsAreWhole'
  BY <1>2, <1>3, <1>11 DEF TurnsAreWhole, n, TalkInv, OrderInv
<1>15. TimesWithinASecond'
  BY <1>2, <1>3, <1>4, <1>12 DEF TimesWithinASecond, n, TalkInv, OrderInv
<1>16. LastIsAnswered'
  BY <1>2, <1>3, <1>4, <1>13 DEF LastIsAnswered, n, TalkInv, OrderInv
<1> QED
  BY <1>14, <1>15, <1>16 DEF OrderInv
-----------------------------------------------------------------------------
(* A conversation just created has at most one message, the user's.        *)
LEMMA CreateKeeps == ASSUME TalkInv, NEW c \in ConversationId, CreateConversation(c) PROVE TalkTypes' /\ OrderInv'
<1> USE TalkAssumption DEF Time, Moment
<1>1. c \notin talks /\ talks' = talks \cup {c} /\ now' = now /\ last' = [last EXCEPT ![c] = now]
  BY DEF CreateConversation
<1>2. now \in Nat /\ now <= MaxTime
  BY DEF TalkInv, TalkTypes
<1>3. \A d \in talks : messages'[d] = messages[d] /\ last'[d] = last[d]
  BY <1>1 DEF CreateConversation, TalkInv, TalkTypes
<1>4. last'[c] = now /\ last' \in [ConversationId -> Moment]
  BY <1>1, <1>2 DEF TalkInv, TalkTypes
<1>5. UserMessage \in Message
  BY <1>2 DEF UserMessage, Message
<1>6. messages' = messages \/ messages' = [messages EXCEPT ![c] = <<UserMessage>>]
  BY DEF CreateConversation
<1>7. messages'[c] = <<>> \/ messages'[c] = <<UserMessage>>
  BY <1>1, <1>6 DEF TalkInv, TalkTypes
<1>8. messages' \in [ConversationId -> Seq(Message)]
  <2>1. <<UserMessage>> \in Seq(Message)
    BY <1>5
  <2> QED
    BY <1>6, <2>1 DEF TalkInv, TalkTypes
<1>9. TalkTypes'
  <2>1. feedback' = feedback /\ now' = now
    BY DEF CreateConversation
  <2>2. \A d \in ConversationId \ talks' : messages'[d] = <<>>
    BY <1>1, <1>6 DEF TalkInv, TalkTypes
  <2>3. \A f \in feedback' : f[1] \in talks' /\ f[2] \in DOMAIN messages'[f[1]]
    BY <1>1, <1>3, <2>1 DEF TalkInv, TalkTypes
  <2> QED
    BY <1>1, <1>4, <1>8, <2>1, <2>2, <2>3 DEF TalkInv, TalkTypes
<1>10. UserMessage.role = "user" /\ UserMessage.at = now
  BY DEF UserMessage
<1>11. TurnsAreWhole'
  <2>1. \A i \in DOMAIN messages'[c] : i = 1 /\ messages'[c][i].role = "user"
    BY <1>7, <1>10
  <2> QED
    BY <1>1, <1>3, <2>1 DEF TurnsAreWhole, TalkInv, OrderInv
<1>12. Len(messages'[c]) \in {0, 1} /\ DOMAIN messages'[c] = 1..Len(messages'[c])
  <2>1. CASE messages'[c] = <<>>
    BY <2>1
  <2>2. CASE messages'[c] = <<UserMessage>>
    BY <2>2
  <2> QED
    BY <1>7, <2>1, <2>2
<1>13. TimesWithinASecond'
  <2>1. \A i \in DOMAIN messages'[c] : i = 1 /\ messages'[c][i].at = now
    BY <1>7, <1>10
  <2>2. \A i \in DOMAIN messages'[c] :
           /\ messages'[c][i].at <= last'[c]
           /\ \A j \in i..Len(messages'[c]) : messages'[c][i].at <= messages'[c][j].at + 1
    <3>1. \A i \in DOMAIN messages'[c] : \A j \in i..Len(messages'[c]) : j \in DOMAIN messages'[c]
      BY <1>12
    <3> QED
      BY <1>2, <1>4, <2>1, <3>1
  <2> QED
    BY <1>1, <1>2, <1>3, <1>4, <2>2 DEF TimesWithinASecond, TalkInv, OrderInv
<1>14. LastIsAnswered'
  <2>1. ASSUME NEW n \in {0, 1} PROVE ~(n >= 2)
    OBVIOUS
  <2>2. ~(Len(messages'[c]) >= 2)
    BY <1>12, <2>1
  <2> QED
    BY <1>1, <1>3, <2>2 DEF LastIsAnswered, TalkInv, OrderInv
<1> QED
  BY <1>9, <1>11, <1>13, <1>14 DEF OrderInv

(* The order of messages is nobody else's business.                        *)
LEMMA OthersKeepOrder ==
  ASSUME TalkInv, UNCHANGED <<talks, messages, last>>, now' = now \/ now' = now + 1
  PROVE  OrderInv'
<1>1. TurnsAreWhole' /\ LastIsAnswered'
  BY DEF TalkInv, OrderInv, TurnsAreWhole, LastIsAnswered
<1>2. \A c \in talks : last[c] <= now' + 1
  <2>1. now \in Nat /\ \A c \in talks : last[c] \in Nat
    BY TalkAssumption DEF TalkInv, TalkTypes, Time, Moment
  <2>2. \A c \in talks : last[c] <= now + 1
    BY DEF TalkInv, OrderInv, TimesWithinASecond
  <2> QED
    BY <2>1, <2>2
<1>3. TimesWithinASecond'
  BY <1>2 DEF TalkInv, OrderInv, TimesWithinASecond
<1> QED
  BY <1>1, <1>3 DEF OrderInv

-----------------------------------------------------------------------------
(* The setup goes its way under conversations.                             *)
LEMMA SetupGoesOn == SetupInv /\ [TalkNext]_allVars => [Next]_vars
  BY DEF TalkNext, allVars, CreateConversation, Turn, GiveFeedback, Tick

(* Claims do not vanish.                                                   *)
LEMMA ClaimsRemain == ASSUME SetupInv, [Next]_vars, NEW k \in ClaimId, Exists(k) PROVE Exists(k)'
<1>1. CASE claims'[k] = claims[k]
  BY <1>1 DEF Exists
<1>2. CASE claims'[k] # claims[k]
  <2>1. PatchClaim(k)
    BY <1>2, ClaimStep
  <2>2. claims'[k] \in Claim
    BY <2>1 DEF SetupInv, TypeOK, ClaimsTypeOK, PatchClaim, Confirm, Correct, Reject, Hide,
                Review, Claim, ReviewState, Exists
  <2> QED
    BY <2>2, ClaimAssumption DEF Exists
<1> QED
  BY <1>1, <1>2

(* What is cited stays.                                                    *)
LEMMA CitesStep == TalkInv /\ [TalkNext]_allVars => CitedExist'
<1> SUFFICES ASSUME TalkInv, [TalkNext]_allVars PROVE CitedExist'
  OBVIOUS
<1>1. \A k \in ClaimId : Exists(k) => Exists(k)'
  BY ClaimsRemain, SetupGoesOn DEF TalkInv
<1>2. \A c \in talks : \A i \in DOMAIN messages[c] : messages[c][i].cites \subseteq ClaimId
  <2> SUFFICES ASSUME NEW c \in talks, NEW i \in DOMAIN messages[c]
               PROVE  messages[c][i].cites \subseteq ClaimId
    OBVIOUS
  <2>1. messages[c] \in Seq(Message)
    BY DEF TalkInv, TalkTypes
  <2>2. messages[c][i] \in Message
    BY <2>1
  <2> QED
    BY <2>2 DEF Message
<1>3. CASE UNCHANGED <<talks, messages>>
  BY <1>1, <1>2, <1>3 DEF TalkInv, CitedExist
<1>4. ASSUME NEW c \in ConversationId, CreateConversation(c) PROVE CitedExist'
  <2>1. messages' = messages \/ messages' = [messages EXCEPT ![c] = <<UserMessage>>]
    BY <1>4 DEF CreateConversation
  <2>2. messages'[c] = <<>> \/ messages'[c] = <<UserMessage>>
    BY <1>4, <2>1 DEF CreateConversation, TalkInv, TalkTypes
  <2>3. \A i \in DOMAIN messages'[c] : messages'[c][i].cites = {}
    BY <2>2 DEF UserMessage
  <2>4. \A d \in talks : messages'[d] = messages[d]
    BY <1>4, <2>1 DEF CreateConversation, TalkInv, TalkTypes
  <2>5. talks' = talks \cup {c}
    BY <1>4 DEF CreateConversation
  <2> QED
    BY <1>1, <1>2, <2>3, <2>4, <2>5 DEF TalkInv, CitedExist
<1>5. ASSUME NEW c \in ConversationId, Turn(c) PROVE CitedExist'
  <2>1. talks' = talks /\ c \in talks /\ talks \subseteq ConversationId
    BY <1>5 DEF Turn, TalkInv, TalkTypes
  <2>2. \A i \in DOMAIN messages'[c] : \A k \in messages'[c][i].cites : k \in ClaimId /\ Exists(k)
    <3> DEFINE m == messages[c]
               n == messages'[c]
    <3>1. /\ Len(m) \in Nat /\ Len(n) = Len(m) + 2
          /\ m \in Seq(Message) /\ n \in Seq(Message)
          /\ \A i \in 1..Len(m) : n[i] = m[i]
          /\ n[Len(m) + 1] = UserMessage
          /\ n[Len(m) + 2] = AssistantMessage
      BY <1>5, TurnMessages
    <3>2. \A i \in DOMAIN m : \A k \in m[i].cites : k \in ClaimId /\ Exists(k)
      BY <1>2, <2>1 DEF TalkInv, CitedExist
    <3>3. UserMessage.cites = {} /\ \A k \in AssistantMessage.cites : k \in ClaimId /\ Exists(k)
      BY DEF UserMessage, AssistantMessage, Usable, UsableClaims, Active
    <3> HIDE DEF m, n
    <3>4. DOMAIN m = 1..Len(m) /\ DOMAIN n = 1..Len(n)
      BY <3>1
    <3>5. \A i \in DOMAIN n : i \in DOMAIN m \/ i = Len(m) + 1 \/ i = Len(m) + 2
      BY <3>1, <3>4
    <3>6. \A i \in DOMAIN n : \A k \in n[i].cites : k \in ClaimId /\ Exists(k)
      BY <3>1, <3>2, <3>3, <3>4, <3>5
    <3> QED
      BY <3>6 DEF n
  <2>3. \A d \in ConversationId \ {c} : messages'[d] = messages[d]
    BY <1>5, TurnMessages
  <2> QED
    BY <1>1, <1>2, <2>1, <2>2, <2>3 DEF TalkInv, CitedExist
<1> QED
  BY <1>3, <1>4, <1>5 DEF TalkNext, allVars, talkVars, GiveFeedback, Tick

(* One step preserves the invariant.                                       *)
LEMMA TalkInvStep == TalkInv /\ [TalkNext]_allVars => TalkInv'
<1> SUFFICES ASSUME TalkInv, [TalkNext]_allVars PROVE TalkInv'
  OBVIOUS
<1>1. SetupInv' /\ CitedExist'
  BY SetupInvStep, SetupGoesOn, CitesStep DEF TalkInv
<1>2. ASSUME NEW c \in ConversationId, CreateConversation(c) PROVE TalkTypes' /\ OrderInv'
  BY <1>2, CreateKeeps
<1>3. ASSUME NEW c \in ConversationId, Turn(c) PROVE TalkTypes' /\ OrderInv'
  <2>1. OrderInv'
    BY <1>3, TurnKeepsOrder
  <2>2. /\ Len(messages[c]) \in Nat /\ Len(messages'[c]) = Len(messages[c]) + 2
        /\ messages[c] \in Seq(Message) /\ messages'[c] \in Seq(Message)
        /\ \A d \in ConversationId \ {c} : messages'[d] = messages[d]
    BY <1>3, TurnMessages
  <2>3. c \in talks /\ talks' = talks /\ feedback' = feedback /\ now' = now
        /\ last' = [last EXCEPT ![c] = now + 1]
        /\ messages' = [messages EXCEPT ![c] = messages[c] \o <<UserMessage, AssistantMessage>>]
    BY <1>3 DEF Turn
  <2>4. last' \in [ConversationId -> Moment]
    BY <2>3, TalkAssumption DEF TalkInv, TalkTypes, Moment, Time
  <2>5. messages' \in [ConversationId -> Seq(Message)]
    BY <2>2, <2>3 DEF TalkInv, TalkTypes
  <2>6. \A d \in ConversationId : DOMAIN messages[d] \subseteq DOMAIN messages'[d]
    BY <2>2
  <2>7. \A f \in feedback' : f[1] \in talks' /\ f[2] \in DOMAIN messages'[f[1]]
    BY <2>3, <2>6 DEF TalkInv, TalkTypes
  <2>8. TalkTypes'
    BY <2>2, <2>3, <2>4, <2>5, <2>7 DEF TalkInv, TalkTypes
  <2> QED
    BY <2>1, <2>8
<1>4. ASSUME NEW c \in ConversationId, NEW i \in 1..MaxMessages, GiveFeedback(c, i)
      PROVE  TalkTypes' /\ OrderInv'
  <2>1. OrderInv'
    BY <1>4, OthersKeepOrder DEF GiveFeedback
  <2> QED
    BY <1>4, <2>1 DEF GiveFeedback, TalkInv, TalkTypes
<1>5. CASE Tick
  <2>1. OrderInv'
    BY <1>5, OthersKeepOrder DEF Tick
  <2> QED
    BY <1>1, <1>5, <2>1, TalkAssumption DEF Tick, TalkInv, TalkTypes, Time
<1>6. CASE UNCHANGED talkVars
  <2>1. OrderInv'
    BY <1>6, OthersKeepOrder DEF talkVars
  <2> QED
    BY <1>1, <1>6, <2>1 DEF talkVars, TalkInv, TalkTypes
<1> QED
  BY <1>1, <1>2, <1>3, <1>4, <1>5, <1>6 DEF TalkNext, allVars, TalkInv

-----------------------------------------------------------------------------
(* Conversations stay in order whatever setup, review and other            *)
(* conversations do.                                                       *)
THEOREM TalkInvariance == TalkSpec => []TalkInv
<1>1. TalkInit => TalkInv
  BY TalkInvInit
<1>2. TalkInv /\ [TalkNext]_allVars => TalkInv'
  BY TalkInvStep
<1> QED
  BY <1>1, <1>2, PTL DEF TalkSpec

(* Every variable has its type and feedback is on messages that exist.     *)
THEOREM TalkTypeCorrect == TalkSpec => []TalkTypeOK
<1>1. TalkInv => TalkTypeOK
  BY DEF TalkInv, SetupInv, TalkTypes, TalkTypeOK
<1> QED
  BY <1>1, TalkInvariance, PTL

(* Messages come in whole turns, whatever is repeated.                     *)
THEOREM NoHalfTurns == TalkSpec => []TurnsAreWhole
  BY TalkInvariance, PTL DEF TalkInv, OrderInv

(* Times run backwards by a second at most.                                *)
THEOREM ClockSkewBounded == TalkSpec => []TimesWithinASecond
  BY TalkInvariance, PTL DEF TalkInv, OrderInv

(* Lists and bootstrap present what the user turned to last, to within a   *)
(* second.                                                                 *)
THEOREM ListsAreRecent == TalkSpec => []PagesHoldRecent
<1>1. TalkInv => PagesHoldRecent
  <2> SUFFICES ASSUME TalkInv PROVE PagesHoldRecent
    OBVIOUS
  <2>1. \A c \in talks : last[c] \in Nat /\ Touched(c) \in Nat /\ Touched(c) <= last[c] /\ last[c] <= Touched(c) + 1
    <3> SUFFICES ASSUME NEW c \in talks
                 PROVE  last[c] \in Nat /\ Touched(c) \in Nat /\ Touched(c) <= last[c] /\ last[c] <= Touched(c) + 1
      OBVIOUS
    <3>1. last[c] \in Nat /\ messages[c] \in Seq(Message)
      BY TalkAssumption DEF TalkInv, TalkTypes, Moment
    <3>2. CASE Len(messages[c]) < 2
      BY <3>1, <3>2 DEF Touched
    <3>3. CASE ~(Len(messages[c]) < 2)
      <4>1. Len(messages[c]) \in Nat /\ Len(messages[c]) - 1 \in DOMAIN messages[c]
        BY <3>1, <3>3
      <4>2. messages[c][Len(messages[c]) - 1] \in Message
        BY <3>1, <4>1
      <4>3. messages[c][Len(messages[c]) - 1].at \in Nat
        BY <4>2, TalkAssumption DEF Message, Moment
      <4>4. last[c] = messages[c][Len(messages[c]) - 1].at + 1
        BY <3>3, <4>1 DEF TalkInv, OrderInv, LastIsAnswered
      <4>5. Touched(c) = messages[c][Len(messages[c]) - 1].at
        BY <3>3 DEF Touched
      <4> QED
        BY <3>1, <4>3, <4>4, <4>5
    <3> QED
      BY <3>2, <3>3
  <2>2. \A c, d \in talks : last[d] <= last[c] => Touched(d) <= Touched(c) + 1
    BY <2>1
  <2>3. \A n \in 1..Cardinality(talks) : \A page \in Pages(n) :
           \A c \in page, d \in talks \ page : c \in talks /\ last[d] <= last[c]
    BY DEF Pages
  <2>4. \A c \in LatestConversation, d \in talks : c \in talks /\ last[d] <= last[c]
    BY DEF LatestConversation
  <2> QED
    BY <2>2, <2>3, <2>4 DEF PagesHoldRecent
<1> QED
  BY <1>1, TalkInvariance, PTL

(* The evidence of everything a reply ever cited stands.                   *)
THEOREM CitationsStand == TalkSpec => []CitedEvidenceStands
<1>1. TalkInv => CitedEvidenceStands
  <2> SUFFICES ASSUME TalkInv, NEW c \in talks, NEW i \in DOMAIN messages[c],
                      NEW k \in messages[c][i].cites
               PROVE  /\ Exists(k)
                      /\ status[k[1]] \in {"completed", "skipped"}
                      /\ k \in Seeds(k[1])
    BY DEF CitedEvidenceStands
  <2>1. messages[c] \in Seq(Message)
    BY DEF TalkInv, TalkTypes
  <2>2. messages[c][i] \in Message
    BY <2>1
  <2>3. k \in ClaimId
    BY <2>2 DEF Message
  <2>4. Exists(k)
    BY DEF TalkInv, CitedExist
  <2> QED
    BY <2>3, <2>4 DEF TalkInv, SetupInv, EvidenceStands
<1> QED
  BY <1>1, TalkInvariance, PTL

-----------------------------------------------------------------------------
(* Conversations do not touch the setup beneath them, so that what is      *)
(* proved of SetupFlow and Bootstrap, action properties included, is true  *)
(* of setups, reviews and turns in any order.                              *)
THEOREM TalkKeepsSetup == TalkSpec => Spec
<1>1. TalkInit => Init
  BY DEF TalkInit
<1>2. SetupInv /\ [TalkNext]_allVars => [Next]_vars
  BY SetupGoesOn
<1>3. TalkInv => SetupInv
  BY DEF TalkInv
<1> QED
  BY <1>1, <1>2, <1>3, TalkInvariance, PTL DEF TalkSpec, Spec

-----------------------------------------------------------------------------
(* No call takes back what was said: messages stay as they are at their    *)
(* place, ratings stay, and last_message_at never goes back, so that a     *)
(* conversation loses its place in the list to newer ones only.            *)
HistoryStands ==
    [][/\ talks \subseteq talks' /\ feedback \subseteq feedback'
       /\ \A c \in talks :
             /\ last[c] <= last'[c]
             /\ \A i \in DOMAIN messages[c] :
                   i \in DOMAIN messages'[c] /\ messages'[c][i] = messages[c][i]]_allVars

(* That last_message_at never goes back needs that no reply is dated more  *)
(* than a second ahead of the clock.                                       *)
THEOREM NothingIsTakenBack == TalkSpec => HistoryStands
<1> DEFINE Stands(c) == /\ last[c] <= last'[c]
                        /\ \A i \in DOMAIN messages[c] :
                              i \in DOMAIN messages'[c] /\ messages'[c][i] = messages[c][i]
<1>1. TalkInv => \A c \in talks : last[c] \in Nat /\ last[c] <= now + 1
  BY TalkAssumption DEF TalkInv, TalkTypes, Moment, OrderInv, TimesWithinASecond
<1>2. ASSUME TalkInv, NEW d \in ConversationId, CreateConversation(d)
      PROVE  talks \subseteq talks' /\ feedback' = feedback /\ \A c \in talks : Stands(c)
  <2>1. \A c \in talks : messages'[c] = messages[c] /\ last'[c] = last[c]
    BY <1>2 DEF CreateConversation, TalkInv, TalkTypes
  <2> QED
    BY <1>1, <1>2, <2>1 DEF CreateConversation
<1>3. ASSUME TalkInv, NEW d \in ConversationId, Turn(d)
      PROVE  talks' = talks /\ feedback' = feedback /\ \A c \in talks : Stands(c)
  <2>1. /\ messages[d] \in Seq(Message) /\ messages'[d] \in Seq(Message)
        /\ Len(messages[d]) \in Nat /\ Len(messages'[d]) = Len(messages[d]) + 2
        /\ \A i \in 1..Len(messages[d]) : messages'[d][i] = messages[d][i]
        /\ \A c \in ConversationId \ {d} : messages'[c] = messages[c]
    BY <1>3, TurnMessages
  <2>2. \A i \in DOMAIN messages[d] : i \in DOMAIN messages'[d] /\ messages'[d][i] = messages[d][i]
    BY <2>1
  <2>3. /\ talks' = talks /\ feedback' = feedback /\ talks \subseteq ConversationId
        /\ last'[d] = now + 1 /\ \A c \in ConversationId \ {d} : last'[c] = last[c]
    BY <1>3 DEF Turn, TalkInv, TalkTypes
  <2> QED
    BY <1>1, <1>3, <2>1, <2>2, <2>3
<1>4. ASSUME TalkInv, UNCHANGED <<talks, messages, last>> PROVE \A c \in talks : Stands(c)
  BY <1>1, <1>4
<1>5. TalkInv /\ [TalkNext]_allVars =>
         [/\ talks \subseteq talks' /\ feedback \subseteq feedback'
          /\ \A c \in talks : Stands(c)]_allVars
  <2> SUFFICES ASSUME TalkInv, [TalkNext]_allVars
               PROVE  talks \subseteq talks' /\ feedback \subseteq feedback' /\ \A c \in talks : Stands(c)
    OBVIOUS
  <2> HIDE DEF Stands
  <2> QED
    BY <1>2, <1>3, <1>4 DEF TalkNext, allVars, talkVars, GiveFeedback, Tick
<1> QED
  BY <1>5, TalkInvariance, PTL DEF TalkSpec, HistoryStands
=============================================================================

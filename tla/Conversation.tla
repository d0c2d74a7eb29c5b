----------------------------- MODULE Conversation ----------------------------
(***************************************************************************)
(* The conversations of one v1 account, over its setup and self model      *)
(* (internal/httpserver/hunch_api.go): turns, the claims replies cite,     *)
(* feedback, and the order in which the list and bootstrap present         *)
(* conversations.  Handlers run one after the other under hunchStore.mu;   *)
(* a client may repeat a call whose answer it missed, which is another     *)
(* turn.  No handler changes the status "active" of a conversation.        *)
(***************************************************************************)
EXTENDS Bootstrap, Sequences

CONSTANTS
    ConversationId,
    MaxTime,        \* bound of the clock, in seconds
    MaxMessages,    \* bound on the messages of a conversation
    MaxFeedback     \* bound on the messages that are rated

ASSUME TalkAssumption == MaxTime \in Nat /\ MaxMessages \in Nat

VARIABLES
    talks,      \* the conversations created so far
    messages,   \* conversation -> its messages, oldest first
    last,       \* conversation -> LastMessageAt
    feedback,   \* messages that were rated, as <<conversation, position>>
    now         \* api.now(), whole seconds

talkVars == <<talks, messages, last, feedback, now>>
allVars == <<vars, talkVars>>

Time == 0..MaxTime
Moment == 0..(MaxTime + 1)
Message == [role : {"user", "assistant"}, at : Moment, cites : SUBSET ClaimId]

(* Every variable has its type; feedback is on messages that exist.        *)
TalkTypeOK ==
    /\ TypeOK
    /\ talks \subseteq ConversationId
    /\ messages \in [ConversationId -> Seq(Message)]
    /\ last \in [ConversationId -> Moment]
    /\ \A f \in feedback : f[1] \in talks /\ f[2] \in DOMAIN messages[f[1]]
    /\ now \in Time

TalkInit ==
    /\ Init
    /\ talks = {}
    /\ messages = [c \in ConversationId |-> <<>>]
    /\ last = [c \in ConversationId |-> 0]
    /\ feedback = {}
    /\ now = 0

-----------------------------------------------------------------------------
UserMessage == [role |-> "user", at |-> now, cites |-> {}]

(* buildAssistantReflection; dated one second ahead to follow the question.*)
AssistantMessage == [role |-> "assistant", at |-> now + 1, cites |-> Usable]

CreateConversation(c) ==
    /\ c \notin talks
    /\ talks' = talks \cup {c}
    /\ \/ messages' = messages
       \/ MaxMessages > 0 /\ messages' = [messages EXCEPT ![c] = <<UserMessage>>]
    /\ last' = [last EXCEPT ![c] = now]
    /\ UNCHANGED <<vars, feedback, now>>

Turn_LastIsQuestion(c) ==
    /\ c \in talks
    /\ Len(messages[c]) + 2 <= MaxMessages
    /\ messages' = [messages EXCEPT ![c] = @ \o <<UserMessage, AssistantMessage>>]
    /\ UNCHANGED <<vars, talks, last, feedback, now>>

Turn_AnswerOnly(c) ==
    /\ c \in talks
    /\ Len(messages[c]) + 2 <= MaxMessages
    /\ messages' = [messages EXCEPT ![c] =
                       IF @ # <<>> /\ @[Len(@)].role = "assistant" THEN @ \o <<AssistantMessage>>
                       ELSE @ \o <<UserMessage, AssistantMessage>>]
    /\ last' = [last EXCEPT ![c] = now + 1]
    /\ UNCHANGED <<vars, talks, feedback, now>>

(* createConversationTurn; sending and streaming differ in the answer only.*)
Turn(c) ==
    /\ c \in talks
    /\ Len(messages[c]) + 2 <= MaxMessages
    /\ messages' = [messages EXCEPT ![c] = @ \o <<UserMessage, AssistantMessage>>]
    /\ last' = [last EXCEPT ![c] = now + 1]
    /\ UNCHANGED <<vars, talks, feedback, now>>

GiveFeedback(c, i) ==
    /\ c \in talks
    /\ i \in DOMAIN messages[c]
    /\ Cardinality(feedback) < MaxFeedback
    /\ feedback' = feedback \cup {<<c, i>>}
    /\ UNCHANGED <<vars, talks, messages, last, now>>

Tick ==
    /\ now < MaxTime
    /\ now' = now + 1
    /\ UNCHANGED <<vars, talks, messages, last, feedback>>

(* Setup, profile and claims change between turns.                         *)
TalkNext ==
    \/ Next /\ UNCHANGED talkVars
    \/ \E c \in ConversationId : CreateConversation(c) \/ Turn(c)
    \/ \E c \in ConversationId, i \in 1..MaxMessages : GiveFeedback(c, i)
    \/ Tick

TalkSpec == TalkInit /\ [][TalkNext]_allVars

-----------------------------------------------------------------------------
(* What GET /v1/conversations?limit=n may show: the order of conversations *)
(* with the same LastMessageAt is arbitrary.                               *)
Pages(n) ==
    {page \in SUBSET talks :
        /\ Cardinality(page) = IF Cardinality(talks) < n THEN Cardinality(talks) ELSE n
        /\ \A c \in page, d \in talks \ page : last[d] <= last[c]}

(* latest_conversation_id of bootstrap: any of the newest.                 *)
LatestConversation == {c \in talks : \A d \in talks : last[d] <= last[c]}

(* When the user last wrote to a conversation, or created it.              *)
Touched(c) ==
    LET m == messages[c] IN IF Len(m) < 2 THEN last[c] ELSE m[Len(m) - 1].at

-----------------------------------------------------------------------------
(* Messages come in whole turns, a question and the reply dated one second *)
(* later, whatever is repeated; only the message a conversation was        *)
(* created with may stay unanswered.                                       *)
TurnsAreWhole ==
    \A c \in talks :
        LET m == messages[c] IN
        \A i \in DOMAIN m :
            /\ m[i].role = "assistant" =>
                  i > 1 /\ m[i - 1].role = "user" /\ m[i].at = m[i - 1].at + 1
            /\ m[i].role = "user" /\ i > 1 => i < Len(m) /\ m[i + 1].role = "assistant"

(* Replies are dated ahead of the clock, so times may run backwards within *)
(* a conversation, but never by more than a second, and last_message_at is *)
(* the newest of them.                                                     *)
TimesWithinASecond ==
    \A c \in talks :
        /\ last[c] <= now + 1
        /\ \A i \in DOMAIN messages[c] :
              /\ messages[c][i].at <= last[c]
              /\ \A j \in i..Len(messages[c]) : messages[c][i].at <= messages[c][j].at + 1

(* What the list and bootstrap present is what the user turned to last, to *)
(* within a second: a conversation just created may still rank behind one  *)
(* answered in the same second.                                            *)
PagesHoldRecent ==
    /\ \A n \in 1..Cardinality(talks) : \A page \in Pages(n) :
          \A c \in page, d \in talks \ page : Touched(d) <= Touched(c) + 1
    /\ \A c \in LatestConversation, d \in talks : Touched(d) <= Touched(c) + 1

(* Replies stay backed by evidence: what a reply cites is still there, and *)
(* the answers it rests on can no longer be replaced, whatever setups and  *)
(* reviews came later.                                                     *)
CitedEvidenceStands ==
    \A c \in talks : \A i \in DOMAIN messages[c] : \A k \in messages[c][i].cites :
        /\ Exists(k)
        /\ status[k[1]] \in {"completed", "skipped"}
        /\ k \in Seeds(k[1])
=============================================================================

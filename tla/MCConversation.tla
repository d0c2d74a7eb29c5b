---------------------------- MODULE MCConversation ---------------------------
(* Instances of Conversation.                                              *)
EXTENDS Conversation, TLC

ConversationSymmetry == Permutations(ConversationId)
=============================================================================

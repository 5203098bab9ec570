--------------------------- MODULE MCConversation ---------------------------
EXTENDS Conversation

MCLine == {1, 2}
=============================================================================

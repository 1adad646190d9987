------------------------------- MODULE MCChat -------------------------------
\* Connections to the chat server, each of which types a line.
EXTENDS Chat
=============================================================================

------------------------------- MODULE MCCgss -------------------------------
\* Two command loops, one player and a mailbox that the second broadcast fills.
EXTENDS Cgss
=============================================================================

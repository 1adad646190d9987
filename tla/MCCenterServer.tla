--------------------------- MODULE MCCenterServer ---------------------------
\* Two sessions of the center server that share a small roster.  Sessions and
\* names are interchangeable; only safety is checked here.
EXTENDS CenterServer, TLC

Interchangeable == Permutations(Sessions) \cup Permutations(Names)
=============================================================================

------------------------------ MODULE MCWindow ------------------------------
\* Two adapters, two pages one after the other or at once, and two sockets.
\* Neither adapters nor sockets are told apart by anything but equality.
EXTENDS Window, TLC

Symmetry == Permutations(Adapters) \cup Permutations(Sockets)
=============================================================================

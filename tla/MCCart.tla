------------------------------- MODULE MCCart -------------------------------
\* Two clients and two orders.
EXTENDS CartServer
=============================================================================

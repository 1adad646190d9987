------------------------------- MODULE MCOtp -------------------------------
\* Two instances and three slots for nodes: one node of an earlier start may
\* be there when both are started.
EXTENDS OtpNodes
=============================================================================

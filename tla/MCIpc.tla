------------------------------- MODULE MCIpc -------------------------------
\* Clients of the EchoServer of ipc_test.go, each with a session of its own.
EXTENDS IpcEcho

Echo(r) == [echo |-> r]

=============================================================================

------------------------------ MODULE IpcEcho ------------------------------
(***************************************************************************)
(* Clients of an IpcServer whose Handle is a function of the request, as   *)
(* the EchoServer of ipc_test.go is.                                       *)
(***************************************************************************)
EXTENDS Ipc

CONSTANT Answer(_)  \* what server.Handle answers to a request

IpcNext ==
    \/ \E c \in Clients :
         \/ Connect(c)
         \/ \E r \in Requests : Call(c, r)
         \/ CloseClient(c)
         \/ ClientReceive(c)
         \/ CallReturn(c)
    \/ \E s \in Sessions : ServerReceive(s) \/ Handled(s, Answer(sbuf[s]))
    \/ Finished

\* A goroutine whose rendezvous partner is there, or that is running, goes on.
\* Nothing makes a program call or close.
IpcFairness ==
    /\ \A c \in Clients : WF_ipcVars(ClientReceive(c)) /\ WF_ipcVars(CallReturn(c))
    /\ \A s \in Sessions :
         WF_ipcVars(ServerReceive(s)) /\ WF_ipcVars(Handled(s, Answer(sbuf[s])))

IpcSpec == IpcInit /\ [][IpcNext]_ipcVars /\ IpcFairness

-----------------------------------------------------------------------------
Answers == {Answer(r) : r \in Requests}
Strings == Requests \cup Answers \cup {Close, NoString}

\* Every variable holds a value of its type: the states of the goroutines of
\* Connect and Call, and the strings that travel between them.
IpcTypeOK ==
    /\ conn \in [Clients -> Sessions \cup {NoSession}]
    /\ cpc \in [Clients -> ClientStates]
    /\ out \in [Clients -> Requests \cup {Close, NoString}]
    /\ got \in [Clients -> Strings]
    /\ spc \in [Sessions -> SessionStates]
    /\ sbuf \in [Sessions -> Strings]

\* What Call returns is the answer to the request that Call sent, although
\* the request and the answer use one channel and other clients are calling
\* at the same time (ipc_test.go compares each response with its own request).
OwnAnswer ==
    \A c \in Clients :
        cpc[c] = "return" => got[c] = Answer(out[c])

\* A session belongs to one client, and the two ends of its channel are never
\* both senders or both receivers of different things: this is what lets Call
\* and Connect use one channel for both directions.
OwnChannel ==
    \A c, d \in Clients : conn[c] = conn[d] /\ conn[c] # NoSession => c = d

InStep(c) ==
    /\ (cpc[c] = "new") = (conn[c] = NoSession)
    /\ cpc[c] \in {"idle", "send", "return", "close"} => spc[conn[c]] = "receive"
    /\ cpc[c] = "wait" =>
         \/ spc[conn[c]] = "handle" /\ sbuf[conn[c]] = out[c]
         \/ spc[conn[c]] = "reply" /\ sbuf[conn[c]] = Answer(out[c])
    /\ cpc[c] = "closed" => spc[conn[c]] = "closed"
    /\ cpc[c] \in {"send", "wait"} => out[c] \in Requests
    /\ cpc[c] = "close" => out[c] = Close

Paired ==
    /\ OwnChannel
    /\ \A c \in Clients : InStep(c)
    /\ \A s \in Sessions : spc[s] = "handle" => sbuf[s] \in Requests

\* A Call that has begun returns: neither side of the shared channel is left
\* waiting for the other.
CallReturns ==
    \A c \in Clients : cpc[c] = "send" ~> cpc[c] = "idle"

\* Close ends the goroutine that Connect started: no session is leaked.
CloseEndsSession ==
    \A c \in Clients :
        cpc[c] = "close" ~> (cpc[c] = "closed" /\ spc[conn[c]] = "closed")
=============================================================================

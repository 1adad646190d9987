-------------------------------- MODULE Cgss --------------------------------
(***************************************************************************)
(* The whole of golang/cgss: command loops (cgss.go) that call the center  *)
(* server (CenterServer) over sessions of the string IPC (Ipc).  The       *)
(* program runs one loop; the server is written for several sessions, so   *)
(* every client here runs the loop of cgss.go on a session of its own.     *)
(*                                                                         *)
(* A command line is a model value: the commands with a wrong number of    *)
(* words, or a level that is no integer, print a usage line, as unknown    *)
(* commands do, and change nothing.                                        *)
(***************************************************************************)
EXTENDS CenterServer

CONSTANTS Clients, Close, NoString

ASSUME ClientsAreApart == Clients \cap (Sessions \cup {NoSession}) = {}
ASSUME CloseIsNoRequest == Close \notin Requests

VARIABLES
    conn, cpc, out, got, spc, sbuf,     \* of Ipc
    quit                                \* the clients whose loop has ended

Ipc == INSTANCE Ipc

ipcVars == <<conn, cpc, out, got, spc, sbuf>>
cgssVars == <<centerVars, ipcVars, quit>>

CgssInit == CenterInit /\ Ipc!IpcInit /\ quit = {}

-----------------------------------------------------------------------------
\* startCenterService.
Start(c) ==
    /\ Ipc!Connect(c)
    /\ UNCHANGED <<centerVars, quit>>

\* The loop of main reads a command that CenterClient turns into a Call.
\* addplayer and broadcast carry what json.Marshal made, so none is malformed,
\* and CenterClient calls no method that Handle does not have.
Command(c, r) ==
    /\ c \notin quit
    /\ r \notin RejectedRequests
    /\ Issue(r)
    /\ Ipc!Call(c, r)
    /\ UNCHANGED <<players, lockVars, mailVars, log, handlerVars, quit>>

\* Quit returns 1 and the loop ends: the session is not closed.
Quit(c) ==
    /\ cpc[c] = "idle" /\ c \notin quit
    /\ quit' = quit \cup {c}
    /\ UNCHANGED <<centerVars, ipcVars>>

\* The session's goroutine receives a request and calls Handle.
Receive(s) ==
    /\ Ipc!ServerReceive(s)
    /\ UNCHANGED <<centerVars, quit>>
Serve(s) ==
    /\ spc[s] = "handle"
    /\ Handle(s, sbuf[s])
    /\ UNCHANGED <<issueVars, ipcVars, quit>>
Work(s) == Step(s) /\ UNCHANGED <<ipcVars, quit>>
\* Mutant: the session sends back what it received.
RespondRequest(s) ==
    /\ Ipc!Handled(s, sbuf[s])
    /\ HandleReturns(s)
    /\ UNCHANGED <<issueVars, quit>>

Respond(s) ==
    /\ Ipc!Handled(s, resp[s])
    /\ HandleReturns(s)
    /\ UNCHANGED <<issueVars, quit>>

\* Mutant: Call gives up waiting.
HearNothing(c) ==
    /\ cpc[c] = "wait"
    /\ cpc' = [cpc EXCEPT ![c] = "return"]
    /\ UNCHANGED <<centerVars, conn, out, got, spc, sbuf, quit>>

\* Call receives the response and returns it to the command.  What the command
\* makes of it, a line on the terminal, changes nothing and is left out.
Hear(c) ==
    /\ Ipc!ClientReceive(c)
    /\ UNCHANGED <<centerVars, quit>>
Outcome(c) ==
    /\ Ipc!CallReturn(c)
    /\ UNCHANGED <<centerVars, quit>>

PrintMessage(p) == Printer(p) /\ UNCHANGED <<ipcVars, quit>>

\* All loops have ended and all is printed.
AllQuit ==
    /\ quit = Clients
    /\ \A p \in started : mq[p] = <<>>
    /\ UNCHANGED cgssVars

CgssNext ==
    \/ \E c \in Clients :
         \/ Start(c) \/ Quit(c) \/ Hear(c) \/ Outcome(c)
         \/ \E r \in Requests : Command(c, r)
    \/ \E s \in Sessions : Receive(s) \/ Serve(s) \/ Work(s) \/ Respond(s)
    \/ \E p \in PlayerIds : PrintMessage(p)
    \/ AllQuit

\* As in CenterServer and Ipc: what can run does, a free lock reaches every
\* waiter, and nobody has to type a command.
CgssFairness ==
    /\ \A c \in Clients : WF_cgssVars(Hear(c)) /\ WF_cgssVars(Outcome(c))
    /\ \A s \in Sessions :
         /\ WF_cgssVars(Receive(s)) /\ WF_cgssVars(Serve(s))
         /\ WF_cgssVars(Work(s)) /\ WF_cgssVars(Respond(s))
         /\ SF_cgssVars(Lock(s) /\ UNCHANGED <<ipcVars, quit>>)
         /\ SF_cgssVars(RLock(s) /\ UNCHANGED <<ipcVars, quit>>)
    /\ \A p \in PlayerIds : WF_cgssVars(PrintMessage(p))

CgssSpec == CgssInit /\ [][CgssNext]_cgssVars /\ CgssFairness

-----------------------------------------------------------------------------
Payloads == Requests \cup Responses \cup {Close, NoString}

\* Every variable of the IPC holds a value of its type.
CgssTypeOK ==
    /\ conn \in [Clients -> Sessions \cup {NoSession}]
    /\ cpc \in [Clients -> Ipc!ClientStates]
    /\ spc \in [Sessions -> Ipc!SessionStates]
    /\ \A c \in Clients : out[c] \in Requests \cup {Close, NoString}
    /\ \A c \in Clients : got[c] \in Responses \cup {Close, NoString}
    /\ \A s \in Sessions : sbuf[s] \in Payloads
    /\ quit \subseteq Clients

\* A handler works for the client that waits on its session, on the request
\* that client sent, and for nobody once the client has its answer.
HandlerServesItsClient ==
    \A s \in Sessions : hpc[s] # "idle" =>
        \E c \in Clients :
          conn[c] = s /\ cpc[c] = "wait" /\ spc[s] = "handle" /\ req[s] = out[c]

\* The stage the Lobby gives a client, and the response to its request.
AtHand(c) == hpc[conn[c]] = "reply" \/ spc[conn[c]] = "reply"
ClientStage(c) ==
    CASE cpc[c] = "return" \/ (cpc[c] = "wait" /\ AtHand(c)) -> "done"
      [] cpc[c] = "send" \/ (cpc[c] = "wait" /\ ~AtHand(c)) -> "called"
      [] OTHER -> "idle"
Pending(c) ==
    IF ClientStage(c) # "done" THEN NoResponse
    ELSE IF cpc[c] = "return" THEN got[c]
    ELSE IF spc[conn[c]] = "reply" THEN sbuf[conn[c]]
    ELSE resp[conn[c]]

\* Seen by the people at the command loops the system is a Lobby: through
\* the sessions, the handlers and the lock each command takes effect alone,
\* once, between its being typed and its end, and the response it gets is that
\* to its own request.
Seen == INSTANCE Lobby WITH
          Callers <- Clients, roster <- players,
          stage <- [c \in Clients |-> ClientStage(c)],
          req <- [c \in Clients |->
                    IF ClientStage(c) = "idle" THEN NoRequest ELSE out[c]],
          reply <- [c \in Clients |-> Pending(c)]
IsLobby == Seen!LobbySpec

\* Every command ends, whatever the others do and however full mailboxes are.
CommandsEnd ==
    \A c \in Clients : cpc[c] = "send" ~> cpc[c] = "idle"

\* Message m has been typed, and its command has not reached the server yet.
Typed(m) ==
    \E c \in Clients : cpc[c] = "send" /\ out[c].method = "broadcast"
                                       /\ out[c].msg = m
Online(p) == \E i \in 1..Len(players) : players[i].id = p

\* A broadcast reaches the people: whoever is logged in when it is typed
\* prints it at last, unless logged out first.  It has to get through the
\* session, the lock that others take before it and the mailboxes in front of
\* it; a place in a full mailbox is waited for, never given up.
BroadcastsArePrinted ==
    \A m \in Messages, p \in PlayerIds :
        Typed(m) /\ Online(p)
          ~> \/ \E k \in 1..Len(printed[p]) : printed[p][k] = m
             \/ ~Online(p)
=============================================================================

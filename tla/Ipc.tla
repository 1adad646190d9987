-------------------------------- MODULE Ipc --------------------------------
(***************************************************************************)
(* The string IPC of golang/cgss/src/ipc.  NewIpcClient opens a session:   *)
(* an unbuffered channel and a goroutine that serves it.  A Call sends the *)
(* request and then receives the answer on that SAME channel, so whoever   *)
(* receives next gets whatever is offered next: client.go marks the        *)
(* receive with "?????".  A rendezvous of an unbuffered channel is one     *)
(* step: the sender and the receiver leave it together.                    *)
(*                                                                         *)
(* These are the actions of both ends, for a server of any kind: IpcEcho   *)
(* closes them with a server that is a function of the request, Cgss with  *)
(* the center server.                                                      *)
(*                                                                         *)
(* Each client is used by one goroutine, as in cgss.go and ipc_test.go,    *)
(* and makes no Call after Close.  JSON is abstracted: a request that      *)
(* Marshal produced is one that Unmarshal accepts.                         *)
(***************************************************************************)

CONSTANTS
    Clients,        \* users of an IpcClient, one goroutine each
    Sessions,       \* sessions a server can open, named by their channel
    NoSession,      \* conn of a client before NewIpcClient
    Requests,       \* what Call marshals
    Close,          \* the string "CLOSE"
    NoString        \* a string variable that is not set

ASSUME ClientsAreNotSessions ==
    Clients \cap Sessions = {} /\ NoSession \notin Sessions
ASSUME CloseIsNotARequest == Close \notin Requests
ASSUME NoStringIsNotSent == NoString \notin Requests \cup {Close}

VARIABLES
    conn,           \* client.conn
    cpc,            \* where each client is
    out,            \* the string Call or Close sends
    got,            \* the string Call received
    spc,            \* where the goroutine of each session is
    sbuf            \* the request it handles, then the answer it returns

ipcVars == <<conn, cpc, out, got, spc, sbuf>>

ClientStates == {"new", "idle", "send", "wait", "return", "close", "closed"}
SessionStates == {"none", "receive", "handle", "reply", "closed"}

-----------------------------------------------------------------------------
IpcInit ==
    /\ conn = [c \in Clients |-> NoSession]
    /\ cpc = [c \in Clients |-> "new"]
    /\ out = [c \in Clients |-> NoString]
    /\ got = [c \in Clients |-> NoString]
    /\ spc = [s \in Sessions |-> "none"]
    /\ sbuf = [s \in Sessions |-> NoString]

\* Mutant: one channel for every client.
UnusedShared(s) == spc[s] # "closed"

\* make(chan string, 0): a channel nobody else has.
Unused(s) == spc[s] = "none"

\* NewIpcClient: Connect makes the channel and starts its goroutine.
Connect(c) ==
    /\ cpc[c] = "new"
    /\ \E s \in Sessions :
         /\ Unused(s)
         /\ conn' = [conn EXCEPT ![c] = s]
         /\ spc' = [spc EXCEPT ![s] = "receive"]
    /\ cpc' = [cpc EXCEPT ![c] = "idle"]
    /\ UNCHANGED <<out, got, sbuf>>

\* Call reaches its send.
Call(c, r) ==
    /\ cpc[c] = "idle"
    /\ cpc' = [cpc EXCEPT ![c] = "send"]
    /\ out' = [out EXCEPT ![c] = r]
    /\ UNCHANGED <<conn, got, spc, sbuf>>

\* IpcClient.Close reaches its send.
CloseClient(c) ==
    /\ cpc[c] = "idle"
    /\ cpc' = [cpc EXCEPT ![c] = "close"]
    /\ out' = [out EXCEPT ![c] = Close]
    /\ UNCHANGED <<conn, got, spc, sbuf>>

\* The processes blocked in a send on channel s.
Offering(s) ==
    {c \in Clients : conn[c] = s /\ cpc[c] \in {"send", "close"}}
        \cup {t \in {s} : spc[t] = "reply"}

Offered(p) == IF p \in Clients THEN out[p] ELSE sbuf[p]

\* Where client d and session t go when the send of p has completed.
SentClient(d, p) ==
    IF d # p THEN cpc[d] ELSE IF cpc[d] = "send" THEN "wait" ELSE "closed"
SentSession(t, p) == IF t # p THEN spc[t] ELSE "receive"

\* Mutant: the session does not test for "CLOSE".
ServerReceiveNoTest(s) ==
    /\ spc[s] = "receive"
    /\ \E p \in Offering(s) :
         /\ sbuf' = [sbuf EXCEPT ![s] = Offered(p)]
         /\ spc' = [spc EXCEPT ![s] = "handle"]
         /\ cpc' = [d \in Clients |-> SentClient(d, p)]
    /\ UNCHANGED <<conn, out, got>>

\* Mutant: "CLOSE" is skipped and the session goes on receiving.
ServerReceiveGoesOn(s) ==
    /\ spc[s] = "receive"
    /\ \E p \in Offering(s) :
         /\ sbuf' = [sbuf EXCEPT ![s] = Offered(p)]
         /\ spc' = [spc EXCEPT ![s] =
                      IF Offered(p) = Close THEN "receive" ELSE "handle"]
         /\ cpc' = [d \in Clients |-> SentClient(d, p)]
    /\ UNCHANGED <<conn, out, got>>

\* request := <-c, and the test for "CLOSE".
ServerReceive(s) ==
    /\ spc[s] = "receive"
    /\ \E p \in Offering(s) :
         /\ sbuf' = [sbuf EXCEPT ![s] = Offered(p)]
         /\ spc' = [spc EXCEPT ![s] =
                      IF Offered(p) = Close THEN "closed" ELSE "handle"]
         /\ cpc' = [d \in Clients |-> SentClient(d, p)]
    /\ UNCHANGED <<conn, out, got>>

\* Mutant: the answer is not sent.
HandledSilently(s, v) ==
    /\ spc[s] = "handle"
    /\ spc' = [spc EXCEPT ![s] = "receive"]
    /\ sbuf' = [sbuf EXCEPT ![s] = v]
    /\ UNCHANGED <<conn, cpc, out, got>>

\* resp := server.Handle(...) has returned v; the goroutine goes on to send it.
Handled(s, v) ==
    /\ spc[s] = "handle"
    /\ spc' = [spc EXCEPT ![s] = "reply"]
    /\ sbuf' = [sbuf EXCEPT ![s] = v]
    /\ UNCHANGED <<conn, cpc, out, got>>

\* str := <-client.conn.
ClientReceive(c) ==
    /\ cpc[c] = "wait"
    /\ \E p \in Offering(conn[c]) :
         /\ got' = [got EXCEPT ![c] = Offered(p)]
         /\ cpc' = [d \in Clients |-> IF d = c THEN "return" ELSE SentClient(d, p)]
         /\ spc' = [t \in Sessions |-> SentSession(t, p)]
         /\ sbuf' = [t \in Sessions |-> IF t = p THEN NoString ELSE sbuf[t]]
    /\ UNCHANGED <<conn, out>>

\* Call returns what it received.
CallReturn(c) ==
    /\ cpc[c] = "return"
    /\ cpc' = [cpc EXCEPT ![c] = "idle"]
    /\ out' = [out EXCEPT ![c] = NoString]
    /\ got' = [got EXCEPT ![c] = NoString]
    /\ UNCHANGED <<conn, spc, sbuf>>

\* Every client closed its session: nothing is left to do.
Finished ==
    /\ \A c \in Clients : cpc[c] = "closed"
    /\ UNCHANGED ipcVars
=============================================================================

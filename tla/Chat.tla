-------------------------------- MODULE Chat --------------------------------
(***************************************************************************)
(* golang/go_chat/src/go_chat.go.  A broadcaster goroutine owns the set of *)
(* clients; every connection has a handler that reads it and a writer that *)
(* writes to it.  They meet on unbuffered channels only: messages,         *)
(* entering and leaving from the handlers to the broadcaster, and one      *)
(* channel per client (ch), on which its handler greets it and the         *)
(* broadcaster sends, to its writer.  A send on a closed channel, or       *)
(* closing one twice, would panic and end the server.                      *)
(*                                                                         *)
(* A write takes its peer's time: fmt.Fprintln has no deadline, and a peer  *)
(* that stops reading for good blocks its writer for good.  A peer may     *)
(* send its last line and go on reading, or reset the connection, after    *)
(* which writes fail, which clientWriter ignores.                          *)
(***************************************************************************)
EXTENDS Naturals, Sequences, FiniteSets

CONSTANTS
    Conns,          \* connections accepted
    MaxLines        \* bound on the lines a peer types

ASSUME MaxLinesNat == MaxLines \in Nat

VARIABLES
    hpc,            \* where the handler of each connection is
    typed,          \* how many lines its peer has sent
    wpc,            \* where its writer is
    wmsg,           \* the message the writer is writing
    clients,        \* the map of the broadcaster
    bmsg,           \* the message it is sending
    todo,           \* the clients its range loop has not visited yet
    closedCh,       \* the client channels closed
    open,           \* the connections not closed by their handler
    reset,          \* the connections reset by their peer
    sent,           \* history: what was sent on each ch after the greeting
    shown           \* history: what each peer was shown of it

handlerVars == <<hpc, typed>>
writerVars == <<wpc, wmsg>>
broadcasterVars == <<clients, bmsg, todo, closedCh>>
connVars == <<open, reset>>
historyVars == <<sent, shown>>
chatVars == <<handlerVars, writerVars, broadcasterVars, connVars, historyVars>>

\* A message is its sender, its kind and, for a line, which line it is.
Message(c, what, n) == [who |-> c, what |-> what, line |-> n]
Nothing == Message("nobody", "nothing", 0)
Greeting(c) == Message(c, "you are", 0)
HandlerStates == {"none", "greet", "arrive", "enter", "scan", "say", "leave",
                  "depart", "close", "done"}

ChatInit ==
    /\ hpc = [c \in Conns |-> "none"]
    /\ typed = [c \in Conns |-> 0]
    /\ wpc = [c \in Conns |-> "none"]
    /\ wmsg = [c \in Conns |-> Nothing]
    /\ clients = {}
    /\ bmsg = Nothing
    /\ todo = {}
    /\ closedCh = {}
    /\ open = {}
    /\ reset = {}
    /\ sent = [c \in Conns |-> <<>>]
    /\ shown = [c \in Conns |-> <<>>]

-----------------------------------------------------------------------------
Goes(c, from, to) == hpc[c] = from /\ hpc' = [hpc EXCEPT ![c] = to]
Writes(c, m) ==
    /\ wpc[c] = "receive"
    /\ wpc' = [wpc EXCEPT ![c] = "write"]
    /\ wmsg' = [wmsg EXCEPT ![c] = m]

\* main accepts a connection and starts its handler, which starts its writer.
Accept(c) ==
    /\ Goes(c, "none", "greet")
    /\ wpc' = [wpc EXCEPT ![c] = "receive"]
    /\ open' = open \cup {c}
    /\ UNCHANGED <<typed, wmsg, broadcasterVars, reset, historyVars>>

\* ch <- "You are " + who
Greet(c) ==
    /\ Goes(c, "greet", "arrive")
    /\ Writes(c, Greeting(c))
    /\ UNCHANGED <<typed, broadcasterVars, connVars, historyVars>>

\* The broadcaster is in its select.
Selecting == todo = {}

\* Mutant: a message is not sent back to who said it.
TellOthers(m) ==
    /\ Selecting
    /\ bmsg' = IF clients \ {m.who} = {} THEN Nothing ELSE m
    /\ todo' = clients \ {m.who}
    /\ UNCHANGED <<clients, closedCh>>

\* case msg := <-messages: the loop over clients begins.
Tell(m) ==
    /\ Selecting
    /\ bmsg' = IF clients = {} THEN Nothing ELSE m
    /\ todo' = clients
    /\ UNCHANGED <<clients, closedCh>>

Arrive(c) ==
    /\ Goes(c, "arrive", "enter")
    /\ Tell(Message(c, "arrived", 0))
    /\ UNCHANGED <<typed, writerVars, connVars, historyVars>>

\* case cli := <-entering
Enter(c) ==
    /\ Goes(c, "enter", "scan")
    /\ Selecting
    /\ clients' = clients \cup {c}
    /\ UNCHANGED <<typed, writerVars, bmsg, todo, closedCh, connVars, historyVars>>

\* Mutant: the connection is closed as soon as its input ends.
ScanCloses(c) ==
    /\ \/ /\ c \notin reset /\ typed[c] < MaxLines
          /\ Goes(c, "scan", "say")
          /\ typed' = [typed EXCEPT ![c] = @ + 1]
          /\ UNCHANGED open
       \/ Goes(c, "scan", "leave") /\ open' = open \ {c} /\ UNCHANGED typed
    /\ UNCHANGED <<writerVars, broadcasterVars, reset, historyVars>>

\* input.Scan() returns a line, or false at the end of the input or a reset.
Scan(c) ==
    /\ \/ /\ c \notin reset /\ typed[c] < MaxLines
          /\ Goes(c, "scan", "say")
          /\ typed' = [typed EXCEPT ![c] = @ + 1]
       \/ Goes(c, "scan", "leave") /\ UNCHANGED typed
    /\ UNCHANGED <<writerVars, broadcasterVars, connVars, historyVars>>

\* Mutant: the line that will come next.
SayNext(c) ==
    /\ Goes(c, "say", "scan")
    /\ Tell(Message(c, "line", typed[c] + 1))
    /\ UNCHANGED <<typed, writerVars, connVars, historyVars>>

Say(c) ==
    /\ Goes(c, "say", "scan")
    /\ Tell(Message(c, "line", typed[c]))
    /\ UNCHANGED <<typed, writerVars, connVars, historyVars>>

\* Mutants: no delete(clients, cli), no close(cli).
LeaveStays(c) ==
    /\ Goes(c, "leave", "depart")
    /\ Selecting
    /\ closedCh' = closedCh \cup {c}
    /\ UNCHANGED <<typed, writerVars, clients, bmsg, todo, connVars, historyVars>>

LeaveOpen(c) ==
    /\ Goes(c, "leave", "depart")
    /\ Selecting
    /\ clients' = clients \ {c}
    /\ UNCHANGED <<typed, writerVars, bmsg, todo, closedCh, connVars, historyVars>>

\* case cli := <-leaving: delete(clients, cli); close(cli)
Leave(c) ==
    /\ Goes(c, "leave", "depart")
    /\ Selecting
    /\ clients' = clients \ {c}
    /\ closedCh' = closedCh \cup {c}
    /\ UNCHANGED <<typed, writerVars, bmsg, todo, connVars, historyVars>>

Depart(c) ==
    /\ Goes(c, "depart", "close")
    /\ Tell(Message(c, "left", 0))
    /\ UNCHANGED <<typed, writerVars, connVars, historyVars>>

\* conn.Close()
CloseConn(c) ==
    /\ Goes(c, "close", "done")
    /\ open' = open \ {c}
    /\ UNCHANGED <<typed, writerVars, broadcasterVars, reset, historyVars>>

\* cli <- msg, for the next client of the range loop, in any order.
Send(c) ==
    /\ c \in todo
    /\ Writes(c, bmsg)
    /\ sent' = [sent EXCEPT ![c] = Append(@, bmsg)]
    /\ todo' = todo \ {c}
    /\ bmsg' = IF todo' = {} THEN Nothing ELSE bmsg
    /\ UNCHANGED <<handlerVars, clients, closedCh, connVars, shown>>

\* Mutant: a write that fails ends the writer.
WriteOrEnd(c) ==
    /\ wpc[c] = "write"
    /\ IF c \in open \ reset
       THEN /\ wpc' = [wpc EXCEPT ![c] = "receive"]
            /\ shown' = IF wmsg[c] = Greeting(c) THEN shown
                        ELSE [shown EXCEPT ![c] = Append(@, wmsg[c])]
       ELSE wpc' = [wpc EXCEPT ![c] = "done"] /\ UNCHANGED shown
    /\ wmsg' = [wmsg EXCEPT ![c] = Nothing]
    /\ UNCHANGED <<handlerVars, broadcasterVars, connVars, sent>>

\* fmt.Fprintln(conn, msg): the peer reads it, or the write fails.
Write(c) ==
    /\ wpc[c] = "write"
    /\ \/ /\ c \in open \ reset
          /\ shown' = IF wmsg[c] = Greeting(c) THEN shown
                      ELSE [shown EXCEPT ![c] = Append(@, wmsg[c])]
       \/ /\ c \notin open \ reset
          /\ UNCHANGED shown
    /\ wpc' = [wpc EXCEPT ![c] = "receive"]
    /\ wmsg' = [wmsg EXCEPT ![c] = Nothing]
    /\ UNCHANGED <<handlerVars, broadcasterVars, connVars, sent>>

\* range ch ends when ch is closed.
WriterEnds(c) ==
    /\ wpc[c] = "receive" /\ c \in closedCh
    /\ wpc' = [wpc EXCEPT ![c] = "done"]
    /\ UNCHANGED <<handlerVars, wmsg, broadcasterVars, connVars, historyVars>>

\* The peer resets the connection.
Reset(c) ==
    /\ c \in open \ reset
    /\ reset' = reset \cup {c}
    /\ UNCHANGED <<handlerVars, writerVars, broadcasterVars, open, historyVars>>

\* Everybody has left; the server would wait for new connections.
Quiet ==
    /\ \A c \in Conns : hpc[c] = "done" /\ wpc[c] = "done"
    /\ UNCHANGED chatVars

-----------------------------------------------------------------------------
Handler(c) ==
    Greet(c) \/ Arrive(c) \/ Enter(c) \/ Scan(c) \/ Say(c) \/ Leave(c)
      \/ Depart(c) \/ CloseConn(c)

ChatNext ==
    \/ \E c \in Conns :
         \/ Accept(c) \/ Handler(c)
         \/ Send(c) \/ Write(c) \/ WriterEnds(c)
         \/ Reset(c)
    \/ Quiet

\* The handler has something to do that is not up to its peer.  A read fails
\* by itself only when the connection is reset.
Busy(c) ==
    \/ Greet(c) \/ Arrive(c) \/ Enter(c) \/ Say(c) \/ Leave(c) \/ Depart(c)
    \/ CloseConn(c)
    \/ c \in reset /\ Scan(c)
\* The range loop waits for the client it has come to: it is sure to go on
\* only when each of those left receives.
LoopGoesOn(c) == (\A d \in todo : wpc[d] = "receive") /\ Send(c)
\* A write ends by itself only when it fails.
WriteFails(c) == c \notin open \ reset /\ Write(c)

\* Goroutines that can run do run.  The broadcaster's select picks among the
\* handlers that are ready at random, so each of them is received at last.
\* Nothing is assumed of the peers: none has to type, to end its input or to
\* read what is written to it.
ChatFairness ==
    \A c \in Conns :
      /\ SF_chatVars(Busy(c)) /\ WF_chatVars(LoopGoesOn(c))
      /\ WF_chatVars(WriteFails(c) \/ WriterEnds(c))

ChatSpec == ChatInit /\ [][ChatNext]_chatVars /\ ChatFairness

-----------------------------------------------------------------------------
Lines == 1..MaxLines
ChatMessages ==
    [who : Conns, what : {"arrived", "line", "left", "you are"},
     line : 0..MaxLines] \cup {Nothing}

\* Every variable holds a value of its type.
ChatTypeOK ==
    /\ hpc \in [Conns -> HandlerStates]
    /\ typed \in [Conns -> 0..MaxLines]
    /\ wpc \in [Conns -> {"none", "receive", "write", "done"}]
    /\ wmsg \in [Conns -> ChatMessages]
    /\ bmsg \in ChatMessages
    /\ clients \subseteq Conns /\ todo \subseteq Conns
    /\ closedCh \subseteq Conns /\ open \subseteq Conns
    /\ reset \subseteq Conns
    /\ sent \in [Conns -> Seq(ChatMessages)]
    /\ shown \in [Conns -> Seq(ChatMessages)]

\* The server never panics: whoever can still send on a client's channel (its
\* handler greeting it, the broadcaster visiting it now or in a later loop) or
\* close it finds it open.
NoPanic ==
    \A c \in closedCh :
        /\ c \notin clients \cup todo
        /\ hpc[c] \notin {"greet", "leave"}

\* Every client the broadcaster may send to has a writer that receives: none
\* of its sends waits for a goroutine that has ended.
ClientsHaveWriters ==
    \A c \in clients \cup todo : wpc[c] \in {"receive", "write"}

\* A peer is shown what was sent to it, in order.  All that may be missing at
\* the end is what its writer holds: the handler closes the connection without
\* waiting for the writer, so the very last message can be lost.
OnlyTheLastIsLost ==
    \A c \in Conns : c \notin reset =>
        \/ shown[c] = sent[c]
        \/ /\ sent[c] # <<>> /\ shown[c] = SubSeq(sent[c], 1, Len(sent[c]) - 1)
           /\ wpc[c] = "write" \/ c \notin open

\* The users see a ChatRoom: although the broadcaster sends to one client after
\* the other, in an order of its own for each message, everybody in the room
\* hears the same messages in the same order.
RoomStage(c) ==
    CASE hpc[c] \in {"none", "greet", "arrive"} -> "out"
      [] hpc[c] = "enter" -> "announced"
      [] hpc[c] \in {"scan", "say", "leave"} -> "in"
      [] hpc[c] = "depart" -> "gone"
      [] OTHER -> "departed"
Room == INSTANCE ChatRoom WITH
          Users <- Conns,
          stage <- [c \in Conns |-> RoomStage(c)],
          heard <- [c \in Conns |-> IF c \in todo THEN Append(sent[c], bmsg)
                                                 ELSE sent[c]]
IsChatRoom == Room!RoomSpec

\* The handler of c is on its way: between two reads, or past the last one.
OnItsWay(c) ==
    \/ hpc[c] \notin {"none", "scan", "done"}
    \/ hpc[c] = "scan" /\ c \in reset
Reading(c) == hpc[c] = "scan" /\ c \notin reset
Gone(c) == hpc[c] = "done" /\ wpc[c] = "done" /\ c \notin open
\* The broadcaster has a message for d, whose writer is in a write: d is still
\* connected and does not read.
WaitsForReader(d) == d \in todo /\ wpc[d] = "write" /\ d \in open \ reset

\* Nobody is kept waiting for ever, except by a peer that stays connected and
\* never reads again, which blocks the whole server: whoever comes is greeted
\* and gets to its input, each line is told, and whoever is at the end of its
\* input or reset leaves, with handler, writer and connection.
NobodyKeptWaiting ==
    \A c \in Conns :
        OnItsWay(c)
          ~> \/ Reading(c) \/ Gone(c)
             \/ \E d \in Conns : [](WaitsForReader(d))
=============================================================================

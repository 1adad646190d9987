----------------------------- MODULE ChatProofs -----------------------------
(***************************************************************************)
(* The chat server, for any number of connections and lines.  The life of  *)
(* a client channel follows the handler of its connection (InPhase): the   *)
(* broadcaster knows the client exactly while the handler scans, and the   *)
(* channel is closed exactly from then on.  NoPanic and ClientsHaveWriters *)
(* are consequences; by themselves they do not survive a step.             *)
(***************************************************************************)
EXTENDS Chat, SequenceTheorems, TLAPS

InPhase(c) ==
    /\ c \in clients <=> hpc[c] \in {"scan", "say", "leave"}
    /\ c \in closedCh <=> hpc[c] \in {"depart", "close", "done"}
    /\ wpc[c] = "none" => hpc[c] = "none"
    /\ wpc[c] = "done" => c \in closedCh
    /\ hpc[c] = "say" => typed[c] # 0

Phases ==
    /\ todo \subseteq clients
    /\ \A c \in Conns : InPhase(c)

ChatInv == ChatTypeOK /\ Phases

-----------------------------------------------------------------------------
LEMMA InvInit == ChatInit => ChatInv
  BY MaxLinesNat, EmptySeq
  DEF ChatInit, ChatInv, ChatTypeOK, Phases, InPhase, HandlerStates,
      ChatMessages, Nothing, Message

\* Everything that is sent is a message.
LEMMA MessageTypes ==
    /\ Nothing \in ChatMessages
    /\ \A c \in Conns : Greeting(c) \in ChatMessages
    /\ \A c \in Conns, n \in 0..MaxLines : Message(c, "line", n) \in ChatMessages
    /\ \A c \in Conns : /\ Message(c, "arrived", 0) \in ChatMessages
                        /\ Message(c, "left", 0) \in ChatMessages
<1>1. 0 \in 0..MaxLines
  BY MaxLinesNat
<1>2. ASSUME NEW c \in Conns, NEW n \in 0..MaxLines,
             NEW w \in {"arrived", "line", "left", "you are"}
      PROVE  Message(c, w, n) \in ChatMessages
  BY DEF Message, ChatMessages
<1>3. Nothing \in ChatMessages
  BY DEF ChatMessages
<1> QED
  BY <1>1, <1>2, <1>3 DEF Greeting

\* What the broadcaster sends is a message, to clients it knows.
LEMMA TellInv ==
    ASSUME ChatInv, NEW m \in ChatMessages, Tell(m)
    PROVE  /\ bmsg' \in ChatMessages
           /\ todo' = clients' /\ clients' = clients /\ closedCh' = closedCh
  BY DEF Tell, ChatInv, ChatTypeOK, ChatMessages

\* Every step keeps each channel in the phase of its handler.
LEMMA InvNext == ChatInv /\ [ChatNext]_chatVars => ChatInv'
<1> SUFFICES ASSUME ChatInv, [ChatNext]_chatVars PROVE ChatInv'
  OBVIOUS
<1> USE DEF handlerVars, writerVars, broadcasterVars, connVars, historyVars,
            Goes, HandlerStates
<1>0. /\ Nothing \in ChatMessages
      /\ \A c \in Conns : /\ Message(c, "arrived", 0) \in ChatMessages
                          /\ Message(c, "left", 0) \in ChatMessages
                          /\ Message(c, "line", typed[c]) \in ChatMessages
                          /\ Greeting(c) \in ChatMessages
  BY MessageTypes DEF ChatInv, ChatTypeOK
<1>1. ASSUME NEW c \in Conns, Accept(c) PROVE ChatInv'
  BY <1>1 DEF Accept, ChatInv, ChatTypeOK, Phases, InPhase
<1>2. ASSUME NEW c \in Conns, Greet(c) PROVE ChatInv'
  BY <1>0, <1>2 DEF Greet, Writes, ChatInv, ChatTypeOK, Phases, InPhase
<1>3. ASSUME NEW c \in Conns, Arrive(c) PROVE ChatInv'
  <2>1. /\ bmsg' \in ChatMessages
        /\ todo' = clients' /\ clients' = clients /\ closedCh' = closedCh
    BY <1>0, <1>3, TellInv DEF Arrive
  <2> QED
    BY <1>3, <2>1 DEF Arrive, ChatInv, ChatTypeOK, Phases, InPhase
<1>4. ASSUME NEW c \in Conns, Enter(c) PROVE ChatInv'
  BY <1>4 DEF Enter, Selecting, ChatInv, ChatTypeOK, Phases, InPhase
<1>5. ASSUME NEW c \in Conns, Scan(c) PROVE ChatInv'
  <2>1. CASE Goes(c, "scan", "leave") /\ UNCHANGED typed
    BY <1>5, <2>1 DEF Scan, ChatInv, ChatTypeOK, Phases, InPhase
  <2>2. CASE /\ typed[c] < MaxLines /\ Goes(c, "scan", "say")
             /\ typed' = [typed EXCEPT ![c] = typed[c] + 1]
    <3>1. typed[c] + 1 \in 0..MaxLines /\ typed[c] + 1 # 0
      BY <2>2, MaxLinesNat DEF ChatInv, ChatTypeOK
    <3>2. typed' \in [Conns -> 0..MaxLines] /\ typed'[c] # 0
      BY <2>2, <3>1 DEF ChatInv, ChatTypeOK
    <3>3. \A d \in Conns \ {c} : typed'[d] = typed[d] /\ hpc'[d] = hpc[d]
      BY <2>2 DEF ChatInv, ChatTypeOK
    <3>4. hpc[c] = "scan" /\ hpc' = [hpc EXCEPT ![c] = "say"]
      BY <2>2
    <3> QED
      BY <1>5, <3>2, <3>3, <3>4 DEF Scan, ChatInv, ChatTypeOK, Phases, InPhase
  <2> QED
    BY <1>5, <2>1, <2>2 DEF Scan
<1>6. ASSUME NEW c \in Conns, Say(c) PROVE ChatInv'
  <2>1. /\ bmsg' \in ChatMessages
        /\ todo' = clients' /\ clients' = clients /\ closedCh' = closedCh
    BY <1>0, <1>6, TellInv DEF Say
  <2> QED
    BY <1>6, <2>1 DEF Say, ChatInv, ChatTypeOK, Phases, InPhase
<1>7. ASSUME NEW c \in Conns, Leave(c) PROVE ChatInv'
  BY <1>7 DEF Leave, Selecting, ChatInv, ChatTypeOK, Phases, InPhase
<1>8. ASSUME NEW c \in Conns, Depart(c) PROVE ChatInv'
  <2>1. /\ bmsg' \in ChatMessages
        /\ todo' = clients' /\ clients' = clients /\ closedCh' = closedCh
    BY <1>0, <1>8, TellInv DEF Depart
  <2> QED
    BY <1>8, <2>1 DEF Depart, ChatInv, ChatTypeOK, Phases, InPhase
<1>9. ASSUME NEW c \in Conns, CloseConn(c) PROVE ChatInv'
  BY <1>9 DEF CloseConn, ChatInv, ChatTypeOK, Phases, InPhase
<1>10. ASSUME NEW c \in Conns, Send(c) PROVE ChatInv'
  <2>1. sent' \in [Conns -> Seq(ChatMessages)]
    <3>1. sent[c] \in Seq(ChatMessages) /\ bmsg \in ChatMessages
      BY DEF ChatInv, ChatTypeOK
    <3>2. Append(sent[c], bmsg) \in Seq(ChatMessages)
      BY <3>1, AppendProperties
    <3> QED
      BY <1>10, <3>2 DEF Send, ChatInv, ChatTypeOK
  <2> QED
    BY <1>0, <1>10, <2>1 DEF Send, Writes, ChatInv, ChatTypeOK, Phases, InPhase
<1>11. ASSUME NEW c \in Conns, Write(c) PROVE ChatInv'
  <2>1. shown' \in [Conns -> Seq(ChatMessages)]
    <3>1. shown[c] \in Seq(ChatMessages) /\ wmsg[c] \in ChatMessages
      BY DEF ChatInv, ChatTypeOK
    <3>2. Append(shown[c], wmsg[c]) \in Seq(ChatMessages)
      BY <3>1, AppendProperties
    <3> QED
      BY <1>11, <3>2 DEF Write, ChatInv, ChatTypeOK
  <2> QED
    BY <1>0, <1>11, <2>1 DEF Write, ChatInv, ChatTypeOK, Phases, InPhase
<1>12. ASSUME NEW c \in Conns, WriterEnds(c) PROVE ChatInv'
  BY <1>12 DEF WriterEnds, ChatInv, ChatTypeOK, Phases, InPhase
<1>13. ASSUME NEW c \in Conns, Reset(c) PROVE ChatInv'
  BY <1>13 DEF Reset, ChatInv, ChatTypeOK, Phases, InPhase
<1>14. CASE UNCHANGED chatVars
  BY <1>14 DEF chatVars, ChatInv, ChatTypeOK, Phases, InPhase
<1> QED
  BY <1>1, <1>2, <1>3, <1>4, <1>5, <1>6, <1>7, <1>8, <1>9, <1>10, <1>11,
     <1>12, <1>13, <1>14
  DEF ChatNext, Handler, Quiet

LEMMA ChatInvariant == ChatSpec => []ChatInv
  BY InvInit, InvNext, PTL DEF ChatSpec

\* Every variable keeps its type.
THEOREM ChatTypes == ChatSpec => []ChatTypeOK
  BY ChatInvariant, PTL DEF ChatInv

\* The server never sends on a closed channel and closes none twice.
THEOREM ServerNeverPanics == ChatSpec => []NoPanic
<1>1. ChatInv => NoPanic
  BY DEF ChatInv, Phases, InPhase, NoPanic, ChatTypeOK
<1> QED
  BY <1>1, ChatInvariant, PTL

\* No send of the broadcaster waits for a writer that has ended.
THEOREM SendsHaveReceivers == ChatSpec => []ClientsHaveWriters
<1>1. ChatInv => ClientsHaveWriters
  BY DEF ChatInv, Phases, InPhase, ClientsHaveWriters, ChatTypeOK
<1> QED
  BY <1>1, ChatInvariant, PTL

-----------------------------------------------------------------------------
(* What a peer is shown *)

\* The peer is shown all that was sent to it; its writer may hold the greeting,
\* or, when the connection is closed, a line that was given up.
Even(c) ==
    /\ shown[c] = sent[c]
    /\ wpc[c] = "write" => wmsg[c] = Greeting(c) \/ c \notin open

\* One message is missing: its writer holds it, or the connection was closed.
Owes(c, m) ==
    /\ sent[c] = Append(shown[c], m)
    /\ c \in open => wpc[c] = "write" /\ wmsg[c] = m /\ m # Greeting(c)

Ledger(c) ==
    /\ c \in open <=> hpc[c] \notin {"none", "done"}
    /\ hpc[c] = "none" => shown[c] = sent[c]
    /\ c \notin reset => Even(c) \/ \E m \in ChatMessages : Owes(c, m)

Ledgers == bmsg.what # "you are" /\ \A c \in Conns : Ledger(c)

\* Only a greeting says "you are".
LEMMA OnlyGreetingGreets ==
    /\ Nothing.what # "you are"
    /\ \A c : Greeting(c).what = "you are"
    /\ \A c, n : /\ Message(c, "arrived", n).what # "you are"
                /\ Message(c, "line", n).what # "you are"
                /\ Message(c, "left", n).what # "you are"
  BY DEF Message, Nothing, Greeting

LEMMA LedgersInit == ChatInit => Ledgers
  BY DEF ChatInit, Ledgers, Ledger, Even, Nothing, Message

\* What is not about the connection of a step stays as it is.
LEMMA LedgerKept ==
    ASSUME NEW c \in Conns, Ledger(c),
           hpc'[c] = hpc[c], c \in open' <=> c \in open, wpc'[c] = wpc[c],
           wmsg'[c] = wmsg[c], sent'[c] = sent[c], shown'[c] = shown[c],
           c \in reset => c \in reset'
    PROVE  Ledger(c)'
  BY DEF Ledger, Even, Owes, Greeting

\* A handler's step that leaves the connection open changes no ledger.
LEMMA LedgerOpen ==
    ASSUME NEW c \in Conns, Ledger(c), c \in open, hpc'[c] \notin {"none", "done"},
           UNCHANGED <<open, reset, sent, shown, wpc, wmsg>>
    PROVE  Ledger(c)'
  BY DEF Ledger, Even, Owes, Greeting

LEMMA LedgersNext ==
    ChatInv /\ ChatInv' /\ Ledgers /\ [ChatNext]_chatVars => Ledgers'
<1> SUFFICES ASSUME ChatInv, ChatInv', Ledgers, [ChatNext]_chatVars
             PROVE  Ledgers'
  OBVIOUS
<1> USE DEF handlerVars, writerVars, broadcasterVars, connVars, historyVars
<1>a. ASSUME NEW c \in Conns,
             Arrive(c) \/ Enter(c) \/ Scan(c) \/ Say(c) \/ Leave(c) \/ Depart(c)
      PROVE  Ledgers'
  <2>1. UNCHANGED <<open, reset, sent, shown, wpc, wmsg>>
    BY <1>a DEF Arrive, Enter, Scan, Say, Leave, Depart
  <2>2. /\ hpc[c] \notin {"none", "done"} /\ hpc'[c] \notin {"none", "done"}
        /\ \A d \in Conns \ {c} : hpc'[d] = hpc[d]
    BY <1>a DEF Arrive, Enter, Scan, Say, Leave, Depart, Goes, ChatInv, ChatTypeOK
  <2>3. bmsg'.what # "you are"
    <3>1. \/ bmsg' = bmsg \/ bmsg' = Nothing \/ bmsg' = Message(c, "arrived", 0)
          \/ bmsg' = Message(c, "line", typed[c]) \/ bmsg' = Message(c, "left", 0)
      BY <1>a DEF Arrive, Enter, Scan, Say, Leave, Depart, Tell
    <3> QED
      BY <3>1, OnlyGreetingGreets, Zenon DEF Ledgers
  <2>4. Ledger(c)'
    BY <2>1, <2>2, LedgerOpen DEF Ledgers, Ledger
  <2>5. \A d \in Conns \ {c} : Ledger(d)'
    BY <2>1, <2>2, LedgerKept DEF Ledgers
  <2> QED
    BY <2>3, <2>4, <2>5 DEF Ledgers
<1>1. ASSUME NEW c \in Conns, Accept(c) PROVE Ledgers'
  <2>1. Ledger(c)'
    BY <1>1 DEF Accept, Goes, Ledgers, Ledger, Even, ChatInv, ChatTypeOK
  <2>2. \A d \in Conns \ {c} : Ledger(d)'
    BY <1>1, LedgerKept DEF Accept, Goes, Ledgers, ChatInv, ChatTypeOK
  <2> QED
    BY <1>1, <2>1, <2>2 DEF Accept, Ledgers
<1>2. ASSUME NEW c \in Conns, Greet(c) PROVE Ledgers'
  <2>1. Ledger(c)'
    <3>1. c \in open /\ wpc[c] = "receive"
      BY <1>2 DEF Greet, Goes, Writes, Ledgers, Ledger
    <3>2. c \notin reset => shown[c] = sent[c]
      BY <3>1 DEF Ledgers, Ledger, Even, Owes
    <3>3. wmsg'[c] = Greeting(c) /\ hpc'[c] = "arrive"
      BY <1>2 DEF Greet, Goes, Writes, ChatInv, ChatTypeOK
    <3> QED
      BY <1>2, <3>1, <3>2, <3>3 DEF Greet, Ledger, Even, Greeting
  <2>2. \A d \in Conns \ {c} : Ledger(d)'
    BY <1>2, LedgerKept DEF Greet, Goes, Writes, Ledgers, ChatInv, ChatTypeOK
  <2> QED
    BY <1>2, <2>1, <2>2 DEF Greet, Ledgers
<1>3. ASSUME NEW c \in Conns, CloseConn(c) PROVE Ledgers'
  <2>1. Ledger(c)'
    BY <1>3 DEF CloseConn, Goes, Ledgers, Ledger, Even, Owes, Greeting,
       ChatInv, ChatTypeOK
  <2>2. \A d \in Conns \ {c} : Ledger(d)'
    BY <1>3, LedgerKept DEF CloseConn, Goes, Ledgers, ChatInv, ChatTypeOK
  <2> QED
    BY <1>3, <2>1, <2>2 DEF CloseConn, Ledgers
<1>4. ASSUME NEW c \in Conns, Send(c) PROVE Ledgers'
  <2>1. Ledger(c)'
    <3>1. c \in open /\ wpc[c] = "receive"
      BY <1>4 DEF Send, Writes, ChatInv, Phases, InPhase, Ledgers, Ledger
    <3>2. c \notin reset => shown[c] = sent[c]
      BY <3>1 DEF Ledgers, Ledger, Even, Owes
    <3>3. wmsg'[c] = bmsg /\ wpc'[c] = "write" /\ sent'[c] = Append(sent[c], bmsg)
      BY <1>4 DEF Send, Writes, ChatInv, ChatTypeOK
    <3>4. bmsg \in ChatMessages
      BY DEF ChatInv, ChatTypeOK
    <3>5. bmsg # Greeting(c)
      BY OnlyGreetingGreets, Zenon DEF Ledgers
    <3> QED
      BY <1>4, <3>1, <3>2, <3>3, <3>4, <3>5 DEF Send, Ledgers, Ledger, Owes, Greeting
  <2>2. \A d \in Conns \ {c} : Ledger(d)'
    BY <1>4, LedgerKept DEF Send, Writes, Ledgers, ChatInv, ChatTypeOK
  <2> QED
    BY <1>4, <2>1, <2>2 DEF Send, Ledgers, Nothing, Message
<1>5. ASSUME NEW c \in Conns, Write(c) PROVE Ledgers'
  <2>1. Ledger(c)'
    <3>1. CASE c \in reset
      BY <1>5, <3>1 DEF Write, Ledgers, Ledger
    <3>2. CASE c \notin reset /\ c \notin open
      BY <1>5, <3>2 DEF Write, Ledgers, Ledger, Even, Owes, Greeting
    <3>3. CASE c \notin reset /\ c \in open
      <4>1. shown'[c] = sent[c]
        <5>1. CASE wmsg[c] = Greeting(c)
          BY <1>5, <3>3, <5>1 DEF Write, Ledgers, Ledger, Even, Owes
        <5>2. CASE wmsg[c] # Greeting(c)
          <6>1. shown'[c] = Append(shown[c], wmsg[c])
            BY <1>5, <3>3, <5>2 DEF Write, ChatInv, ChatTypeOK
          <6> QED
            BY <1>5, <3>3, <5>2, <6>1 DEF Write, Ledgers, Ledger, Even, Owes
        <5> QED
          BY <5>1, <5>2
      <4>2. wpc'[c] = "receive"
        BY <1>5 DEF Write, ChatInv, ChatTypeOK
      <4> QED
        BY <1>5, <3>3, <4>1, <4>2 DEF Write, Ledgers, Ledger, Even
    <3> QED
      BY <3>1, <3>2, <3>3
  <2>2. \A d \in Conns \ {c} : Ledger(d)'
    BY <1>5, LedgerKept DEF Write, Ledgers, ChatInv, ChatTypeOK
  <2> QED
    BY <1>5, <2>1, <2>2 DEF Write, Ledgers
<1>6. ASSUME NEW c \in Conns, WriterEnds(c) PROVE Ledgers'
  <2>1. Ledger(c)'
    BY <1>6 DEF WriterEnds, Ledgers, Ledger, Even, Owes, Greeting, ChatInv, ChatTypeOK
  <2>2. \A d \in Conns \ {c} : Ledger(d)'
    BY <1>6, LedgerKept DEF WriterEnds, Ledgers, ChatInv, ChatTypeOK
  <2> QED
    BY <1>6, <2>1, <2>2 DEF WriterEnds, Ledgers
<1>7. ASSUME NEW c \in Conns, Reset(c) PROVE Ledgers'
  BY <1>7, LedgerKept DEF Reset, Ledgers
<1>8. CASE UNCHANGED chatVars
  BY <1>8, LedgerKept DEF chatVars, Ledgers
<1> QED
  BY <1>a, <1>1, <1>2, <1>3, <1>4, <1>5, <1>6, <1>7, <1>8
  DEF ChatNext, Handler, Quiet

\* A peer that does not reset its connection is shown what was sent to it, in
\* order; at most the last message is lost, when the handler closes the
\* connection while the writer still holds it.
THEOREM AtMostTheLastIsLost == ChatSpec => []OnlyTheLastIsLost
<1>1. ASSUME ChatInv, Ledgers, NEW c \in Conns, c \notin reset, NEW m \in ChatMessages,
             Owes(c, m)
      PROVE  /\ sent[c] # <<>> /\ shown[c] = SubSeq(sent[c], 1, Len(sent[c]) - 1)
             /\ wpc[c] = "write" \/ c \notin open
  <2>1. shown[c] \in Seq(ChatMessages)
    BY <1>1 DEF ChatInv, ChatTypeOK
  <2>2. /\ Len(Append(shown[c], m)) = Len(shown[c]) + 1
        /\ SubSeq(Append(shown[c], m), 1, Len(shown[c])) = shown[c]
        /\ Append(shown[c], m) # <<>>
    <3>1. /\ Len(Append(shown[c], m)) = Len(shown[c]) + 1
          /\ Append(shown[c], m) # <<>>
      BY <1>1, <2>1, AppendProperties
    <3>2. SubSeq(Append(shown[c], m), 1, Len(shown[c])) = shown[c]
      BY <1>1, <2>1
    <3> QED
      BY <3>1, <3>2
  <2> QED
    BY <1>1, <2>1, <2>2 DEF Owes
<1>2. ChatInv /\ Ledgers => OnlyTheLastIsLost
  BY <1>1 DEF OnlyTheLastIsLost, Ledgers, Ledger, Even
<1> QED
  BY <1>2, ChatInvariant, LedgersInit, LedgersNext, PTL DEF ChatSpec

-----------------------------------------------------------------------------
(* The chat room *)

Stage == [c \in Conns |-> RoomStage(c)]
Heard == [c \in Conns |-> IF c \in todo THEN Append(sent[c], bmsg) ELSE sent[c]]

LEMMA MembersAreClients == ChatInv => Room!Members = clients
  BY DEF ChatInv, ChatTypeOK, Phases, InPhase, RoomStage, Room!Members, HandlerStates

\* When the broadcaster receives a message, the whole room hears it.
LEMMA TellIsHeard ==
    ASSUME ChatInv, NEW m, Tell(m), sent' = sent
    PROVE  Room!Hear(m)
<1>1. Heard = sent \/ Heard = [c \in Conns |-> sent[c]]
  BY DEF Tell, Selecting, Heard
<1>2. Heard' = [c \in Conns |-> IF c \in clients THEN Append(sent[c], m)
                                                 ELSE sent[c]]
  BY DEF Tell, Heard
<1> QED
  BY <1>2, MembersAreClients DEF Tell, Selecting, Heard, Room!Hear

\* Every step of the server is a step of the room, or is not noticed there.
LEMMA StepIsRoomStep ==
    ChatInv /\ [ChatNext]_chatVars => [Room!RoomNext]_(Room!roomVars)
<1> SUFFICES ASSUME ChatInv, [ChatNext]_chatVars
             PROVE  Room!RoomNext \/ UNCHANGED Room!roomVars
  OBVIOUS
<1> USE DEF handlerVars, writerVars, broadcasterVars, connVars, historyVars
<1>1. ASSUME NEW c \in Conns,
             Accept(c) \/ Greet(c) \/ Scan(c) \/ CloseConn(c)
               \/ Write(c) \/ WriterEnds(c) \/ Reset(c)
      PROVE  UNCHANGED Room!roomVars
  <2>1. UNCHANGED <<todo, sent, bmsg>>
    BY <1>1 DEF Accept, Greet, Scan, CloseConn, Write, WriterEnds, Reset
  <2>2. Stage' = Stage
    BY <1>1 DEF Accept, Greet, Scan, CloseConn, Write, WriterEnds, Reset, Goes,
       Stage, RoomStage, ChatInv, ChatTypeOK
  <2>3. Heard' = Heard
    BY <2>1 DEF Heard
  <2> QED
    BY <2>2, <2>3 DEF Stage, Heard, Room!roomVars
<1>2. ASSUME NEW c \in Conns, Arrive(c) PROVE Room!Arrive(c)
  <2>1. Room!Hear(Message(c, "arrived", 0))
    BY <1>2, TellIsHeard DEF Arrive
  <2>2. Stage[c] = "out" /\ Stage' = [Stage EXCEPT ![c] = "announced"]
    BY <1>2 DEF Arrive, Goes, Stage, RoomStage, ChatInv, ChatTypeOK
  <2> QED
    BY <2>1, <2>2 DEF Room!Arrive, Room!Goes, Stage, Message
<1>3. ASSUME NEW c \in Conns, Enter(c) PROVE Room!Join(c)
  <2>1. Stage[c] = "announced" /\ Stage' = [Stage EXCEPT ![c] = "in"]
    BY <1>3 DEF Enter, Goes, Stage, RoomStage, ChatInv, ChatTypeOK
  <2>2. Heard' = Heard
    BY <1>3 DEF Enter, Heard
  <2> QED
    BY <2>1, <2>2 DEF Room!Join, Room!Goes, Stage, Heard
<1>4. ASSUME NEW c \in Conns, Say(c) PROVE \E l \in Lines : Room!Say(c, l)
  <2>0. PICK m : m = Message(c, "line", typed[c])
    OBVIOUS
  <2>1. Room!Hear(m)
    <3>1. Tell(m) /\ sent' = sent
      BY <1>4, <2>0 DEF Say, Tell
    <3> QED
      BY <3>1, TellIsHeard
  <2>2. Stage[c] = "in" /\ Stage' = Stage
    BY <1>4 DEF Say, Goes, Stage, RoomStage, ChatInv, ChatTypeOK
  <2>3. typed[c] \in Lines
    BY <1>4, MaxLinesNat DEF Say, Goes, Lines, ChatInv, ChatTypeOK, Phases, InPhase
  <2> QED
    BY <2>0, <2>1, <2>2, <2>3 DEF Room!Say, Room!Hear, Stage, Message
<1>5. ASSUME NEW c \in Conns, Leave(c) PROVE Room!Leave(c)
  <2>1. Stage[c] = "in" /\ Stage' = [Stage EXCEPT ![c] = "gone"]
    BY <1>5 DEF Leave, Goes, Stage, RoomStage, ChatInv, ChatTypeOK
  <2>2. Heard' = Heard
    BY <1>5 DEF Leave, Heard
  <2> QED
    BY <2>1, <2>2 DEF Room!Leave, Room!Goes, Stage, Heard
<1>6. ASSUME NEW c \in Conns, Depart(c) PROVE Room!Depart(c)
  <2>1. Room!Hear(Message(c, "left", 0))
    BY <1>6, TellIsHeard DEF Depart
  <2>2. Stage[c] = "gone" /\ Stage' = [Stage EXCEPT ![c] = "departed"]
    BY <1>6 DEF Depart, Goes, Stage, RoomStage, ChatInv, ChatTypeOK
  <2> QED
    BY <2>1, <2>2 DEF Room!Depart, Room!Goes, Stage, Message
<1>7. ASSUME NEW c \in Conns, Send(c) PROVE UNCHANGED Room!roomVars
  <2>1. Heard' = Heard
    <3>1. ASSUME NEW d \in Conns
          PROVE  (IF d \in todo THEN Append(sent[d], bmsg) ELSE sent[d])'
                   = IF d \in todo THEN Append(sent[d], bmsg) ELSE sent[d]
      <4>1. CASE d = c
        BY <1>7, <4>1 DEF Send, ChatInv, ChatTypeOK
      <4>2. CASE d # c
        BY <1>7, <4>2 DEF Send, ChatInv, ChatTypeOK
      <4> QED BY <4>1, <4>2
    <3> QED
      BY <3>1 DEF Heard
  <2>2. Stage' = Stage
    BY <1>7 DEF Send, Stage, RoomStage
  <2> QED
    BY <2>1, <2>2 DEF Stage, Heard, Room!roomVars
<1>8. CASE UNCHANGED chatVars
  BY <1>8 DEF chatVars, RoomStage, Room!roomVars
<1> QED
  BY <1>1, <1>2, <1>3, <1>4, <1>5, <1>6, <1>7, <1>8
  DEF ChatNext, Handler, Quiet, Room!RoomNext

\* The users of the server see a chat room, whatever the order in which the
\* broadcaster visits its clients and however slowly their peers read.
THEOREM ServerIsChatRoom == ChatSpec => IsChatRoom
<1>1. ChatInit => Room!RoomInit
  BY DEF ChatInit, Room!RoomInit, RoomStage
<1> QED
  BY <1>1, StepIsRoomStep, ChatInvariant, PTL DEF ChatSpec, IsChatRoom, Room!RoomSpec

-----------------------------------------------------------------------------
(* Nobody waits for nobody *)

\* What the handler and the writer of c, and the broadcaster, can do next: the
\* guards of their steps.
HandlerGoes(c) ==
    \/ hpc[c] \in {"scan", "close"}
    \/ hpc[c] = "greet" /\ wpc[c] = "receive"
    \/ hpc[c] \in {"arrive", "enter", "say", "leave", "depart"} /\ Selecting
WriterGoes(c) == wpc[c] = "write" \/ (wpc[c] = "receive" /\ c \in closedCh)
BroadcasterGoes == \E c \in todo : wpc[c] = "receive"

\* A handler that waits for the broadcaster waits while it sends to a client
\* whose writer is there; a handler that greets waits for its own writer, which
\* has not ended; and a writer with nothing to write ends with its channel.
LEMMA ConnGoes ==
    ASSUME ChatInv, NEW c \in Conns, hpc[c] # "none",
           ~(hpc[c] = "done" /\ wpc[c] = "done")
    PROVE  HandlerGoes(c) \/ BroadcasterGoes \/ \E d \in Conns : WriterGoes(d)
<1>1. /\ hpc[c] \in HandlerStates /\ wpc[c] \in {"none", "receive", "write", "done"}
      /\ InPhase(c)
  BY DEF ChatInv, ChatTypeOK, Phases
<1>2. CASE hpc[c] \in {"scan", "close"}
  BY <1>2 DEF HandlerGoes
<1>3. CASE hpc[c] \in {"greet", "done"}
  BY <1>1, <1>3 DEF HandlerGoes, WriterGoes, InPhase
<1>4. CASE hpc[c] \in {"arrive", "enter", "say", "leave", "depart"} /\ Selecting
  BY <1>4 DEF HandlerGoes
<1>5. CASE ~Selecting
  <2>1. PICK d \in todo : d \in clients /\ d \in Conns /\ InPhase(d)
    BY <1>5 DEF Selecting, ChatInv, ChatTypeOK, Phases
  <2>2. wpc[d] \in {"receive", "write"}
    BY <2>1 DEF InPhase, ChatInv, ChatTypeOK
  <2> QED
    BY <2>1, <2>2 DEF BroadcasterGoes, WriterGoes
<1> QED
  BY <1>1, <1>2, <1>3, <1>4, <1>5 DEF HandlerStates

\* The goroutines of the server never block one another for good: as long as
\* somebody who came has not gone, with handler and writer, that handler, the
\* broadcaster or some writer has a step to take, which in a write is up to its
\* peer.  NobodyKeptWaiting adds what becomes of it under the fairness of the
\* scheduler.
THEOREM ServerNeverStuck ==
    ChatSpec =>
      [](\A c \in Conns : hpc[c] # "none" /\ ~(hpc[c] = "done" /\ wpc[c] = "done") =>
           HandlerGoes(c) \/ BroadcasterGoes \/ \E d \in Conns : WriterGoes(d))
<1>1. ChatInv =>
        \A c \in Conns : hpc[c] # "none" /\ ~(hpc[c] = "done" /\ wpc[c] = "done") =>
          HandlerGoes(c) \/ BroadcasterGoes \/ \E d \in Conns : WriterGoes(d)
  BY ConnGoes
<1> QED
  BY <1>1, ChatInvariant, PTL
=============================================================================

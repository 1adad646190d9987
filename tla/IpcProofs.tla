----------------------------- MODULE IpcProofs -----------------------------
(***************************************************************************)
(* The sessions of IpcEcho, for any number of clients and sessions.        *)
(* OwnAnswer is not inductive: that the value a client receives is its own *)
(* answer rests on the channel being private to the client and on the two  *)
(* ends being in step, which is Paired.                                    *)
(***************************************************************************)
EXTENDS IpcEcho, TLAPS

IpcInv == IpcTypeOK /\ Paired /\ OwnAnswer

\* Nobody but the client of a session and its goroutine ever sends on its
\* channel, so a receiver can only meet the other end.
LEMMA OnlyPartner ==
    ASSUME IpcInv, NEW c \in Clients, cpc[c] = "wait",
           NEW p \in Offering(conn[c])
    PROVE  /\ p = conn[c] /\ p \in Sessions /\ p \notin Clients
           /\ spc[p] = "reply"
           /\ Offered(p) = Answer(out[c]) /\ out[c] \in Requests
<1>1. conn[c] \in Sessions
  BY DEF IpcInv, IpcTypeOK, Paired, InStep
<1>2. p \notin Clients
  <2> SUFFICES ASSUME p \in Clients PROVE FALSE
    OBVIOUS
  <2>1. conn[p] = conn[c] /\ cpc[p] \in {"send", "close"}
    BY <1>1, ClientsAreNotSessions DEF Offering
  <2>2. p = c
    BY <2>1, <1>1, ClientsAreNotSessions DEF IpcInv, Paired, OwnChannel
  <2> QED
    BY <2>1, <2>2
<1>3. p = conn[c] /\ spc[p] = "reply"
  BY <1>2 DEF Offering
<1>4. sbuf[conn[c]] = Answer(out[c]) /\ out[c] \in Requests
  BY <1>3 DEF IpcInv, Paired, InStep
<1> QED
  BY <1>1, <1>2, <1>3, <1>4 DEF Offered

\* What a session receives is offered by the client the session belongs to.
LEMMA OnlyOwner ==
    ASSUME IpcInv, NEW s \in Sessions, spc[s] = "receive",
           NEW p \in Offering(s)
    PROVE  /\ p \in Clients /\ conn[p] = s /\ cpc[p] \in {"send", "close"}
           /\ Offered(p) = out[p]
  BY DEF Offering, Offered

\* The initial state satisfies the invariant: nobody has a session yet.
LEMMA InitInv == IpcInit => IpcInv
  BY ClientsAreNotSessions DEF IpcInit, IpcInv, IpcTypeOK, Paired, OwnChannel, InStep, OwnAnswer,
      Strings, ClientStates, SessionStates

\* A new session is nobody's yet, so Connect keeps channels private.
LEMMA ConnectInv ==
    ASSUME IpcInv, NEW c \in Clients, Connect(c)
    PROVE  IpcInv'
<1> PICK s \in Sessions :
      /\ Unused(s)
      /\ conn' = [conn EXCEPT ![c] = s]
      /\ spc' = [spc EXCEPT ![s] = "receive"]
  BY DEF Connect
<1> USE DEF Connect, IpcInv
<1>1. IpcTypeOK'
  BY DEF IpcTypeOK, ClientStates, SessionStates
<1>2. \A d \in Clients : conn[d] # s
  BY ClientsAreNotSessions
  DEF Unused, IpcTypeOK, ClientStates, Paired, InStep
<1>3. OwnChannel'
  BY <1>2 DEF IpcTypeOK, Paired, OwnChannel
<1>4. ASSUME NEW d \in Clients PROVE InStep(d)'
  <2>1. CASE d = c
    BY <2>1, ClientsAreNotSessions DEF IpcTypeOK, InStep
  <2>2. CASE d # c
    BY <2>2, <1>2 DEF IpcTypeOK, Paired, InStep
  <2> QED BY <2>1, <2>2
<1>5. OwnAnswer'
  BY DEF IpcTypeOK, OwnAnswer, Paired, InStep
<1> QED
  BY <1>1, <1>3, <1>4, <1>5 DEF Paired, IpcTypeOK

\* Call and CloseClient only choose what the client goes on to send, and
\* CallReturn forgets it.
LEMMA CallInv ==
    ASSUME IpcInv, NEW c \in Clients,
           \/ \E r \in Requests : Call(c, r)
           \/ CloseClient(c) \/ CallReturn(c)
    PROVE  IpcInv'
<1> USE DEF Call, CloseClient, CallReturn, IpcInv
<1>1. IpcTypeOK'
  BY DEF IpcTypeOK, ClientStates, Strings
<1>2. OwnChannel'
  BY DEF Paired, OwnChannel
<1>3. ASSUME NEW d \in Clients PROVE InStep(d)'
  BY DEF IpcTypeOK, Paired, InStep
<1>4. OwnAnswer'
  BY DEF IpcTypeOK, OwnAnswer
<1> QED
  BY <1>1, <1>2, <1>3, <1>4 DEF Paired

\* A client gets the answer to its own request, and both ends are free again.
LEMMA ClientReceiveInv ==
    ASSUME IpcInv, NEW c \in Clients, ClientReceive(c)
    PROVE  IpcInv'
<1> USE DEF IpcInv
<1>1. PICK p \in Offering(conn[c]) :
        /\ got' = [got EXCEPT ![c] = Offered(p)]
        /\ cpc' = [d \in Clients |->
                     IF d = c THEN "return" ELSE SentClient(d, p)]
        /\ spc' = [t \in Sessions |-> SentSession(t, p)]
        /\ sbuf' = [t \in Sessions |-> IF t = p THEN NoString ELSE sbuf[t]]
  BY DEF ClientReceive
<1>2. cpc[c] = "wait" /\ UNCHANGED <<conn, out>>
  BY DEF ClientReceive
<1>3. /\ p = conn[c] /\ p \in Sessions /\ p \notin Clients
      /\ Offered(p) = Answer(out[c]) /\ out[c] \in Requests
  BY <1>2, OnlyPartner
<1>4. cpc' = [cpc EXCEPT ![c] = "return"]
  BY <1>1, <1>3 DEF SentClient, IpcTypeOK
<1>5. /\ spc' = [spc EXCEPT ![conn[c]] = "receive"]
      /\ sbuf' = [sbuf EXCEPT ![conn[c]] = NoString]
  BY <1>1, <1>3 DEF SentSession, IpcTypeOK
<1>6. IpcTypeOK'
  BY <1>1, <1>2, <1>3, <1>4, <1>5
  DEF IpcTypeOK, ClientStates, SessionStates, Strings, Answers
<1>7. OwnChannel'
  BY <1>2 DEF Paired, OwnChannel
<1>8. ASSUME NEW d \in Clients PROVE InStep(d)'
  <2>1. CASE d = c
    BY <2>1, <1>2, <1>3, <1>4, <1>5 DEF IpcTypeOK, Paired, InStep
  <2>2. CASE d # c
    <3>1. conn[d] # conn[c]
      BY <2>2, <1>3, ClientsAreNotSessions DEF Paired, OwnChannel
    <3> QED
      BY <2>2, <3>1, <1>2, <1>3, <1>4, <1>5 DEF IpcTypeOK, Paired, InStep
  <2> QED BY <2>1, <2>2
<1>9. OwnAnswer'
  BY <1>1, <1>2, <1>3, <1>4 DEF IpcTypeOK, OwnAnswer
<1> QED
  BY <1>2, <1>5, <1>6, <1>7, <1>8, <1>9 DEF Paired, IpcTypeOK

\* A session takes its owner's request, or ends with its owner's "CLOSE".
LEMMA ServerReceiveInv ==
    ASSUME IpcInv, NEW s \in Sessions, ServerReceive(s)
    PROVE  IpcInv'
<1> USE DEF IpcInv
<1>1. PICK p \in Offering(s) :
        /\ sbuf' = [sbuf EXCEPT ![s] = Offered(p)]
        /\ spc' = [spc EXCEPT ![s] =
                     IF Offered(p) = Close THEN "closed" ELSE "handle"]
        /\ cpc' = [d \in Clients |-> SentClient(d, p)]
  BY DEF ServerReceive
<1>2. spc[s] = "receive" /\ UNCHANGED <<conn, out, got>>
  BY DEF ServerReceive
<1>3. /\ p \in Clients /\ conn[p] = s /\ cpc[p] \in {"send", "close"}
      /\ Offered(p) = out[p]
  BY <1>2, OnlyOwner
<1>4. cpc' = [cpc EXCEPT ![p] =
                IF cpc[p] = "send" THEN "wait" ELSE "closed"]
  BY <1>1, <1>3 DEF SentClient, IpcTypeOK
<1>5. IpcTypeOK'
  BY <1>1, <1>2, <1>3, <1>4
  DEF IpcTypeOK, ClientStates, SessionStates, Strings
<1>6. OwnChannel'
  BY <1>2 DEF Paired, OwnChannel
<1>7. ASSUME NEW d \in Clients PROVE InStep(d)'
  <2>1. CASE d = p
    BY <2>1, <1>1, <1>2, <1>3, <1>4, CloseIsNotARequest
    DEF IpcTypeOK, Paired, InStep
  <2>2. CASE d # p
    <3>1. conn[d] # s
      BY <2>2, <1>3, ClientsAreNotSessions DEF Paired, OwnChannel
    <3> QED
      BY <2>2, <3>1, <1>1, <1>2, <1>3, <1>4 DEF IpcTypeOK, Paired, InStep
  <2> QED BY <2>1, <2>2
<1>8. OwnAnswer'
  BY <1>2, <1>3, <1>4 DEF IpcTypeOK, OwnAnswer
<1>9. \A t \in Sessions : spc'[t] = "handle" => sbuf'[t] \in Requests
  BY <1>1, <1>3, CloseIsNotARequest DEF IpcTypeOK, Paired, InStep
<1> QED
  BY <1>5, <1>6, <1>7, <1>8, <1>9 DEF Paired

\* Handling turns the request a session holds into the answer to it.
LEMMA HandledInv ==
    ASSUME IpcInv, NEW s \in Sessions, Handled(s, Answer(sbuf[s]))
    PROVE  IpcInv'
<1> USE DEF IpcInv, Handled
<1>0. \A c \in Clients :
        conn[c] = s => cpc[c] = "wait" /\ sbuf[s] = out[c] /\ out[c] \in Requests
  BY ClientsAreNotSessions DEF IpcTypeOK, ClientStates, Paired, InStep
<1>1. IpcTypeOK'
  BY DEF IpcTypeOK, Paired, SessionStates, Strings, Answers
<1>2. OwnChannel'
  BY DEF Paired, OwnChannel
<1>3. ASSUME NEW d \in Clients PROVE InStep(d)'
  BY <1>0 DEF IpcTypeOK, Paired, InStep
<1>4. OwnAnswer'
  BY DEF OwnAnswer
<1> QED
  BY <1>1, <1>2, <1>3, <1>4 DEF Paired, IpcTypeOK

\* The invariant is inductive.
LEMMA NextInv == IpcInv /\ [IpcNext]_ipcVars => IpcInv'
<1> SUFFICES ASSUME IpcInv, [IpcNext]_ipcVars PROVE IpcInv'
  OBVIOUS
<1>1. CASE UNCHANGED ipcVars
  BY <1>1 DEF ipcVars, IpcInv, IpcTypeOK, Paired, OwnChannel, InStep, OwnAnswer
<1>2. ASSUME NEW c \in Clients, Connect(c) PROVE IpcInv'
  BY <1>2, ConnectInv
<1>3. ASSUME NEW c \in Clients,
             \/ \E r \in Requests : Call(c, r)
             \/ CloseClient(c) \/ CallReturn(c)
      PROVE  IpcInv'
  BY <1>3, CallInv
<1>4. ASSUME NEW c \in Clients, ClientReceive(c) PROVE IpcInv'
  BY <1>4, ClientReceiveInv
<1>5. ASSUME NEW s \in Sessions, ServerReceive(s) PROVE IpcInv'
  BY <1>5, ServerReceiveInv
<1>6. ASSUME NEW s \in Sessions, Handled(s, Answer(sbuf[s])) PROVE IpcInv'
  BY <1>6, HandledInv
<1> QED
  BY <1>1, <1>2, <1>3, <1>4, <1>5, <1>6 DEF IpcNext, Finished

\* The two ends of every session stay in step, whatever the interleaving.
THEOREM SessionsPaired == IpcSpec => []Paired
<1>1. IpcSpec => []IpcInv
  BY InitInv, NextInv, PTL DEF IpcSpec
<1> QED
  BY <1>1, PTL DEF IpcInv

\* Every Call returns the answer to the request it sent (ipc_test.go), for
\* any number of clients, sessions and requests.
THEOREM CallsGetOwnAnswer == IpcSpec => []OwnAnswer
<1>1. IpcSpec => []IpcInv
  BY InitInv, NextInv, PTL DEF IpcSpec
<1> QED
  BY <1>1, PTL DEF IpcInv

\* Every variable keeps its type.
THEOREM IpcTypes == IpcSpec => []IpcTypeOK
<1>1. IpcSpec => []IpcInv
  BY InitInv, NextInv, PTL DEF IpcSpec
<1> QED
  BY <1>1, PTL DEF IpcInv

\* The "?????" of client.go: although both ends send and receive on one channel,
\* a sender's partner is the other end, waiting to receive, and whoever receives
\* an answer can meet nobody but the session that has it.  So no rendezvous is
\* missed and none is with the wrong party.
THEOREM PartnersMeet ==
    IpcSpec =>
      [](\A c \in Clients :
           /\ cpc[c] \in {"send", "close"} =>
                spc[conn[c]] = "receive" /\ Offering(conn[c]) = {c}
           /\ cpc[c] = "wait" =>
                \/ spc[conn[c]] = "handle" /\ Offering(conn[c]) = {}
                \/ spc[conn[c]] = "reply" /\ Offering(conn[c]) = {conn[c]})
<1>1. ASSUME IpcInv, NEW c \in Clients, cpc[c] \in {"send", "close"}
      PROVE  spc[conn[c]] = "receive" /\ Offering(conn[c]) = {c}
  <2>1. conn[c] \in Sessions /\ conn[c] # NoSession /\ spc[conn[c]] = "receive"
    BY <1>1 DEF IpcInv, IpcTypeOK, Paired, InStep
  <2>2. \A d \in Clients : conn[d] = conn[c] => d = c
    BY <1>1, <2>1 DEF IpcInv, Paired, OwnChannel
  <2> QED
    BY <1>1, <2>1, <2>2 DEF Offering
<1>2. ASSUME IpcInv, NEW c \in Clients, cpc[c] = "wait"
      PROVE  \/ spc[conn[c]] = "handle" /\ Offering(conn[c]) = {}
             \/ spc[conn[c]] = "reply" /\ Offering(conn[c]) = {conn[c]}
  <2>1. conn[c] \in Sessions /\ spc[conn[c]] \in {"handle", "reply"}
    BY <1>2 DEF IpcInv, IpcTypeOK, Paired, InStep
  <2>2. \A p \in Offering(conn[c]) : p = conn[c] /\ spc[p] = "reply"
    BY <1>2, OnlyPartner
  <2>3. spc[conn[c]] = "reply" => conn[c] \in Offering(conn[c])
    BY <2>1 DEF Offering
  <2> QED
    BY <2>1, <2>2, <2>3
<1>3. IpcInv =>
        \A c \in Clients :
           /\ cpc[c] \in {"send", "close"} =>
                spc[conn[c]] = "receive" /\ Offering(conn[c]) = {c}
           /\ cpc[c] = "wait" =>
                \/ spc[conn[c]] = "handle" /\ Offering(conn[c]) = {}
                \/ spc[conn[c]] = "reply" /\ Offering(conn[c]) = {conn[c]}
  BY <1>1, <1>2
<1> QED
  BY <1>3, InitInv, NextInv, PTL DEF IpcSpec
=============================================================================

----------------------------- MODULE CgssProofs -----------------------------
(***************************************************************************)
(* The whole of golang/cgss, for any number of command loops, sessions,    *)
(* players and messages.  A session belongs to the one client that made    *)
(* its channel, and where the session and its handler are follows from     *)
(* where that client is (Served).  Then the request a handler works on is  *)
(* the one its client sent, the response the client gets is that of this   *)
(* request, and the serial server of CenterProofs is, through the IPC, a   *)
(* Lobby for the people at the command loops.                              *)
(***************************************************************************)
EXTENDS Cgss, CenterProofs

IpcTypes ==
    /\ conn \in [Clients -> Sessions \cup {NoSession}]
    /\ cpc \in [Clients -> Ipc!ClientStates \ {"close", "closed"}]
    /\ spc \in [Sessions -> Ipc!SessionStates \ {"closed"}]
    /\ out \in [Clients -> Requests \cup {Close, NoString}]
    /\ got \in [Clients -> Responses \cup {Close, NoString}]
    /\ sbuf \in [Sessions -> Payloads]
    /\ quit \subseteq Clients

\* Session s is where its client c has it, working on what c sent.
Served(c, s) ==
    /\ cpc[c] \in {"idle", "send", "return"} => spc[s] = "receive"
    /\ cpc[c] = "wait" => spc[s] \in {"handle", "reply"}
    /\ spc[s] = "handle" /\ hpc[s] = "idle" => sbuf[s] = out[c]
    /\ spc[s] = "reply" => sbuf[s] \in Responses
    /\ hpc[s] # "idle" => req[s] = out[c]

Paired(c) ==
    /\ cpc[c] = "new" <=> conn[c] = NoSession
    /\ cpc[c] \in {"send", "wait"} => out[c] \in Requests
    /\ conn[c] # NoSession => Served(c, conn[c])

Owned(s) ==
    /\ spc[s] # "none" => \E c \in Clients : conn[c] = s
    /\ hpc[s] # "idle" => spc[s] = "handle"

OneEach ==
    \A c, d \in Clients : conn[c] = conn[d] /\ conn[c] # NoSession => c = d

Pairs ==
    /\ OneEach
    /\ \A c \in Clients : Paired(c)
    /\ \A s \in Sessions : Owned(s)

CgssInv == CenterInv /\ IpcTypes /\ Pairs

-----------------------------------------------------------------------------
(* Sessions and their clients *)

LEMMA PairsInit == CgssInit => IpcTypes /\ Pairs
  BY NoSessionIsNone
  DEF CgssInit, CenterInit, Ipc!IpcInit, IpcTypes, Pairs, OneEach, Paired, Owned,
      Ipc!ClientStates, Ipc!SessionStates, Payloads

\* The client of a session that works is waiting.
LEMMA ClientOfSession ==
    ASSUME CgssInv, NEW s \in Sessions, spc[s] \in {"handle", "reply"}
    PROVE  \E c \in Clients :
             /\ conn[c] = s /\ cpc[c] = "wait" /\ out[c] \in Requests
             /\ Served(c, s)
<1>1. PICK c \in Clients : conn[c] = s
  BY DEF CgssInv, Pairs, Owned
<1>2. conn[c] # NoSession
  BY <1>1, NoSessionIsNone
<1>3. Paired(c) /\ Served(c, s)
  BY <1>1, <1>2 DEF CgssInv, Pairs, Paired
<1>4. cpc[c] \in {"idle", "send", "return", "wait"}
  BY <1>2, <1>3 DEF CgssInv, IpcTypes, Paired, Ipc!ClientStates
<1>5. cpc[c] = "wait"
  BY <1>3, <1>4 DEF Served
<1> QED
  BY <1>1, <1>3, <1>5 DEF Paired

\* What a session receives is the request of its client.
LEMMA SessionReceives ==
    ASSUME CgssInv, NEW s \in Sessions, Ipc!ServerReceive(s)
    PROVE  \E c \in Clients :
             /\ conn[c] = s /\ cpc[c] = "send" /\ out[c] \in Requests
             /\ spc[s] = "receive"
             /\ sbuf' = [sbuf EXCEPT ![s] = out[c]]
             /\ spc' = [spc EXCEPT ![s] = "handle"]
             /\ cpc' = [cpc EXCEPT ![c] = "wait"]
             /\ UNCHANGED <<conn, out, got>>
<1>1. PICK p \in Ipc!Offering(s) :
        /\ sbuf' = [sbuf EXCEPT ![s] = Ipc!Offered(p)]
        /\ spc' = [spc EXCEPT ![s] =
                     IF Ipc!Offered(p) = Close THEN "closed" ELSE "handle"]
        /\ cpc' = [d \in Clients |-> Ipc!SentClient(d, p)]
  BY DEF Ipc!ServerReceive
<1>2. spc[s] = "receive" /\ UNCHANGED <<conn, out, got>>
  BY DEF Ipc!ServerReceive
<1>3. p \in Clients /\ conn[p] = s /\ cpc[p] = "send"
  BY <1>1, <1>2 DEF Ipc!Offering, CgssInv, IpcTypes
<1>4. out[p] \in Requests /\ Ipc!Offered(p) = out[p] /\ out[p] # Close
  BY <1>3, CloseIsNoRequest DEF CgssInv, Pairs, Paired, Ipc!Offered
<1>5. cpc' = [cpc EXCEPT ![p] = "wait"]
  BY <1>1, <1>3 DEF Ipc!SentClient, CgssInv, IpcTypes
<1> QED
  BY <1>1, <1>2, <1>3, <1>4, <1>5

\* What a client hears is the response of its session.
LEMMA ClientHears ==
    ASSUME CgssInv, NEW c \in Clients, Ipc!ClientReceive(c)
    PROVE  /\ cpc[c] = "wait" /\ conn[c] \in Sessions /\ spc[conn[c]] = "reply"
           /\ sbuf[conn[c]] \in Responses
           /\ got' = [got EXCEPT ![c] = sbuf[conn[c]]]
           /\ cpc' = [cpc EXCEPT ![c] = "return"]
           /\ spc' = [spc EXCEPT ![conn[c]] = "receive"]
           /\ sbuf' = [sbuf EXCEPT ![conn[c]] = NoString]
           /\ UNCHANGED <<conn, out>>
<1>1. PICK p \in Ipc!Offering(conn[c]) :
        /\ got' = [got EXCEPT ![c] = Ipc!Offered(p)]
        /\ cpc' = [d \in Clients |-> IF d = c THEN "return" ELSE Ipc!SentClient(d, p)]
        /\ spc' = [t \in Sessions |-> Ipc!SentSession(t, p)]
        /\ sbuf' = [t \in Sessions |-> IF t = p THEN NoString ELSE sbuf[t]]
  BY DEF Ipc!ClientReceive
<1>2. cpc[c] = "wait" /\ UNCHANGED <<conn, out>>
  BY DEF Ipc!ClientReceive
<1>3. conn[c] # NoSession /\ conn[c] \in Sessions
  BY <1>2 DEF CgssInv, IpcTypes, Pairs, Paired
<1>4. p = conn[c] /\ spc[p] = "reply"
  BY <1>1, <1>2, <1>3 DEF Ipc!Offering, CgssInv, IpcTypes, Pairs, OneEach
<1>5. p \notin Clients /\ Ipc!Offered(p) = sbuf[p]
  BY <1>3, <1>4, ClientsAreApart DEF Ipc!Offered
<1>6. sbuf[p] \in Responses
  BY <1>3, <1>4 DEF CgssInv, Pairs, Paired, Served
<1>7. cpc' = [cpc EXCEPT ![c] = "return"]
  BY <1>1, <1>5 DEF Ipc!SentClient, CgssInv, IpcTypes
<1>8. spc' = [spc EXCEPT ![p] = "receive"] /\ sbuf' = [sbuf EXCEPT ![p] = NoString]
  BY <1>1 DEF Ipc!SentSession, CgssInv, IpcTypes
<1> QED
  BY <1>1, <1>2, <1>3, <1>4, <1>5, <1>6, <1>7, <1>8

-----------------------------------------------------------------------------
(* The invariant *)

\* A step of a handler concerns its session, and leaves the request alone.
LEMMA StepOfHandler ==
    ASSUME CenterTypeOK, NEW s \in Sessions, Step(s)
    PROVE  /\ hpc[s] \in {"called", "inside"} /\ hpc'[s] \in {"inside", "reply"}
           /\ req' = req
           /\ \A t \in Sessions \ {s} : hpc'[t] = hpc[t] /\ resp'[t] = resp[t]
  BY DEF Step, Reject, Lock, RLock, AddPlayer, RemovePlayer, ListPlayer, Push,
     BroadcastDone, Enter, Leave, Inside, CenterTypeOK, handlerVars

\* The center server's invariant survives the steps of the composition: a
\* command reserves a player or a message before Handle has it.
LEMMA CenterKept == CgssInv /\ [CgssNext]_cgssVars => CenterInv'
<1> SUFFICES ASSUME CgssInv, [CgssNext]_cgssVars PROVE CenterInv'
  OBVIOUS
<1> USE DEF lockVars, mailVars, handlerVars, issueVars
<1>0. ASSUME [CenterNext]_centerVars PROVE CenterInv'
  BY <1>0, TypeNext, LockingNext, StaleNext DEF CgssInv, CenterInv
<1>1. CASE UNCHANGED centerVars
  BY <1>0, <1>1
<1>2. ASSUME NEW s \in Sessions, Work(s) PROVE CenterInv'
  BY <1>0, <1>2 DEF Work, CenterNext
<1>3. ASSUME NEW s \in Sessions, Respond(s) PROVE CenterInv'
  BY <1>0, <1>3 DEF Respond, CenterNext
<1>4. ASSUME NEW p \in PlayerIds, PrintMessage(p) PROVE CenterInv'
  BY <1>0, <1>4 DEF PrintMessage, CenterNext
<1>5. ASSUME NEW c \in Clients, NEW r \in Requests, Command(c, r) PROVE CenterInv'
  <2>1. logins' \in 0..MaxPlayers /\ sends' \in 0..MaxMessages
    BY <1>5, RequestKinds, RosterBounds
    DEF Command, Issue, Fresh, CgssInv, CenterInv, CenterTypeOK, Players,
        PlayerIds, Messages
  <2> QED
    BY <1>5, <2>1 DEF Command, CgssInv, CenterInv, CenterTypeOK, Locking, Inside,
       NothingStale
<1>6. ASSUME NEW s \in Sessions, Serve(s) PROVE CenterInv'
  <2>1. sbuf[s] \in Requests /\ hpc[s] = "idle"
    BY <1>6, ClientOfSession DEF Serve, Handle, Served
  <2>2. PICK r \in Requests : r = sbuf[s]
    BY <2>1
  <2>3. Handle(s, r) /\ UNCHANGED issueVars
    BY <1>6, <2>2 DEF Serve
  <2>4. started' \in SUBSET PlayerIds
    BY <2>3, RequestKinds DEF Handle, CgssInv, CenterInv, CenterTypeOK, Players
  <2>5. CenterTypeOK'
    BY <2>3, <2>4 DEF Handle, CgssInv, CenterInv, CenterTypeOK, HandlerStates
  <2>6. Locking'
    BY <2>3 DEF Handle, Locking, Inside, CgssInv, CenterInv, CenterTypeOK
  <2>7. NothingStale'
    BY <2>3 DEF Handle, NothingStale, CgssInv, CenterInv, CenterTypeOK
  <2> QED
    BY <2>5, <2>6, <2>7 DEF CenterInv
<1>7. ASSUME NEW c \in Clients, Start(c) \/ Quit(c) \/ Hear(c) \/ Outcome(c)
      PROVE  CenterInv'
  BY <1>1, <1>7 DEF Start, Quit, Hear, Outcome
<1>8. ASSUME NEW s \in Sessions, Receive(s) PROVE CenterInv'
  BY <1>1, <1>8 DEF Receive
<1>9. CASE AllQuit \/ UNCHANGED cgssVars
  BY <1>1, <1>9 DEF AllQuit, cgssVars
<1> QED
  BY <1>2, <1>3, <1>4, <1>5, <1>6, <1>7, <1>8, <1>9 DEF CgssNext

\* What a step does not touch stays paired.
LEMMA PairedKept ==
    ASSUME CgssInv, NEW c \in Clients,
           conn'[c] = conn[c], cpc'[c] = cpc[c], out'[c] = out[c],
           conn[c] \in Sessions =>
             /\ spc'[conn[c]] = spc[conn[c]] /\ sbuf'[conn[c]] = sbuf[conn[c]]
             /\ hpc'[conn[c]] = hpc[conn[c]] /\ req'[conn[c]] = req[conn[c]]
    PROVE  Paired(c)'
<1>1. conn[c] \in Sessions \cup {NoSession} /\ Paired(c)
  BY DEF CgssInv, IpcTypes, Pairs
<1> QED
  BY <1>1, NoSessionIsNone DEF Paired, Served

LEMMA OthersPaired ==
    ASSUME CgssInv, NEW c \in Clients, conn[c] \in Sessions, UNCHANGED conn,
           \A d \in Clients \ {c} : cpc'[d] = cpc[d] /\ out'[d] = out[d],
           \A t \in Sessions \ {conn[c]} :
             /\ spc'[t] = spc[t] /\ sbuf'[t] = sbuf[t]
             /\ hpc'[t] = hpc[t] /\ req'[t] = req[t],
           Paired(c)', Owned(conn[c])'
    PROVE  Pairs'
<1>1. OneEach'
  BY DEF CgssInv, Pairs, OneEach
<1>2. \A d \in Clients \ {c} : conn[d] \in Sessions => conn[d] # conn[c]
  BY NoSessionIsNone DEF CgssInv, Pairs, OneEach
<1>3. \A d \in Clients \ {c} : Paired(d)'
  BY <1>2, PairedKept
<1>4. \A t \in Sessions \ {conn[c]} : Owned(t)'
  BY DEF CgssInv, Pairs, Owned
<1>5. PICK s \in Sessions : s = conn[c] /\ s = conn'[c]
  OBVIOUS
<1>6. Owned(s)'
  BY <1>5 DEF Owned
<1> QED
  BY <1>1, <1>3, <1>4, <1>5, <1>6 DEF Pairs

\* The sessions' side of one step each.
LEMMA ReceivePairs ==
    ASSUME CgssInv, NEW s \in Sessions, Receive(s) PROVE IpcTypes' /\ Pairs'
<1>1. PICK c \in Clients :
        /\ conn[c] = s /\ cpc[c] = "send" /\ out[c] \in Requests
        /\ spc[s] = "receive"
        /\ sbuf' = [sbuf EXCEPT ![s] = out[c]]
        /\ spc' = [spc EXCEPT ![s] = "handle"]
        /\ cpc' = [cpc EXCEPT ![c] = "wait"]
        /\ UNCHANGED <<conn, out, got>>
  BY SessionReceives DEF Receive
<1>2. UNCHANGED <<hpc, req, quit>>
  BY DEF Receive, centerVars, handlerVars
<1>3. IpcTypes'
  BY <1>1, <1>2 DEF CgssInv, IpcTypes, Payloads, Ipc!ClientStates, Ipc!SessionStates
<1>4. hpc[s] = "idle"
  BY <1>1 DEF CgssInv, Pairs, Owned
<1>5. /\ cpc'[c] = "wait" /\ spc'[s] = "handle" /\ sbuf'[s] = out[c]
      /\ hpc'[s] = "idle" /\ conn'[c] = s /\ out'[c] = out[c]
  BY <1>1, <1>2, <1>4 DEF CgssInv, IpcTypes
<1>6. Paired(c)' /\ Owned(s)'
  BY <1>1, <1>5, NoSessionIsNone DEF Paired, Owned, Served
<1>7. Owned(conn[c])'
  BY <1>1, <1>6 DEF Owned
<1> QED
  BY <1>1, <1>2, <1>3, <1>6, <1>7, OthersPaired DEF CgssInv, IpcTypes

LEMMA ServePairs ==
    ASSUME CgssInv, NEW s \in Sessions, Serve(s) PROVE IpcTypes' /\ Pairs'
<1>1. UNCHANGED ipcVars /\ UNCHANGED quit /\ spc[s] = "handle"
  BY DEF Serve
<1>2. PICK c \in Clients : conn[c] = s /\ cpc[c] = "wait" /\ out[c] \in Requests
                             /\ Served(c, s)
  BY <1>1, ClientOfSession
<1>3. hpc' = [hpc EXCEPT ![s] = "called"] /\ req' = [req EXCEPT ![s] = sbuf[s]]
      /\ hpc[s] = "idle"
  BY DEF Serve, Handle
<1>4. hpc'[s] = "called" /\ req'[s] = out[c]
  BY <1>1, <1>2, <1>3 DEF Served, CgssInv, CenterInv, CenterTypeOK
<1>5. IpcTypes'
  BY <1>1 DEF CgssInv, IpcTypes, ipcVars
<1>6. Paired(c)' /\ Owned(s)'
  BY <1>1, <1>2, <1>4, NoSessionIsNone DEF Paired, Owned, Served, ipcVars
<1>7. Owned(conn[c])'
  BY <1>1, <1>2, <1>6 DEF Owned, ipcVars
<1> QED
  BY <1>1, <1>2, <1>3, <1>5, <1>6, <1>7, OthersPaired
  DEF ipcVars, CgssInv, CenterInv, CenterTypeOK

LEMMA WorkPairs ==
    ASSUME CgssInv, NEW s \in Sessions, Work(s) PROVE IpcTypes' /\ Pairs'
<1>1. UNCHANGED ipcVars /\ UNCHANGED quit
  BY DEF Work
<1>2. /\ hpc[s] # "idle" /\ hpc'[s] # "idle" /\ req' = req
      /\ \A t \in Sessions \ {s} : hpc'[t] = hpc[t]
  BY StepOfHandler DEF Work, CgssInv, CenterInv
<1>3. spc[s] = "handle"
  BY <1>2 DEF CgssInv, Pairs, Owned
<1>4. PICK c \in Clients : conn[c] = s /\ cpc[c] = "wait" /\ out[c] \in Requests
                             /\ Served(c, s)
  BY <1>3, ClientOfSession
<1>5. IpcTypes'
  BY <1>1 DEF CgssInv, IpcTypes, ipcVars
<1>6. Paired(c)' /\ Owned(s)'
  BY <1>1, <1>2, <1>3, <1>4, NoSessionIsNone DEF Paired, Owned, Served, ipcVars
<1>7. Owned(conn[c])'
  BY <1>1, <1>4, <1>6 DEF Owned, ipcVars
<1> QED
  BY <1>1, <1>2, <1>4, <1>5, <1>6, <1>7, OthersPaired DEF ipcVars

LEMMA RespondPairs ==
    ASSUME CgssInv, NEW s \in Sessions, Respond(s) PROVE IpcTypes' /\ Pairs'
<1>1. /\ spc[s] = "handle" /\ hpc[s] = "reply" /\ resp[s] \in Responses
      /\ spc' = [spc EXCEPT ![s] = "reply"] /\ sbuf' = [sbuf EXCEPT ![s] = resp[s]]
      /\ hpc' = [hpc EXCEPT ![s] = "idle"] /\ req' = [req EXCEPT ![s] = NoRequest]
      /\ UNCHANGED <<conn, cpc, out, got, quit>>
  BY DEF Respond, HandleReturns, Ipc!Handled, CgssInv, CenterInv, CenterTypeOK
<1>2. PICK c \in Clients : conn[c] = s /\ cpc[c] = "wait" /\ out[c] \in Requests
                             /\ Served(c, s)
  BY <1>1, ClientOfSession
<1>3. spc'[s] = "reply" /\ sbuf'[s] \in Responses /\ hpc'[s] = "idle"
  BY <1>1 DEF CgssInv, IpcTypes, CenterInv, CenterTypeOK
<1>4. IpcTypes'
  BY <1>1 DEF CgssInv, IpcTypes, Payloads, Ipc!SessionStates
<1>5. Paired(c)' /\ Owned(s)'
  BY <1>1, <1>2, <1>3, NoSessionIsNone DEF Paired, Owned, Served
<1>6. Owned(conn[c])'
  BY <1>1, <1>2, <1>5 DEF Owned
<1> QED
  BY <1>1, <1>2, <1>4, <1>5, <1>6, OthersPaired
  DEF CgssInv, IpcTypes, CenterInv, CenterTypeOK

\* The clients' side of one step each.
LEMMA StartPairs ==
    ASSUME CgssInv, NEW c \in Clients, Start(c) PROVE IpcTypes' /\ Pairs'
<1>1. PICK s \in Sessions :
        /\ spc[s] = "none"
        /\ conn' = [conn EXCEPT ![c] = s]
        /\ spc' = [spc EXCEPT ![s] = "receive"]
  BY DEF Start, Ipc!Connect, Ipc!Unused
<1>2. /\ cpc[c] = "new" /\ cpc' = [cpc EXCEPT ![c] = "idle"]
      /\ UNCHANGED <<out, got, sbuf, hpc, req, quit>>
  BY DEF Start, Ipc!Connect, centerVars, handlerVars
<1>3. IpcTypes'
  BY <1>1, <1>2 DEF CgssInv, IpcTypes, Ipc!ClientStates, Ipc!SessionStates
<1>4. conn[c] = NoSession /\ hpc[s] = "idle"
  BY <1>1, <1>2 DEF CgssInv, Pairs, Paired, Owned
<1>5. \A d \in Clients : conn[d] # s
  <2> SUFFICES ASSUME NEW d \in Clients, conn[d] = s PROVE FALSE
    OBVIOUS
  <2>1. Paired(d) /\ Served(d, s) /\ cpc[d] # "new"
    BY NoSessionIsNone DEF CgssInv, Pairs, Paired
  <2>2. cpc[d] \in {"idle", "send", "return", "wait"}
    BY <2>1 DEF CgssInv, IpcTypes, Ipc!ClientStates
  <2> QED
    BY <1>1, <2>1, <2>2 DEF Served
<1>6. conn'[c] = s /\ cpc'[c] = "idle" /\ spc'[s] = "receive"
  BY <1>1, <1>2 DEF CgssInv, IpcTypes
<1>7. \A d \in Clients \ {c} : conn'[d] = conn[d] /\ cpc'[d] = cpc[d]
  BY <1>1, <1>2 DEF CgssInv, IpcTypes
<1>8. \A t \in Sessions \ {s} : spc'[t] = spc[t]
  BY <1>1 DEF CgssInv, IpcTypes
<1>9. OneEach'
  BY <1>5, <1>6, <1>7 DEF CgssInv, Pairs, OneEach
<1>10. Paired(c)'
  BY <1>2, <1>4, <1>6, NoSessionIsNone DEF Paired, Served
<1>11. \A d \in Clients \ {c} : Paired(d)'
  BY <1>2, <1>5, <1>7, <1>8, PairedKept
<1>12. Owned(s)'
  BY <1>2, <1>4, <1>6 DEF Owned
<1>13. \A t \in Sessions \ {s} : Owned(t)'
  <2> SUFFICES ASSUME NEW t \in Sessions \ {s} PROVE Owned(t)'
    OBVIOUS
  <2>1. Owned(t) /\ t # NoSession
    BY NoSessionIsNone DEF CgssInv, Pairs
  <2> QED
    BY <1>2, <1>4, <1>7, <1>8, <2>1 DEF Owned
<1> QED
  BY <1>3, <1>9, <1>10, <1>11, <1>12, <1>13 DEF Pairs

LEMMA CommandPairs ==
    ASSUME CgssInv, NEW c \in Clients, NEW r \in Requests, Command(c, r)
    PROVE  IpcTypes' /\ Pairs'
<1>1. /\ cpc[c] = "idle" /\ cpc' = [cpc EXCEPT ![c] = "send"]
      /\ out' = [out EXCEPT ![c] = r]
      /\ UNCHANGED <<conn, got, spc, sbuf, hpc, req, quit>>
  BY DEF Command, Ipc!Call, handlerVars
<1>2. IpcTypes'
  BY <1>1 DEF CgssInv, IpcTypes, Ipc!ClientStates
<1>3. conn[c] \in Sessions /\ Served(c, conn[c])
  BY <1>1 DEF CgssInv, IpcTypes, Pairs, Paired
<1>4. hpc[conn[c]] = "idle" /\ spc[conn[c]] = "receive"
  BY <1>1, <1>3 DEF CgssInv, Pairs, Owned, Served
<1>5. cpc'[c] = "send" /\ out'[c] = r
  BY <1>1 DEF CgssInv, IpcTypes
<1>6. Paired(c)'
  BY <1>1, <1>3, <1>4, <1>5, NoSessionIsNone DEF Paired, Served
<1>7. Owned(conn[c])'
  BY <1>1, <1>3, <1>4 DEF Owned
<1> QED
  BY <1>1, <1>2, <1>3, <1>6, <1>7, OthersPaired DEF CgssInv, IpcTypes

LEMMA HearPairs ==
    ASSUME CgssInv, NEW c \in Clients, Hear(c) PROVE IpcTypes' /\ Pairs'
<1>0. PICK s \in Sessions : s = conn[c]
  BY ClientHears DEF Hear
<1>1. /\ cpc[c] = "wait" /\ spc[s] = "reply" /\ sbuf[s] \in Responses
      /\ got' = [got EXCEPT ![c] = sbuf[s]]
      /\ cpc' = [cpc EXCEPT ![c] = "return"]
      /\ spc' = [spc EXCEPT ![s] = "receive"]
      /\ sbuf' = [sbuf EXCEPT ![s] = NoString]
      /\ UNCHANGED <<conn, out, hpc, req, quit>>
  BY <1>0, ClientHears DEF Hear, centerVars, handlerVars
<1>2. IpcTypes'
  BY <1>1 DEF CgssInv, IpcTypes, Payloads, Ipc!ClientStates, Ipc!SessionStates
<1>3. hpc[s] = "idle"
  BY <1>1 DEF CgssInv, Pairs, Owned
<1>4. cpc'[c] = "return" /\ spc'[s] = "receive" /\ conn'[c] = s
  BY <1>0, <1>1 DEF CgssInv, IpcTypes
<1>5. Paired(c)' /\ Owned(s)'
  BY <1>0, <1>1, <1>3, <1>4, NoSessionIsNone DEF Paired, Served, Owned
<1>6. Owned(conn[c])'
  BY <1>0, <1>1, <1>5 DEF Owned
<1> QED
  BY <1>0, <1>1, <1>2, <1>5, <1>6, OthersPaired DEF CgssInv, IpcTypes

LEMMA OutcomePairs ==
    ASSUME CgssInv, NEW c \in Clients, Outcome(c) PROVE IpcTypes' /\ Pairs'
<1>1. /\ cpc[c] = "return" /\ cpc' = [cpc EXCEPT ![c] = "idle"]
      /\ out' = [out EXCEPT ![c] = NoString] /\ got' = [got EXCEPT ![c] = NoString]
      /\ UNCHANGED <<conn, spc, sbuf, hpc, req, quit>>
  BY DEF Outcome, Ipc!CallReturn, centerVars, handlerVars
<1>2. IpcTypes'
  BY <1>1 DEF CgssInv, IpcTypes, Ipc!ClientStates
<1>3. conn[c] \in Sessions /\ Served(c, conn[c])
  BY <1>1 DEF CgssInv, IpcTypes, Pairs, Paired
<1>4. hpc[conn[c]] = "idle" /\ spc[conn[c]] = "receive"
  BY <1>1, <1>3 DEF CgssInv, Pairs, Owned, Served
<1>5. cpc'[c] = "idle"
  BY <1>1 DEF CgssInv, IpcTypes
<1>6. Paired(c)'
  BY <1>1, <1>3, <1>4, <1>5, NoSessionIsNone DEF Paired, Served
<1>7. Owned(conn[c])'
  BY <1>1, <1>3, <1>4 DEF Owned
<1> QED
  BY <1>1, <1>2, <1>3, <1>6, <1>7, OthersPaired DEF CgssInv, IpcTypes

\* A step that leaves the IPC and the handlers' requests alone.
LEMMA PairsKept ==
    ASSUME CgssInv, UNCHANGED <<ipcVars, hpc, req>>, quit' \subseteq Clients
    PROVE  IpcTypes' /\ Pairs'
<1>1. IpcTypes'
  BY DEF CgssInv, IpcTypes, ipcVars
<1>2. \A c \in Clients : Paired(c)'
  BY PairedKept DEF ipcVars
<1>3. OneEach' /\ \A s \in Sessions : Owned(s)'
  BY DEF CgssInv, Pairs, OneEach, Owned, ipcVars
<1> QED
  BY <1>1, <1>2, <1>3 DEF Pairs

LEMMA CgssInvNext == CgssInv /\ [CgssNext]_cgssVars => CgssInv'
<1> SUFFICES ASSUME CgssInv, [CgssNext]_cgssVars PROVE IpcTypes' /\ Pairs'
  BY CenterKept DEF CgssInv
<1>1. ASSUME NEW s \in Sessions, Receive(s) \/ Serve(s) \/ Work(s) \/ Respond(s)
      PROVE  IpcTypes' /\ Pairs'
  BY <1>1, ReceivePairs, ServePairs, WorkPairs, RespondPairs
<1>2. ASSUME NEW c \in Clients, Start(c) \/ Hear(c) \/ Outcome(c)
      PROVE  IpcTypes' /\ Pairs'
  BY <1>2, StartPairs, HearPairs, OutcomePairs
<1>3. ASSUME NEW c \in Clients, NEW r \in Requests, Command(c, r)
      PROVE  IpcTypes' /\ Pairs'
  BY <1>3, CommandPairs
<1>4. ASSUME NEW c \in Clients, Quit(c) PROVE IpcTypes' /\ Pairs'
  <2>1. quit' \subseteq Clients /\ UNCHANGED <<ipcVars, hpc, req>>
    BY <1>4 DEF Quit, centerVars, handlerVars, CgssInv, IpcTypes
  <2> QED
    BY <2>1, PairsKept
<1>5. ASSUME NEW p \in PlayerIds, PrintMessage(p) PROVE IpcTypes' /\ Pairs'
  <2>1. quit' \subseteq Clients /\ UNCHANGED <<ipcVars, hpc, req>>
    BY <1>5 DEF PrintMessage, Printer, handlerVars, CgssInv, IpcTypes
  <2> QED
    BY <2>1, PairsKept
<1>6. CASE AllQuit \/ UNCHANGED cgssVars
  <2>1. quit' \subseteq Clients /\ UNCHANGED <<ipcVars, hpc, req>>
    BY <1>6 DEF AllQuit, cgssVars, centerVars, handlerVars, CgssInv, IpcTypes
  <2> QED
    BY <2>1, PairsKept
<1> QED
  BY <1>1, <1>2, <1>3, <1>4, <1>5, <1>6 DEF CgssNext

LEMMA CgssInvariant == CgssSpec => []CgssInv
<1>1. CgssInit => CgssInv
  BY PairsInit, TypeInit, LockingInit, StaleInit DEF CgssInit, CgssInv, CenterInv
<1> QED
  BY <1>1, CgssInvNext, PTL DEF CgssSpec

\* Every variable of the IPC keeps its type.
THEOREM CgssTypes == CgssSpec => []CgssTypeOK
<1>1. CgssInv => CgssTypeOK
  BY DEF CgssInv, IpcTypes, CgssTypeOK
<1> QED
  BY <1>1, CgssInvariant, PTL

\* A handler works for the client that waits on its session and on what that
\* client sent, however many sessions there are.
THEOREM HandlersServeTheirClients == CgssSpec => []HandlerServesItsClient
<1>1. ASSUME CgssInv, NEW s \in Sessions, hpc[s] # "idle"
      PROVE  \E c \in Clients :
               conn[c] = s /\ cpc[c] = "wait" /\ spc[s] = "handle" /\ req[s] = out[c]
  <2>1. spc[s] = "handle"
    BY <1>1 DEF CgssInv, Pairs, Owned
  <2> QED
    BY <1>1, <2>1, ClientOfSession DEF Served
<1>2. CgssInv => HandlerServesItsClient
  BY <1>1 DEF HandlerServesItsClient
<1> QED
  BY <1>2, CgssInvariant, PTL

\* Also in the composition the handlers exclude one another, and the roster a
\* handler works on is never replaced under it.
THEOREM HandlersExcludeInCgss == CgssSpec => [](Exclusion /\ NothingStale)
<1>1. CgssInv => Exclusion /\ NothingStale
  BY LockingExcludes DEF CgssInv, CenterInv
<1> QED
  BY <1>1, CgssInvariant, PTL

-----------------------------------------------------------------------------
(* What the players are shown *)

LEMMA MailKept ==
    CgssInv /\ RosterRead /\ Delivery /\ [CgssNext]_cgssVars => RosterRead' /\ Delivery'
<1> SUFFICES ASSUME CgssInv, RosterRead, Delivery, [CgssNext]_cgssVars
             PROVE  RosterRead' /\ Delivery'
  OBVIOUS
<1> USE DEF lockVars, mailVars, handlerVars, issueVars
<1>a. CenterInv /\ CenterTypeOK
  BY DEF CgssInv, CenterInv
<1>0. ASSUME [CenterNext]_centerVars PROVE RosterRead' /\ Delivery'
  BY <1>a, <1>0, ReadNext, DeliveryNext
<1>1. CASE UNCHANGED centerVars
  BY <1>0, <1>1
<1>2. ASSUME NEW s \in Sessions, Work(s) \/ Respond(s) PROVE RosterRead' /\ Delivery'
  BY <1>0, <1>2 DEF Work, Respond, CenterNext
<1>3. ASSUME NEW p \in PlayerIds, PrintMessage(p) PROVE RosterRead' /\ Delivery'
  BY <1>0, <1>3 DEF PrintMessage, CenterNext
<1>4. ASSUME NEW c \in Clients, NEW r \in Requests, Command(c, r)
      PROVE  RosterRead' /\ Delivery'
  <2>1. UNCHANGED <<players, started, mq, printed, log, hpc, req, snap, pos>>
    BY <1>4 DEF Command
  <2>2. RosterRead'
    BY <2>1 DEF RosterRead
  <2> QED
    BY <2>1, <2>2, DeliverySame DEF Inside
<1>5. ASSUME NEW s \in Sessions, Serve(s) PROVE RosterRead' /\ Delivery'
  <2>1. sbuf[s] \in Requests
    BY <1>5, ClientOfSession DEF Serve, Handle, Served
  <2>2. PICK r \in Requests : r = sbuf[s]
    BY <2>1
  <2>3. Handle(s, r)
    BY <1>5, <2>2 DEF Serve
  <2> QED
    BY <1>a, <2>3, ReadHandle, DeliveryHandle
<1>6. ASSUME NEW c \in Clients, Start(c) \/ Quit(c) \/ Hear(c) \/ Outcome(c)
      PROVE  RosterRead' /\ Delivery'
  BY <1>1, <1>6 DEF Start, Quit, Hear, Outcome
<1>7. ASSUME NEW s \in Sessions, Receive(s) PROVE RosterRead' /\ Delivery'
  BY <1>1, <1>7 DEF Receive
<1>8. CASE AllQuit \/ UNCHANGED cgssVars
  BY <1>1, <1>8 DEF AllQuit, cgssVars
<1> QED
  BY <1>2, <1>3, <1>4, <1>5, <1>6, <1>7, <1>8 DEF CgssNext

LEMMA MailInvariant == CgssSpec => [](RosterRead /\ Delivery)
<1>1. CgssInit => RosterRead /\ Delivery
  BY DeliveryInit DEF CgssInit, CenterInit, RosterRead
<1> QED
  BY <1>1, MailKept, CgssInvariant, PTL DEF CgssSpec

\* Also in the composition nobody misses a broadcast or sees one twice, and no
\* broadcast sends to a mailbox that nobody reads.
THEOREM DeliveryInCgss == CgssSpec => [](ExactDelivery /\ MailboxesRead)
<1>1. CgssInv /\ RosterRead /\ Delivery => ExactDelivery /\ MailboxesRead
  BY DeliveryIsExact DEF CgssInv, CenterInv, RosterRead, NothingStale, MailboxesRead
<1> QED
  BY <1>1, CgssInvariant, MailInvariant, PTL

-----------------------------------------------------------------------------
(* No command is stuck *)

\* What the command of c waits for next can be done now: its session receives
\* it or calls Handle, or the client receives the answer or returns.
CallGoes(c) ==
    \/ cpc[c] = "send" /\ spc[conn[c]] = "receive" /\ c \in Ipc!Offering(conn[c])
    \/ /\ cpc[c] = "wait" /\ spc[conn[c]] = "handle" /\ hpc[conn[c]] = "idle"
       /\ sbuf[conn[c]] \in Requests
    \/ cpc[c] = "wait" /\ conn[c] \in Ipc!Offering(conn[c])
    \/ cpc[c] = "return"

LEMMA CommandGoes ==
    ASSUME CgssInv, MailboxesRead, NEW c \in Clients,
           cpc[c] \in {"send", "wait", "return"}
    PROVE  \/ CallGoes(c)
           \/ \E s \in Sessions : CanGo(s)
           \/ \E p \in PlayerIds : CanPrint(p)
<1> DEFINE s == conn[c]
<1>1. s # NoSession /\ s \in Sessions /\ Paired(c) /\ Served(c, s)
  BY DEF CgssInv, IpcTypes, Pairs, Paired
<1>2. CASE cpc[c] = "return"
  BY <1>2 DEF CallGoes
<1>3. CASE cpc[c] = "send"
  BY <1>1, <1>3 DEF Served, CallGoes, Ipc!Offering
<1>4. CASE cpc[c] = "wait"
  <2>1. out[c] \in Requests /\ spc[s] \in {"handle", "reply"}
    BY <1>1, <1>4 DEF Paired, Served
  <2>2. CASE spc[s] = "reply"
    BY <1>1, <1>4, <2>2 DEF CallGoes, Ipc!Offering
  <2>3. CASE spc[s] = "handle" /\ hpc[s] = "idle"
    BY <1>1, <1>4, <2>1, <2>3 DEF Served, CallGoes
  <2>4. CASE hpc[s] # "idle"
    <3>1. req[s] \in Requests
      BY <1>1, <2>1, <2>4 DEF Served
    <3> QED
      BY <1>1, <2>4, <3>1, HandlerGoes DEF CgssInv
  <2> QED
    BY <2>1, <2>2, <2>3, <2>4
<1> QED
  BY <1>2, <1>3, <1>4

\* While a command is under way, something that it waits for can be done: a
\* step of its own call, of a handler, or of a printer.  Loops, sessions, the
\* lock and full mailboxes never form a circle of waiting; CommandsEnd adds
\* that under the fairness of the scheduler the command ends.
THEOREM CommandsNeverStuck ==
    CgssSpec => [](\A c \in Clients : cpc[c] \in {"send", "wait", "return"} =>
                     \/ CallGoes(c)
                     \/ \E s \in Sessions : CanGo(s)
                     \/ \E p \in PlayerIds : CanPrint(p))
<1>1. CgssInv /\ ExactDelivery /\ MailboxesRead =>
        \A c \in Clients : cpc[c] \in {"send", "wait", "return"} =>
          \/ CallGoes(c)
          \/ \E s \in Sessions : CanGo(s)
          \/ \E p \in PlayerIds : CanPrint(p)
  BY CommandGoes
<1> QED
  BY <1>1, CgssInvariant, DeliveryInCgss, PTL

-----------------------------------------------------------------------------
(* The system is a Lobby for the command loops *)

\* Seen's requests, responses and roster operations are the server's.
LEMMA SeenData ==
    /\ Seen!Requests = Requests /\ Seen!NoRequest = NoRequest
    /\ Seen!NoResponse = NoResponse
    /\ Seen!NotFound = NotFound /\ Seen!NobodyOnline = NobodyOnline
    /\ \A c : Seen!Code(c) = Code(c)
    /\ \A ps : Seen!Listing(ps) = Listing(ps)
    /\ \A r : Seen!Rejected(r) <=> Rejected(r)
    /\ \A r : Seen!Rejection(r) = Rejection(r)
    /\ \A ps, n, i : Seen!FirstNamed(ps, n, i) <=> FirstNamed(ps, n, i)
    /\ \A ps, n : Seen!Absent(ps, n) <=> Absent(ps, n)
    /\ \A ps, i : Seen!Cut(ps, i) = Cut(ps, i)
<1>1. Seen!Requests = Requests /\ \A r : Seen!Rejected(r) <=> Rejected(r)
  BY DEF Seen!Requests, Requests, Seen!AddRequests, AddRequests,
     Seen!RemoveRequests, RemoveRequests, Seen!ListRequests, ListRequests,
     Seen!BroadcastRequests, BroadcastRequests, Seen!RejectedRequests,
     RejectedRequests, Seen!Rejected, Rejected, Seen!Players, Players,
     Seen!PlayerIds, PlayerIds, Seen!Messages, Messages
<1>2. /\ Seen!NoRequest = NoRequest /\ Seen!NoResponse = NoResponse
      /\ Seen!NotFound = NotFound /\ Seen!NobodyOnline = NobodyOnline
      /\ \A c : Seen!Code(c) = Code(c)
      /\ \A ps : Seen!Listing(ps) = Listing(ps)
      /\ \A r : Seen!Rejection(r) = Rejection(r)
  BY DEF Seen!NoRequest, NoRequest, Seen!NoResponse, NoResponse,
     Seen!NotFound, NotFound, Seen!NobodyOnline, NobodyOnline,
     Seen!Code, Code, Seen!Listing, Listing, Seen!Rejection, Rejection,
     Seen!BadJson, BadJson
<1>3. /\ \A ps, n, i : Seen!FirstNamed(ps, n, i) <=> FirstNamed(ps, n, i)
      /\ \A ps, n : Seen!Absent(ps, n) <=> Absent(ps, n)
  BY DEF Seen!FirstNamed, FirstNamed, Seen!Absent, Absent
<1>4. \A ps, i : Seen!Cut(ps, i) = Cut(ps, i)
  BY DEF Seen!Cut, Cut, Seen!Slice, Slice
<1> QED
  BY <1>1, <1>2, <1>3, <1>4

\* What the Lobby has for the clients.
SeenStage == [c \in Clients |-> ClientStage(c)]
SeenReq == [c \in Clients |->
              IF ClientStage(c) = "idle" THEN NoRequest ELSE out[c]]
SeenReply == [c \in Clients |-> Pending(c)]

LEMMA ClientStages ==
    ASSUME CgssInv, NEW c \in Clients
    PROVE  /\ ClientStage(c) = "idle" <=> cpc[c] \in {"new", "idle"}
           /\ ClientStage(c) = "done" <=> cpc[c] = "return" \/ (cpc[c] = "wait" /\ AtHand(c))
           /\ ClientStage(c) = "called" <=> cpc[c] = "send" \/ (cpc[c] = "wait" /\ ~AtHand(c))
           /\ ClientStage(c) # "done" => Pending(c) = NoResponse
<1>1. ClientStage(c) # "done" => Pending(c) = NoResponse
  BY DEF Pending
<1> QED
  BY <1>1 DEF ClientStage, CgssInv, IpcTypes, Ipc!ClientStates

\* A client looks the same after a step that does not concern its session.
LEMMA ViewKept ==
    ASSUME CgssInv, NEW c \in Clients,
           conn'[c] = conn[c], cpc'[c] = cpc[c], got'[c] = got[c],
           conn[c] \in Sessions =>
             /\ spc'[conn[c]] = spc[conn[c]] /\ sbuf'[conn[c]] = sbuf[conn[c]]
             /\ hpc'[conn[c]] = "reply" <=> hpc[conn[c]] = "reply"
             /\ resp'[conn[c]] = resp[conn[c]]
    PROVE  ClientStage(c)' = ClientStage(c) /\ Pending(c)' = Pending(c)
<1>1. CASE conn[c] = NoSession
  <2>1. cpc[c] = "new" /\ cpc'[c] = "new"
    BY <1>1 DEF CgssInv, Pairs, Paired
  <2>2. ClientStage(c) = "idle" /\ ClientStage(c)' = "idle"
    BY <2>1 DEF ClientStage
  <2> QED
    BY <2>2 DEF Pending
<1>2. CASE conn[c] \in Sessions
  <2>1. AtHand(c)' <=> AtHand(c)
    BY <1>2 DEF AtHand
  <2>2. ClientStage(c)' = ClientStage(c)
    BY <2>1 DEF ClientStage
  <2> QED
    BY <1>2, <2>2 DEF Pending
<1> QED
  BY <1>1, <1>2 DEF CgssInv, IpcTypes

LEMMA SeenUnchanged ==
    ASSUME UNCHANGED <<players, log, out>>,
           \A c \in Clients : ClientStage(c)' = ClientStage(c) /\ Pending(c)' = Pending(c)
    PROVE  UNCHANGED Seen!lobbyVars
<1>1. SeenStage' = SeenStage /\ SeenReq' = SeenReq /\ SeenReply' = SeenReply
  BY DEF SeenStage, SeenReq, SeenReply
<1> QED
  BY <1>1 DEF Seen!lobbyVars, SeenStage, SeenReq, SeenReply

\* When the request of session s takes effect, that of its client does.
LEMMA EffectSeen ==
    ASSUME CgssInv, NEW c \in Clients, NEW s \in Sessions, req[s] = out[c],
           \/ Serial!Reject(s) \/ Serial!Add(s) \/ Serial!Remove(s)
           \/ Serial!List(s) \/ Serial!Broadcast(s),
           ClientStage(c) = "called", ClientStage(c)' = "done",
           Pending(c)' = resp'[s], UNCHANGED out,
           \A d \in Clients \ {c} : /\ ClientStage(d)' = ClientStage(d)
                                    /\ Pending(d)' = Pending(d)
    PROVE  Seen!Apply(c)
<1>1. SeenStage[c] = "called" /\ SeenReq[c] = req[s]
  BY DEF SeenStage, SeenReq
<1>2. SeenStage' = [SeenStage EXCEPT ![c] = "done"] /\ SeenReq' = SeenReq
  BY DEF SeenStage, SeenReq
<1>3. SeenReply' = [SeenReply EXCEPT ![c] = resp'[s]]
  BY DEF SeenReply
<1>4. \A r : Serial!Answered(s, r) => Seen!Answered(c, r)
  BY <1>3 DEF Serial!Answered, Seen!Answered, SeenReply, CgssInv, CenterInv, CenterTypeOK
<1>5. Serial!Reject(s) => Seen!Reject(c)
  BY <1>1, <1>4, SameData, SeenData DEF Serial!Reject, Seen!Reject, SeenReq
<1>6. Serial!Add(s) => Seen!Add(c)
  BY <1>1, <1>4, SameData, SeenData DEF Serial!Add, Seen!Add, SeenReq
<1>7. Serial!Remove(s) => Seen!Remove(c)
  BY <1>1, <1>4, SameData, SeenData DEF Serial!Remove, Seen!Remove, SeenReq
<1>8. Serial!List(s) => Seen!List(c)
  BY <1>1, <1>4, SameData, SeenData DEF Serial!List, Seen!List, SeenReq
<1>9. Serial!Broadcast(s) => Seen!Broadcast(c)
  BY <1>1, <1>4, SameData, SeenData DEF Serial!Broadcast, Seen!Broadcast, SeenReq
<1> QED
  BY <1>1, <1>2, <1>5, <1>6, <1>7, <1>8, <1>9 DEF Seen!Apply, SeenStage, SeenReq

\* A handler's step that responds is its request's effect in Serial.
LEMMA EffectSerial ==
    ASSUME CenterInv, NEW s \in Sessions, Step(s), hpc'[s] = "reply"
    PROVE  \/ Serial!Reject(s) \/ Serial!Add(s) \/ Serial!Remove(s)
           \/ Serial!List(s) \/ Serial!Broadcast(s)
<1> DEFINE Stage == [t \in Sessions |-> StageOf(t)]
<1>1. Serial!LobbyNext \/ UNCHANGED Serial!lobbyVars
  BY StepIsSerial DEF CenterNext
<1>2. Stage[s] = "called" /\ Stage'[s] = "done"
  BY StepOfHandler DEF CenterInv, StageOf
<1>3. Stage' # Stage
  BY <1>2
<1>4. Serial!LobbyNext
  BY <1>1, <1>3 DEF Serial!lobbyVars
<1>5. PICK t \in Sessions : Serial!Call(t) \/ Serial!Apply(t) \/ Serial!Return(t)
  BY <1>4 DEF Serial!LobbyNext
<1>6. ~Serial!Call(t)
  <2>1. Serial!Call(t) => Stage' = [Stage EXCEPT ![t] = "called"]
    BY DEF Serial!Call
  <2> QED
    BY <1>2, <2>1
<1>7. ~Serial!Return(t)
  <2>1. Serial!Return(t) => Stage' = [Stage EXCEPT ![t] = "idle"]
    BY DEF Serial!Return
  <2> QED
    BY <1>2, <2>1
<1>8. Serial!Apply(t) /\ t = s
  <2>1. Serial!Apply(t) => Stage' = [Stage EXCEPT ![t] = "done"]
    BY DEF Serial!Apply
  <2> QED
    BY <1>2, <1>5, <1>6, <1>7, <2>1
<1> QED
  BY <1>8 DEF Serial!Apply

\* Every step of the system is one of the Lobby, or is not noticed there.  The
\* request of a command takes effect when the handler that has it unlocks.
LEMMA ClientStepIsSeen ==
    ASSUME CgssInv, NEW c \in Clients
    PROVE  /\ Start(c) \/ Quit(c) \/ Hear(c) => UNCHANGED Seen!lobbyVars
           /\ \A r \in Requests : Command(c, r) => Seen!Call(c)
           /\ Outcome(c) => Seen!Return(c)
<1>a. ASSUME UNCHANGED centerVars
      PROVE  UNCHANGED <<players, log, hpc, req, resp>>
  BY <1>a DEF centerVars, handlerVars
<1>1. ASSUME Start(c) PROVE UNCHANGED Seen!lobbyVars
  <2>1. PICK s \in Sessions :
          /\ spc[s] = "none" /\ conn' = [conn EXCEPT ![c] = s]
          /\ spc' = [spc EXCEPT ![s] = "receive"]
    BY <1>1 DEF Start, Ipc!Connect, Ipc!Unused
  <2>2. /\ cpc[c] = "new" /\ cpc' = [cpc EXCEPT ![c] = "idle"]
        /\ UNCHANGED <<out, got, sbuf, players, log, hpc, req, resp>>
    BY <1>1, <1>a DEF Start, Ipc!Connect
  <2>3. cpc'[c] = "idle"
    BY <2>2 DEF CgssInv, IpcTypes
  <2>4. ClientStage(c) = "idle" /\ ClientStage(c)' = "idle"
    BY <2>2, <2>3 DEF ClientStage
  <2>5. ASSUME NEW d \in Clients \ {c}
        PROVE  ClientStage(d)' = ClientStage(d) /\ Pending(d)' = Pending(d)
    <3>1. conn'[d] = conn[d] /\ cpc'[d] = cpc[d] /\ got'[d] = got[d]
      BY <2>1, <2>2 DEF CgssInv, IpcTypes
    <3>2. conn[d] \in Sessions => spc[conn[d]] # "none"
      <4>1. conn[d] \in Sessions =>
              Served(d, conn[d]) /\ cpc[d] \in {"idle", "send", "return", "wait"}
        BY NoSessionIsNone DEF CgssInv, IpcTypes, Pairs, Paired, Ipc!ClientStates
      <4> QED
        BY <4>1 DEF Served
    <3>3. conn[d] \in Sessions => spc'[conn[d]] = spc[conn[d]]
      BY <2>1, <3>2 DEF CgssInv, IpcTypes
    <3> QED
      BY <2>2, <3>1, <3>3, ViewKept
  <2> QED
    BY <2>2, <2>4, <2>5, SeenUnchanged DEF Pending
<1>2. ASSUME Quit(c) PROVE UNCHANGED Seen!lobbyVars
  <2>1. UNCHANGED <<players, log, hpc, req, resp, conn, cpc, out, got, spc, sbuf>>
    BY <1>2, <1>a DEF Quit, ipcVars
  <2> QED
    BY <2>1, ViewKept, SeenUnchanged
<1>3. ASSUME Hear(c) PROVE UNCHANGED Seen!lobbyVars
  <2>0. PICK s \in Sessions : s = conn[c]
    BY <1>3, ClientHears DEF Hear
  <2>1. /\ cpc[c] = "wait" /\ spc[s] = "reply"
        /\ got' = [got EXCEPT ![c] = sbuf[s]]
        /\ cpc' = [cpc EXCEPT ![c] = "return"]
        /\ spc' = [spc EXCEPT ![s] = "receive"]
        /\ sbuf' = [sbuf EXCEPT ![s] = NoString]
        /\ UNCHANGED <<conn, out, players, log, hpc, req, resp>>
    BY <1>3, <1>a, <2>0, ClientHears DEF Hear
  <2>2. cpc'[c] = "return" /\ got'[c] = sbuf[s]
    BY <2>1 DEF CgssInv, IpcTypes
  <2>3. ClientStage(c) = "done" /\ ClientStage(c)' = "done"
    BY <2>0, <2>1, <2>2 DEF ClientStage, AtHand
  <2>4. Pending(c) = sbuf[s] /\ Pending(c)' = sbuf[s]
    BY <2>0, <2>1, <2>2, <2>3 DEF Pending
  <2>5. \A d \in Clients \ {c} : conn[d] # s
    BY <2>0, NoSessionIsNone DEF CgssInv, Pairs, OneEach
  <2>6. \A d \in Clients \ {c} :
          ClientStage(d)' = ClientStage(d) /\ Pending(d)' = Pending(d)
    BY <2>1, <2>5, ViewKept DEF CgssInv, IpcTypes
  <2> QED
    BY <2>1, <2>3, <2>4, <2>6, SeenUnchanged
<1>4. ASSUME NEW r \in Requests, Command(c, r) PROVE Seen!Call(c)
  <2>1. /\ cpc[c] = "idle" /\ cpc' = [cpc EXCEPT ![c] = "send"]
        /\ out' = [out EXCEPT ![c] = r]
        /\ UNCHANGED <<conn, got, spc, sbuf, players, log, hpc, req, resp>>
    BY <1>4 DEF Command, Ipc!Call, handlerVars
  <2>2. cpc'[c] = "send" /\ out'[c] = r
    BY <2>1 DEF CgssInv, IpcTypes
  <2>3. ClientStage(c) = "idle" /\ ClientStage(c)' = "called"
    BY <2>1, <2>2 DEF ClientStage
  <2>4. Pending(c) = NoResponse /\ Pending(c)' = NoResponse
    BY <2>3 DEF Pending
  <2>5. \A d \in Clients \ {c} :
          /\ ClientStage(d)' = ClientStage(d) /\ Pending(d)' = Pending(d)
          /\ out'[d] = out[d]
    BY <2>1, ViewKept DEF CgssInv, IpcTypes
  <2>6. /\ SeenStage[c] = "idle" /\ SeenStage' = [SeenStage EXCEPT ![c] = "called"]
        /\ SeenReq' = [SeenReq EXCEPT ![c] = r] /\ SeenReply' = SeenReply
    BY <2>2, <2>3, <2>4, <2>5 DEF SeenStage, SeenReq, SeenReply
  <2> QED
    BY <2>1, <2>6, SeenData DEF Seen!Call, SeenStage, SeenReq, SeenReply
<1>5. ASSUME Outcome(c) PROVE Seen!Return(c)
  <2>1. /\ cpc[c] = "return" /\ cpc' = [cpc EXCEPT ![c] = "idle"]
        /\ out' = [out EXCEPT ![c] = NoString] /\ got' = [got EXCEPT ![c] = NoString]
        /\ UNCHANGED <<conn, spc, sbuf, players, log, hpc, req, resp>>
    BY <1>5, <1>a DEF Outcome, Ipc!CallReturn
  <2>2. cpc'[c] = "idle"
    BY <2>1 DEF CgssInv, IpcTypes
  <2>3. ClientStage(c) = "done" /\ ClientStage(c)' = "idle"
    BY <2>1, <2>2 DEF ClientStage
  <2>4. Pending(c)' = NoResponse
    BY <2>3 DEF Pending
  <2>5. \A d \in Clients \ {c} :
          /\ ClientStage(d)' = ClientStage(d) /\ Pending(d)' = Pending(d)
          /\ out'[d] = out[d]
    BY <2>1, ViewKept DEF CgssInv, IpcTypes
  <2>6. /\ SeenStage[c] = "done" /\ SeenStage' = [SeenStage EXCEPT ![c] = "idle"]
        /\ SeenReq' = [SeenReq EXCEPT ![c] = NoRequest]
        /\ SeenReply' = [SeenReply EXCEPT ![c] = NoResponse]
    BY <2>3, <2>4, <2>5 DEF SeenStage, SeenReq, SeenReply
  <2> QED
    BY <2>1, <2>6, SeenData DEF Seen!Return, SeenStage, SeenReq, SeenReply
<1> QED
  BY <1>1, <1>2, <1>3, <1>4, <1>5

LEMMA SessionStepIsSeen ==
    ASSUME CgssInv, NEW s \in Sessions
    PROVE  /\ Receive(s) \/ Serve(s) \/ Respond(s) => UNCHANGED Seen!lobbyVars
           /\ Work(s) => (\E c \in Clients : Seen!Apply(c)) \/ UNCHANGED Seen!lobbyVars
<1>a. ASSUME NEW c \in Clients, conn[c] = s
      PROVE  \A d \in Clients \ {c} : conn[d] # s
  BY <1>a, NoSessionIsNone DEF CgssInv, Pairs, OneEach
<1>1. ASSUME Receive(s) PROVE UNCHANGED Seen!lobbyVars
  <2>1. PICK c \in Clients :
          /\ conn[c] = s /\ cpc[c] = "send" /\ spc[s] = "receive"
          /\ sbuf' = [sbuf EXCEPT ![s] = out[c]]
          /\ spc' = [spc EXCEPT ![s] = "handle"]
          /\ cpc' = [cpc EXCEPT ![c] = "wait"]
          /\ UNCHANGED <<conn, out, got>>
    BY <1>1, SessionReceives DEF Receive
  <2>2. UNCHANGED <<players, log, hpc, req, resp>>
    BY <1>1 DEF Receive, centerVars, handlerVars
  <2>3. hpc[s] = "idle" /\ cpc'[c] = "wait" /\ spc'[s] = "handle"
    BY <2>1 DEF CgssInv, IpcTypes, Pairs, Owned
  <2>4. ClientStage(c) = "called" /\ ClientStage(c)' = "called"
    BY <2>1, <2>2, <2>3 DEF ClientStage, AtHand
  <2>5. \A d \in Clients \ {c} :
          ClientStage(d)' = ClientStage(d) /\ Pending(d)' = Pending(d)
    BY <1>a, <2>1, <2>2, ViewKept DEF CgssInv, IpcTypes
  <2> QED
    BY <2>1, <2>2, <2>4, <2>5, SeenUnchanged DEF Pending
<1>2. ASSUME Serve(s) PROVE UNCHANGED Seen!lobbyVars
  <2>1. /\ hpc[s] = "idle" /\ hpc' = [hpc EXCEPT ![s] = "called"]
        /\ UNCHANGED <<players, log, resp, conn, cpc, out, got, spc, sbuf>>
    BY <1>2 DEF Serve, Handle, ipcVars
  <2>2. \A t \in Sessions : hpc'[t] = "reply" <=> hpc[t] = "reply"
    BY <2>1 DEF CgssInv, CenterInv, CenterTypeOK
  <2> QED
    BY <2>1, <2>2, ViewKept, SeenUnchanged
<1>3. ASSUME Respond(s) PROVE UNCHANGED Seen!lobbyVars
  <2>1. /\ spc[s] = "handle" /\ hpc[s] = "reply"
        /\ spc' = [spc EXCEPT ![s] = "reply"] /\ sbuf' = [sbuf EXCEPT ![s] = resp[s]]
        /\ hpc' = [hpc EXCEPT ![s] = "idle"] /\ resp' = [resp EXCEPT ![s] = NoResponse]
        /\ UNCHANGED <<conn, cpc, out, got, players, log>>
    BY <1>3 DEF Respond, HandleReturns, Ipc!Handled
  <2>2. PICK c \in Clients : conn[c] = s /\ cpc[c] = "wait"
    BY <2>1, ClientOfSession
  <2>3. spc'[s] = "reply" /\ sbuf'[s] = resp[s]
    BY <2>1 DEF CgssInv, IpcTypes
  <2>4. ClientStage(c) = "done" /\ ClientStage(c)' = "done"
    BY <2>1, <2>2, <2>3 DEF ClientStage, AtHand
  <2>5. Pending(c) = resp[s] /\ Pending(c)' = resp[s]
    BY <2>1, <2>2, <2>3, <2>4 DEF Pending
  <2>6. \A t \in Sessions \ {s} : /\ spc'[t] = spc[t] /\ sbuf'[t] = sbuf[t]
                                  /\ hpc'[t] = hpc[t] /\ resp'[t] = resp[t]
    BY <2>1 DEF CgssInv, IpcTypes, CenterInv, CenterTypeOK
  <2>7. \A d \in Clients \ {c} :
          ClientStage(d)' = ClientStage(d) /\ Pending(d)' = Pending(d)
    BY <1>a, <2>1, <2>2, <2>6, ViewKept
  <2> QED
    BY <2>1, <2>4, <2>5, <2>7, SeenUnchanged
<1>4. ASSUME Work(s)
      PROVE  (\E c \in Clients : Seen!Apply(c)) \/ UNCHANGED Seen!lobbyVars
  <2>1. Step(s) /\ UNCHANGED <<conn, cpc, out, got, spc, sbuf>>
    BY <1>4 DEF Work, ipcVars
  <2>2. /\ hpc[s] \in {"called", "inside"} /\ hpc'[s] \in {"inside", "reply"}
        /\ \A t \in Sessions \ {s} : hpc'[t] = hpc[t] /\ resp'[t] = resp[t]
    BY <2>1, StepOfHandler DEF CgssInv, CenterInv
  <2>3. spc[s] = "handle"
    BY <2>2 DEF CgssInv, Pairs, Owned
  <2>4. PICK c \in Clients : conn[c] = s /\ cpc[c] = "wait" /\ Served(c, s)
    BY <2>3, ClientOfSession
  <2>5. \A d \in Clients \ {c} :
          ClientStage(d)' = ClientStage(d) /\ Pending(d)' = Pending(d)
    BY <1>a, <2>1, <2>2, <2>4, ViewKept
  <2>6. ClientStage(c) = "called"
    BY <2>2, <2>3, <2>4 DEF ClientStage, AtHand
  <2>7. CASE hpc'[s] = "reply"
    <3>1. ClientStage(c)' = "done"
      BY <2>1, <2>4, <2>7 DEF ClientStage, AtHand
    <3>2. Pending(c)' = resp'[s]
      BY <2>1, <2>3, <2>4, <3>1 DEF Pending
    <3>3. req[s] = out[c]
      BY <2>2, <2>4 DEF Served
    <3>4. \/ Serial!Reject(s) \/ Serial!Add(s) \/ Serial!Remove(s)
          \/ Serial!List(s) \/ Serial!Broadcast(s)
      BY <2>1, <2>7, EffectSerial DEF CgssInv
    <3> QED
      BY <2>1, <2>5, <2>6, <3>1, <3>2, <3>3, <3>4, EffectSeen
  <2>8. CASE hpc'[s] = "inside"
    <3>1. UNCHANGED <<players, log>>
      BY <2>1, <2>8 DEF Step, Reject, Lock, RLock, AddPlayer, RemovePlayer,
         ListPlayer, Push, BroadcastDone, Enter, Leave, CgssInv, CenterInv, CenterTypeOK
    <3>2. ClientStage(c)' = "called"
      BY <2>1, <2>3, <2>4, <2>8 DEF ClientStage, AtHand
    <3> QED
      BY <2>1, <2>5, <2>6, <3>1, <3>2, SeenUnchanged DEF Pending
  <2> QED
    BY <2>2, <2>7, <2>8
<1> QED
  BY <1>1, <1>2, <1>3, <1>4

LEMMA StepIsSeen ==
    CgssInv /\ [CgssNext]_cgssVars => [Seen!LobbyNext]_(Seen!lobbyVars)
<1> SUFFICES ASSUME CgssInv, [CgssNext]_cgssVars
             PROVE  Seen!LobbyNext \/ UNCHANGED Seen!lobbyVars
  OBVIOUS
<1>1. ASSUME UNCHANGED <<players, log, hpc, resp, ipcVars>>
      PROVE  UNCHANGED Seen!lobbyVars
  BY <1>1, ViewKept, SeenUnchanged DEF ipcVars
<1>2. ASSUME NEW p \in PlayerIds, PrintMessage(p) PROVE UNCHANGED Seen!lobbyVars
  BY <1>1, <1>2 DEF PrintMessage, Printer, handlerVars
<1>3. CASE AllQuit \/ UNCHANGED cgssVars
  BY <1>1, <1>3 DEF AllQuit, cgssVars, centerVars, handlerVars
<1> QED
  BY <1>2, <1>3, ClientStepIsSeen, SessionStepIsSeen DEF CgssNext, Seen!LobbyNext

\* The whole system is a Lobby for the people at its command loops: through
\* the sessions, the handlers and the lock each command takes effect alone,
\* once, and each outcome is that of its own request.
THEOREM SystemIsLobby == CgssSpec => IsLobby
<1>1. CgssInit => Seen!LobbyInit
  <2> SUFFICES ASSUME CgssInit PROVE Seen!LobbyInit
    OBVIOUS
  <2>1. \A c \in Clients : cpc[c] = "new"
    BY DEF CgssInit, Ipc!IpcInit
  <2>2. \A c \in Clients : ClientStage(c) = "idle"
    BY <2>1 DEF ClientStage
  <2> QED
    BY <2>2, SeenData DEF CgssInit, CenterInit, Seen!LobbyInit, Pending
<1> QED
  BY <1>1, StepIsSeen, CgssInvariant, PTL DEF CgssSpec, IsLobby, Seen!LobbySpec
=============================================================================

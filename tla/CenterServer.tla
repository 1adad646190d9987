---------------------------- MODULE CenterServer ----------------------------
(***************************************************************************)
(* The center server of golang/cgss/src/cg.  Every session runs Handle in  *)
(* a goroutine of its own; the handlers share the roster under one         *)
(* RWMutex.  A broadcast sends to the mailbox of each player (a channel    *)
(* of capacity MqCap) WHILE IT HOLDS THE LOCK, and every player has a      *)
(* printer goroutine that empties its mailbox and never ends.              *)
(*                                                                         *)
(* A handler that has the lock first loads the slice header (snap), then   *)
(* acts on what it loaded and releases the lock in its deferred call; the  *)
(* steps in between are separate, so that only the lock keeps them apart.  *)
(***************************************************************************)
EXTENDS Roster, SequencesExt

CONSTANTS
    Sessions,       \* sessions of the IPC server
    NoSession,      \* writer when nobody holds the write lock
    MqCap           \* capacity of a mailbox: 1024 in NewPlayer

ASSUME NoSessionIsNone == NoSession \notin Sessions
ASSUME MailboxesHoldOne == MqCap \in Nat \ {0}

VARIABLES
    players,        \* CenterServer.players
    writer,         \* the session that holds mutex for writing
    readers,        \* the sessions that hold mutex for reading
    started,        \* the players NewPlayer made: their printers run
    mq,             \* the mailbox of each player
    printed,        \* what each printer has printed
    log,            \* history: the broadcasts done, and whom they went to
    hpc,            \* where Handle is in each session
    req,            \* the request it handles
    resp,           \* its response, until the session has it
    snap,           \* the roster it loaded under the lock
    pos,            \* broadcast: its position in the roster
    logins,         \* addplayer requests so far, at most MaxPlayers
    sends           \* broadcast requests so far, at most MaxMessages

lockVars == <<writer, readers>>
mailVars == <<started, mq, printed>>
handlerVars == <<hpc, req, resp, snap, pos>>
issueVars == <<logins, sends>>
centerVars == <<players, lockVars, mailVars, log, handlerVars, issueVars>>

HandlerStates == {"idle", "called", "inside", "reply"}

CenterInit ==
    /\ players = <<>>
    /\ writer = NoSession
    /\ readers = {}
    /\ started = {}
    /\ mq = [p \in PlayerIds |-> <<>>]
    /\ printed = [p \in PlayerIds |-> <<>>]
    /\ log = <<>>
    /\ hpc = [s \in Sessions |-> "idle"]
    /\ req = [s \in Sessions |-> NoRequest]
    /\ resp = [s \in Sessions |-> NoResponse]
    /\ snap = [s \in Sessions |-> <<>>]
    /\ pos = [s \in Sessions |-> 1]
    /\ logins = 0
    /\ sends = 0

-----------------------------------------------------------------------------
\* Requests a caller can make next: a login makes a player that is not there
\* yet, a broadcast a new message.
Fresh(r) ==
    /\ r.method = "addplayer" => r.player.id = logins + 1
    /\ r.method = "broadcast" => r.msg = sends + 1

Issue(r) ==
    /\ Fresh(r)
    /\ logins' = IF r.method = "addplayer" THEN logins + 1 ELSE logins
    /\ sends' = IF r.method = "broadcast" THEN sends + 1 ELSE sends

\* Mutant: NewPlayer starts no printer.
HandleNoPrinter(s, r) ==
    /\ hpc[s] = "idle"
    /\ hpc' = [hpc EXCEPT ![s] = "called"]
    /\ req' = [req EXCEPT ![s] = r]
    /\ UNCHANGED <<players, lockVars, mailVars, log, resp, snap, pos>>

\* server.Handle(method, params) is called in session s and branches on the
\* method.  addPlayer calls NewPlayer, and with it starts the printer, before
\* it looks at the parameters; the player of a malformed request is lost, and
\* left out here.
Handle(s, r) ==
    /\ hpc[s] = "idle"
    /\ hpc' = [hpc EXCEPT ![s] = "called"]
    /\ req' = [req EXCEPT ![s] = r]
    /\ started' = IF r.method = "addplayer" THEN started \cup {r.player.id}
                                           ELSE started
    /\ UNCHANGED <<players, lockVars, mq, printed, log, resp, snap, pos>>

\* The request is answered without a lock: no such method, or Unmarshal fails.
Reject(s) ==
    /\ hpc[s] = "called"
    /\ Rejected(req[s])
    /\ hpc' = [hpc EXCEPT ![s] = "reply"]
    /\ resp' = [resp EXCEPT ![s] = Rejection(req[s])]
    /\ UNCHANGED <<players, lockVars, mailVars, log, req, snap, pos, issueVars>>

\* Mutant: positions from 0.
EnterAtZero(s) ==
    /\ hpc' = [hpc EXCEPT ![s] = "inside"]
    /\ snap' = [snap EXCEPT ![s] = players]
    /\ pos' = [pos EXCEPT ![s] = 0]
    /\ UNCHANGED <<players, mailVars, log, req, resp, issueVars>>

\* The section of s begins: it loads server.players.
Enter(s) ==
    /\ hpc' = [hpc EXCEPT ![s] = "inside"]
    /\ snap' = [snap EXCEPT ![s] = players]
    /\ pos' = [pos EXCEPT ![s] = 1]
    /\ UNCHANGED <<players, mailVars, log, req, resp, issueVars>>

\* mutex.Lock() of addPlayer, removePlayer and broadcast.
WriteMethods == {"addplayer", "removeplayer", "broadcast"}
\* Mutants: a lock that does not wait for readers, and none at all.
LockAmongReaders(s) ==
    /\ hpc[s] = "called"
    /\ req[s].method \in WriteMethods
    /\ writer = NoSession
    /\ writer' = s
    /\ UNCHANGED readers
    /\ Enter(s)

NoLock(s) ==
    /\ hpc[s] = "called"
    /\ req[s].method \in WriteMethods
    /\ readers = {}
    /\ writer' = s
    /\ UNCHANGED readers
    /\ Enter(s)

Lock(s) ==
    /\ hpc[s] = "called"
    /\ req[s].method \in WriteMethods
    /\ writer = NoSession /\ readers = {}
    /\ writer' = s
    /\ UNCHANGED readers
    /\ Enter(s)

\* Mutant: listPlayer does not wait for a writer.
RLockAlways(s) ==
    /\ hpc[s] = "called"
    /\ req[s].method = "listplayer"
    /\ readers' = readers \cup {s}
    /\ UNCHANGED writer
    /\ Enter(s)

\* mutex.RLock() of listPlayer.
RLock(s) ==
    /\ hpc[s] = "called"
    /\ req[s].method = "listplayer"
    /\ writer = NoSession
    /\ readers' = readers \cup {s}
    /\ UNCHANGED writer
    /\ Enter(s)

\* Mutant: an unlock that is not deferred, and is missing on an error.
LeaveLocked(s, r) ==
    /\ writer' = IF writer = s /\ r.code = "200" THEN NoSession ELSE writer
    /\ readers' = readers \ {s}
    /\ hpc' = [hpc EXCEPT ![s] = "reply"]
    /\ resp' = [resp EXCEPT ![s] = r]
    /\ snap' = [snap EXCEPT ![s] = <<>>]
    /\ pos' = [pos EXCEPT ![s] = 1]
    /\ UNCHANGED <<mailVars, req, issueVars>>

\* The deferred unlock of s, and Handle's response.
Leave(s, r) ==
    /\ writer' = IF writer = s THEN NoSession ELSE writer
    /\ readers' = readers \ {s}
    /\ hpc' = [hpc EXCEPT ![s] = "reply"]
    /\ resp' = [resp EXCEPT ![s] = r]
    /\ snap' = [snap EXCEPT ![s] = <<>>]
    /\ pos' = [pos EXCEPT ![s] = 1]
    /\ UNCHANGED <<mailVars, req, issueVars>>

Inside(s, method) == hpc[s] = "inside" /\ req[s].method = method

AddPlayer(s) ==
    /\ Inside(s, "addplayer")
    /\ players' = Append(snap[s], req[s].player)
    /\ Leave(s, Code("200"))
    /\ UNCHANGED log

RemovePlayer(s) ==
    /\ Inside(s, "removeplayer")
    /\ \/ \E i \in 1..Len(snap[s]) :
            /\ FirstNamed(snap[s], req[s].name, i)
            /\ players' = Cut(snap[s], i)
            /\ Leave(s, Code("200"))
       \/ /\ Absent(snap[s], req[s].name)
          /\ Leave(s, Code(NotFound))
          /\ UNCHANGED players
    /\ UNCHANGED log

ListPlayer(s) ==
    /\ Inside(s, "listplayer")
    /\ Leave(s, IF Len(snap[s]) > 0 THEN Listing(snap[s])
                                    ELSE Code(NobodyOnline))
    /\ UNCHANGED <<players, log>>

\* Mutant: a full mailbox is skipped (select with a default).
PushOrSkip(s) ==
    /\ Inside(s, "broadcast")
    /\ pos[s] <= Len(snap[s])
    /\ LET p == snap[s][pos[s]].id
       IN  mq' = IF Len(mq[p]) < MqCap
                 THEN [mq EXCEPT ![p] = Append(@, req[s].msg)] ELSE mq
    /\ pos' = [pos EXCEPT ![s] = @ + 1]
    /\ UNCHANGED <<players, lockVars, started, printed, log, hpc, req, resp,
                   snap, issueVars>>

\* player.mq <- &message, which blocks while the mailbox is full.
Push(s) ==
    /\ Inside(s, "broadcast")
    /\ pos[s] <= Len(snap[s])
    /\ LET p == snap[s][pos[s]].id
       IN  /\ Len(mq[p]) < MqCap
           /\ mq' = [mq EXCEPT ![p] = Append(@, req[s].msg)]
    /\ pos' = [pos EXCEPT ![s] = @ + 1]
    /\ UNCHANGED <<players, lockVars, started, printed, log, hpc, req, resp,
                   snap, issueVars>>

\* The loop of broadcast has ended.
BroadcastDone(s) ==
    /\ Inside(s, "broadcast")
    /\ pos[s] > Len(snap[s])
    /\ IF Len(snap[s]) > 0
       THEN /\ Leave(s, Code("200"))
            /\ log' = Append(log, [msg |-> req[s].msg, to |-> snap[s]])
       ELSE Leave(s, Code(NobodyOnline)) /\ UNCHANGED log
    /\ UNCHANGED players

\* The goroutine of NewPlayer: receive a message and print it.
Printer(p) ==
    /\ p \in started
    /\ mq[p] # <<>>
    /\ mq' = [mq EXCEPT ![p] = Tail(@)]
    /\ printed' = [printed EXCEPT ![p] = Append(@, Head(mq[p]))]
    /\ UNCHANGED <<players, lockVars, started, log, handlerVars, issueVars>>

\* The response goes back to the session.
HandleReturns(s) ==
    /\ hpc[s] = "reply"
    /\ hpc' = [hpc EXCEPT ![s] = "idle"]
    /\ req' = [req EXCEPT ![s] = NoRequest]
    /\ resp' = [resp EXCEPT ![s] = NoResponse]
    /\ UNCHANGED <<players, lockVars, mailVars, log, snap, pos>>

-----------------------------------------------------------------------------
\* What a handler does on its own once it is called.
Step(s) ==
    \/ Reject(s)
    \/ Lock(s) \/ RLock(s)
    \/ AddPlayer(s) \/ RemovePlayer(s) \/ ListPlayer(s)
    \/ Push(s) \/ BroadcastDone(s)

CenterNext ==
    \/ \E s \in Sessions :
         \/ \E r \in Requests : Issue(r) /\ Handle(s, r)
         \/ Step(s)
         \/ HandleReturns(s) /\ UNCHANGED issueVars
    \/ \E p \in PlayerIds : Printer(p)

\* Goroutines that can run do run.  A lock that is free again and again is
\* given to each waiter at last: sync.Mutex hands it over to a waiter that
\* has starved, and readers of an RWMutex wait for a writer that waits.
HandlerFairness(s) ==
    /\ SF_centerVars(Lock(s)) /\ SF_centerVars(RLock(s))
    /\ WF_centerVars(Step(s))
PrinterFairness == \A p \in PlayerIds : WF_centerVars(Printer(p))

CenterSpec ==
    /\ CenterInit /\ [][CenterNext]_centerVars
    /\ \A s \in Sessions :
         HandlerFairness(s) /\ WF_centerVars(HandleReturns(s) /\ UNCHANGED issueVars)
    /\ PrinterFairness
-----------------------------------------------------------------------------
\* Every variable holds a value of its type.
CenterTypeOK ==
    /\ players \in Seq(Players)
    /\ writer \in Sessions \cup {NoSession}
    /\ readers \in SUBSET Sessions
    /\ started \in SUBSET PlayerIds
    /\ mq \in [PlayerIds -> Seq(Messages)]
    /\ printed \in [PlayerIds -> Seq(Messages)]
    /\ log \in Seq([msg : Messages, to : Seq(Players)])
    /\ hpc \in [Sessions -> HandlerStates]
    /\ req \in [Sessions -> Requests \cup {NoRequest}]
    /\ resp \in [Sessions -> Responses]
    /\ snap \in [Sessions -> Seq(Players)]
    /\ pos \in [Sessions -> Nat \ {0}]
    /\ logins \in 0..MaxPlayers /\ sends \in 0..MaxMessages

\* The sections of two handlers overlap only if both of them list, so the
\* slice one of them works on is never replaced under it.
Exclusion ==
    \A s, t \in Sessions :
        s # t /\ hpc[s] = "inside" /\ hpc[t] = "inside"
          => req[s].method = "listplayer" /\ req[t].method = "listplayer"

\* Who is inside is known to the lock: a handler that changes the roster or
\* broadcasts holds it for writing, a handler that lists holds it for reading.
Locking ==
    /\ \A s \in Sessions :
         /\ writer = s <=> hpc[s] = "inside" /\ req[s].method \in WriteMethods
         /\ s \in readers <=> Inside(s, "listplayer")
         /\ hpc[s] = "inside" => req[s].method \in WriteMethods \cup {"listplayer"}
    /\ writer # NoSession => readers = {}

\* What a handler loaded from server.players is the roster until it unlocks:
\* the length removePlayer tests, the elements broadcast still has to visit
\* and the roster listPlayer marshals are never out of date.
NothingStale ==
    \A s \in Sessions : hpc[s] = "inside" => snap[s] = players

\* Whoever a handler may still send to has a printer that empties its mailbox,
\* so that a broadcast that waits with the lock held does not wait for ever.
MailboxesRead ==
    \A s \in Sessions : hpc[s] = "inside" =>
        \A i \in 1..Len(snap[s]) : snap[s][i].id \in started

\* The copies of one broadcast that player p finds in its mailbox: one for
\* each time it is in the roster.
Copies(m, to, p) ==
    [k \in 1..Cardinality({i \in 1..Len(to) : to[i].id = p}) |-> m]
Completed(p) ==
    FlattenSeq([k \in 1..Len(log) |-> Copies(log[k].msg, log[k].to, p)])
InProgress(s, p) ==
    IF Inside(s, "broadcast")
    THEN Copies(req[s].msg, SubSeq(snap[s], 1, pos[s] - 1), p) ELSE <<>>

\* What a player has printed and what is in its mailbox are the broadcasts it
\* was logged in for, each once per place in the roster, in the order of the
\* broadcasts: no message is lost, repeated, made up or overtaken, although
\* the mailboxes fill up and printers of different speed empty them.
ExactDelivery ==
    \A p \in PlayerIds :
        \/ \E s \in Sessions :
             Inside(s, "broadcast")
               /\ printed[p] \o mq[p] = Completed(p) \o InProgress(s, p)
        \/ /\ \A s \in Sessions : ~Inside(s, "broadcast")
           /\ printed[p] \o mq[p] = Completed(p)

\* Each request takes effect alone and once, at its unlock: the handlers of
\* all sessions together are a serial server.
StageOf(s) == CASE hpc[s] = "idle" -> "idle"
                [] hpc[s] = "reply" -> "done"
                [] OTHER -> "called"
Serial == INSTANCE Lobby WITH
            Callers <- Sessions, roster <- players, reply <- resp,
            stage <- [s \in Sessions |-> StageOf(s)]
IsSerial == Serial!LobbySpec

\* A logout that succeeds takes the player it names off the roster, and
\* nobody else (cgss.go, Help: "logout <username>"; removePlayer answers
\* "Player not found." when it finds nobody of that name).
LogoutRemovesThePlayer ==
    [][\A s \in Sessions, i \in 1..Len(players) :
         RemovePlayer(s) /\ FirstNamed(players, req[s].name, i)
           => players' = Without(players, i)]_centerVars
=============================================================================

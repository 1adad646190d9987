------------------------------- MODULE Lobby -------------------------------
(***************************************************************************)
(* What the center server promises its callers: however many sessions are  *)
(* served at once, each request takes effect alone, once, between its call *)
(* and its return, on the roster all callers share; and a broadcast goes   *)
(* to the roster of one moment.  How a request changes the roster is the   *)
(* code's own business (Roster): the Lobby is about order, not about it.   *)
(***************************************************************************)
EXTENDS Roster

CONSTANT Callers

VARIABLES
    roster,     \* the players logged in
    log,        \* the broadcasts, each with the players it went to
    stage,      \* where the request of each caller is
    req,        \* the request of each caller that is being served
    reply       \* the response to it, once it has taken effect

lobbyVars == <<roster, log, stage, req, reply>>

LobbyInit ==
    /\ roster = <<>>
    /\ log = <<>>
    /\ stage = [c \in Callers |-> "idle"]
    /\ req = [c \in Callers |-> NoRequest]
    /\ reply = [c \in Callers |-> NoResponse]

Call(c) ==
    /\ stage[c] = "idle"
    /\ stage' = [stage EXCEPT ![c] = "called"]
    /\ \E r \in Requests : req' = [req EXCEPT ![c] = r]
    /\ UNCHANGED <<roster, log, reply>>

Answered(c, r) == reply' = [reply EXCEPT ![c] = r]

Reject(c) ==
    /\ Rejected(req[c])
    /\ Answered(c, Rejection(req[c]))
    /\ UNCHANGED <<roster, log>>

Add(c) ==
    /\ req[c].method = "addplayer"
    /\ roster' = Append(roster, req[c].player)
    /\ Answered(c, Code("200"))
    /\ UNCHANGED log

Remove(c) ==
    /\ req[c].method = "removeplayer"
    /\ \/ \E i \in 1..Len(roster) :
            /\ FirstNamed(roster, req[c].name, i)
            /\ roster' = Cut(roster, i)
            /\ Answered(c, Code("200"))
       \/ /\ Absent(roster, req[c].name)
          /\ Answered(c, Code(NotFound))
          /\ UNCHANGED roster
    /\ UNCHANGED log

List(c) ==
    /\ req[c].method = "listplayer"
    /\ Answered(c, IF roster = <<>> THEN Code(NobodyOnline)
                                    ELSE Listing(roster))
    /\ UNCHANGED <<roster, log>>

Broadcast(c) ==
    /\ req[c].method = "broadcast"
    /\ IF roster = <<>>
       THEN Answered(c, Code(NobodyOnline)) /\ UNCHANGED log
       ELSE /\ Answered(c, Code("200"))
            /\ log' = Append(log, [msg |-> req[c].msg, to |-> roster])
    /\ UNCHANGED roster

\* The request takes effect.
Apply(c) ==
    /\ stage[c] = "called"
    /\ Reject(c) \/ Add(c) \/ Remove(c) \/ List(c) \/ Broadcast(c)
    /\ stage' = [stage EXCEPT ![c] = "done"]
    /\ UNCHANGED req

Return(c) ==
    /\ stage[c] = "done"
    /\ stage' = [stage EXCEPT ![c] = "idle"]
    /\ req' = [req EXCEPT ![c] = NoRequest]
    /\ reply' = [reply EXCEPT ![c] = NoResponse]
    /\ UNCHANGED <<roster, log>>

LobbyNext == \E c \in Callers : Call(c) \/ Apply(c) \/ Return(c)

LobbySpec == LobbyInit /\ [][LobbyNext]_lobbyVars
=============================================================================

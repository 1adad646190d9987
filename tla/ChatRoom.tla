------------------------------ MODULE ChatRoom ------------------------------
(***************************************************************************)
(* What the chat server promises its users.  Everything said is heard at   *)
(* once, by everybody who is in the room at that moment and by nobody      *)
(* else; so all hear it in one order, from their entrance to their leave.  *)
(* Arrivals are announced before the newcomer is in, departures after it   *)
(* has left: nobody hears its own.                                         *)
(***************************************************************************)
EXTENDS Naturals, Sequences

CONSTANTS Users, Lines

VARIABLES
    stage,      \* where each user is between arrival and departure
    heard       \* what each user has heard

roomVars == <<stage, heard>>

Members == {u \in Users : stage[u] = "in"}
Hear(m) ==
    heard' = [u \in Users |-> IF u \in Members THEN Append(heard[u], m)
                                               ELSE heard[u]]
Goes(u, from, to) == stage[u] = from /\ stage' = [stage EXCEPT ![u] = to]

RoomInit ==
    /\ stage = [u \in Users |-> "out"]
    /\ heard = [u \in Users |-> <<>>]

Arrive(u) == Goes(u, "out", "announced") /\ Hear([who |-> u, what |-> "arrived", line |-> 0])
Join(u) == Goes(u, "announced", "in") /\ UNCHANGED heard
Say(u, l) ==
    /\ stage[u] = "in" /\ UNCHANGED stage
    /\ Hear([who |-> u, what |-> "line", line |-> l])
Leave(u) == Goes(u, "in", "gone") /\ UNCHANGED heard
Depart(u) == Goes(u, "gone", "departed") /\ Hear([who |-> u, what |-> "left", line |-> 0])

RoomNext ==
    \E u \in Users :
      Arrive(u) \/ Join(u) \/ (\E l \in Lines : Say(u, l)) \/ Leave(u) \/ Depart(u)

RoomSpec == RoomInit /\ [][RoomNext]_roomVars
=============================================================================

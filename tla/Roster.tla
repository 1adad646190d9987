------------------------------- MODULE Roster -------------------------------
(***************************************************************************)
(* The data of golang/cgss/src/cg: the roster of the center server (the    *)
(* slice CenterServer.players), the requests Handle dispatches on and the  *)
(* responses it gives.  A Player is known by the object NewPlayer made     *)
(* (id) and its name; nothing keeps two players from having one name.      *)
(* Level, Exp and Room are carried along untouched and left out.           *)
(***************************************************************************)
EXTENDS Naturals, Sequences

CONSTANTS
    Names,          \* user names
    MaxPlayers,     \* bound on the logins of a behaviour
    MaxMessages     \* bound on the broadcasts of a behaviour

ASSUME RosterBounds == MaxPlayers \in Nat /\ MaxMessages \in Nat

PlayerIds == 1..MaxPlayers
Messages == 1..MaxMessages
Players == [id : PlayerIds, name : Names]

-----------------------------------------------------------------------------
\* A malformed request is an addplayer or a broadcast whose parameters
\* json.Unmarshal refuses; any other method is answered with 404.
AddRequests == [method : {"addplayer"}, player : Players]
RemoveRequests == [method : {"removeplayer"}, name : Names]
ListRequests == [method : {"listplayer"}]
BroadcastRequests == [method : {"broadcast"}, msg : Messages]
RejectedRequests == [method : {"malformed", "other"}]
NoRequest == [method |-> "none"]
Requests == AddRequests \cup RemoveRequests \cup ListRequests
              \cup BroadcastRequests \cup RejectedRequests

NotFound == "Player not found."
NobodyOnline == "No player online."
BadJson == "bad json"
Codes == {"none", "200", "404", NotFound, NobodyOnline, BadJson}
Responses == [code : Codes, body : Seq(Players)]
Code(code) == [code |-> code, body |-> <<>>]
NoResponse == Code("none")
Listing(ps) == [code |-> "200", body |-> ps]

\* The requests Handle answers without looking at the roster.
Rejected(r) == r \in RejectedRequests
Rejection(r) == Code(IF r.method = "other" THEN "404" ELSE BadJson)

-----------------------------------------------------------------------------
\* ps[lo:hi] of Go, which counts from 0 and leaves hi out.
Slice(ps, lo, hi) == SubSeq(ps, lo + 1, hi)

\* The search of removePlayer stops at position i: the first of that name.
FirstNamed(ps, name, i) ==
    /\ i \in 1..Len(ps)
    /\ ps[i].name = name
    /\ \A j \in 1..(i - 1) : ps[j].name # name

Absent(ps, name) == \A i \in 1..Len(ps) : ps[i].name # name

\* What removePlayer makes of the roster when the search stops at position i,
\* which Go calls k.
Cut(ps, i) ==
    LET k == i - 1
        n == Len(ps)
    IN  IF n = 1 THEN <<>>
        ELSE IF k = n - 1 THEN Slice(ps, 0, k - 1)
        ELSE IF k = 0 THEN Slice(ps, 1, n)
        ELSE Slice(ps, 0, k - 1) \o Slice(ps, 0, k + 1)

\* Cut slices inside the roster: Go would panic, with the mutex locked, if it
\* did not.
InBounds(ps, lo, hi) == 0 <= lo /\ lo <= hi /\ hi <= Len(ps)
CutInBounds(ps, i) ==
    LET k == i - 1
        n == Len(ps)
    IN  /\ n # 1 /\ k = n - 1 => InBounds(ps, 0, k - 1)
        /\ n # 1 /\ k # n - 1 /\ k = 0 => InBounds(ps, 1, n)
        /\ n # 1 /\ k # n - 1 /\ k # 0 =>
             InBounds(ps, 0, k - 1) /\ InBounds(ps, 0, k + 1)

\* The roster without position i, which is what a logout is for.
Without(ps, i) == SubSeq(ps, 1, i - 1) \o SubSeq(ps, i + 1, Len(ps))
=============================================================================

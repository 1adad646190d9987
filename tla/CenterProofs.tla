---------------------------- MODULE CenterProofs ----------------------------
(***************************************************************************)
(* The center server, for any number of sessions, players and messages.    *)
(* What a handler loaded stays the roster (NothingStale) because only a    *)
(* handler with the write lock changes the roster, and nobody else is then *)
(* inside (Locking).  That makes the handlers a serial server: every one   *)
(* of their steps is a step of the Lobby or leaves the Lobby as it is.     *)
(***************************************************************************)
EXTENDS CenterServer, SequenceTheorems, FiniteSetTheorems, WellFoundedInduction, TLAPS

-----------------------------------------------------------------------------
(* removePlayer on the roster *)

\* None of the slices removePlayer takes reaches outside the roster, so it
\* never panics with the mutex locked, wherever the search stops.
THEOREM CutNeverPanics ==
    ASSUME NEW S, NEW ps \in Seq(S), NEW i \in 1..Len(ps)
    PROVE  CutInBounds(ps, i)
<1>1. Len(ps) \in Nat /\ i \in Nat /\ 1 <= i /\ i <= Len(ps)
  BY LenProperties
<1> QED
  BY <1>1 DEF CutInBounds, InBounds

\* A slice is a sequence of entries of the roster it is taken from.
LEMMA SliceEntries ==
    ASSUME NEW S, NEW ps \in Seq(S), NEW lo \in Nat, NEW hi \in Nat,
           lo <= hi, hi <= Len(ps)
    PROVE  /\ Slice(ps, lo, hi) \in Seq(S)
           /\ Len(Slice(ps, lo, hi)) = hi - lo
           /\ \A k \in 1..(hi - lo) :
                lo + k \in 1..Len(ps) /\ Slice(ps, lo, hi)[k] = ps[lo + k]
<1>1. Len(ps) \in Nat /\ \A j \in (lo + 1)..hi : ps[j] \in S
  BY LenProperties, ElementOfSeq
<1>2. /\ SubSeq(ps, lo + 1, hi) \in Seq(S)
      /\ Len(SubSeq(ps, lo + 1, hi)) =
           IF lo + 1 <= hi THEN hi - (lo + 1) + 1 ELSE 0
      /\ \A k \in 1..(hi - (lo + 1) + 1) :
           SubSeq(ps, lo + 1, hi)[k] = ps[lo + 1 + k - 1]
  BY <1>1, SubSeqProperties
<1> QED
  BY <1>1, <1>2 DEF Slice

LEMMA PrefixEntries ==
    ASSUME NEW S, NEW ps \in Seq(S), NEW hi \in Nat, hi <= Len(ps)
    PROVE  /\ Slice(ps, 0, hi) \in Seq(S)
           /\ Len(Slice(ps, 0, hi)) = hi
           /\ \A k \in 1..hi :
                k \in 1..Len(ps) /\ Slice(ps, 0, hi)[k] = ps[k]
<1>1. /\ Slice(ps, 0, hi) \in Seq(S)
      /\ Len(Slice(ps, 0, hi)) = hi - 0
      /\ \A k \in 1..(hi - 0) :
           0 + k \in 1..Len(ps) /\ Slice(ps, 0, hi)[k] = ps[0 + k]
  <2>1. 0 \in Nat /\ 0 <= hi
    OBVIOUS
  <2> QED
    BY <2>1, SliceEntries
<1> QED
  BY <1>1

\* What is left by removePlayer: the first entry goes, the last takes the one
\* before it along, and any other stays, behind those up to two before it.
LEMMA CutShape ==
    ASSUME NEW S, NEW ps \in Seq(S), NEW i \in 1..Len(ps)
    PROVE  /\ Cut(ps, i) \in Seq(S)
           /\ i = 1 => /\ Len(Cut(ps, i)) = Len(ps) - 1
                       /\ \A k \in 1..(Len(ps) - 1) :
                            k + 1 \in 1..Len(ps) /\ Cut(ps, i)[k] = ps[k + 1]
           /\ i # 1 /\ i = Len(ps) =>
                /\ Len(Cut(ps, i)) = Len(ps) - 2
                /\ \A k \in 1..(Len(ps) - 2) : k \in 1..Len(ps) /\ Cut(ps, i)[k] = ps[k]
           /\ i # 1 /\ i # Len(ps) =>
                /\ Len(Cut(ps, i)) = (i - 2) + i
                /\ \A k \in 1..(i - 2) : k \in 1..Len(ps) /\ Cut(ps, i)[k] = ps[k]
                /\ \A k \in 1..i : /\ k \in 1..Len(ps)
                                   /\ (i - 2) + k \in 1..((i - 2) + i)
                                   /\ Cut(ps, i)[(i - 2) + k] = ps[k]
<1> DEFINE n == Len(ps)
<1>0. n \in Nat /\ i \in 1..n
  BY LenProperties
<1>1. CASE n = 1
  BY <1>0, <1>1, EmptySeq DEF Cut
<1>2. CASE n # 1 /\ i = n
  <2>1. Cut(ps, i) = Slice(ps, 0, n - 2)
    BY <1>0, <1>2 DEF Cut
  <2>2. n - 2 \in Nat /\ n - 2 <= Len(ps)
    BY <1>0, <1>2
  <2>3. /\ Slice(ps, 0, n - 2) \in Seq(S)
        /\ Len(Slice(ps, 0, n - 2)) = n - 2
        /\ \A k \in 1..(n - 2) :
             k \in 1..Len(ps) /\ Slice(ps, 0, n - 2)[k] = ps[k]
    BY <2>2, PrefixEntries
  <2> QED
    BY <1>2, <2>1, <2>3
<1>3. CASE n # 1 /\ i # n /\ i = 1
  <2>1. Cut(ps, i) = Slice(ps, 1, n)
    BY <1>0, <1>3 DEF Cut
  <2>2. 1 \in Nat /\ n \in Nat /\ 1 <= n /\ n <= Len(ps)
    BY <1>0, <1>3
  <2>3. /\ Slice(ps, 1, n) \in Seq(S)
        /\ Len(Slice(ps, 1, n)) = n - 1
        /\ \A k \in 1..(n - 1) :
             1 + k \in 1..Len(ps) /\ Slice(ps, 1, n)[k] = ps[1 + k]
    BY <2>2, SliceEntries
  <2> QED
    BY <1>3, <2>1, <2>3
<1>4. CASE n # 1 /\ i # n /\ i # 1
  <2> DEFINE a == Slice(ps, 0, i - 2)
             b == Slice(ps, 0, i)
  <2>1. Cut(ps, i) = a \o b
    BY <1>0, <1>4 DEF Cut
  <2>2. a \in Seq(S) /\ Len(a) = i - 2
        /\ \A k \in 1..(i - 2) : k \in 1..n /\ a[k] = ps[k]
    <3>1. i - 2 \in Nat /\ i - 2 <= Len(ps)
      BY <1>0, <1>4
    <3> QED
      BY <3>1, PrefixEntries
  <2>3. b \in Seq(S) /\ Len(b) = i
        /\ \A k \in 1..i : k \in 1..n /\ b[k] = ps[k]
    <3>1. i \in Nat /\ i <= Len(ps)
      BY <1>0
    <3> QED
      BY <3>1, PrefixEntries
  <2> HIDE DEF a, b
  <2>4. /\ a \o b \in Seq(S) /\ Len(a \o b) = Len(a) + Len(b)
        /\ \A k \in 1..(Len(a) + Len(b)) :
             (a \o b)[k] = IF k <= Len(a) THEN a[k] ELSE b[k - Len(a)]
    BY <2>2, <2>3, ConcatProperties
  <2>5. \A k \in 1..(i - 2) : k \in 1..n /\ (a \o b)[k] = ps[k]
    BY <1>0, <1>4, <2>2, <2>3, <2>4
  <2>6. \A k \in 1..i : /\ k \in 1..n /\ (i - 2) + k \in 1..((i - 2) + i)
                       /\ (a \o b)[(i - 2) + k] = ps[k]
    BY <1>0, <1>4, <2>2, <2>3, <2>4
  <2> QED
    BY <1>4, <2>1, <2>2, <2>3, <2>4, <2>5, <2>6
<1> QED
  BY <1>1, <1>2, <1>3, <1>4

\* removePlayer makes up no player: whatever it leaves in the roster was there.
THEOREM CutMakesNobodyUp ==
    ASSUME NEW S, NEW ps \in Seq(S), NEW i \in 1..Len(ps)
    PROVE  /\ Cut(ps, i) \in Seq(S)
           /\ \A k \in 1..Len(Cut(ps, i)) :
                \E j \in 1..Len(ps) : Cut(ps, i)[k] = ps[j]
<1>0. Len(ps) \in Nat /\ i \in Nat /\ Cut(ps, i) \in Seq(S)
  BY LenProperties, CutShape
<1>1. ASSUME NEW k \in 1..Len(Cut(ps, i)) PROVE \E j \in 1..Len(ps) : Cut(ps, i)[k] = ps[j]
  <2>1. CASE i = 1
    <3>1. /\ Len(Cut(ps, i)) = Len(ps) - 1
          /\ \A j \in 1..(Len(ps) - 1) : j + 1 \in 1..Len(ps) /\ Cut(ps, i)[j] = ps[j + 1]
      BY <2>1, CutShape
    <3> QED
      BY <1>1, <3>1
  <2>2. CASE i # 1 /\ i = Len(ps)
    <3>1. /\ Len(Cut(ps, i)) = Len(ps) - 2
          /\ \A j \in 1..(Len(ps) - 2) : j \in 1..Len(ps) /\ Cut(ps, i)[j] = ps[j]
      BY <2>2, CutShape
    <3> QED
      BY <1>1, <3>1
  <2>3. CASE i # 1 /\ i # Len(ps)
    <3>1. Len(Cut(ps, i)) = (i - 2) + i
      BY <2>3, CutShape
    <3>2. CASE k <= i - 2
      BY <1>0, <2>3, <3>1, <3>2, CutShape
    <3>3. CASE k > i - 2
      <4>1. k - (i - 2) \in 1..i /\ (i - 2) + (k - (i - 2)) = k
        BY <1>0, <3>1, <3>3
      <4>2. k - (i - 2) \in 1..Len(ps)
            /\ Cut(ps, i)[(i - 2) + (k - (i - 2))] = ps[k - (i - 2)]
        BY <2>3, <4>1, CutShape
      <4> QED
        BY <4>1, <4>2
    <3> QED
      BY <1>0, <3>2, <3>3
  <2> QED
    BY <2>1, <2>2, <2>3
<1> QED
  BY <1>0, <1>1

\* What a logout is for: one entry less, and the others as they were.
LEMMA WithoutShape ==
    ASSUME NEW S, NEW ps \in Seq(S), NEW i \in 1..Len(ps)
    PROVE  /\ Without(ps, i) \in Seq(S) /\ Len(Without(ps, i)) = Len(ps) - 1
           /\ \A k \in 1..(Len(ps) - 1) :
                Without(ps, i)[k] = IF k < i THEN ps[k] ELSE ps[k + 1]
<1> DEFINE a == SubSeq(ps, 1, i - 1)
           b == SubSeq(ps, i + 1, Len(ps))
<1>0. Len(ps) \in Nat /\ i \in Nat /\ \A j \in 1..Len(ps) : ps[j] \in S
  BY LenProperties, ElementOfSeq
<1>1. a \in Seq(S) /\ Len(a) = i - 1 /\ \A k \in 1..(i - 1) : a[k] = ps[k]
  <2>1. \A j \in 1..(i - 1) : ps[j] \in S
    BY <1>0
  <2> QED
    BY <1>0, <2>1, SubSeqProperties
<1>2. b \in Seq(S) /\ Len(b) = Len(ps) - i /\ \A k \in 1..(Len(ps) - i) : b[k] = ps[i + k]
  <2>1. \A j \in (i + 1)..Len(ps) : ps[j] \in S
    BY <1>0
  <2>2. i + 1 \in Int /\ Len(ps) \in Int
    BY <1>0
  <2>3. /\ b \in Seq(S)
        /\ Len(b) = IF i + 1 <= Len(ps) THEN Len(ps) - (i + 1) + 1 ELSE 0
        /\ \A k \in 1..(Len(ps) - (i + 1) + 1) : b[k] = ps[(i + 1) + k - 1]
    BY <2>1, <2>2, SubSeqProperties
  <2> QED
    BY <1>0, <2>3
<1> HIDE DEF a, b
<1>3. /\ a \o b \in Seq(S) /\ Len(a \o b) = Len(a) + Len(b)
      /\ \A k \in 1..(Len(a) + Len(b)) :
           (a \o b)[k] = IF k <= Len(a) THEN a[k] ELSE b[k - Len(a)]
  BY <1>1, <1>2, ConcatProperties
<1>4. ASSUME NEW k \in 1..(Len(ps) - 1)
      PROVE  (a \o b)[k] = IF k < i THEN ps[k] ELSE ps[k + 1]
  <2>1. k \in 1..(Len(a) + Len(b))
    BY <1>0, <1>1, <1>2
  <2>2. CASE k < i
    BY <1>0, <1>1, <1>3, <2>1, <2>2
  <2>3. CASE ~(k < i)
    <3>1. k - Len(a) \in 1..(Len(ps) - i) /\ i + (k - Len(a)) = k + 1 /\ ~(k <= Len(a))
      BY <1>0, <1>1, <2>3
    <3> QED
      BY <1>2, <1>3, <2>1, <2>3, <3>1
  <2> QED
    BY <2>2, <2>3
<1>5. Without(ps, i) = a \o b
  BY DEF Without, a, b
<1>6. Len(a) + Len(b) = Len(ps) - 1
  BY <1>0, <1>1, <1>2
<1> QED
  BY <1>3, <1>4, <1>5, <1>6

\* The roster after a logout is the one it should be only if it is the first
\* entry that logs out, in every roster where nobody is twice.
THEOREM CutIsRightForTheFirst ==
    ASSUME NEW S, NEW ps \in Seq(S), NEW i \in 1..Len(ps),
           \A j, k \in 1..Len(ps) : j # k => ps[j] # ps[k]
    PROVE  Cut(ps, i) = Without(ps, i) <=> i = 1
<1>0. Len(ps) \in Nat /\ i \in 1..Len(ps) /\ Cut(ps, i) \in Seq(S)
      /\ Without(ps, i) \in Seq(S) /\ Len(Without(ps, i)) = Len(ps) - 1
  BY LenProperties, CutShape, WithoutShape
<1>1. CASE i = 1
  <2>1. \A k \in 1..(Len(ps) - 1) : Cut(ps, i)[k] = ps[k + 1]
    BY <1>1, CutShape
  <2>4. \A k \in 1..(Len(ps) - 1) : Without(ps, i)[k] = ps[k + 1]
    <3>1. \A k \in 1..(Len(ps) - 1) :
            Without(ps, i)[k] = IF k < i THEN ps[k] ELSE ps[k + 1]
      BY WithoutShape
    <3> QED
      BY <1>0, <1>1, <3>1
  <2>2. Len(Cut(ps, i)) = Len(ps) - 1
    BY <1>1, CutShape
  <2>3. Cut(ps, i) = Without(ps, i)
    <3>1. \A k \in 1..Len(Cut(ps, i)) : Cut(ps, i)[k] = Without(ps, i)[k]
      BY <2>1, <2>2, <2>4
    <3> QED
      BY <1>0, <2>2, <3>1, SeqEqual
  <2> QED
    BY <1>1, <2>3
<1>2. CASE i # 1 /\ i = Len(ps)
  <2>1. Len(Cut(ps, i)) = Len(ps) - 2
    BY <1>2, CutShape
  <2>2. Len(Cut(ps, i)) # Len(Without(ps, i))
    BY <1>0, <2>1
  <2> QED
    BY <1>2, <2>2
<1>3. CASE i # 1 /\ i # Len(ps)
  <2>1. Len(Cut(ps, i)) = (i - 2) + i /\ Cut(ps, i)[(i - 2) + i] = ps[i]
    <3>1. i \in 1..i
      BY <1>0
    <3> QED
      BY <1>3, <3>1, CutShape
  <2>2. SUFFICES ASSUME Cut(ps, i) = Without(ps, i) PROVE FALSE
    BY <1>3
  <2>3. (i - 2) + i = Len(ps) - 1
    BY <1>0, <2>1, <2>2
  <2>4. Len(ps) - 1 \in 1..(Len(ps) - 1) /\ ~(Len(ps) - 1 < i) /\ (Len(ps) - 1) + 1 = Len(ps)
    BY <1>0, <1>3
  <2>5. Without(ps, i)[Len(ps) - 1] = ps[Len(ps)]
    BY <2>4, WithoutShape
  <2>6. ps[i] = ps[Len(ps)] /\ Len(ps) \in 1..Len(ps)
    BY <1>0, <2>1, <2>2, <2>3, <2>5
  <2> QED
    BY <1>0, <1>3, <2>6
<1> QED
  BY <1>1, <1>2, <1>3

\* Whoever logs out from the middle of the roster is still in it.
THEOREM CutKeepsTheMiddle ==
    ASSUME NEW S, NEW ps \in Seq(S), NEW i \in 1..Len(ps), i # 1, i # Len(ps)
    PROVE  \E k \in 1..Len(Cut(ps, i)) : Cut(ps, i)[k] = ps[i]
<1>1. i \in 1..i /\ Len(Cut(ps, i)) = (i - 2) + i
  BY CutShape
<1> QED
  BY <1>1, CutShape

-----------------------------------------------------------------------------
(* Types *)

\* What a request carries, by its method.
LEMMA RequestKinds ==
    ASSUME NEW r \in Requests \cup {NoRequest}
    PROVE  /\ r.method = "addplayer" => r \in AddRequests /\ r.player \in Players
           /\ r.method = "broadcast" => r \in BroadcastRequests /\ r.msg \in Messages
           /\ r.method = "removeplayer" => r \in RemoveRequests
           /\ r.method = "listplayer" => r \in ListRequests
           /\ r \in RejectedRequests <=> r.method \in {"malformed", "other"}
           /\ r = NoRequest <=> r.method = "none"
  BY DEF Requests, NoRequest, AddRequests, RemoveRequests, ListRequests,
         BroadcastRequests, RejectedRequests

\* The responses are responses.
LEMMA ResponseTypes ==
    /\ NoResponse \in Responses
    /\ \A c \in Codes : Code(c) \in Responses
    /\ \A ps \in Seq(Players) : Listing(ps) \in Responses
    /\ \A r : Rejection(r) \in Responses
<1>1. \A c \in Codes : Code(c) \in Responses
  BY EmptySeq DEF Code, Responses
<1>2. \A ps \in Seq(Players) : Listing(ps) \in Responses
  BY DEF Listing, Responses, Codes
<1> QED
  BY <1>1, <1>2 DEF NoResponse, Rejection, Codes, BadJson

\* At the start there is nobody and nothing.
LEMMA TypeInit == CenterInit => CenterTypeOK
<1> SUFFICES ASSUME CenterInit PROVE CenterTypeOK
  OBVIOUS
<1>1. <<>> \in Seq(Players) /\ <<>> \in Seq(Messages)
      /\ <<>> \in Seq([msg : Messages, to : Seq(Players)])
  BY EmptySeq
<1> QED
  BY <1>1, ResponseTypes, RosterBounds
  DEF CenterInit, CenterTypeOK, HandlerStates

\* A handler that unlocks and answers keeps the types of what it touches.
LEMMA TypeLeave ==
    ASSUME CenterTypeOK, NEW s \in Sessions, NEW r \in Responses, Leave(s, r),
           players' \in Seq(Players),
           log' \in Seq([msg : Messages, to : Seq(Players)])
    PROVE  CenterTypeOK'
<1>1. <<>> \in Seq(Players)
  BY EmptySeq
<1> QED
  BY <1>1 DEF Leave, CenterTypeOK, HandlerStates, mailVars, issueVars

\* Every step keeps the types.
LEMMA TypeNext == CenterTypeOK /\ [CenterNext]_centerVars => CenterTypeOK'
<1> SUFFICES ASSUME CenterTypeOK, [CenterNext]_centerVars PROVE CenterTypeOK'
  OBVIOUS
<1> USE RosterBounds DEF lockVars, mailVars, handlerVars, issueVars
<1>1. ASSUME NEW s \in Sessions, NEW r \in Requests, Issue(r), Handle(s, r)
      PROVE  CenterTypeOK'
  <2>1. logins' \in 0..MaxPlayers /\ sends' \in 0..MaxMessages
    BY <1>1, RequestKinds
    DEF Issue, Fresh, CenterTypeOK, Players, PlayerIds, Messages
  <2>2. started' \in SUBSET PlayerIds
    BY <1>1, RequestKinds DEF Handle, CenterTypeOK, Players
  <2> QED
    BY <1>1, <2>1, <2>2 DEF Handle, CenterTypeOK, HandlerStates
<1>2. ASSUME NEW s \in Sessions, Reject(s) PROVE CenterTypeOK'
  BY <1>2, ResponseTypes DEF Reject, CenterTypeOK, HandlerStates
<1>3. ASSUME NEW s \in Sessions, Lock(s) \/ RLock(s) PROVE CenterTypeOK'
  <2>1. writer' \in Sessions \cup {NoSession} /\ readers' \in SUBSET Sessions
    BY <1>3 DEF Lock, RLock, CenterTypeOK
  <2>2. Enter(s)
    BY <1>3 DEF Lock, RLock
  <2> QED
    BY <2>1, <2>2 DEF Enter, CenterTypeOK, HandlerStates
<1>4. ASSUME NEW s \in Sessions, AddPlayer(s) PROVE CenterTypeOK'
  <2>1. req[s].player \in Players /\ snap[s] \in Seq(Players)
    BY <1>4, RequestKinds DEF AddPlayer, Inside, CenterTypeOK
  <2>2. players' \in Seq(Players)
    BY <1>4, <2>1, AppendProperties DEF AddPlayer
  <2>3. Code("200") \in Responses
    BY ResponseTypes DEF Codes
  <2> QED
    BY <1>4, <2>2, <2>3, TypeLeave DEF AddPlayer, CenterTypeOK
<1>5. ASSUME NEW s \in Sessions, RemovePlayer(s) PROVE CenterTypeOK'
  <2>1. Code("200") \in Responses /\ Code(NotFound) \in Responses
    BY ResponseTypes DEF Codes
  <2>2. snap[s] \in Seq(Players)
    BY DEF CenterTypeOK
  <2>3. players' \in Seq(Players)
    BY <1>5, <2>2, CutMakesNobodyUp DEF RemovePlayer, CenterTypeOK
  <2>4. Leave(s, Code("200")) \/ Leave(s, Code(NotFound))
    BY <1>5 DEF RemovePlayer
  <2> QED
    BY <1>5, <2>1, <2>3, <2>4, TypeLeave DEF RemovePlayer, CenterTypeOK
<1>6. ASSUME NEW s \in Sessions, ListPlayer(s) PROVE CenterTypeOK'
  <2> DEFINE r == IF Len(snap[s]) > 0 THEN Listing(snap[s])
                                      ELSE Code(NobodyOnline)
  <2>1. Leave(s, r) /\ players' = players /\ log' = log
    BY <1>6 DEF ListPlayer
  <2>2. r \in Responses
    BY ResponseTypes DEF Codes, CenterTypeOK
  <2> HIDE DEF r
  <2> QED
    BY <2>1, <2>2, TypeLeave DEF CenterTypeOK
<1>7. ASSUME NEW s \in Sessions, Push(s) PROVE CenterTypeOK'
  <2> DEFINE p == snap[s][pos[s]].id
  <2>1. pos[s] \in 1..Len(snap[s])
    BY <1>7, LenProperties DEF Push, CenterTypeOK
  <2>2. p \in PlayerIds
    <3>1. snap[s] \in Seq(Players)
      BY DEF CenterTypeOK
    <3>2. snap[s][pos[s]] \in Players
      BY <3>1, <2>1, ElementOfSeq
    <3> QED
      BY <3>2 DEF Players
  <2>3. req[s].msg \in Messages
    BY <1>7, RequestKinds DEF Push, Inside, CenterTypeOK
  <2>4. Append(mq[p], req[s].msg) \in Seq(Messages)
    BY <2>2, <2>3, AppendProperties DEF CenterTypeOK
  <2>5. mq' \in [PlayerIds -> Seq(Messages)]
    BY <1>7, <2>2, <2>4 DEF Push, CenterTypeOK
  <2> QED
    BY <1>7, <2>5 DEF Push, CenterTypeOK
<1>8. ASSUME NEW s \in Sessions, BroadcastDone(s) PROVE CenterTypeOK'
  <2>1. Code("200") \in Responses /\ Code(NobodyOnline) \in Responses
    BY ResponseTypes DEF Codes
  <2> DEFINE E == [msg : Messages, to : Seq(Players)]
             e == [msg |-> req[s].msg, to |-> snap[s]]
  <2>2. e \in E /\ log \in Seq(E)
    BY <1>8, RequestKinds DEF BroadcastDone, Inside, CenterTypeOK
  <2>3. log' \in Seq(E)
    <3>1. log' = Append(log, e) \/ log' = log
      BY <1>8 DEF BroadcastDone
    <3> HIDE DEF E, e
    <3> QED
      BY <3>1, <2>2, AppendProperties
  <2>4. Leave(s, Code("200")) \/ Leave(s, Code(NobodyOnline))
    BY <1>8 DEF BroadcastDone
  <2> QED
    BY <1>8, <2>1, <2>3, <2>4, TypeLeave DEF BroadcastDone, CenterTypeOK
<1>9. ASSUME NEW p \in PlayerIds, Printer(p) PROVE CenterTypeOK'
  <2>1. Head(mq[p]) \in Messages /\ Tail(mq[p]) \in Seq(Messages)
    BY <1>9, HeadTailProperties DEF Printer, CenterTypeOK
  <2>2. Append(printed[p], Head(mq[p])) \in Seq(Messages)
    BY <2>1, AppendProperties DEF CenterTypeOK
  <2> QED
    BY <1>9, <2>1, <2>2 DEF Printer, CenterTypeOK
<1>10. ASSUME NEW s \in Sessions, HandleReturns(s), UNCHANGED issueVars
       PROVE  CenterTypeOK'
  BY <1>10, ResponseTypes DEF HandleReturns, CenterTypeOK, HandlerStates
<1>11. CASE UNCHANGED centerVars
  BY <1>11 DEF centerVars, CenterTypeOK
<1> QED
  BY <1>1, <1>2, <1>3, <1>4, <1>5, <1>6, <1>7, <1>8, <1>9, <1>10, <1>11
  DEF CenterNext, Step

\* Every variable keeps its type.
THEOREM CenterTypes == CenterSpec => []CenterTypeOK
  BY TypeInit, TypeNext, PTL DEF CenterSpec

-----------------------------------------------------------------------------
(* The lock *)

LEMMA LockingInit == CenterInit => Locking
  BY NoSessionIsNone DEF CenterInit, Locking, Inside, WriteMethods, NoRequest

\* A handler that unlocks is no longer inside, and the lock no longer its own.
LEMMA LockingLeave ==
    ASSUME CenterTypeOK, Locking, NEW s \in Sessions, NEW r, Leave(s, r),
           hpc[s] = "inside"
    PROVE  Locking'
<1> USE NoSessionIsNone DEF Leave, Locking, Inside, WriteMethods, CenterTypeOK
<1>1. ASSUME NEW t \in Sessions
      PROVE  /\ writer' = t <=> hpc'[t] = "inside" /\ req'[t].method \in WriteMethods
             /\ t \in readers' <=> hpc'[t] = "inside" /\ req'[t].method = "listplayer"
             /\ hpc'[t] = "inside" => req'[t].method \in WriteMethods \cup {"listplayer"}
  <2>1. CASE t = s
    BY <2>1
  <2>2. CASE t # s
    BY <2>2
  <2> QED BY <2>1, <2>2
<1>2. writer' # NoSession => readers' = {}
  OBVIOUS
<1> QED
  BY <1>1, <1>2

\* Who is inside is known to the lock after every step.
LEMMA LockingNext ==
    CenterTypeOK /\ Locking /\ [CenterNext]_centerVars => Locking'
<1> SUFFICES ASSUME CenterTypeOK, Locking, [CenterNext]_centerVars PROVE Locking'
  OBVIOUS
<1> USE NoSessionIsNone DEF lockVars, mailVars, handlerVars, issueVars
<1>1. ASSUME NEW s \in Sessions, NEW r \in Requests, Handle(s, r) PROVE Locking'
  BY <1>1 DEF Handle, Locking, Inside, CenterTypeOK
<1>2. ASSUME NEW s \in Sessions, Reject(s) PROVE Locking'
  BY <1>2 DEF Reject, Locking, Inside, CenterTypeOK
<1>3. ASSUME NEW s \in Sessions, Lock(s) PROVE Locking'
  BY <1>3 DEF Lock, Enter, Locking, Inside, WriteMethods, CenterTypeOK
<1>4. ASSUME NEW s \in Sessions, RLock(s) PROVE Locking'
  BY <1>4 DEF RLock, Enter, Locking, Inside, WriteMethods, CenterTypeOK
<1>5. ASSUME NEW s \in Sessions,
             AddPlayer(s) \/ RemovePlayer(s) \/ ListPlayer(s) \/ BroadcastDone(s)
      PROVE  Locking'
  <2>1. \E r : Leave(s, r)
    BY <1>5 DEF AddPlayer, RemovePlayer, ListPlayer, BroadcastDone
  <2>2. hpc[s] = "inside"
    BY <1>5 DEF AddPlayer, RemovePlayer, ListPlayer, BroadcastDone, Inside
  <2> QED
    BY <2>1, <2>2, LockingLeave
<1>6. ASSUME NEW s \in Sessions, Push(s) PROVE Locking'
  BY <1>6 DEF Push, Locking, Inside
<1>7. ASSUME NEW p \in PlayerIds, Printer(p) PROVE Locking'
  BY <1>7 DEF Printer, Locking, Inside
<1>8. ASSUME NEW s \in Sessions, HandleReturns(s) PROVE Locking'
  BY <1>8 DEF HandleReturns, Locking, Inside, CenterTypeOK
<1>9. CASE UNCHANGED centerVars
  BY <1>9 DEF centerVars, Locking, Inside
<1> QED
  BY <1>1, <1>2, <1>3, <1>4, <1>5, <1>6, <1>7, <1>8, <1>9 DEF CenterNext, Step

\* Two handlers are inside together only to list.
LEMMA LockingExcludes == CenterTypeOK /\ Locking => Exclusion
  BY NoSessionIsNone DEF CenterTypeOK, Locking, Exclusion, Inside, WriteMethods

\* The mutual exclusion of the handlers.
THEOREM HandlersExclude == CenterSpec => []Exclusion
<1>1. CenterTypeOK /\ Locking /\ [CenterNext]_centerVars => (CenterTypeOK /\ Locking)'
  BY TypeNext, LockingNext
<1> QED
  BY <1>1, TypeInit, LockingInit, LockingExcludes, PTL DEF CenterSpec

-----------------------------------------------------------------------------
(* What a handler loaded is the roster *)

LEMMA StaleInit == CenterInit => NothingStale
  BY DEF CenterInit, NothingStale

\* The roster changes only when its only user leaves.
LEMMA StaleNext ==
    CenterTypeOK /\ Locking /\ NothingStale /\ [CenterNext]_centerVars => NothingStale'
<1> SUFFICES ASSUME CenterTypeOK, Locking, NothingStale, [CenterNext]_centerVars
             PROVE  NothingStale'
  OBVIOUS
<1> USE DEF lockVars, mailVars, handlerVars, issueVars
<1>1. ASSUME NEW s \in Sessions, NEW r \in Requests, Handle(s, r)
      PROVE  NothingStale'
  BY <1>1 DEF Handle, NothingStale, CenterTypeOK
<1>2. ASSUME NEW s \in Sessions, Reject(s) PROVE NothingStale'
  BY <1>2 DEF Reject, NothingStale, CenterTypeOK
<1>3. ASSUME NEW s \in Sessions, Lock(s) \/ RLock(s) PROVE NothingStale'
  BY <1>3 DEF Lock, RLock, Enter, NothingStale, CenterTypeOK
<1>4. ASSUME NEW s \in Sessions, AddPlayer(s) \/ RemovePlayer(s) PROVE NothingStale'
  <2>1. \E r : Leave(s, r)
    BY <1>4 DEF AddPlayer, RemovePlayer
  <2>2. hpc' = [hpc EXCEPT ![s] = "reply"]
    BY <2>1 DEF Leave
  <2>3. Exclusion
    BY LockingExcludes
  <2>4. hpc[s] = "inside" /\ req[s].method # "listplayer"
    BY <1>4 DEF AddPlayer, RemovePlayer, Inside
  <2>5. \A t \in Sessions : hpc'[t] # "inside"
    BY <2>2, <2>3, <2>4 DEF Exclusion, CenterTypeOK
  <2> QED
    BY <2>5 DEF NothingStale
<1>5. ASSUME NEW s \in Sessions, ListPlayer(s) \/ BroadcastDone(s) PROVE NothingStale'
  <2>1. players' = players /\ \E r : Leave(s, r)
    BY <1>5 DEF ListPlayer, BroadcastDone
  <2> QED
    BY <2>1 DEF Leave, NothingStale, CenterTypeOK
<1>6. ASSUME NEW s \in Sessions, Push(s) PROVE NothingStale'
  BY <1>6 DEF Push, NothingStale
<1>7. ASSUME NEW p \in PlayerIds, Printer(p) PROVE NothingStale'
  BY <1>7 DEF Printer, NothingStale
<1>8. ASSUME NEW s \in Sessions, HandleReturns(s) PROVE NothingStale'
  BY <1>8 DEF HandleReturns, NothingStale, CenterTypeOK
<1>9. CASE UNCHANGED centerVars
  BY <1>9 DEF centerVars, NothingStale
<1> QED
  BY <1>1, <1>2, <1>3, <1>4, <1>5, <1>6, <1>7, <1>8, <1>9 DEF CenterNext, Step

\* The inductive invariant of the center server.
CenterInv == CenterTypeOK /\ Locking /\ NothingStale

LEMMA CenterInvariant == CenterSpec => []CenterInv
<1>1. CenterInit => CenterInv
  BY TypeInit, LockingInit, StaleInit DEF CenterInv
<1>2. CenterInv /\ [CenterNext]_centerVars => CenterInv'
  BY TypeNext, LockingNext, StaleNext DEF CenterInv
<1> QED
  BY <1>1, <1>2, PTL DEF CenterSpec

\* The length, the elements and the listing a handler works with are those of
\* the roster until it unlocks.
THEOREM HandlersSeeTheRoster == CenterSpec => []NothingStale
  BY CenterInvariant, PTL DEF CenterInv

-----------------------------------------------------------------------------
(* Mailboxes have readers *)

\* The players a handler can put into the roster, or has in it, have printers.
RosterRead ==
    /\ \A i \in 1..Len(players) : players[i].id \in started
    /\ \A s \in Sessions :
         hpc[s] \in {"called", "inside"} /\ req[s].method = "addplayer"
           => req[s].player.id \in started

LEMMA ReadHandle ==
    ASSUME CenterInv, RosterRead, NEW s \in Sessions, NEW r \in Requests, Handle(s, r)
    PROVE  RosterRead'
  BY DEF Handle, RosterRead, CenterInv, CenterTypeOK, lockVars

LEMMA ReadNext ==
    CenterInv /\ RosterRead /\ [CenterNext]_centerVars => RosterRead'
<1> SUFFICES ASSUME CenterInv, RosterRead, [CenterNext]_centerVars PROVE RosterRead'
  OBVIOUS
<1> USE DEF lockVars, mailVars, handlerVars, issueVars, CenterInv
<1>1. ASSUME NEW s \in Sessions, NEW r \in Requests, Handle(s, r) PROVE RosterRead'
  BY <1>1, ReadHandle
<1>2. ASSUME NEW s \in Sessions, Reject(s) PROVE RosterRead'
  BY <1>2 DEF Reject, RosterRead, CenterTypeOK
<1>3. ASSUME NEW s \in Sessions, Lock(s) \/ RLock(s) PROVE RosterRead'
  BY <1>3 DEF Lock, RLock, Enter, RosterRead, CenterTypeOK
<1>4. ASSUME NEW s \in Sessions, AddPlayer(s) PROVE RosterRead'
  <2>1. hpc[s] = "inside" /\ snap[s] = players /\ req[s].player.id \in started
    BY <1>4 DEF AddPlayer, Inside, NothingStale, RosterRead
  <2>2. req[s].player \in Players /\ players \in Seq(Players)
    BY <1>4, RequestKinds DEF AddPlayer, Inside, CenterTypeOK
  <2>3. \A i \in 1..Len(players') : players'[i].id \in started
    BY <1>4, <2>1, <2>2, AppendProperties DEF AddPlayer, RosterRead
  <2> QED
    BY <1>4, <2>3 DEF AddPlayer, Leave, RosterRead, CenterTypeOK
<1>5. ASSUME NEW s \in Sessions, RemovePlayer(s) PROVE RosterRead'
  <2>1. snap[s] = players /\ players \in Seq(Players)
    BY <1>5 DEF RemovePlayer, Inside, NothingStale, CenterTypeOK
  <2>2. \A i \in 1..Len(players') : players'[i].id \in started
    <3>1. CASE players' = players
      BY <3>1 DEF RosterRead
    <3>2. CASE players' # players
      <4>1. PICK i \in 1..Len(players) : players' = Cut(players, i)
        BY <1>5, <2>1, <3>2 DEF RemovePlayer
      <4>2. \A k \in 1..Len(players') :
              \E j \in 1..Len(players) : players'[k] = players[j]
        BY <4>1, <2>1, CutMakesNobodyUp
      <4> QED
        BY <4>2 DEF RosterRead
    <3> QED BY <3>1, <3>2
  <2>3. \E r : Leave(s, r)
    BY <1>5 DEF RemovePlayer
  <2> QED
    BY <2>2, <2>3 DEF Leave, RosterRead, CenterTypeOK
<1>6. ASSUME NEW s \in Sessions, ListPlayer(s) \/ BroadcastDone(s) PROVE RosterRead'
  <2>1. players' = players /\ \E r : Leave(s, r)
    BY <1>6 DEF ListPlayer, BroadcastDone
  <2> QED
    BY <2>1 DEF Leave, RosterRead, CenterTypeOK
<1>7. ASSUME NEW s \in Sessions, Push(s) PROVE RosterRead'
  BY <1>7 DEF Push, RosterRead
<1>8. ASSUME NEW p \in PlayerIds, Printer(p) PROVE RosterRead'
  BY <1>8 DEF Printer, RosterRead
<1>9. ASSUME NEW s \in Sessions, HandleReturns(s) PROVE RosterRead'
  BY <1>9 DEF HandleReturns, RosterRead, CenterTypeOK
<1>10. CASE UNCHANGED centerVars
  BY <1>10 DEF centerVars, RosterRead
<1> QED
  BY <1>1, <1>2, <1>3, <1>4, <1>5, <1>6, <1>7, <1>8, <1>9, <1>10
  DEF CenterNext, Step

\* No broadcast sends to a mailbox that nobody reads.
THEOREM BroadcastsAreRead == CenterSpec => []MailboxesRead
<1>1. CenterInit => RosterRead
  BY DEF CenterInit, RosterRead
<1>2. CenterInv /\ CenterInv' /\ RosterRead /\ [CenterNext]_centerVars => RosterRead'
  BY ReadNext
<1>3. CenterInv /\ RosterRead => MailboxesRead
  BY DEF CenterInv, RosterRead, NothingStale, MailboxesRead
<1> QED
  BY <1>1, <1>2, <1>3, CenterInvariant, PTL DEF CenterSpec

-----------------------------------------------------------------------------
(* The handlers are a serial server *)

\* The Lobby's requests, responses and roster operations are the server's.
LEMMA SameData ==
    /\ Serial!Requests = Requests /\ Serial!NoRequest = NoRequest
    /\ Serial!NoResponse = NoResponse
    /\ Serial!NotFound = NotFound /\ Serial!NobodyOnline = NobodyOnline
    /\ \A c : Serial!Code(c) = Code(c)
    /\ \A ps : Serial!Listing(ps) = Listing(ps)
    /\ \A r : Serial!Rejected(r) <=> Rejected(r)
    /\ \A r : Serial!Rejection(r) = Rejection(r)
    /\ \A ps, n, i : Serial!FirstNamed(ps, n, i) <=> FirstNamed(ps, n, i)
    /\ \A ps, n : Serial!Absent(ps, n) <=> Absent(ps, n)
    /\ \A ps, i : Serial!Cut(ps, i) = Cut(ps, i)
<1>1. Serial!Requests = Requests /\ \A r : Serial!Rejected(r) <=> Rejected(r)
  BY DEF Serial!Requests, Requests, Serial!AddRequests, AddRequests,
     Serial!RemoveRequests, RemoveRequests, Serial!ListRequests, ListRequests,
     Serial!BroadcastRequests, BroadcastRequests, Serial!RejectedRequests,
     RejectedRequests, Serial!Rejected, Rejected, Serial!Players, Players,
     Serial!PlayerIds, PlayerIds, Serial!Messages, Messages
<1>2. /\ Serial!NoRequest = NoRequest /\ Serial!NoResponse = NoResponse
      /\ Serial!NotFound = NotFound /\ Serial!NobodyOnline = NobodyOnline
      /\ \A c : Serial!Code(c) = Code(c)
      /\ \A ps : Serial!Listing(ps) = Listing(ps)
      /\ \A r : Serial!Rejection(r) = Rejection(r)
  BY DEF Serial!NoRequest, NoRequest, Serial!NoResponse, NoResponse,
     Serial!NotFound, NotFound, Serial!NobodyOnline, NobodyOnline,
     Serial!Code, Code, Serial!Listing, Listing, Serial!Rejection, Rejection,
     Serial!BadJson, BadJson
<1>3. /\ \A ps, n, i : Serial!FirstNamed(ps, n, i) <=> FirstNamed(ps, n, i)
      /\ \A ps, n : Serial!Absent(ps, n) <=> Absent(ps, n)
  BY DEF Serial!FirstNamed, FirstNamed, Serial!Absent, Absent
<1>4. \A ps, i : Serial!Cut(ps, i) = Cut(ps, i)
  BY DEF Serial!Cut, Cut, Serial!Slice, Slice
<1> QED
  BY <1>1, <1>2, <1>3, <1>4

LEMMA Stages ==
    ASSUME CenterTypeOK, NEW s \in Sessions
    PROVE  /\ StageOf(s) = "idle" <=> hpc[s] = "idle"
           /\ StageOf(s) = "done" <=> hpc[s] = "reply"
           /\ StageOf(s) = "called" <=> hpc[s] \in {"called", "inside"}
  BY DEF StageOf, CenterTypeOK, HandlerStates

\* A handler that leaves applies its request in the Lobby.
LEMMA LeaveApplies ==
    ASSUME CenterInv, NEW s \in Sessions, NEW r, Leave(s, r), hpc[s] = "inside",
           Serial!Add(s) \/ Serial!Remove(s) \/ Serial!List(s) \/ Serial!Broadcast(s)
    PROVE  Serial!Apply(s)
<1>1. [t \in Sessions |-> StageOf(t)][s] = "called"
  BY Stages DEF CenterInv
<1>2. [t \in Sessions |-> StageOf(t)']
        = [[t \in Sessions |-> StageOf(t)] EXCEPT ![s] = "done"]
  BY DEF Leave, StageOf, CenterInv, CenterTypeOK
<1> QED
  BY <1>1, <1>2 DEF Serial!Apply, Leave

\* Every step of the center server is a step of the Lobby or leaves the Lobby
\* as it is: the request of a handler takes effect when it unlocks.
LEMMA StepIsSerial ==
    CenterInv /\ [CenterNext]_centerVars => [Serial!LobbyNext]_(Serial!lobbyVars)
<1> SUFFICES ASSUME CenterInv, [CenterNext]_centerVars
             PROVE  Serial!LobbyNext \/ UNCHANGED Serial!lobbyVars
  OBVIOUS
<1> DEFINE Stage == [t \in Sessions |-> StageOf(t)]
<1> USE DEF CenterInv, lockVars, mailVars, handlerVars, issueVars
<1>1. ASSUME NEW s \in Sessions, NEW r \in Requests, Handle(s, r)
      PROVE  Serial!Call(s)
  <2>1. Stage[s] = "idle"
    BY <1>1, Stages DEF Handle
  <2>2. Stage' = [Stage EXCEPT ![s] = "called"]
    BY <1>1 DEF Handle, StageOf, CenterTypeOK
  <2> QED
    BY SameData, <1>1, <2>1, <2>2 DEF Handle, Serial!Call
<1>2. ASSUME NEW s \in Sessions, Reject(s) PROVE Serial!Apply(s)
  <2>1. Stage[s] = "called"
    BY <1>2, Stages DEF Reject
  <2>2. Stage' = [Stage EXCEPT ![s] = "done"]
    BY <1>2 DEF Reject, StageOf, CenterTypeOK
  <2> QED
    BY SameData, <1>2, <2>1, <2>2 DEF Reject, Serial!Reject, Serial!Answered, Serial!Apply
<1>3. ASSUME NEW s \in Sessions, Lock(s) \/ RLock(s) PROVE UNCHANGED Serial!lobbyVars
  <2>1. Stage' = Stage
    BY <1>3 DEF Lock, RLock, Enter, StageOf, CenterTypeOK
  <2> QED
    BY <1>3, <2>1 DEF Lock, RLock, Enter, Serial!lobbyVars
<1>4. ASSUME NEW s \in Sessions, AddPlayer(s) PROVE Serial!Apply(s)
  <2>1. hpc[s] = "inside" /\ snap[s] = players /\ Leave(s, Code("200"))
    BY <1>4 DEF AddPlayer, Inside, NothingStale
  <2>2. Serial!Add(s)
    BY SameData, <1>4, <2>1 DEF AddPlayer, Inside, Leave, Serial!Add, Serial!Answered
  <2> QED
    BY <2>1, <2>2, LeaveApplies
<1>5. ASSUME NEW s \in Sessions, RemovePlayer(s) PROVE Serial!Apply(s)
  <2>1. hpc[s] = "inside" /\ snap[s] = players /\ \E r : Leave(s, r)
    BY <1>5 DEF RemovePlayer, Inside, NothingStale
  <2>2. Serial!Remove(s)
    BY SameData, <1>5, <2>1 DEF RemovePlayer, Inside, Leave, Serial!Remove, Serial!Answered
  <2> QED
    BY <2>1, <2>2, LeaveApplies
<1>6. ASSUME NEW s \in Sessions, ListPlayer(s) PROVE Serial!Apply(s)
  <2>1. hpc[s] = "inside" /\ snap[s] = players /\ \E r : Leave(s, r)
    BY <1>6 DEF ListPlayer, Inside, NothingStale
  <2>2. Len(players) > 0 <=> players # <<>>
    BY EmptySeq, LenProperties DEF CenterTypeOK
  <2>3. Serial!List(s)
    BY SameData, <1>6, <2>1, <2>2
    DEF ListPlayer, Inside, Leave, Serial!List, Serial!Answered
  <2> QED
    BY <2>1, <2>3, LeaveApplies
<1>7. ASSUME NEW s \in Sessions, BroadcastDone(s) PROVE Serial!Apply(s)
  <2>1. hpc[s] = "inside" /\ snap[s] = players /\ \E r : Leave(s, r)
    BY <1>7 DEF BroadcastDone, Inside, NothingStale
  <2>2. Len(players) > 0 <=> players # <<>>
    BY EmptySeq, LenProperties DEF CenterTypeOK
  <2>3. Serial!Broadcast(s)
    BY SameData, <1>7, <2>1, <2>2
    DEF BroadcastDone, Inside, Leave, Serial!Broadcast, Serial!Answered
  <2> QED
    BY <2>1, <2>3, LeaveApplies
<1>8. ASSUME NEW s \in Sessions, Push(s) PROVE UNCHANGED Serial!lobbyVars
  BY <1>8 DEF Push, StageOf, Serial!lobbyVars
<1>9. ASSUME NEW p \in PlayerIds, Printer(p) PROVE UNCHANGED Serial!lobbyVars
  BY <1>9 DEF Printer, StageOf, Serial!lobbyVars
<1>10. ASSUME NEW s \in Sessions, HandleReturns(s) PROVE Serial!Return(s)
  <2>1. Stage[s] = "done"
    BY <1>10, Stages DEF HandleReturns
  <2>2. Stage' = [Stage EXCEPT ![s] = "idle"]
    BY <1>10 DEF HandleReturns, StageOf, CenterTypeOK
  <2> QED
    BY SameData, <1>10, <2>1, <2>2 DEF HandleReturns, Serial!Return
<1>11. CASE UNCHANGED centerVars
  BY <1>11 DEF centerVars, StageOf, Serial!lobbyVars
<1> QED
  BY <1>1, <1>2, <1>3, <1>4, <1>5, <1>6, <1>7, <1>8, <1>9, <1>10, <1>11
  DEF CenterNext, Step, Serial!LobbyNext

\* However many sessions the server has and however their handlers interleave,
\* callers see a Lobby: each request takes effect alone, once, between its
\* call and its return.
THEOREM HandlersAreSerial == CenterSpec => IsSerial
<1>1. CenterInit => Serial!LobbyInit
  BY SameData DEF CenterInit, Serial!LobbyInit, StageOf
<1>2. CenterInv /\ [CenterNext]_centerVars => [Serial!LobbyNext]_(Serial!lobbyVars)
  BY StepIsSerial
<1> QED
  BY <1>1, <1>2, CenterInvariant, PTL DEF CenterSpec, IsSerial, Serial!LobbySpec
-----------------------------------------------------------------------------
(* A sequence of sequences, one behind the other *)

\* A set of numbers has a least one.
LEMMA LeastOne ==
    ASSUME NEW T \in SUBSET Nat, T # {} PROVE \E x \in T : \A y \in T : x <= y
<1>1. PICK x \in T : \A y \in T : ~ (<<y, x>> \in OpToRel(<, Nat))
  BY NatLessThanWellFounded, WFMin
<1>2. \A y \in T : ~ (y < x)
  BY <1>1 DEF OpToRel
<1> QED
  BY <1>2

\* f has at each place up to n all that FlattenSeq(ss) has so far.
Flattens(ss, n, f) ==
    f = [i \in 1..n |-> IF i = 1 THEN ss[i] ELSE f[i - 1] \o ss[i]]

LEMMA FlattensExists ==
    ASSUME NEW ss, NEW n \in Nat PROVE \E f : Flattens(ss, n, f)
<1> DEFINE Bad == {k \in Nat : ~\E f : Flattens(ss, k, f)}
<1>1. ASSUME Bad # {} PROVE FALSE
  <2>1. Bad \in SUBSET Nat
    OBVIOUS
  <2>2. PICK k \in Bad : \A j \in Bad : k <= j
    <3> HIDE DEF Bad
    <3> QED
      BY <1>1, <2>1, LeastOne
  <2>3. k \in Nat /\ ~\E f : Flattens(ss, k, f)
    BY <2>2
  <2>4. Flattens(ss, 0, [i \in 1..0 |-> 0])
    BY DEF Flattens
  <2>5. k # 0
    BY <2>3, <2>4
  <2>6. k - 1 \in Nat /\ k - 1 \notin Bad
    BY <2>2, <2>3, <2>5
  <2>7. PICK f : Flattens(ss, k - 1, f)
    BY <2>6
  <2> DEFINE v(i) == IF i = 1 THEN ss[i] ELSE f[i - 1] \o ss[i]
             g == [i \in 1..k |-> v(i)]
  <2>8. \A i \in 1..(k - 1) : f[i] = v(i)
    BY <2>7 DEF Flattens
  <2>9. \A i \in 1..k : i # 1 => i - 1 \in 1..(k - 1) /\ i - 1 \in 1..k
    BY <2>3
  <2> HIDE DEF v
  <2>10. \A i \in 1..k : i # 1 => g[i - 1] = f[i - 1]
    BY <2>8, <2>9
  <2>11. g = [i \in 1..k |-> IF i = 1 THEN ss[i] ELSE g[i - 1] \o ss[i]]
    <3> HIDE DEF g
    <3>1. \A i \in 1..k : v(i) = IF i = 1 THEN ss[i] ELSE g[i - 1] \o ss[i]
      BY <2>10 DEF v
    <3> QED
      BY <3>1 DEF g
  <2> HIDE DEF g
  <2> QED
    BY <2>3, <2>11 DEF Flattens
<1> QED
  BY <1>1

SameUpTo(n, f, g) == \A i \in 1..n : f[i] = g[i]

\* It is determined by the sequences up to its length, and holds sequences.
LEMMA FlattensUnique ==
    ASSUME NEW ss, NEW tt, NEW n \in Nat, NEW m \in Nat, n <= m,
           SameUpTo(n, ss, tt), NEW f, Flattens(ss, n, f), NEW g, Flattens(tt, m, g)
    PROVE  SameUpTo(n, f, g)
<1> DEFINE Bad == {k \in 1..n : f[k] # g[k]}
<1>1. ASSUME Bad # {} PROVE FALSE
  <2>1. Bad \in SUBSET Nat
    OBVIOUS
  <2>2. PICK k \in Bad : \A j \in Bad : k <= j
    <3> HIDE DEF Bad
    <3> QED
      BY <1>1, <2>1, LeastOne
  <2>3. k \in 1..n /\ k \in 1..m /\ f[k] # g[k] /\ ss[k] = tt[k]
    BY <2>2 DEF SameUpTo
  <2>4. f[k] = IF k = 1 THEN ss[k] ELSE f[k - 1] \o ss[k]
    BY <2>3 DEF Flattens
  <2>5. g[k] = IF k = 1 THEN tt[k] ELSE g[k - 1] \o tt[k]
    BY <2>3 DEF Flattens
  <2>6. k # 1
    BY <2>3, <2>4, <2>5
  <2>7. k - 1 \in 1..n /\ k - 1 \notin Bad
    BY <2>2, <2>3, <2>6
  <2>8. f[k - 1] = g[k - 1]
    BY <2>7
  <2> QED
    BY <2>3, <2>4, <2>5, <2>6, <2>8
<1> QED
  BY <1>1 DEF SameUpTo

LEMMA FlattensTypes ==
    ASSUME NEW S, NEW n \in Nat, NEW ss, \A i \in 1..n : ss[i] \in Seq(S),
           NEW f, Flattens(ss, n, f)
    PROVE  \A i \in 1..n : f[i] \in Seq(S)
<1> DEFINE Bad == {k \in 1..n : f[k] \notin Seq(S)}
<1>1. ASSUME Bad # {} PROVE FALSE
  <2>1. Bad \in SUBSET Nat
    OBVIOUS
  <2>2. PICK k \in Bad : \A j \in Bad : k <= j
    <3> HIDE DEF Bad
    <3> QED
      BY <1>1, <2>1, LeastOne
  <2>3. k \in 1..n /\ f[k] \notin Seq(S) /\ ss[k] \in Seq(S)
    BY <2>2
  <2>4. f[k] = IF k = 1 THEN ss[k] ELSE f[k - 1] \o ss[k]
    BY <2>3 DEF Flattens
  <2>5. k # 1
    BY <2>3, <2>4
  <2>6. k - 1 \in 1..n /\ k - 1 \notin Bad
    BY <2>2, <2>3, <2>5
  <2>7. f[k - 1] \in Seq(S)
    BY <2>6
  <2>8. f[k - 1] \o ss[k] \in Seq(S)
    BY <2>3, <2>7, ConcatProperties
  <2> QED
    BY <2>3, <2>4, <2>5, <2>8
<1> QED
  BY <1>1

\* FlattenSeq is what such a function has at the last place.
LEMMA FlattenIs ==
    ASSUME NEW ss, NEW n \in Nat, Len(ss) = n, n # 0
    PROVE  \E f : Flattens(ss, n, f) /\ FlattenSeq(ss) = f[n]
<1>1. PICK f : Flattens(ss, n, f)
  BY FlattensExists
<1> DEFINE P(h) == h = [i \in 1..Len(ss) |-> IF i = 1 THEN ss[i] ELSE h[i - 1] \o ss[i]]
           g == CHOOSE h : P(h)
<1>2. P(f)
  BY <1>1 DEF Flattens
<1>3. P(g)
  <2> HIDE DEF P
  <2> QED
    BY <1>2
<1>4. FlattenSeq(ss) = g[n]
  BY DEF FlattenSeq
<1>5. Flattens(ss, n, g)
  <2> HIDE DEF g
  <2> QED
    BY <1>3 DEF Flattens
<1> HIDE DEF g
<1> QED
  BY <1>4, <1>5

LEMMA FlattenAppend ==
    ASSUME NEW S, NEW ss \in Seq(Seq(S)), NEW s \in Seq(S)
    PROVE  /\ FlattenSeq(ss) \in Seq(S)
           /\ FlattenSeq(Append(ss, s)) = FlattenSeq(ss) \o s
<1> DEFINE n == Len(ss)
           m == n + 1
           tt == Append(ss, s)
<1>1. /\ n \in Nat /\ m \in Nat /\ n <= m /\ m # 0 /\ m - 1 = n /\ m \in 1..m
      /\ Len(tt) = m /\ tt[m] = s
      /\ \A i \in 1..n : ss[i] = tt[i] /\ ss[i] \in Seq(S)
  OBVIOUS
<1>2. n = 0 => ss = <<>>
  OBVIOUS
<1>3. m = 1 <=> n = 0
  BY <1>1
<1>4. Len(ss) = n /\ Append(ss, s) = tt
  OBVIOUS
<1> HIDE DEF n, m, tt
<1>5. PICK g : Flattens(tt, m, g) /\ FlattenSeq(tt) = g[m]
  BY <1>1, FlattenIs
<1>6. g[m] = IF m = 1 THEN s ELSE g[n] \o s
  BY <1>1, <1>5 DEF Flattens
<1>7. CASE n = 0
  <2>1. FlattenSeq(ss) = <<>>
    BY <1>2, <1>7 DEF FlattenSeq
  <2>2. FlattenSeq(tt) = s
    BY <1>3, <1>5, <1>6, <1>7
  <2> QED
    BY <1>4, <2>1, <2>2
<1>8. CASE n # 0
  <2>1. PICK f : Flattens(ss, n, f) /\ FlattenSeq(ss) = f[n]
    BY <1>1, <1>4, <1>8, FlattenIs
  <2>2. SameUpTo(n, f, g)
    <3>1. SameUpTo(n, ss, tt)
      BY <1>1 DEF SameUpTo
    <3> QED
      BY <1>1, <1>5, <2>1, <3>1, FlattensUnique
  <2>3. \A i \in 1..n : f[i] \in Seq(S)
    BY <1>1, <2>1, FlattensTypes
  <2>4. n \in 1..n
    BY <1>1, <1>8
  <2>5. g[n] = f[n] /\ f[n] \in Seq(S)
    BY <2>2, <2>3, <2>4 DEF SameUpTo
  <2>6. FlattenSeq(tt) = f[n] \o s
    BY <1>3, <1>5, <1>6, <1>8, <2>5
  <2> QED
    BY <1>4, <2>1, <2>5, <2>6
<1> QED
  BY <1>7, <1>8
-----------------------------------------------------------------------------
(* What a player has printed and has yet to print *)

LEMMA CopiesTypes ==
    ASSUME NEW m \in Messages, NEW to \in Seq(Players), NEW p
    PROVE  Copies(m, to, p) \in Seq(Messages)
<1> DEFINE C == {i \in 1..Len(to) : to[i].id = p}
<1>1. IsFiniteSet(1..Len(to)) /\ C \in SUBSET (1..Len(to))
  BY FS_Interval, LenProperties
<1>2. IsFiniteSet(C)
  <2> HIDE DEF C
  <2> QED
    BY <1>1, FS_Subset
<1>3. Cardinality(C) \in Nat
  BY <1>2, FS_CardinalityType
<1> HIDE DEF C
<1>4. [k \in 1..Cardinality(C) |-> m] \in Seq(Messages)
  BY <1>3
<1> QED
  BY <1>4 DEF Copies, C

LEMMA CopiesToNobody == \A m, p : Copies(m, <<>>, p) = <<>>
<1>1. \A p : {i \in 1..Len(<<>>) : <<>>[i].id = p} = {}
  OBVIOUS
<1>2. Cardinality({}) = 0
  BY FS_EmptySet
<1> QED
  BY <1>1, <1>2 DEF Copies

\* One more place in the roster is one more copy for the player in it.
LEMMA CopiesStep ==
    ASSUME NEW m \in Messages, NEW to \in Seq(Players), NEW k \in 1..Len(to), NEW p
    PROVE  Copies(m, SubSeq(to, 1, k), p) =
             IF to[k].id = p THEN Append(Copies(m, SubSeq(to, 1, k - 1), p), m)
                             ELSE Copies(m, SubSeq(to, 1, k - 1), p)
<1> DEFINE C(j) == {i \in 1..j : to[i].id = p}
<1>1. Len(to) \in Nat /\ k \in Nat /\ k - 1 \in Nat
  BY LenProperties
<1>2. ASSUME NEW j \in 0..Len(to)
      PROVE  Copies(m, SubSeq(to, 1, j), p) = [i \in 1..Cardinality(C(j)) |-> m]
  <2>1. /\ Len(SubSeq(to, 1, j)) = j
        /\ \A i \in 1..j : SubSeq(to, 1, j)[i] = to[i]
    <3>1. \A i \in 1..j : to[i] \in Players
      BY <1>1, ElementOfSeq
    <3> QED
      BY <1>1, <3>1, SubSeqProperties
  <2>2. {i \in 1..Len(SubSeq(to, 1, j)) : SubSeq(to, 1, j)[i].id = p} = C(j)
    BY <2>1
  <2> QED
    BY <2>2 DEF Copies
<1>3. k \in 0..Len(to) /\ k - 1 \in 0..Len(to)
  BY <1>1
<1>4. IsFiniteSet(C(k - 1)) /\ Cardinality(C(k - 1)) \in Nat /\ k \notin C(k - 1)
  <2>1. IsFiniteSet(1..(k - 1))
    <3>1. 1 \in Int /\ k - 1 \in Int
      BY <1>1
    <3> QED
      BY <3>1, FS_Interval
  <2>4. C(k - 1) \in SUBSET (1..(k - 1))
    OBVIOUS
  <2>2. k \notin C(k - 1)
    BY <1>1
  <2> HIDE DEF C
  <2>3. IsFiniteSet(C(k - 1))
    BY <2>1, <2>4, FS_Subset
  <2> QED
    BY <2>2, <2>3, FS_CardinalityType
<1>5. C(k) = IF to[k].id = p THEN C(k - 1) \cup {k} ELSE C(k - 1)
  BY <1>1
<1> HIDE DEF C
<1>6. to[k].id = p => Cardinality(C(k)) = Cardinality(C(k - 1)) + 1
  BY <1>4, <1>5, FS_AddElement
<1>7. ASSUME NEW c \in Nat
      PROVE  [i \in 1..(c + 1) |-> m] = Append([i \in 1..c |-> m], m)
  <2>1. [i \in 1..c |-> m] \in Seq(Messages) /\ Len([i \in 1..c |-> m]) = c
    OBVIOUS
  <2> QED
    OBVIOUS
<1> QED
  BY <1>2, <1>3, <1>4, <1>5, <1>6, <1>7

LEMMA CompletedSame == ASSUME log' = log PROVE \A p : Completed(p)' = Completed(p)
  BY DEF Completed

\* A broadcast that is done adds its copies.
LEMMA CompletedStep ==
    ASSUME CenterTypeOK, NEW p
    PROVE  /\ Completed(p) \in Seq(Messages)
           /\ \A m \in Messages, to \in Seq(Players) :
                log' = Append(log, [msg |-> m, to |-> to])
                  => Completed(p)' = Completed(p) \o Copies(m, to, p)
<1> DEFINE ss == [k \in 1..Len(log) |-> Copies(log[k].msg, log[k].to, p)]
<1>1. log \in Seq([msg : Messages, to : Seq(Players)]) /\ Len(log) \in Nat
  BY DEF CenterTypeOK
<1>2. \A k \in 1..Len(log) : Copies(log[k].msg, log[k].to, p) \in Seq(Messages)
  <2>1. ASSUME NEW k \in 1..Len(log)
        PROVE  Copies(log[k].msg, log[k].to, p) \in Seq(Messages)
    <3>1. log[k] \in [msg : Messages, to : Seq(Players)]
      BY <1>1, ElementOfSeq
    <3> QED
      BY <3>1, CopiesTypes
  <2> QED
    BY <2>1
<1>3. ss \in Seq(Seq(Messages)) /\ Len(ss) = Len(log)
  BY <1>1, <1>2
<1>4. Completed(p) = FlattenSeq(ss)
  BY DEF Completed
<1>5. Completed(p) \in Seq(Messages)
  <2>1. <<>> \in Seq(Messages)
    BY EmptySeq
  <2> HIDE DEF ss
  <2> QED
    BY <1>3, <1>4, <2>1, FlattenAppend
<1>6. ASSUME NEW m \in Messages, NEW to \in Seq(Players),
             log' = Append(log, [msg |-> m, to |-> to])
      PROVE  Completed(p)' = Completed(p) \o Copies(m, to, p)
  <2>1. /\ Len(log') = Len(log) + 1
        /\ \A k \in 1..Len(log) : log'[k] = log[k]
        /\ log'[Len(log) + 1] = [msg |-> m, to |-> to]
    BY <1>1, <1>6
  <2> DEFINE c == Copies(m, to, p)
             tt == [k \in 1..Len(log') |-> Copies(log'[k].msg, log'[k].to, p)]
  <2>2. c \in Seq(Messages)
    BY CopiesTypes
  <2>3. /\ \A k \in 1..Len(log) : tt[k] = ss[k]
        /\ tt[Len(log) + 1] = c
    BY <1>1, <2>1
  <2>4. DOMAIN tt = 1..(Len(log) + 1) /\ tt = [k \in DOMAIN tt |-> tt[k]]
    BY <2>1
  <2>5. Completed(p)' = FlattenSeq(tt)
    BY DEF Completed
  <2> HIDE DEF c, tt, ss
  <2>6. tt = Append(ss, c)
    BY <1>1, <1>3, <2>2, <2>3, <2>4
  <2>7. FlattenSeq(tt) = FlattenSeq(ss) \o c
    BY <1>3, <2>2, <2>6, FlattenAppend
  <2> QED
    BY <1>4, <2>5, <2>7 DEF c
<1> QED
  BY <1>5, <1>6

Sent(p) == printed[p] \o mq[p]

\* Where a broadcast is in the roster, and what has been sent so far.
Delivery ==
    /\ \A s \in Sessions : Inside(s, "broadcast") =>
         /\ pos[s] <= Len(snap[s]) + 1
         /\ \A p \in PlayerIds : Sent(p) = Completed(p) \o InProgress(s, p)
    /\ (\A s \in Sessions : ~Inside(s, "broadcast")) =>
         \A p \in PlayerIds : Sent(p) = Completed(p)

\* A step that touches neither mailboxes nor a broadcast.
LEMMA DeliverySame ==
    ASSUME Delivery, UNCHANGED <<mq, printed, log>>,
           \A s \in Sessions : Inside(s, "broadcast")' <=> Inside(s, "broadcast"),
           \A s \in Sessions : Inside(s, "broadcast") =>
             req'[s] = req[s] /\ snap'[s] = snap[s] /\ pos'[s] = pos[s]
    PROVE  Delivery'
<1>1. \A p : Completed(p)' = Completed(p) /\ Sent(p)' = Sent(p)
  BY CompletedSame DEF Sent
<1>2. \A s \in Sessions : Inside(s, "broadcast") =>
        \A p : InProgress(s, p)' = InProgress(s, p)
  BY DEF InProgress
<1> QED
  BY <1>1, <1>2 DEF Delivery

\* Nobody broadcasts beside a handler that holds the lock for writing.
LEMMA OneBroadcast ==
    ASSUME CenterTypeOK, Locking
    PROVE  /\ \A s, t \in Sessions :
                Inside(s, "broadcast") /\ Inside(t, "broadcast") => s = t
           /\ writer = NoSession => \A s \in Sessions : ~Inside(s, "broadcast")
  BY NoSessionIsNone DEF CenterTypeOK, Locking, Inside, WriteMethods

\* A broadcast begins before the first place.
LEMMA DeliveryLock ==
    ASSUME CenterTypeOK, Locking, Delivery, NEW s \in Sessions, Lock(s)
    PROVE  Delivery'
<1>1. hpc[s] = "called" /\ writer = NoSession /\ Enter(s)
  BY DEF Lock
<1>2. UNCHANGED <<mq, printed, log, req>>
  BY <1>1 DEF Enter, mailVars
<1>3. \A t \in Sessions \ {s} : Inside(t, "broadcast")' <=> Inside(t, "broadcast")
  BY <1>1 DEF Enter, Inside, CenterTypeOK
<1>4. \A t \in Sessions : ~Inside(t, "broadcast")
  BY <1>1, OneBroadcast
<1>5. CASE req[s].method # "broadcast"
  <2>1. ~Inside(s, "broadcast")'
    BY <1>2, <1>5 DEF Inside
  <2> QED
    BY <1>2, <1>3, <1>4, <2>1, DeliverySame
<1>6. CASE req[s].method = "broadcast"
  <2>1. Inside(s, "broadcast")' /\ snap'[s] = players /\ pos'[s] = 1
    BY <1>1, <1>2, <1>6 DEF Enter, Inside, CenterTypeOK
  <2>2. Len(players) \in Nat
    BY LenProperties DEF CenterTypeOK
  <2>3. \A p : InProgress(s, p)' = <<>>
    <3>1. SubSeq(players, 1, 0) = <<>>
      BY SubSeqEmpty
    <3>2. pos'[s] - 1 = 0
      BY <2>1
    <3>3. ASSUME NEW p PROVE InProgress(s, p)' = Copies(req'[s].msg, <<>>, p)
      BY <2>1, <3>1, <3>2 DEF InProgress
    <3> QED
      BY <3>3, CopiesToNobody
  <2>4. \A p \in PlayerIds :
          /\ Sent(p)' = Sent(p) /\ Completed(p)' = Completed(p)
          /\ Completed(p) \o <<>> = Completed(p)
    BY <1>2, CompletedSame, CompletedStep, ConcatEmptySeq DEF Sent
  <2>5. \A p \in PlayerIds : Sent(p)' = Completed(p)' \o InProgress(s, p)'
    BY <1>4, <2>3, <2>4 DEF Delivery
  <2>6. \A t \in Sessions : Inside(t, "broadcast")' => t = s
    BY <1>3, <1>4
  <2>7. pos'[s] <= Len(snap'[s]) + 1
    BY <2>1, <2>2
  <2> QED
    BY <2>1, <2>5, <2>6, <2>7 DEF Delivery
<1> QED
  BY <1>5, <1>6

\* A message that is sent is the next of the broadcast.
LEMMA DeliveryPush ==
    ASSUME CenterTypeOK, Locking, Delivery, NEW s \in Sessions, Push(s)
    PROVE  Delivery'
<1> DEFINE q == snap[s][pos[s]].id
           m == req[s].msg
<1>1. /\ Inside(s, "broadcast") /\ pos[s] \in 1..Len(snap[s]) /\ Len(snap[s]) \in Nat
      /\ snap[s] \in Seq(Players)
  BY LenProperties DEF Push, CenterTypeOK
<1>2. m \in Messages /\ q \in PlayerIds
  <2>1. snap[s][pos[s]] \in Players
    BY <1>1, ElementOfSeq
  <2> QED
    BY <1>1, <2>1, RequestKinds DEF Inside, CenterTypeOK, Players
<1>3. UNCHANGED <<printed, log, hpc, req, snap>> /\ pos' = [pos EXCEPT ![s] = @ + 1]
      /\ mq' = [mq EXCEPT ![q] = Append(@, m)]
  BY DEF Push
<1>4. \A t \in Sessions : Inside(t, "broadcast")' <=> t = s
  BY <1>1, <1>3, OneBroadcast DEF Inside
<1>5. pos'[s] = pos[s] + 1 /\ pos'[s] <= Len(snap'[s]) + 1 /\ pos'[s] - 1 = pos[s]
  BY <1>1, <1>3 DEF CenterTypeOK
<1> HIDE DEF q, m
<1>6. ASSUME NEW p \in PlayerIds
      PROVE  Sent(p)' = Completed(p)' \o InProgress(s, p)'
  <2> DEFINE c == InProgress(s, p)
  <2>1. c = Copies(m, SubSeq(snap[s], 1, pos[s] - 1), p)
    BY <1>1 DEF InProgress, m
  <2>2. c \in Seq(Messages)
    <3>1. SubSeq(snap[s], 1, pos[s] - 1) \in Seq(Players)
      <4>1. \A i \in 1..(pos[s] - 1) : snap[s][i] \in Players
        BY <1>1, ElementOfSeq
      <4> QED
        BY <1>1, <4>1, SubSeqProperties
    <3> QED
      BY <1>2, <2>1, <3>1, CopiesTypes
  <2>3. InProgress(s, p)' = IF p = q THEN Append(c, m) ELSE c
    <3>1. InProgress(s, p)' = Copies(m, SubSeq(snap[s], 1, pos[s]), p)
      BY <1>3, <1>4, <1>5 DEF InProgress, m
    <3> QED
      BY <1>1, <1>2, <2>1, <3>1, CopiesStep DEF q
  <2>4. Sent(p) = Completed(p) \o c
    BY <1>1 DEF Delivery
  <2>5. Completed(p)' = Completed(p) /\ Completed(p) \in Seq(Messages)
    BY <1>3, CompletedSame, CompletedStep
  <2>6. printed[p] \in Seq(Messages) /\ mq[p] \in Seq(Messages)
    BY DEF CenterTypeOK
  <2> HIDE DEF c
  <2>7. CASE p = q
    <3>1. Sent(p)' = printed[p] \o Append(mq[p], m)
      BY <1>2, <1>3, <2>7 DEF Sent, CenterTypeOK
    <3>2. ASSUME NEW a \in Seq(Messages), NEW b \in Seq(Messages)
          PROVE  a \o Append(b, m) = Append(a \o b, m)
      BY <1>2
    <3>3. Sent(p)' = Append(Sent(p), m)
      BY <2>6, <3>1, <3>2 DEF Sent
    <3>4. Completed(p) \o Append(c, m) = Append(Completed(p) \o c, m)
      BY <2>2, <2>5, <3>2
    <3> QED
      BY <2>3, <2>4, <2>5, <2>7, <3>3, <3>4
  <2>8. CASE p # q
    <3>1. Sent(p)' = Sent(p)
      BY <1>2, <1>3, <2>8 DEF Sent, CenterTypeOK
    <3> QED
      BY <2>3, <2>4, <2>5, <2>8, <3>1
  <2> QED
    BY <2>7, <2>8
<1> QED
  BY <1>1, <1>4, <1>5, <1>6 DEF Delivery

\* A broadcast that is done has been to every place.
LEMMA DeliveryDone ==
    ASSUME CenterTypeOK, Locking, Delivery, NEW s \in Sessions, BroadcastDone(s)
    PROVE  Delivery'
<1>1. /\ Inside(s, "broadcast") /\ pos[s] - 1 = Len(snap[s]) /\ Len(snap[s]) \in Nat
      /\ snap[s] \in Seq(Players) /\ req[s].msg \in Messages
  <2>1. Inside(s, "broadcast") /\ pos[s] > Len(snap[s]) /\ pos[s] <= Len(snap[s]) + 1
    BY DEF BroadcastDone, Delivery
  <2> QED
    BY <2>1, LenProperties, RequestKinds DEF Inside, CenterTypeOK
<1>2. \E r : Leave(s, r)
  BY DEF BroadcastDone
<1>3. UNCHANGED <<mq, printed>> /\ hpc' = [hpc EXCEPT ![s] = "reply"] /\ req' = req
  BY <1>2 DEF Leave, mailVars
<1>4. \A t \in Sessions : ~Inside(t, "broadcast")'
  BY <1>1, <1>3, OneBroadcast DEF Inside, CenterTypeOK
<1>5. ASSUME NEW p \in PlayerIds PROVE Sent(p)' = Completed(p)'
  <2>1. Sent(p)' = Sent(p) /\ Completed(p) \in Seq(Messages)
    BY <1>3, CompletedStep DEF Sent
  <2>2. Sent(p) = Completed(p) \o Copies(req[s].msg, snap[s], p)
    <3>1. InProgress(s, p) = Copies(req[s].msg, snap[s], p)
      BY <1>1, SubSeqFull DEF InProgress
    <3> QED
      BY <1>1, <3>1 DEF Delivery
  <2>3. CASE Len(snap[s]) > 0
    <3>1. log' = Append(log, [msg |-> req[s].msg, to |-> snap[s]])
      BY <2>3 DEF BroadcastDone
    <3> QED
      BY <1>1, <2>1, <2>2, <3>1, CompletedStep
  <2>4. CASE ~(Len(snap[s]) > 0)
    <3>1. snap[s] = <<>>
      BY <1>1, <2>4
    <3>2. log' = log
      BY <2>4 DEF BroadcastDone
    <3> QED
      BY <2>1, <2>2, <3>1, <3>2, CopiesToNobody, CompletedSame, ConcatEmptySeq
  <2> QED
    BY <2>3, <2>4
<1> QED
  BY <1>4, <1>5 DEF Delivery

\* A message that is printed was the first in the mailbox.
LEMMA DeliveryPrint ==
    ASSUME CenterTypeOK, Delivery, NEW q \in PlayerIds, Printer(q)
    PROVE  Delivery'
<1>1. UNCHANGED <<log, hpc, req, snap, pos>>
  BY DEF Printer, handlerVars
<1>2. ASSUME NEW p \in PlayerIds PROVE Sent(p)' = Sent(p)
  <2>1. CASE p = q
    <3>1. /\ mq[q] \in Seq(Messages) /\ mq[q] # <<>> /\ printed[q] \in Seq(Messages)
          /\ mq'[q] = Tail(mq[q]) /\ printed'[q] = Append(printed[q], Head(mq[q]))
      BY DEF Printer, CenterTypeOK
    <3>2. ASSUME NEW a \in Seq(Messages), NEW b \in Seq(Messages), b # <<>>
          PROVE  Append(a, Head(b)) \o Tail(b) = a \o b
      BY <3>2
    <3> QED
      BY <2>1, <3>1, <3>2 DEF Sent
  <2>2. CASE p # q
    BY <2>2 DEF Printer, Sent, CenterTypeOK
  <2> QED
    BY <2>1, <2>2
<1>3. \A p : Completed(p)' = Completed(p)
  BY <1>1, CompletedSame
<1>4. \A s \in Sessions : Inside(s, "broadcast")' <=> Inside(s, "broadcast")
  BY <1>1 DEF Inside
<1>5. \A s \in Sessions, p \in PlayerIds : InProgress(s, p)' = InProgress(s, p)
  BY <1>1, <1>4 DEF InProgress
<1> QED
  BY <1>1, <1>2, <1>3, <1>4, <1>5 DEF Delivery

LEMMA DeliveryHandle ==
    ASSUME CenterTypeOK, Delivery, NEW s \in Sessions, NEW r \in Requests, Handle(s, r)
    PROVE  Delivery'
  BY DeliverySame DEF Handle, Inside, CenterTypeOK

LEMMA DeliveryNext ==
    CenterInv /\ Delivery /\ [CenterNext]_centerVars => Delivery'
<1> SUFFICES ASSUME CenterTypeOK, Locking, Delivery, [CenterNext]_centerVars
             PROVE  Delivery'
  BY DEF CenterInv
<1> USE DEF lockVars, mailVars, handlerVars, issueVars
<1>1. ASSUME NEW s \in Sessions, NEW r \in Requests, Handle(s, r) PROVE Delivery'
  BY <1>1, DeliveryHandle
<1>2. ASSUME NEW s \in Sessions, Reject(s) PROVE Delivery'
  BY <1>2, DeliverySame DEF Reject, Inside, CenterTypeOK
<1>3. ASSUME NEW s \in Sessions, RLock(s) PROVE Delivery'
  BY <1>3, DeliverySame DEF RLock, Enter, Inside, CenterTypeOK
<1>4. ASSUME NEW s \in Sessions, AddPlayer(s) \/ RemovePlayer(s) \/ ListPlayer(s)
      PROVE  Delivery'
  <2>1. \E r : Leave(s, r)
    BY <1>4 DEF AddPlayer, RemovePlayer, ListPlayer
  <2>2. log' = log /\ ~Inside(s, "broadcast")
    BY <1>4 DEF AddPlayer, RemovePlayer, ListPlayer, Inside
  <2> QED
    BY <2>1, <2>2, DeliverySame DEF Leave, Inside, CenterTypeOK
<1>5. ASSUME NEW s \in Sessions, HandleReturns(s) PROVE Delivery'
  BY <1>5, DeliverySame DEF HandleReturns, Inside, CenterTypeOK
<1>6. CASE UNCHANGED centerVars
  BY <1>6, DeliverySame DEF centerVars, Inside
<1> QED
  BY <1>1, <1>2, <1>3, <1>4, <1>5, <1>6, DeliveryLock, DeliveryPush, DeliveryDone,
     DeliveryPrint DEF CenterNext, Step

LEMMA DeliveryInit == CenterInit => Delivery
<1> SUFFICES ASSUME CenterInit PROVE Delivery
  OBVIOUS
<1>1. \A s \in Sessions : ~Inside(s, "broadcast")
  BY DEF CenterInit, Inside
<1>2. \A p \in PlayerIds : Sent(p) = <<>>
  BY DEF CenterInit, Sent
<1>3. \A p : Completed(p) = <<>>
  BY DEF CenterInit, Completed, FlattenSeq
<1> QED
  BY <1>1, <1>2, <1>3 DEF Delivery

LEMMA DeliveryIsExact == Delivery => ExactDelivery
  BY DEF Delivery, ExactDelivery, Sent

\* Every player gets each broadcast it was logged in for once per place in the
\* roster, in the order of the broadcasts, however small the mailboxes are and
\* however slow the printers.
THEOREM BroadcastsAreExact == CenterSpec => []ExactDelivery
  BY DeliveryInit, DeliveryNext, DeliveryIsExact, CenterInvariant, PTL DEF CenterSpec

\* A logout does what it is for exactly when it is the first of the roster that
\* logs out, whoever else is in it, unless earlier logouts have left somebody
\* in it twice.
THEOREM LogoutsRemoveTheFirst ==
    CenterSpec =>
      [][\A s \in Sessions, i \in 1..Len(players) :
           /\ RemovePlayer(s) /\ FirstNamed(players, req[s].name, i)
           /\ \A j, k \in 1..Len(players) : j # k => players[j] # players[k]
           => (players' = Without(players, i) <=> i = 1)]_centerVars
<1>1. ASSUME CenterInv, NEW s \in Sessions, NEW i \in 1..Len(players),
             RemovePlayer(s), FirstNamed(players, req[s].name, i),
             \A j, k \in 1..Len(players) : j # k => players[j] # players[k]
      PROVE  players' = Without(players, i) <=> i = 1
  <2>1. snap[s] = players /\ players \in Seq(Players) /\ Len(players) \in Nat
    BY <1>1, LenProperties
    DEF RemovePlayer, Inside, CenterInv, NothingStale, CenterTypeOK
  <2>2. PICK j \in 1..Len(players) :
          FirstNamed(players, req[s].name, j) /\ players' = Cut(players, j)
    BY <1>1, <2>1 DEF RemovePlayer, Absent, FirstNamed
  <2>3. i = j
    <3>1. ~(i < j) /\ ~(j < i)
      BY <1>1, <2>1, <2>2 DEF FirstNamed
    <3> QED
      BY <2>1, <3>1
  <2>4. Cut(players, i) = Without(players, i) <=> i = 1
    BY <1>1, <2>1, CutIsRightForTheFirst
  <2> QED
    BY <2>2, <2>3, <2>4
<1>2. CenterInv /\ [CenterNext]_centerVars =>
        [\A s \in Sessions, i \in 1..Len(players) :
           /\ RemovePlayer(s) /\ FirstNamed(players, req[s].name, i)
           /\ \A j, k \in 1..Len(players) : j # k => players[j] # players[k]
           => (players' = Without(players, i) <=> i = 1)]_centerVars
  BY <1>1
<1> QED
  BY <1>2, CenterInvariant, PTL DEF CenterSpec

-----------------------------------------------------------------------------
(* Nobody waits for nobody *)

\* What the handler of s, and the printer of p, can do next: the guards of
\* their steps.
CanGo(s) ==
    \/ hpc[s] = "reply"
    \/ /\ hpc[s] = "called"
       /\ \/ Rejected(req[s])
          \/ req[s].method \in WriteMethods /\ writer = NoSession /\ readers = {}
          \/ req[s].method = "listplayer" /\ writer = NoSession
    \/ Inside(s, "addplayer") \/ Inside(s, "listplayer")
    \/ /\ Inside(s, "removeplayer")
       /\ \/ Absent(snap[s], req[s].name)
          \/ \E i \in 1..Len(snap[s]) : FirstNamed(snap[s], req[s].name, i)
    \/ /\ Inside(s, "broadcast")
       /\ pos[s] > Len(snap[s]) \/ Len(mq[snap[s][pos[s]].id]) < MqCap
CanPrint(p) == p \in started /\ mq[p] # <<>>

\* The search of removePlayer has an outcome.
LEMMA SearchEnds ==
    ASSUME NEW ps \in Seq(Players), NEW name
    PROVE  Absent(ps, name) \/ \E i \in 1..Len(ps) : FirstNamed(ps, name, i)
<1> DEFINE I == {i \in 1..Len(ps) : ps[i].name = name}
<1>1. CASE I = {}
  BY <1>1 DEF Absent
<1>2. CASE I # {}
  <2>1. PICK i \in I : \A j \in I : i <= j
    <3>1. I \in SUBSET Nat
      OBVIOUS
    <3> HIDE DEF I
    <3> QED
      BY <1>2, <3>1, LeastOne
  <2>2. \A j \in 1..(i - 1) : j \in 1..Len(ps) /\ ~(i <= j)
    BY <2>1, LenProperties
  <2>3. FirstNamed(ps, name, i)
    BY <2>1, <2>2 DEF FirstNamed
  <2> QED
    BY <2>3
<1> QED
  BY <1>1, <1>2

\* A handler inside can go on, or waits for a printer that can.
LEMMA InsideGoes ==
    ASSUME CenterInv, MailboxesRead, NEW s \in Sessions, hpc[s] = "inside"
    PROVE  CanGo(s) \/ \E p \in PlayerIds : CanPrint(p)
<1>1. req[s].method \in {"addplayer", "listplayer", "removeplayer", "broadcast"}
  BY DEF CenterInv, Locking, WriteMethods
<1>2. snap[s] \in Seq(Players) /\ pos[s] \in Nat \ {0} /\ Len(snap[s]) \in Nat
  BY LenProperties DEF CenterInv, CenterTypeOK
<1>3. CASE req[s].method = "removeplayer"
  BY <1>2, <1>3, SearchEnds DEF CanGo, Inside
<1>4. CASE req[s].method = "broadcast" /\ pos[s] <= Len(snap[s])
  <2> DEFINE p == snap[s][pos[s]].id
  <2>1. pos[s] \in 1..Len(snap[s])
    BY <1>2, <1>4
  <2>2. snap[s][pos[s]] \in Players
    BY <1>2, <2>1, ElementOfSeq
  <2>3. p \in PlayerIds /\ p \in started
    BY <2>1, <2>2 DEF Players, MailboxesRead
  <2>4. mq[p] \in Seq(Messages) /\ Len(mq[p]) \in Nat
    BY <2>3, LenProperties DEF CenterInv, CenterTypeOK
  <2>5. CASE mq[p] = <<>>
    BY <1>4, <2>5, MailboxesHoldOne DEF CanGo, Inside
  <2>6. CASE mq[p] # <<>>
    BY <2>3, <2>6 DEF CanPrint
  <2> QED
    BY <2>5, <2>6
<1> QED
  BY <1>1, <1>2, <1>3, <1>4 DEF CanGo, Inside

LEMMA HandlerGoes ==
    ASSUME CenterInv, MailboxesRead, NEW s \in Sessions, hpc[s] # "idle",
           req[s] \in Requests
    PROVE  (\E t \in Sessions : CanGo(t)) \/ \E p \in PlayerIds : CanPrint(p)
<1>1. hpc[s] \in {"called", "inside", "reply"}
  BY DEF CenterInv, CenterTypeOK, HandlerStates
<1>2. ASSUME NEW t \in Sessions, hpc[t] = "inside"
      PROVE  (\E u \in Sessions : CanGo(u)) \/ \E p \in PlayerIds : CanPrint(p)
  BY <1>2, InsideGoes
<1>3. CASE hpc[s] = "called"
  <2>1. Rejected(req[s]) \/ req[s].method \in WriteMethods \cup {"listplayer"}
    BY DEF Requests, Rejected, AddRequests, RemoveRequests, ListRequests,
       BroadcastRequests, WriteMethods
  <2>2. CASE writer = NoSession /\ readers = {}
    BY <1>3, <2>1, <2>2 DEF CanGo
  <2>3. CASE writer # NoSession \/ readers # {}
    <3>1. \E t \in Sessions : hpc[t] = "inside"
      BY <2>3 DEF CenterInv, CenterTypeOK, Locking, Inside
    <3> QED
      BY <1>2, <3>1
  <2> QED
    BY <2>2, <2>3
<1>4. CASE hpc[s] = "reply"
  BY <1>4 DEF CanGo
<1> QED
  BY <1>1, <1>2, <1>3, <1>4

\* A handler that was called has a request.
Asked == \A s \in Sessions : hpc[s] # "idle" => req[s] \in Requests

LEMMA AskedNext == CenterInv /\ Asked /\ [CenterNext]_centerVars => Asked'
<1> SUFFICES ASSUME CenterTypeOK, Asked, [CenterNext]_centerVars PROVE Asked'
  BY DEF CenterInv
<1>1. ASSUME NEW s \in Sessions, NEW r \in Requests, Handle(s, r) PROVE Asked'
  BY <1>1 DEF Handle, Asked, CenterTypeOK
<1>2. ASSUME NEW s \in Sessions, HandleReturns(s) PROVE Asked'
  BY <1>2 DEF HandleReturns, Asked, CenterTypeOK
<1>3. ASSUME NEW s \in Sessions, Step(s) PROVE Asked'
  <2>1. hpc[s] # "idle" /\ req' = req /\ \A t \in Sessions \ {s} : hpc'[t] = hpc[t]
    BY <1>3 DEF Step, Reject, Lock, RLock, AddPlayer, RemovePlayer, ListPlayer, Push,
       BroadcastDone, Enter, Leave, Inside, CenterTypeOK
  <2> QED
    BY <2>1 DEF Asked
<1>4. ASSUME NEW p \in PlayerIds, Printer(p) PROVE Asked'
  BY <1>4 DEF Printer, handlerVars, Asked
<1>5. CASE UNCHANGED centerVars
  BY <1>5 DEF centerVars, handlerVars, Asked
<1> QED
  BY <1>1, <1>2, <1>3, <1>4, <1>5 DEF CenterNext

\* The handlers never wait for one another in vain: while a request is under
\* way some handler can go on, or a printer that the one with the lock waits
\* for, however small the mailboxes.
THEOREM HandlersNeverDeadlock ==
    CenterSpec => [](\A s \in Sessions : hpc[s] # "idle" =>
                       \/ \E t \in Sessions : CanGo(t)
                       \/ \E p \in PlayerIds : CanPrint(p))
<1>1. CenterInit => Asked
  BY DEF CenterInit, Asked
<1>2. CenterInv /\ MailboxesRead /\ Asked =>
        \A s \in Sessions : hpc[s] # "idle" =>
          \/ \E t \in Sessions : CanGo(t)
          \/ \E p \in PlayerIds : CanPrint(p)
  BY HandlerGoes DEF Asked
<1> QED
  BY <1>1, <1>2, AskedNext, CenterInvariant, BroadcastsAreRead, PTL DEF CenterSpec
=============================================================================

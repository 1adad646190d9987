----------------------------- MODULE CartProofs -----------------------------
(***************************************************************************)
(* The cart server, for any clients, orders and number of calls.  What a   *)
(* call may count on is in where the requests of its client are: one that  *)
(* waits has its request in the mailbox (Heard), behind those that the     *)
(* client has given up (Numbered), and one that has come to its end has    *)
(* left nothing behind (AnsweredLast).                                     *)
(***************************************************************************)
EXTENDS CartServer, SequenceTheorems, WellFoundedInduction, TLAPS

Places(c) == {i \in 1..Len(mailbox) : mailbox[i] # Terminate /\ mailbox[i].from = c}

Numbered ==
    \A c \in Clients : \A i \in Places(c) :
        /\ mailbox[i].ref <= made[c]
        /\ \A j \in Places(c) : i < j => mailbox[i].ref < mailbox[j].ref
Heard ==
    \A c \in Clients : result[c] = Waiting =>
        \E i \in Places(c) : mailbox[i].ref = made[c]
AnsweredLast ==
    \A c \in Clients : result[c] \notin {Idle, Waiting} => Places(c) = {}

Results == {Idle, Waiting, Down, [ok |-> TRUE]}
             \cup [order : Orders] \cup [cart : Seq(Orders)]

-----------------------------------------------------------------------------
(* Carts *)

LEMMA LeastOf ==
    ASSUME NEW T \in SUBSET Nat, T # {} PROVE \E x \in T : \A y \in T : x <= y
<1>1. PICK x \in T : \A y \in T : ~ (<<y, x>> \in OpToRel(<, Nat))
  BY NatLessThanWellFounded, WFMin
<1>2. \A y \in T : ~ (y < x)
  BY <1>1 DEF OpToRel
<1> QED
  BY <1>2

\* lists:delete leaves a list of what was there.
LEMMA RemoveFirstType ==
    ASSUME NEW S, NEW s \in Seq(S), NEW e PROVE RemoveFirst(s, e) \in Seq(S)
<1> DEFINE I == {i \in 1..Len(s) : s[i] = e}
           k == SelectInSeq(s, LAMBDA v : v = e)
<1>1. CASE I = {}
  BY <1>1 DEF RemoveFirst
<1>2. CASE I # {}
  <2>1. RemoveFirst(s, e) = SubSeq(s, 1, k - 1) \o SubSeq(s, k + 1, Len(s))
    BY <1>2 DEF RemoveFirst, RemoveAt
  <2>2. k \in 1..Len(s)
    <3>1. k = Min(I)
      BY <1>2 DEF SelectInSeq
    <3>2. \E x \in I : \A y \in I : x <= y
      <4>1. I \in SUBSET Nat
        OBVIOUS
      <4> HIDE DEF I
      <4> QED
        BY <1>2, <4>1, LeastOf
    <3> QED
      BY <3>1, <3>2 DEF Min
  <2> HIDE DEF k
  <2>3. SubSeq(s, 1, k - 1) \in Seq(S) /\ SubSeq(s, k + 1, Len(s)) \in Seq(S)
    BY <2>2, SubSeqProperties
  <2> QED
    BY <2>1, <2>3, ConcatProperties
<1> QED
  BY <1>1, <1>2

LEMMA EffectType ==
    ASSUME NEW r \in Requests, NEW b \in Seq(Orders) PROVE Effect(r, b) \in Seq(Orders)
<1>1. r.op \in {"order", "remove", "list", "empty"}
      /\ (r.op \in {"order", "remove"} => r.of \in Orders)
  BY DEF Requests
<1>2. CASE r.op = "order"
  BY <1>1, <1>2 DEF Effect
<1>3. CASE r.op = "remove"
  BY <1>1, <1>3, RemoveFirstType DEF Effect
<1>4. CASE r.op \in {"list", "empty"}
  BY <1>4 DEF Effect
<1> QED
  BY <1>1, <1>2, <1>3, <1>4

LEMMA AnswerType ==
    ASSUME NEW r \in Requests, NEW b \in Seq(Orders)
    PROVE  Answer(r, b) \in Results /\ Answer(r, b) \notin {Idle, Waiting, Down}
<1>1. r.op \in {"order", "remove", "list", "empty"}
      /\ (r.op \in {"order", "remove"} => r.of \in Orders)
  BY DEF Requests
<1>2. Effect(r, b) \in Seq(Orders)
  BY EffectType
<1>3. \/ Answer(r, b) = [ok |-> TRUE]
      \/ \E o \in Orders : Answer(r, b) = [order |-> o]
      \/ \E x \in Seq(Orders) : Answer(r, b) = [cart |-> x]
  BY <1>1, <1>2 DEF Answer
<1> QED
  BY <1>3 DEF Results, Idle, Waiting, Down

-----------------------------------------------------------------------------
(* Types *)

LEMMA Apart ==
    /\ Terminate \notin Calls
    /\ Idle # Waiting /\ Down \notin {Idle, Waiting} /\ Idle \in Results
    /\ Waiting \in Results /\ Down \in Results
BY DEF Terminate, Calls, Idle, Waiting, Down, Results

\* A server that ends leaves nothing.
LEMMA StopTypes ==
    ASSUME CartTypeOK, Stop, UNCHANGED made PROVE CartTypeOK'
<1>1. result' \in [Clients -> Results]
  BY Apart DEF CartTypeOK, Stop, Results
<1> QED
  BY <1>1 DEF CartTypeOK, Stop, Results

LEMMA TypesNext == CartTypeOK /\ [ServerNext]_serverVars => CartTypeOK'
<1> SUFFICES ASSUME CartTypeOK, [ServerNext]_serverVars PROVE CartTypeOK'
  OBVIOUS
<1> USE CallsAreBounded, NobodyIsNoClient
<1>0. result \in [Clients -> Results]
  BY DEF CartTypeOK, Results
<1>1. ASSUME NEW c \in Clients, start_link(c) PROVE CartTypeOK'
  BY <1>1 DEF start_link, CartTypeOK
<1>2. ASSUME NEW c \in Clients, NEW req \in Requests, call(c, req) PROVE CartTypeOK'
  <2>1. [from |-> c, ref |-> made[c] + 1, req |-> req] \in Calls
    BY <1>2 DEF call, CartTypeOK, Calls
  <2>2. mailbox' \in Seq(Calls \cup {Terminate})
    BY <1>2, <2>1 DEF call, CartTypeOK
  <2>3. made' \in [Clients -> 0..MaxCalls]
    BY <1>2 DEF call, CartTypeOK
  <2>4. result' \in [Clients -> Results]
    BY <1>0, <1>2, Apart DEF call
  <2> QED
    BY <1>2, <2>2, <2>3, <2>4 DEF call, CartTypeOK, Results
<1>3. CASE close
  BY <1>3 DEF close, CartTypeOK
<1>4. CASE Serve
  <2>1. CASE Stop
    BY <1>4, <2>1, StopTypes DEF Serve
  <2>2. CASE /\ Head(mailbox) # Terminate /\ handle_call(Head(mailbox))
             /\ mailbox' = Tail(mailbox) /\ UNCHANGED <<owner, made>>
    <3>1. PICK m \in Calls : m = Head(mailbox)
      BY <1>4, <2>2 DEF Serve, CartTypeOK
    <3>2. m.from \in Clients /\ m.req \in Requests /\ owner # Nobody
      BY <1>4, <3>1 DEF Serve, Calls, CartTypeOK
    <3>3. cart' \in Seq(Orders)
      BY <2>2, <3>1, <3>2, EffectType DEF handle_call, CartTypeOK
    <3>4. Answer(m.req, cart) \in Results
      BY <3>2, AnswerType DEF CartTypeOK
    <3>5. result' \in [Clients -> Results]
      BY <1>0, <2>2, <3>1, <3>2, <3>4 DEF handle_call, Reply
    <3>6. mailbox' \in Seq(Calls \cup {Terminate})
      BY <1>4, <2>2 DEF Serve, CartTypeOK
    <3> QED
      BY <2>2, <3>2, <3>3, <3>5, <3>6 DEF CartTypeOK, Results
  <2> QED
    BY <1>4, <2>1, <2>2 DEF Serve
<1>5. ASSUME NEW c \in Clients, receive(c) \/ timeout(c) PROVE CartTypeOK'
  <2>1. result' \in [Clients -> Results]
    BY <1>0, <1>5, Apart DEF receive, timeout, Return
  <2> QED
    BY <1>5, <2>1 DEF receive, timeout, Return, CartTypeOK, Results
<1>6. CASE exit
  BY <1>6, StopTypes DEF exit
<1>7. CASE UNCHANGED serverVars
  BY <1>7 DEF serverVars, CartTypeOK
<1> QED
  BY <1>1, <1>2, <1>3, <1>4, <1>5, <1>6, <1>7 DEF ServerNext

-----------------------------------------------------------------------------
(* Where the requests of a client are *)

Tracked == Numbered /\ Heard /\ AnsweredLast

LEMMA StopTracked == ASSUME CartTypeOK, Stop PROVE Tracked'
<1>1. \A c : Places(c)' = {}
  BY DEF Stop, Places
<1>2. \A c \in Clients : result'[c] # Waiting
  BY Apart DEF Stop, CartTypeOK
<1> QED
  BY <1>1, <1>2 DEF Tracked, Numbered, Heard, AnsweredLast

\* Nothing is sent or taken, and a call that ends, ends.
LEMMA ReturnTracked ==
    ASSUME CartTypeOK, Tracked, NEW c \in Clients, Return(c) PROVE Tracked'
<1>1. \A d : Places(d)' = Places(d)
  BY DEF Return, Places
<1>2. \A d \in Clients : result'[d] = IF d = c THEN Idle ELSE result[d]
  BY DEF Return, CartTypeOK
<1>3. mailbox' = mailbox /\ made' = made
  BY DEF Return
<1> QED
  BY <1>1, <1>2, <1>3, Apart DEF Tracked, Numbered, Heard, AnsweredLast

\* A request goes behind those its client has given up.
LEMMA CallTracked ==
    ASSUME CartTypeOK, Tracked, NEW c \in Clients, NEW req \in Requests, call(c, req)
    PROVE  Tracked'
<1> DEFINE m == [from |-> c, ref |-> made[c] + 1, req |-> req]
           n == Len(mailbox) + 1
<1>0. /\ mailbox' = Append(mailbox, m) /\ mailbox \in Seq(Calls \cup {Terminate})
      /\ made \in [Clients -> 0..MaxCalls] /\ result[c] = Idle
  BY DEF call, CartTypeOK
<1>1. /\ Len(mailbox') = n /\ n \in Nat /\ mailbox'[n] = m
      /\ \A i \in 1..Len(mailbox) : mailbox'[i] = mailbox[i]
  BY <1>0
<1>2. m.from = c /\ m.ref = made[c] + 1 /\ m # Terminate
  BY DEF Terminate
<1>3. /\ \A d \in Clients : made'[d] = IF d = c THEN made[c] + 1 ELSE made[d]
      /\ \A d \in Clients : result'[d] = IF d = c THEN Waiting ELSE result[d]
  BY DEF call, CartTypeOK
<1> HIDE DEF m
<1>4. \A d : Places(d)' = IF d = c THEN Places(d) \cup {n} ELSE Places(d)
  BY <1>1, <1>2 DEF Places
<1>5. \A d, i : i \in Places(d) => i \in 1..Len(mailbox) /\ i < n /\ mailbox'[i] = mailbox[i]
  BY <1>1 DEF Places
<1>6. \A d \in Clients : \A i \in Places(d) : mailbox[i].ref \in Nat
  BY <1>0, CallsAreBounded DEF Places, Calls
<1>7. Numbered'
  <2>1. ASSUME NEW d \in Clients, NEW i \in Places(d)'
        PROVE  /\ mailbox'[i].ref <= made'[d]
               /\ \A j \in Places(d)' : i < j => mailbox'[i].ref < mailbox'[j].ref
    <3>1. CASE d # c
      BY <1>1, <1>3, <1>4, <1>5, <2>1, <3>1 DEF Tracked, Numbered
    <3>2. CASE d = c /\ i = n
      BY <1>0, <1>1, <1>2, <1>3, <1>4, <1>5, <3>2, CallsAreBounded
    <3>3. CASE d = c /\ i \in Places(c)
      <4>1. mailbox'[i] = mailbox[i] /\ mailbox[i].ref <= made[c] /\ made[c] \in Nat
            /\ mailbox[i].ref \in Nat
        BY <1>0, <1>5, <1>6, <3>3, CallsAreBounded DEF Tracked, Numbered
      <4>2. mailbox'[i].ref <= made'[d]
        BY <1>3, <3>3, <4>1
      <4>3. ASSUME NEW j \in Places(d)', i < j PROVE mailbox'[i].ref < mailbox'[j].ref
        <5>1. CASE j = n
          BY <1>1, <1>2, <4>1, <5>1
        <5>2. CASE j \in Places(c)
          BY <1>5, <3>3, <4>1, <4>3, <5>2 DEF Tracked, Numbered
        <5> QED
          BY <1>4, <3>3, <4>3, <5>1, <5>2
      <4> QED
        BY <4>2, <4>3
    <3> QED
      BY <1>4, <2>1, <3>1, <3>2, <3>3
  <2> QED
    BY <2>1 DEF Numbered
<1>8. Heard'
  BY <1>1, <1>2, <1>3, <1>4, <1>5 DEF Tracked, Heard
<1>9. AnsweredLast'
  BY <1>3, <1>4 DEF Tracked, AnsweredLast
<1> QED
  BY <1>7, <1>8, <1>9 DEF Tracked

\* The requests move up by one; one that is answered was the last of its client.
LEMMA HandleTracked ==
    ASSUME CartTypeOK, Tracked, mailbox # <<>>, Head(mailbox) # Terminate,
           handle_call(Head(mailbox)), mailbox' = Tail(mailbox), made' = made
    PROVE  Tracked'
<1>1. PICK m : m = Head(mailbox)
  OBVIOUS
<1>2. /\ mailbox \in Seq(Calls \cup {Terminate}) /\ m \in Calls /\ m # Terminate
      /\ mailbox[1] = m
  BY <1>1 DEF CartTypeOK
<1>3. /\ Len(mailbox) \in Nat /\ Len(mailbox') = Len(mailbox) - 1
      /\ \A i \in 1..Len(mailbox') : mailbox'[i] = mailbox[i + 1]
  BY <1>2
<1>4. m.from \in Clients /\ m.req \in Requests /\ cart \in Seq(Orders)
  BY <1>2 DEF Calls, CartTypeOK
<1>5. PICK a : a = Answer(m.req, cart)
  OBVIOUS
<1>6. a \notin {Idle, Waiting}
  BY <1>4, <1>5, AnswerType
<1>7. \A d \in Clients : result'[d] =
        IF d = m.from /\ result[d] = Waiting /\ made[d] = m.ref THEN a ELSE result[d]
  BY <1>1, <1>4, <1>5 DEF handle_call, Reply, CartTypeOK
<1>8. \A d : \A i \in Places(d)' :
        i \in 1..Len(mailbox') /\ i + 1 \in Places(d) /\ mailbox'[i] = mailbox[i + 1]
  BY <1>3 DEF Places
<1>9. \A d : \A i \in Places(d) : i = 1 \/ i - 1 \in Places(d)'
  BY <1>3 DEF Places
<1>10. Numbered'
  BY <1>8 DEF Tracked, Numbered, Places
<1>11. Heard'
  <2>1. ASSUME NEW d \in Clients, result'[d] = Waiting
        PROVE  \E i \in Places(d)' : mailbox'[i].ref = made'[d]
    <3>1. result[d] = Waiting /\ ~(d = m.from /\ made[d] = m.ref)
      BY <1>6, <1>7, <2>1
    <3>2. PICK i \in Places(d) : mailbox[i].ref = made[d]
      BY <3>1 DEF Tracked, Heard
    <3>3. i # 1
      BY <1>2, <3>1, <3>2 DEF Places
    <3>4. i - 1 \in Places(d)' /\ (i - 1) + 1 = i
      BY <1>9, <3>2, <3>3 DEF Places
    <3> QED
      BY <1>8, <3>2, <3>4
  <2> QED
    BY <2>1 DEF Heard
<1>12. AnsweredLast'
  <2>1. ASSUME NEW d \in Clients, result'[d] \notin {Idle, Waiting}, NEW i \in Places(d)'
        PROVE  FALSE
    <3>1. i + 1 \in Places(d) /\ i \in 1..Len(mailbox')
      BY <1>8, <2>1
    <3>2. d = m.from /\ made[d] = m.ref
      BY <1>7, <2>1, <3>1 DEF Tracked, AnsweredLast
    <3>3. 1 \in Places(d)
      BY <1>2, <1>3, <3>1, <3>2 DEF Places
    <3>4. m.ref < mailbox[i + 1].ref /\ mailbox[i + 1].ref <= made[d]
      BY <1>2, <3>1, <3>3 DEF Tracked, Numbered
    <3>5. mailbox[i + 1] \in Calls
      BY <1>2, <3>1 DEF Places
    <3>6. made[d] \in Nat /\ m.ref \in Nat /\ mailbox[i + 1].ref \in Nat
      BY <1>2, <3>5, CallsAreBounded DEF Calls, CartTypeOK
    <3> QED
      BY <3>2, <3>4, <3>6
  <2> QED
    BY <2>1 DEF AnsweredLast
<1> QED
  BY <1>10, <1>11, <1>12 DEF Tracked

CartInv == CartTypeOK /\ Tracked

LEMMA CartInvNext == CartInv /\ [ServerNext]_serverVars => CartInv'
<1> SUFFICES ASSUME CartTypeOK, Tracked, [ServerNext]_serverVars PROVE Tracked'
  BY TypesNext DEF CartInv
<1>1. ASSUME UNCHANGED <<mailbox, made, result>> PROVE Tracked'
  BY <1>1 DEF Tracked, Numbered, Heard, AnsweredLast, Places
<1>2. CASE close
  <2>1. /\ mailbox' = Append(mailbox, Terminate) /\ UNCHANGED <<made, result>>
        /\ mailbox \in Seq(Calls \cup {Terminate})
    BY <1>2 DEF close, CartTypeOK
  <2>2. /\ Len(mailbox') = Len(mailbox) + 1 /\ Len(mailbox) \in Nat
        /\ mailbox'[Len(mailbox) + 1] = Terminate
        /\ \A i \in 1..Len(mailbox) : mailbox'[i] = mailbox[i]
    BY <2>1
  <2>3. /\ \A d : Places(d)' = Places(d)
        /\ \A d : \A i \in Places(d) : mailbox'[i] = mailbox[i]
    BY <2>2 DEF Places
  <2>4. Numbered'
    BY <2>1, <2>3 DEF Tracked, Numbered
  <2>5. Heard'
    BY <2>1, <2>3 DEF Tracked, Heard
  <2>6. AnsweredLast'
    BY <2>1, <2>3 DEF Tracked, AnsweredLast
  <2> QED
    BY <2>4, <2>5, <2>6 DEF Tracked
<1>3. CASE Serve
  BY <1>3, StopTracked, HandleTracked DEF Serve
<1>4. ASSUME NEW c \in Clients,
             start_link(c) \/ receive(c) \/ timeout(c) \/ \E req \in Requests : call(c, req)
      PROVE  Tracked'
  BY <1>1, <1>4, ReturnTracked, CallTracked DEF start_link, receive, timeout
<1>5. CASE exit
  BY <1>5, StopTracked DEF exit
<1> QED
  BY <1>1, <1>2, <1>3, <1>4, <1>5 DEF ServerNext, serverVars

LEMMA CartInvariant == ServerSpec => []CartInv
<1>1. ServerInit => CartInv
  <2>1. ServerInit => CartTypeOK
    BY CallsAreBounded DEF ServerInit, CartTypeOK
  <2>2. ServerInit => \A d : Places(d) = {}
    BY DEF ServerInit, Places
  <2> QED
    BY <2>1, <2>2, Apart DEF ServerInit, CartInv, Tracked, Numbered, Heard, AnsweredLast
<1> QED
  BY <1>1, CartInvNext, PTL DEF ServerSpec

-----------------------------------------------------------------------------
\* Every variable holds a value of its type, and the mailbox and the cart of a
\* server that is not there are empty.
THEOREM CartTypes == ServerSpec => []CartTypeOK
<1>1. CartInv => CartTypeOK
  BY DEF CartInv
<1> QED
  BY <1>1, CartInvariant, PTL

\* A client of gen_server:call never waits for an answer that cannot come: its
\* request is in the mailbox of a server, however many calls it has given up.
THEOREM NobodyWaitsInVain ==
    ServerSpec => [](\A c \in Clients : result[c] = Waiting =>
                       owner # Nobody /\ \E i \in Places(c) : mailbox[i].ref = made[c])
<1>1. ASSUME CartInv, NEW c \in Clients, result[c] = Waiting
      PROVE  owner # Nobody /\ \E i \in Places(c) : mailbox[i].ref = made[c]
  <2>1. PICK i \in Places(c) : mailbox[i].ref = made[c]
    BY <1>1 DEF CartInv, Tracked, Heard
  <2>2. mailbox # <<>>
    BY <2>1 DEF Places
  <2> QED
    BY <1>1, <2>1, <2>2 DEF CartInv, CartTypeOK
<1>2. CartInv => \A c \in Clients : result[c] = Waiting =>
                   owner # Nobody /\ \E i \in Places(c) : mailbox[i].ref = made[c]
  BY <1>1
<1> QED
  BY <1>2, CartInvariant, PTL

\* Once a call has its answer, or the notice, nothing of its client is left in
\* the mailbox: an order given up does not come in later, behind an answer.
THEOREM AnswersComeLast == ServerSpec => []AnsweredLast
<1>1. CartInv => AnsweredLast
  BY DEF CartInv, Tracked
<1> QED
  BY <1>1, CartInvariant, PTL
-----------------------------------------------------------------------------
(* The server is the cart it promises to be *)

\* The requests that are not done, and what each client has of its call.
Undone == {m \in Range(mailbox) : m # Terminate}
Shown == [c \in Clients |-> IF result[c] = Down THEN Waiting ELSE result[c]]

LEMMA SameCalls ==
    /\ Promised!Requests = Requests
    /\ Promised!Idle = Idle /\ Promised!Waiting = Waiting
    /\ \A r, b : Promised!Effect(r, b) = Effect(r, b)
    /\ \A r, b : Promised!Answer(r, b) = Answer(r, b)
<1>1. \A r, b : Promised!Effect(r, b) = Effect(r, b)
  BY DEF Promised!Effect, Effect
<1> QED
  BY <1>1 DEF Promised!Requests, Requests, Promised!Idle, Idle, Promised!Waiting,
     Waiting, Promised!Answer, Answer

\* What is not done is in a place of its client.
LEMMA UndonePlaces ==
    ASSUME CartTypeOK
    PROVE  /\ \A m \in Undone : /\ m \in Calls /\ m.from \in Clients
                                /\ \E i \in Places(m.from) : mailbox[i] = m
           /\ \A c : \A i \in Places(c) : mailbox[i] \in Undone /\ mailbox[i].from = c
<1>1. mailbox \in Seq(Calls \cup {Terminate}) /\ DOMAIN mailbox = 1..Len(mailbox)
  BY DEF CartTypeOK
<1>2. \A m : m \in Undone <=> m # Terminate /\ \E i \in 1..Len(mailbox) : mailbox[i] = m
  BY <1>1 DEF Undone, Range
<1>3. \A i \in 1..Len(mailbox) : mailbox[i] \in Calls \cup {Terminate}
  BY <1>1
<1> QED
  BY <1>2, <1>3 DEF Places, Calls

\* The end of the server loses the cart, and nobody can tell.
LEMMA StopLoses ==
    ASSUME CartTypeOK, Stop, UNCHANGED made PROVE Promised!Lose
<1>1. Undone' = {}
  BY DEF Stop, Undone, Range
<1>2. Shown' = Shown
  BY Apart DEF Stop, Shown, CartTypeOK
<1> QED
  BY <1>1, <1>2 DEF Promised!Lose, Stop, Undone, Shown

\* A call asks, and is waited for.
LEMMA CallAsks ==
    ASSUME CartTypeOK, NEW c \in Clients, NEW req \in Requests, call(c, req)
    PROVE  Promised!Ask(c, req)
<1> DEFINE m == [from |-> c, ref |-> made[c] + 1, req |-> req]
<1>1. mailbox' = Append(mailbox, m) /\ mailbox \in Seq(Calls \cup {Terminate})
  BY DEF call, CartTypeOK
<1>2. m # Terminate
  BY DEF Terminate
<1> HIDE DEF m
<1>3. Range(mailbox') = Range(mailbox) \cup {m}
  BY <1>1 DEF Range
<1>4. Undone' = Undone \cup {m}
  BY <1>2, <1>3 DEF Undone
<1>5. Shown[c] = Idle /\ Shown' = [Shown EXCEPT ![c] = Waiting]
  BY Apart DEF call, Shown, CartTypeOK
<1>6. made' = [made EXCEPT ![c] = @ + 1] /\ cart' = cart
  BY DEF call
<1> QED
  BY <1>4, <1>5, <1>6, SameCalls DEF Promised!Ask, Undone, Shown, m

\* A request that is handled is the first of its client that is left, and is
\* answered only to the call its client is in.
LEMMA HandleDoes ==
    ASSUME CartInv, mailbox # <<>>, Head(mailbox) # Terminate,
           handle_call(Head(mailbox)), mailbox' = Tail(mailbox), made' = made
    PROVE  \E m \in Undone : Promised!Do(m)
<1> USE DEF CartInv
<1>1. PICK m : m = Head(mailbox)
  OBVIOUS
<1>2. /\ mailbox \in Seq(Calls \cup {Terminate}) /\ m \in Calls /\ m # Terminate
      /\ mailbox[1] = m /\ 1 \in 1..Len(mailbox) /\ Len(mailbox) \in Nat
  BY <1>1 DEF CartTypeOK
<1>3. m.from \in Clients /\ m.req \in Requests /\ cart \in Seq(Orders) /\ m.ref \in Nat
  BY <1>2, CallsAreBounded DEF Calls, CartTypeOK
<1>4. PICK a : a = Answer(m.req, cart)
  OBVIOUS
<1>5. a # Down
  BY <1>3, <1>4, AnswerType
<1>6. 1 \in Places(m.from) /\ m \in Undone
  BY <1>2, UndonePlaces DEF Places
<1>7. DEFINE Rest == {n \in Undone \ {m} : n.from = m.from}
<1>8. \A n \in Rest : /\ m.ref < n.ref /\ n.ref <= made[m.from] /\ n.ref \in Nat
                      /\ \E i \in Places(m.from) : mailbox[i] = n
  <2>1. ASSUME NEW n \in Rest
        PROVE  /\ m.ref < n.ref /\ n.ref <= made[m.from] /\ n.ref \in Nat
               /\ \E i \in Places(m.from) : mailbox[i] = n
    <3>1. PICK i \in Places(m.from) : mailbox[i] = n
      BY UndonePlaces
    <3>2. i \in Nat /\ 1 < i
      BY <1>2, <3>1 DEF Places
    <3>3. n.ref \in Nat
      BY UndonePlaces, CallsAreBounded DEF Calls
    <3> QED
      BY <1>2, <1>3, <1>6, <3>1, <3>2, <3>3 DEF Tracked, Numbered
  <2> QED
    BY <2>1
<1>9. made[m.from] \in Nat
  BY <1>3, CallsAreBounded DEF CartTypeOK
<1>10. Undone' = Undone \ {m}
  <2>1. DOMAIN mailbox = 1..Len(mailbox) /\ DOMAIN mailbox' = 1..(Len(mailbox) - 1)
        /\ \A i \in 1..(Len(mailbox) - 1) : mailbox'[i] = mailbox[i + 1]
    BY <1>2
  <2>2. ASSUME NEW i \in 1..(Len(mailbox) - 1) PROVE mailbox[i + 1] # m
    <3>1. SUFFICES ASSUME mailbox[i + 1] = m PROVE FALSE
      OBVIOUS
    <3>2. i + 1 \in Places(m.from) /\ 1 < i + 1
      BY <1>2, <3>1 DEF Places
    <3> QED
      BY <1>2, <1>3, <1>6, <3>1, <3>2 DEF Tracked, Numbered
  <2>3. \A i \in 1..Len(mailbox) : i = 1 \/ (i - 1 \in 1..(Len(mailbox) - 1) /\ (i - 1) + 1 = i)
    BY <1>2
  <2>4. \A x : x \in Range(mailbox') <=> x \in Range(mailbox) /\ x # m
    <3>1. ASSUME NEW x \in Range(mailbox') PROVE x \in Range(mailbox) /\ x # m
      <4>1. PICK i \in 1..(Len(mailbox) - 1) : x = mailbox[i + 1]
        BY <2>1 DEF Range
      <4>2. i + 1 \in 1..Len(mailbox)
        BY <1>2
      <4> QED
        BY <2>1, <2>2, <4>1, <4>2 DEF Range
    <3>2. ASSUME NEW x \in Range(mailbox), x # m PROVE x \in Range(mailbox')
      <4>1. PICK i \in 1..Len(mailbox) : x = mailbox[i]
        BY <2>1 DEF Range
      <4>2. i - 1 \in 1..(Len(mailbox) - 1) /\ mailbox'[i - 1] = x
        BY <1>2, <2>1, <2>3, <3>2, <4>1
      <4> QED
        BY <2>1, <4>2 DEF Range
    <3> QED
      BY <3>1, <3>2
  <2> QED
    BY <2>4 DEF Undone
<1>11. Rest = {} /\ Shown[m.from] = Waiting <=> result[m.from] = Waiting /\ made[m.from] = m.ref
  <2>1. Shown[m.from] = Waiting <=> result[m.from] = Waiting
    BY <1>3, <1>6, Apart DEF Tracked, AnsweredLast, Shown, CartTypeOK
  <2>2. ASSUME result[m.from] = Waiting, made[m.from] # m.ref PROVE Rest # {}
    <3>1. PICK i \in Places(m.from) : mailbox[i].ref = made[m.from]
      BY <1>3, <2>2 DEF Tracked, Heard
    <3>2. mailbox[i] \in Undone /\ mailbox[i].from = m.from /\ mailbox[i] # m
      BY <2>2, <3>1, UndonePlaces
    <3> QED
      BY <3>2
  <2>3. ASSUME made[m.from] = m.ref PROVE Rest = {}
    BY <1>3, <1>8, <1>9, <2>3
  <2> QED
    BY <2>1, <2>2, <2>3
<1>12. Shown' = IF Rest = {} /\ Shown[m.from] = Waiting
                THEN [Shown EXCEPT ![m.from] = a] ELSE Shown
  <2>1. result' = IF result[m.from] = Waiting /\ made[m.from] = m.ref
                  THEN [result EXCEPT ![m.from] = a] ELSE result
    BY <1>1, <1>4 DEF handle_call, Reply
  <2> HIDE DEF Rest
  <2>2. CASE result[m.from] = Waiting /\ made[m.from] = m.ref
    BY <1>3, <1>5, <1>11, <2>1, <2>2 DEF Shown, CartTypeOK
  <2>3. CASE ~(result[m.from] = Waiting /\ made[m.from] = m.ref)
    BY <1>11, <2>1, <2>3 DEF Shown
  <2> QED
    BY <2>2, <2>3
<1>13. Rest = Promised!Others(m)
  BY DEF Promised!Others, Undone
<1>14. cart' = Promised!Effect(m.req, cart) /\ a = Promised!Answer(m.req, cart)
  BY <1>1, <1>4, SameCalls DEF handle_call
<1>15. Promised!Waiting = Waiting
  BY SameCalls
<1>16. \A n \in Rest : m.ref < n.ref
  BY <1>8
<1> HIDE DEF Rest
<1>17. Promised!Do(m)
  BY <1>10, <1>12, <1>13, <1>14, <1>15, <1>16 DEF Promised!Do, Undone, Shown
<1> QED
  BY <1>6, <1>17

\* Every step of the server and its clients is one of the cart, or none.
LEMMA StepIsCart ==
    CartInv /\ [ServerNext]_serverVars => [Promised!CartNext]_(Promised!cartVars)
<1> SUFFICES ASSUME CartInv, [ServerNext]_serverVars
             PROVE  Promised!CartNext \/ UNCHANGED Promised!cartVars
  OBVIOUS
<1> USE DEF CartInv
<1>1. ASSUME UNCHANGED <<cart, made>>, Undone' = Undone, Shown' = Shown
      PROVE  UNCHANGED Promised!cartVars
  BY <1>1 DEF Promised!cartVars, Undone, Shown
<1>2. ASSUME NEW c \in Clients, start_link(c) PROVE UNCHANGED Promised!cartVars
  <2>1. cart' = cart
    BY <1>2 DEF start_link, CartTypeOK
  <2>2. UNCHANGED <<mailbox, made, result>>
    BY <1>2 DEF start_link
  <2>3. Undone' = Undone /\ Shown' = Shown
    BY <2>2 DEF Undone, Shown
  <2> QED
    BY <1>1, <2>1, <2>2, <2>3
<1>3. ASSUME NEW c \in Clients, NEW req \in Requests, call(c, req) PROVE Promised!CartNext
  BY <1>3, CallAsks, SameCalls DEF Promised!CartNext
<1>4. CASE close
  <2>1. mailbox' = Append(mailbox, Terminate) /\ mailbox \in Seq(Calls \cup {Terminate})
        /\ UNCHANGED <<cart, made, result>>
    BY <1>4 DEF close, CartTypeOK
  <2>2. Range(mailbox') = Range(mailbox) \cup {Terminate}
    BY <2>1 DEF Range
  <2>3. Undone' = Undone /\ Shown' = Shown
    BY <2>1, <2>2 DEF Undone, Shown
  <2> QED
    BY <1>1, <2>1, <2>3
<1>5. CASE Serve
  <2>1. CASE Stop
    BY <1>5, <2>1, StopLoses DEF Serve, Promised!CartNext
  <2>2. CASE /\ Head(mailbox) # Terminate /\ handle_call(Head(mailbox))
             /\ mailbox' = Tail(mailbox) /\ UNCHANGED <<owner, made>>
    <3>1. \E m \in Undone : Promised!Do(m)
      BY <1>5, <2>2, HandleDoes DEF Serve
    <3> QED
      BY <3>1 DEF Promised!CartNext, Undone
  <2> QED
    BY <1>5, <2>1, <2>2 DEF Serve
<1>6. ASSUME NEW c \in Clients, receive(c) \/ timeout(c) PROVE Promised!CartNext
  <2>1. Shown[c] # Idle /\ Shown' = [Shown EXCEPT ![c] = Idle]
    BY <1>6, Apart DEF receive, timeout, Return, Shown, CartTypeOK
  <2>2. UNCHANGED <<cart, made>> /\ Undone' = Undone
    BY <1>6 DEF receive, timeout, Return, Undone
  <2>3. Promised!Return(c)
    BY <2>1, <2>2, SameCalls DEF Promised!Return, Undone, Shown
  <2> QED
    BY <2>3 DEF Promised!CartNext
<1>7. CASE exit
  BY <1>7, StopLoses DEF exit, Promised!CartNext
<1>8. CASE UNCHANGED serverVars
  BY <1>1, <1>8 DEF serverVars, Undone, Shown
<1> QED
  BY <1>2, <1>3, <1>4, <1>5, <1>6, <1>7, <1>8 DEF ServerNext

\* Through timeouts, late answers, calls made again and servers that end and
\* are started again, the server is one cart: a call takes effect at most once,
\* after those its client made before, and an answer is that of the call that
\* is waited for.
THEOREM ServerIsCart == ServerSpec => IsCart
<1>1. ServerInit => Promised!CartInit
  <2>1. ServerInit => Undone = {} /\ Shown = [c \in Clients |-> Idle]
    BY Apart DEF ServerInit, Undone, Shown, Range
  <2> QED
    BY <2>1, SameCalls DEF ServerInit, Promised!CartInit, Undone, Shown
<1>2. CartInv /\ [ServerNext]_serverVars => [Promised!CartNext]_(Promised!cartVars)
  BY StepIsCart
<1> QED
  BY <1>1, <1>2, CartInvariant, PTL DEF ServerSpec, IsCart, Promised!CartSpec
=============================================================================

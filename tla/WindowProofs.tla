---------------------------- MODULE WindowProofs ----------------------------
(***************************************************************************)
(* The window of js/ajaxUtil.js for any number of adapters, sockets, pages *)
(* and changes.  Live: the handlers on the sockets are those of the pages. *)
(* Fits: while the adapter stays, whatever is under way or in a box is of  *)
(* it, or of the systems under test.  Catch: while no liberty is taken,    *)
(* each box lists what is offered, or a request that brings it is out, or  *)
(* a message that causes one is on its way.                                *)
(***************************************************************************)
EXTENDS Window, FiniteSetTheorems, TLAPS
LOCAL INSTANCE BagsExt

\* What becomes of the requests in flight when some are made or called back.
LEMMA BagDomains ==
    ASSUME NEW B, NEW x
    PROVE  /\ DOMAIN BagAdd(B, x) = DOMAIN B \cup {x}
           /\ DOMAIN BagRemove(B, x) \subseteq DOMAIN B
           /\ DOMAIN B \ {x} \subseteq DOMAIN BagRemove(B, x)
           /\ DOMAIN With(B, x) = IF isLogin THEN DOMAIN B \cup {x} ELSE DOMAIN B
           /\ \A n : DOMAIN Copies(B, x, n) =
                IF isLogin /\ n > 0 THEN DOMAIN B \cup {x} ELSE DOMAIN B
BY DEF BagAdd, BagRemove, With, Copies, (+)

LEMMA EmptyDomain == DOMAIN EmptyBag = {}
BY DEF EmptyBag, SetToBag

LEMMA SendTypes ==
    ASSUME WindowTypeOK, NEW t \in Types
    PROVE  /\ Path(t) \in Paths /\ GetItems(t) \in Requests
           /\ \A i \in Paths : GetValue(t, i) \in Requests
<1> USE DEF WindowTypeOK, Path, getAdapter, getSUTs
<1>1. Path(t) \in Paths
  BY DEF Paths
<1>2. Undefined \in Paths /\ 0 \in 0..MaxChanges
  BY WindowBounds DEF Paths
<1> QED
  BY <1>1, <1>2 DEF GetItems, GetValue, Requests

\* A message makes update ask for the items of its box, and for the item
\* chosen in it.
LEMMA UpdateSends ==
    ASSUME WindowTypeOK, NEW s \in Sockets, Update(s)
    PROVE  LET msg == Head(inbox[s])
               t == msg.resource
           IN  /\ msg \in Messages /\ DOMAIN pending \subseteq DOMAIN pending'
               /\ \A r \in DOMAIN pending' \ DOMAIN pending :
                    \/ r = GetItems(t)
                    \/ /\ box[t] # Null /\ box[t].value # Undefined
                       /\ r = GetValue(t, box[t].value)
               /\ isLogin /\ isMsg4CurrentAdapter(msg) /\ listeners[s] # {}
                    => GetItems(t) \in DOMAIN pending'
<1> DEFINE msg == Head(inbox[s])
           t == msg.resource
           n == IF isMsg4CurrentAdapter(msg) THEN Cardinality(listeners[s]) ELSE 0
<1>1. msg \in Messages
  BY DEF WindowTypeOK, Update
<1>2. n \in Nat /\ (isMsg4CurrentAdapter(msg) /\ listeners[s] # {} => n > 0)
  <2>1. IsFiniteSet(Regions)
    <3>1. MaxRegions \in Int /\ 1 \in Int
      BY WindowBounds
    <3> QED
      BY <3>1, FS_Interval DEF Regions
  <2>2. IsFiniteSet(listeners[s])
    <3>1. listeners[s] \in SUBSET Regions
      BY DEF WindowTypeOK
    <3> QED
      BY <2>1, <3>1, FS_Subset
  <2>3. Cardinality(listeners[s]) \in Nat
    BY <2>2, FS_CardinalityType
  <2>4. listeners[s] # {} => Cardinality(listeners[s]) # 0
    BY <2>2, FS_EmptySet
  <2> QED
    BY <2>3, <2>4
<1>3. pending' = Updated(t, n)
  BY DEF Update
<1> HIDE DEF n, msg
<1>4. CASE n = 0
  BY <1>1, <1>2, <1>3, <1>4 DEF Updated, msg
<1>5. CASE n > 0
  <2> DEFINE once == Copies(pending, GetItems(t), n)
  <2>0. /\ n # 0
        /\ \A B, x : DOMAIN Copies(B, x, n) =
             IF isLogin THEN DOMAIN B \cup {x} ELSE DOMAIN B
        /\ \A B, x : DOMAIN Copies(B, x, 1) =
             IF isLogin THEN DOMAIN B \cup {x} ELSE DOMAIN B
    <3>1. \A B, x, k : DOMAIN Copies(B, x, k) =
             IF isLogin /\ k > 0 THEN DOMAIN B \cup {x} ELSE DOMAIN B
      BY BagDomains
    <3>2. n # 0 /\ 1 > 0
      BY <1>2, <1>5
    <3> QED
      BY <1>5, <3>1, <3>2, Zenon
  <2> HIDE DEF once
  <2>1. CASE box[t] = Null
    <3>1. pending' = Copies(pending, GetItems(t), 1)
      BY <1>3, <2>0, <2>1 DEF Updated
    <3>2. DOMAIN pending' = IF isLogin THEN DOMAIN pending \cup {GetItems(t)}
                                        ELSE DOMAIN pending
      BY <2>0, <3>1
    <3> QED
      BY <1>1, <3>2 DEF msg
  <2>2. CASE box[t] # Null /\ box[t].value = Undefined
    <3>1. pending' = Copies(pending, GetItems(t), n)
      BY <1>3, <2>0, <2>2 DEF Updated
    <3>2. DOMAIN pending' = IF isLogin THEN DOMAIN pending \cup {GetItems(t)}
                                        ELSE DOMAIN pending
      BY <2>0, <3>1
    <3> QED
      BY <1>1, <3>2 DEF msg
  <2>3. CASE box[t] # Null /\ box[t].value # Undefined
    <3>1. pending' = Copies(once, GetValue(t, box[t].value), n)
      BY <1>3, <2>0, <2>3 DEF Updated, once
    <3>2. DOMAIN once = IF isLogin THEN DOMAIN pending \cup {GetItems(t)}
                                    ELSE DOMAIN pending
      BY <2>0 DEF once
    <3>3. DOMAIN pending' = IF isLogin THEN DOMAIN once \cup {GetValue(t, box[t].value)}
                                        ELSE DOMAIN once
      BY <2>0, <3>1
    <3> QED
      BY <1>1, <2>3, <3>2, <3>3 DEF msg
  <2> QED
    BY <2>1, <2>2, <2>3
<1> QED
  BY <1>2, <1>4, <1>5

LEMMA TypeInit == WindowInit => WindowTypeOK
<1> SUFFICES ASSUME WindowInit PROVE WindowTypeOK
  OBVIOUS
<1>1. \A t \in Types : box[t] = Null
  BY DEF WindowInit
<1>2. 0 \in 0..MaxChanges
  BY WindowBounds
<1>3. offers \in [Spaces -> 0..MaxChanges]
  BY <1>2 DEF WindowInit
<1>4. DOMAIN pending \subseteq Requests
  BY EmptyDomain DEF WindowInit
<1>5. shared \in [login : BOOLEAN, adapter : Adapters \cup {Undefined},
                   SUTs : {{}, Suts}, socket : Sockets \cup {Undefined}]
  BY DEF WindowInit, SharedInit
<1>6. /\ initialized \in BOOLEAN /\ life \in [Regions -> {"none", "up", "broken", "freed"}]
      /\ listeners \in [Sockets -> SUBSET Regions] /\ inbox \in [Sockets -> Seq(Messages)]
  <2>1. <<>> \in Seq(Messages)
    OBVIOUS
  <2> QED
    BY <2>1 DEF WindowInit
<1>7. /\ box \in [Types -> Boxes \cup {Null}] /\ liberties \subseteq Liberties
      /\ saved \in [path : Paths, refs : [Types -> Paths]] \cup {Null}
  BY DEF WindowInit
<1> QED
  BY <1>3, <1>4, <1>5, <1>6, <1>7 DEF WindowTypeOK

LEMMA TypeNext == WindowTypeOK /\ [WindowNext]_windowVars => WindowTypeOK'
<1> SUFFICES ASSUME WindowTypeOK, [WindowNext]_windowVars PROVE WindowTypeOK'
  OBVIOUS
<1> DEFINE SharedOK ==
      shared \in [login : BOOLEAN, adapter : Adapters \cup {Undefined},
                  SUTs : {{}, Suts}, socket : Sockets \cup {Undefined}]
           ServerOK == offers \in [Spaces -> 0..MaxChanges]
                         /\ inbox \in [Sockets -> Seq(Messages)]
           PageOK == /\ initialized \in BOOLEAN
                     /\ life \in [Regions -> {"none", "up", "broken", "freed"}]
                     /\ listeners \in [Sockets -> SUBSET Regions]
           BoxOK == box \in [Types -> Boxes \cup {Null}]
           SentOK == DOMAIN pending \subseteq Requests
           SavedOK == saved \in [path : Paths, refs : [Types -> Paths]] \cup {Null}
<1>0. SharedOK /\ ServerOK /\ PageOK /\ BoxOK /\ SentOK /\ SavedOK
  BY DEF WindowTypeOK
<1>1. SharedOK'
  <2>1. CASE Login \/ Logout \/ LearnSUTs
    BY <1>0, <2>1 DEF Login, Logout, LearnSUTs, setApiKey, clearApiKey, setSUTs
  <2>2. ASSUME NEW a \in Adapters, SwitchAdapter(a) PROVE SharedOK'
    BY <1>0, <2>2 DEF SwitchAdapter, setAdapter
  <2>3. ASSUME NEW s \in Sockets, Reconnect(s) PROVE SharedOK'
    BY <1>0, <2>3 DEF Reconnect, setSocketConnect
  <2>4. CASE UNCHANGED shared
    BY <1>0, <2>4
  <2>5. \/ Login \/ Logout \/ LearnSUTs \/ UNCHANGED shared
        \/ \E a \in Adapters : SwitchAdapter(a)
        \/ \E s \in Sockets : Reconnect(s)
    BY DEF WindowNext, windowVars, StartDetached, Update, Make, Free, Save, Choose,
      CallBack, Serve, Change
  <2> QED
    BY <2>1, <2>2, <2>3, <2>4, <2>5
<1>2. liberties' \subseteq Liberties
  <2>1. \/ liberties' \subseteq liberties
        \/ \E l \in Liberties : liberties' = liberties \cup {l}
    BY DEF WindowNext, windowVars, Login, Logout, LearnSUTs, SwitchAdapter, Reconnect,
      StartDetached, Update, Make, Free, Save, Choose, CallBack, ItemsLoaded, ValueLoaded,
      Failed, Serve, Change, Taking, Unsettled, Liberties
  <2> QED
    BY <2>1 DEF WindowTypeOK
<1>3. ServerOK'
  <2>1. ASSUME NEW sp \in Spaces, Change(sp) PROVE ServerOK'
    <3>1. sp[2] \in Types /\ sp[1] \in Adapters \cup {Sut}
      BY DEF Spaces, Home
    <3>2. [adapter |-> IF sp[1] = Sut THEN EveryAdapter ELSE sp[1],
           resource |-> sp[2]] \in Messages
      BY <3>1 DEF Messages
    <3>3. offers[sp] + 1 \in 0..MaxChanges
      BY <1>0, <2>1, WindowBounds DEF Change
    <3>4. offers' \in [Spaces -> 0..MaxChanges]
      BY <1>0, <2>1, <3>3 DEF Change
    <3>5. inbox' \in [Sockets -> Seq(Messages)]
      BY <1>0, <2>1, <3>2 DEF Change
    <3> QED
      BY <3>4, <3>5
  <2>2. ASSUME NEW s \in Sockets, Update(s) PROVE ServerOK'
    BY <1>0, <2>2 DEF Update
  <2>3. \/ UNCHANGED <<offers, inbox>>
        \/ \E sp \in Spaces : Change(sp)
        \/ \E s \in Sockets : Update(s)
    BY DEF WindowNext, windowVars, Login, Logout, LearnSUTs, SwitchAdapter, Reconnect,
      Shared, StartDetached, Make, Free, Save, Choose, CallBack, Serve
  <2> QED
    BY <1>0, <2>1, <2>2, <2>3
<1>4. PageOK'
  <2>1. ASSUME NEW r \in Regions, Make(r) \/ Free(r) PROVE PageOK'
    <3>1. CASE Make(r)
      <4>1. CASE getEnvirSocket = Undefined
        BY <1>0, <3>1, <4>1 DEF Make
      <4>2. CASE getEnvirSocket # Undefined
        <5>1. /\ life' = [life EXCEPT ![r] = "up"] /\ initialized' = TRUE
              /\ listeners' = [listeners EXCEPT ![shared.socket] = @ \cup {r}]
          BY <3>1, <4>2 DEF Make, getEnvirSocket
        <5> QED
          BY <1>0, <2>1, <4>2, <5>1 DEF getEnvirSocket
      <4> QED
        BY <4>1, <4>2
    <3>2. CASE Free(r)
      <4>1. CASE getEnvirSocket = Undefined
        BY <1>0, <3>2, <4>1 DEF Free
      <4>2. CASE getEnvirSocket # Undefined
        <5>1. /\ life' = [life EXCEPT ![r] = "freed"]
              /\ initialized' = (initialized /\ r \notin Newest)
              /\ listeners' = [listeners EXCEPT ![shared.socket] = @ \ {r}]
          BY <3>2, <4>2 DEF Free, getEnvirSocket
        <5> QED
          BY <1>0, <4>2, <5>1 DEF getEnvirSocket
      <4> QED
        BY <4>1, <4>2
    <3> QED
      BY <2>1, <3>1, <3>2
  <2>2. UNCHANGED <<pageVars, listeners>> \/ StartDetached
        \/ \E r \in Regions : Make(r) \/ Free(r)
    BY DEF WindowNext, windowVars, Login, Logout, LearnSUTs, SwitchAdapter, Reconnect,
      Shared, Update, Save, Choose, CallBack, Serve, Change
  <2> QED
    BY <1>0, <2>1, <2>2 DEF pageVars, StartDetached
<1>5. BoxOK'
  <2>0. NewBox \in Boxes
    BY WindowBounds DEF NewBox, Boxes, Items, NoItems, Paths
  <2>1. ASSUME NEW r \in Regions, Make(r) \/ Free(r) PROVE BoxOK'
    BY <1>0, <2>0, <2>1 DEF Make, Free
  <2>2. ASSUME NEW t \in Types, Choose(t) PROVE BoxOK'
    BY <1>0, <2>2 DEF Choose, Boxes, Items
  <2>3. ASSUME NEW r \in DOMAIN pending, CallBack(r) PROVE BoxOK'
    <3>1. r \in Requests /\ Undefined \in Paths
      BY <1>0 DEF Paths
    <3>2. ASSUME NEW b, SetBox(r.type, b), box[r.type] # Null => b \in Boxes
          PROVE  BoxOK'
      BY <1>0, <3>1, <3>2 DEF SetBox, Requests
    <3>3. CASE ItemsLoaded(r)
      BY <1>0, <3>1, <3>2, <3>3 DEF ItemsLoaded, Boxes, Items, Requests
    <3>4. ASSUME NEW v \in Paths, SetBox(r.type, [box[r.type] EXCEPT !.value = v])
          PROVE  BoxOK'
      <4>1. box[r.type] # Null => [box[r.type] EXCEPT !.value = v] \in Boxes
        <5>1. box[r.type] # Null => box[r.type] \in Boxes
          BY <1>0, <3>1 DEF Requests
        <5> QED
          BY <3>4, <5>1 DEF Boxes
      <4> QED
        BY <3>2, <3>4, <4>1
    <3>5. CASE ValueLoaded(r)
      BY <3>1, <3>4, <3>5 DEF ValueLoaded, Requests
    <3>6. CASE Failed(r)
      <4>1. CASE UNCHANGED box
        BY <1>0, <4>1
      <4> QED
        BY <3>1, <3>4, <3>6, <4>1 DEF Failed
    <3> QED
      BY <2>3, <3>3, <3>5, <3>6 DEF CallBack
  <2>4. \/ UNCHANGED box \/ \E r \in Regions : Make(r) \/ Free(r)
        \/ \E t \in Types : Choose(t)
        \/ \E r \in DOMAIN pending : CallBack(r)
    BY DEF WindowNext, windowVars, Login, Logout, LearnSUTs, SwitchAdapter, Reconnect,
      Shared, StartDetached, Update, Save, Serve, Change
  <2> QED
    BY <1>0, <2>1, <2>2, <2>3, <2>4
<1>6. SentOK'
  <2>1. ASSUME NEW r \in Regions, Make(r) PROVE SentOK'
    <3>1. pending' = With(With(pending, GetItems("sgsn-mme")), GetItems("ue-group"))
      BY <2>1 DEF Make
    <3>2. DOMAIN pending' \subseteq
            DOMAIN pending \cup {GetItems("sgsn-mme"), GetItems("ue-group")}
      <4> DEFINE mid == With(pending, GetItems("sgsn-mme"))
      <4>1. DOMAIN mid \subseteq DOMAIN pending \cup {GetItems("sgsn-mme")}
        BY BagDomains
      <4> HIDE DEF mid
      <4>2. pending' = With(mid, GetItems("ue-group"))
        BY <3>1 DEF mid
      <4>3. DOMAIN pending' \subseteq DOMAIN mid \cup {GetItems("ue-group")}
        BY <4>2, BagDomains
      <4> QED
        BY <4>1, <4>3
    <3> QED
      BY <1>0, <3>2, SendTypes DEF Types
  <2>2. ASSUME NEW s \in Sockets, Update(s) PROVE SentOK'
    <3> DEFINE t == Head(inbox[s]).resource
    <3>1. t \in Types
      BY <2>2, UpdateSends DEF Messages
    <3>2. box[t] # Null => box[t].value \in Paths
      BY <1>0, <3>1 DEF Boxes
    <3>3. \A r \in DOMAIN pending' \ DOMAIN pending :
            \/ r = GetItems(t)
            \/ /\ box[t] # Null /\ box[t].value # Undefined
               /\ r = GetValue(t, box[t].value)
      BY <2>2, UpdateSends
    <3> QED
      BY <1>0, <3>1, <3>2, <3>3, SendTypes
  <2>3. ASSUME NEW r \in DOMAIN pending, CallBack(r) \/ Serve(r) PROVE SentOK'
    <3>1. CASE CallBack(r)
      <4>1. pending' = BagRemove(pending, r)
        BY <3>1 DEF CallBack, ItemsLoaded, ValueLoaded, Failed, Rest
      <4> QED
        BY <1>0, <4>1, BagDomains
    <3>2. CASE Serve(r)
      <4> DEFINE v == IF r.kind = "items" THEN offers[<<r.path, r.type>>] ELSE 0
                 x == [r EXCEPT !.status = "ok", !.version = v]
      <4>1. v \in 0..MaxChanges
        BY <1>0, <3>2, WindowBounds DEF Serve
      <4>2. x \in Requests
        BY <1>0, <4>1 DEF Requests
      <4>3. pending' = BagAdd(BagRemove(pending, r), x)
        BY <3>2 DEF Serve
      <4> HIDE DEF x
      <4>4. /\ DOMAIN pending' = DOMAIN BagRemove(pending, r) \cup {x}
            /\ DOMAIN BagRemove(pending, r) \subseteq DOMAIN pending
        BY <4>3, BagDomains
      <4> QED
        BY <1>0, <4>2, <4>4
    <3> QED
      BY <2>3, <3>1, <3>2
  <2>4. \/ UNCHANGED pending \/ \E r \in Regions : Make(r)
        \/ \E s \in Sockets : Update(s)
        \/ \E r \in DOMAIN pending : CallBack(r) \/ Serve(r)
    BY DEF WindowNext, windowVars, Login, Logout, LearnSUTs, SwitchAdapter, Reconnect,
      Shared, StartDetached, Free, Save, Choose, Change
  <2> QED
    BY <1>0, <2>1, <2>2, <2>3, <2>4
<1>7. SavedOK'
  <2>1. CASE Save
    <3>1. Path("test_case") \in Paths
      BY <1>0 DEF Path, getAdapter, Paths
    <3>2. \A t \in Types : box[t].value \in Paths
      BY <1>0, <2>1 DEF Save, Boxes
    <3> QED
      BY <2>1, <3>1, <3>2 DEF Save
  <2>2. CASE UNCHANGED saved
    BY <1>0, <2>2
  <2>3. Save \/ UNCHANGED saved
    BY DEF WindowNext, windowVars, Login, Logout, LearnSUTs, SwitchAdapter, Reconnect,
      Shared, StartDetached, Update, Make, Free, Choose, CallBack, Serve, Change
  <2> QED
    BY <2>1, <2>2, <2>3
<1> QED
  BY <1>1, <1>2, <1>3, <1>4, <1>5, <1>6, <1>7 DEF WindowTypeOK

-----------------------------------------------------------------------------
\* A step that takes no liberty it is asked about.
LEMMA Liberty ==
    \A l, c : Taking(l, c) => /\ liberties \subseteq liberties'
                              /\ c => l \in liberties'
BY DEF Taking

\* Liberties are only forgotten when a page is made with no request out.
LEMMA LibertiesGrow ==
    ASSUME [WindowNext]_windowVars
    PROVE  /\ \A l \in liberties : l # "unsettled" => l \in liberties'
           /\ liberties \subseteq liberties' \/ \E r \in Regions : Make(r)
<1>1. ASSUME NEW r \in Regions, Make(r)
      PROVE  \A l \in liberties : l # "unsettled" => l \in liberties'
  BY <1>1 DEF Make, Unsettled
<1>2. ASSUME \A r \in Regions : ~Make(r) PROVE liberties \subseteq liberties'
  BY <1>2, Liberty DEF WindowNext, windowVars, Login, Logout, LearnSUTs, SwitchAdapter,
    Reconnect, StartDetached, Update, Free, Save, Choose, CallBack, ItemsLoaded,
    ValueLoaded, Failed, Serve, Change
<1> QED
  BY <1>1, <1>2

\* A page can only be up when there was a socket, and sockets do not go.
Live == (Up # {} => getEnvirSocket # Undefined) /\ ListenersAreLive

LEMMA LiveNext ==
    ASSUME WindowTypeOK, Live, [WindowNext]_windowVars PROVE Live'
<1> USE DEF WindowTypeOK
<1>1. ASSUME UNCHANGED <<life, listeners, shared>> PROVE Live'
  BY <1>1, LibertiesGrow DEF Live, ListenersAreLive, Up, getEnvirSocket
<1>2. ASSUME UNCHANGED <<life, listeners>>, shared'.socket = shared.socket PROVE Live'
  BY <1>2, LibertiesGrow DEF Live, ListenersAreLive, Up, getEnvirSocket
<1>3. CASE Login \/ Logout \/ LearnSUTs \/ \E a \in Adapters : SwitchAdapter(a)
  <2>1. shared'.socket = shared.socket
    BY <1>3 DEF Login, Logout, LearnSUTs, SwitchAdapter, setApiKey, clearApiKey, setSUTs,
      setAdapter
  <2>2. UNCHANGED <<life, listeners>>
    BY <1>3 DEF Login, Logout, LearnSUTs, SwitchAdapter, Shared, pageVars
  <2> QED
    BY <1>2, <2>1, <2>2
<1>4. ASSUME NEW s \in Sockets, Reconnect(s) PROVE Live'
  <2>1. UNCHANGED <<life, listeners>> /\ shared'.socket = s /\ s # Undefined
    BY <1>4, NoSocketIsUndefined DEF Reconnect, Shared, pageVars, setSocketConnect
  <2>2. CASE Up # {}
    <3>1. "reconnected" \in liberties'
      BY <1>4, <2>2, Liberty DEF Reconnect
    <3> QED
      BY <2>1, <3>1 DEF Live, ListenersAreLive, getEnvirSocket
  <2>3. CASE Up = {}
    <3>1. Up' = {}
      BY <2>1, <2>3 DEF Up
    <3> QED
      BY <2>1, <2>3, <3>1, LibertiesGrow DEF Live, ListenersAreLive, getEnvirSocket
  <2> QED
    BY <2>2, <2>3
<1>5. ASSUME NEW r \in Regions, Make(r) PROVE Live'
  <2>1. UNCHANGED shared /\ life[r] = "none"
    BY <1>5 DEF Make
  <2>2. CASE getEnvirSocket = Undefined
    <3>1. life' = [life EXCEPT ![r] = "broken"] /\ UNCHANGED listeners
      BY <1>5, <2>2 DEF Make
    <3>2. Up' = Up
      BY <2>1, <3>1 DEF Up
    <3> QED
      BY <2>1, <3>1, <3>2, LibertiesGrow DEF Live, ListenersAreLive, getEnvirSocket
  <2>3. CASE getEnvirSocket # Undefined
    <3>1. /\ life' = [life EXCEPT ![r] = "up"]
          /\ listeners' = [listeners EXCEPT ![getEnvirSocket] = @ \cup {r}]
      BY <1>5, <2>3 DEF Make
    <3>2. Up' = Up \cup {r}
      BY <2>1, <3>1 DEF Up
    <3> QED
      BY <2>1, <2>3, <3>1, <3>2, LibertiesGrow DEF Live, ListenersAreLive, getEnvirSocket
  <2> QED
    BY <2>2, <2>3
<1>6. ASSUME NEW r \in Regions, Free(r) PROVE Live'
  <2>1. /\ UNCHANGED <<shared, liberties>> /\ life[r] \in {"up", "broken"}
        /\ life' = [life EXCEPT ![r] = "freed"]
    BY <1>6 DEF Free
  <2>2. Up' = Up \ {r}
    BY <2>1 DEF Up
  <2>3. CASE getEnvirSocket = Undefined
    <3>1. UNCHANGED listeners /\ Up = {}
      BY <1>6, <2>3 DEF Free, Live
    <3> QED
      BY <2>1, <2>2, <3>1 DEF Live, ListenersAreLive, getEnvirSocket
  <2>4. CASE getEnvirSocket # Undefined
    <3>1. listeners' = [listeners EXCEPT ![getEnvirSocket] = @ \ {r}]
      BY <1>6, <2>4 DEF Free
    <3> QED
      BY <2>1, <2>2, <2>4, <3>1 DEF Live, ListenersAreLive, getEnvirSocket
  <2> QED
    BY <2>3, <2>4
<1>7. \/ UNCHANGED <<life, listeners, shared>>
      \/ Login \/ Logout \/ LearnSUTs \/ \E a \in Adapters : SwitchAdapter(a)
      \/ \E s \in Sockets : Reconnect(s)
      \/ \E r \in Regions : Make(r) \/ Free(r)
  BY DEF WindowNext, windowVars, pageVars, StartDetached, Update, Save, Choose, CallBack,
    Serve, Change
<1> QED
  BY <1>1, <1>3, <1>4, <1>5, <1>6, <1>7

\* While the adapter stays, requests go out on its paths or that of the systems
\* under test, answers come from where the items of the box are, and so do the
\* items in the boxes of a page.
Home1(t) == Home(t, getAdapter)
SentFrom(r) ==
    /\ r.path \in {Sut, Undefined, getAdapter}
    /\ r.status = "ok" => r.path # Undefined /\ r.path = Home1(r.type)
    /\ r.status = "ok" /\ r.kind = "value" => r.item = r.path
BoxFrom(t) ==
    box[t] # Null => /\ box[t].items.path \in {Undefined, Home1(t)}
                     /\ box[t].value \in {Undefined, Home1(t)}
Fits ==
    "switched" \notin liberties =>
      /\ \A r \in DOMAIN pending : SentFrom(r)
      /\ Up # {} => \A t \in Types : BoxFrom(t)
      /\ SavesFit

LEMMA PathsFit ==
    ASSUME WindowTypeOK, NEW t \in Types
    PROVE  /\ SentFrom(GetItems(t))
           /\ \A i \in Paths : SentFrom(GetValue(t, i))
<1>1. Path(t) \in {Sut, getAdapter}
  BY DEF Path
<1>2. /\ GetItems(t).path = Path(t) /\ GetItems(t).status = "sent"
      /\ \A i : GetValue(t, i).path = Path(t) /\ GetValue(t, i).status = "sent"
  BY DEF GetItems, GetValue
<1> QED
  BY <1>1, <1>2 DEF SentFrom

\* A box is only set to what an answer, the user or nothing puts in it.
LEMMA FitsNext ==
    ASSUME WindowTypeOK, Fits, [WindowNext]_windowVars, "switched" \notin liberties'
    PROVE  Fits'
<1>0. /\ "switched" \notin liberties
      /\ \A r \in DOMAIN pending : SentFrom(r) /\ r \in Requests
      /\ Up # {} => \A t \in Types : BoxFrom(t)
      /\ SavesFit
  BY LibertiesGrow DEF Fits, WindowTypeOK
<1>1. ASSUME UNCHANGED <<life, box, saved>>, getAdapter' = getAdapter,
             \A r \in DOMAIN pending' : r \in DOMAIN pending \/ SentFrom(r)
      PROVE  Fits'
  BY <1>0, <1>1 DEF Fits, SentFrom, BoxFrom, Home1, SavesFit, Up
<1>2. CASE UNCHANGED <<life, box, saved, shared, pending>>
  BY <1>1, <1>2 DEF getAdapter
<1>3. CASE Login \/ Logout \/ LearnSUTs \/ \E s \in Sockets : Reconnect(s)
  <2>1. getAdapter' = getAdapter
    BY <1>3 DEF Login, Logout, LearnSUTs, Reconnect, setApiKey, clearApiKey, setSUTs,
      setSocketConnect, getAdapter, WindowTypeOK
  <2>2. UNCHANGED <<life, box, saved, pending>>
    BY <1>3 DEF Login, Logout, LearnSUTs, Reconnect, Shared, pageVars
  <2> QED
    BY <1>1, <2>1, <2>2
<1>4. ASSUME NEW a \in Adapters, SwitchAdapter(a) PROVE Fits'
  <2>1. getAdapter' = a /\ UNCHANGED <<life, box, saved, pending>>
    BY <1>4 DEF SwitchAdapter, setAdapter, getAdapter, Shared, pageVars, WindowTypeOK
  <2>2. SavesFit'
    BY <1>0, <2>1 DEF SavesFit
  <2>3. CASE getAdapter # Undefined
    <3>1. Up = {} /\ pending = EmptyBag
      BY <1>4, <2>3, Liberty DEF SwitchAdapter
    <3>2. Up' = {} /\ DOMAIN pending' = {}
      BY <2>1, <3>1, EmptyDomain DEF Up
    <3> QED
      BY <2>2, <3>2 DEF Fits
  <2>4. CASE getAdapter = Undefined
    <3>1. ASSUME NEW r \in DOMAIN pending PROVE SentFrom(r)'
      <4>1. r.type \in Types
        BY <1>0 DEF Requests
      <4> QED
        BY <1>0, <2>1, <2>4, <3>1, <4>1 DEF SentFrom, Home1, Home
    <3>2. ASSUME Up # {}, NEW t \in Types PROVE BoxFrom(t)'
      BY <1>0, <2>1, <2>4, <3>2 DEF BoxFrom, Home1, Home
    <3>3. Up' = Up
      BY <2>1 DEF Up
    <3> QED
      BY <2>1, <2>2, <3>1, <3>2, <3>3 DEF Fits
  <2> QED
    BY <2>3, <2>4
<1>5. ASSUME NEW r \in Regions, Make(r) PROVE Fits'
  <2>1. UNCHANGED <<shared, saved>> /\ box' = [t \in Types |-> NewBox]
    BY <1>5 DEF Make
  <2>2. \A q \in DOMAIN pending' : SentFrom(q)
    <3> DEFINE mid == With(pending, GetItems("sgsn-mme"))
    <3>1. pending' = With(mid, GetItems("ue-group"))
      BY <1>5 DEF Make
    <3>2. DOMAIN mid \subseteq DOMAIN pending \cup {GetItems("sgsn-mme")}
      BY BagDomains
    <3> HIDE DEF mid
    <3>3. DOMAIN pending' \subseteq DOMAIN mid \cup {GetItems("ue-group")}
      BY <3>1, BagDomains
    <3> QED
      BY <1>0, <3>2, <3>3, PathsFit DEF Types
  <2>3. \A t \in Types : BoxFrom(t)'
    BY <2>1 DEF BoxFrom, NewBox, NoItems
  <2>4. \A q : SentFrom(q)' <=> SentFrom(q)
    BY <2>1 DEF SentFrom, Home1, getAdapter
  <2> QED
    BY <1>0, <2>1, <2>2, <2>3, <2>4 DEF Fits, SavesFit
<1>6. ASSUME NEW r \in Regions, Free(r) PROVE Fits'
  <2>1. /\ UNCHANGED <<shared, saved, pending>>
        /\ UNCHANGED box \/ box' = [t \in Types |-> Null]
        /\ life[r] \in {"up", "broken"} /\ life' = [life EXCEPT ![r] = "freed"]
    BY <1>6 DEF Free
  <2>2. Up' \subseteq Up
    BY <2>1 DEF Up, WindowTypeOK
  <2>3. Up' # {} => \A t \in Types : BoxFrom(t)'
    BY <1>0, <2>1, <2>2 DEF BoxFrom, Home1, getAdapter
  <2> QED
    BY <1>0, <2>1, <2>3 DEF Fits, SavesFit, SentFrom, Home1, getAdapter
<1>7. ASSUME NEW s \in Sockets, Update(s) PROVE Fits'
  <2> DEFINE t == Head(inbox[s]).resource
  <2>1. t \in Types /\ (box[t] # Null => box[t].value \in Paths)
    <3>1. t \in Types
      BY <1>7, UpdateSends DEF Messages
    <3> QED
      BY <3>1 DEF WindowTypeOK, Boxes
  <2>2. \A r \in DOMAIN pending' \ DOMAIN pending : SentFrom(r)
    <3>1. \A r \in DOMAIN pending' \ DOMAIN pending :
            \/ r = GetItems(t)
            \/ box[t] # Null /\ r = GetValue(t, box[t].value)
      BY <1>7, UpdateSends
    <3> QED
      BY <2>1, <3>1, PathsFit
  <2>3. UNCHANGED <<shared, life, box, saved>>
    BY <1>7 DEF Update, pageVars
  <2> QED
    BY <1>1, <2>2, <2>3 DEF getAdapter
<1>8. ASSUME NEW t \in Types, Choose(t) PROVE Fits'
  <2>1. /\ UNCHANGED <<shared, life, saved, pending>> /\ Up # {} /\ box[t] # Null
        /\ box' = [box EXCEPT ![t].value = box[t].items.path]
    BY <1>8 DEF Choose, pageVars
  <2>2. box[t] \in Boxes
    BY <2>1 DEF WindowTypeOK
  <2>3. /\ box'[t].items = box[t].items /\ box'[t].value = box[t].items.path
        /\ \A u \in Types : u # t => box'[u] = box[u]
    BY <2>1, <2>2 DEF WindowTypeOK, Boxes
  <2>4. \A u \in Types : BoxFrom(u)'
    BY <1>0, <2>1, <2>3 DEF BoxFrom, Home1, getAdapter
  <2> QED
    BY <1>0, <2>1, <2>4 DEF Fits, SavesFit, SentFrom, Home1, getAdapter
<1>9. CASE Save
  <2>1. /\ UNCHANGED <<shared, life, box, pending>> /\ Up # {}
        /\ \A t \in Types : box[t] # Null /\ box[t].value # Undefined
        /\ saved' = [path |-> Path("test_case"), refs |-> [t \in Types |-> box[t].value]]
    BY <1>9 DEF Save, pageVars
  <2>2. Path("test_case") = getAdapter
    BY SutsAreBoxes DEF Path, getSUTs, WindowTypeOK, Types
  <2>3. \A t \in Types : box[t].value = Home(t, getAdapter)
    BY <1>0, <2>1 DEF BoxFrom, Home1
  <2>4. SavesFit'
    BY <2>1, <2>2, <2>3 DEF SavesFit
  <2> QED
    BY <1>0, <2>1, <2>4 DEF Fits, SentFrom, BoxFrom, Home1, getAdapter, Up
<1>10. ASSUME NEW r \in DOMAIN pending, CallBack(r) PROVE Fits'
  <2>1. /\ UNCHANGED <<shared, life, saved>> /\ pending' = BagRemove(pending, r)
    BY <1>10 DEF CallBack, ItemsLoaded, ValueLoaded, Failed, Rest, pageVars
  <2>2. DOMAIN pending' \subseteq DOMAIN pending
    BY <2>1, BagDomains
  <2>3. r.type \in Types /\ SentFrom(r)
    BY <1>0 DEF Requests
  <2>4. ASSUME NEW b, SetBox(r.type, b), Up # {},
               box[r.type] # Null => /\ b.items.path \in {Undefined, Home1(r.type)}
                                     /\ b.value \in {Undefined, Home1(r.type)}
        PROVE  \A t \in Types : BoxFrom(t)'
    <3>1. /\ \A t \in Types : t # r.type => box'[t] = box[t]
          /\ box'[r.type] = IF box[r.type] = Null THEN Null ELSE b
      BY <2>3, <2>4 DEF SetBox, WindowTypeOK
    <3> QED
      BY <1>0, <2>1, <2>3, <2>4, <3>1 DEF BoxFrom, Home1, getAdapter
  <2>5. ASSUME Up # {} PROVE \A t \in Types : BoxFrom(t)'
    <3>1. CASE ItemsLoaded(r)
      <4>1. SetBox(r.type, [items |-> [path |-> r.path, version |-> r.version],
                            value |-> box[r.type].value]) /\ r.status = "ok"
        BY <3>1 DEF ItemsLoaded
      <4> QED
        BY <1>0, <2>3, <2>4, <2>5, <4>1 DEF SentFrom, BoxFrom
    <3>2. ASSUME NEW v \in {Undefined, Home1(r.type)},
                 SetBox(r.type, [box[r.type] EXCEPT !.value = v])
          PROVE  \A t \in Types : BoxFrom(t)'
      <4>1. box[r.type] # Null => box[r.type] \in Boxes
        BY <2>3 DEF WindowTypeOK
      <4> QED
        BY <1>0, <2>3, <2>4, <2>5, <3>2, <4>1 DEF BoxFrom, Boxes
    <3>3. CASE ValueLoaded(r)
      BY <2>3, <3>2, <3>3 DEF ValueLoaded, SentFrom
    <3>4. CASE Failed(r)
      <4>1. CASE UNCHANGED box
        BY <1>0, <2>1, <2>5, <4>1 DEF BoxFrom, Home1, getAdapter
      <4> QED
        BY <3>2, <3>4, <4>1 DEF Failed
    <3> QED
      BY <1>10, <3>1, <3>3, <3>4 DEF CallBack
  <2>6. Up' = Up
    BY <2>1 DEF Up
  <2> QED
    BY <1>0, <2>1, <2>2, <2>5, <2>6 DEF Fits, SavesFit, SentFrom, Home1, getAdapter
<1>11. ASSUME NEW r \in DOMAIN pending, Serve(r) PROVE Fits'
  <2> DEFINE x == [r EXCEPT !.status = "ok",
                      !.version = IF r.kind = "items"
                                  THEN offers[<<r.path, r.type>>] ELSE 0]
  <2>1. /\ UNCHANGED <<shared, life, box, saved>> /\ r.status = "sent"
        /\ <<r.path, r.type>> \in Spaces /\ (r.kind = "value" => r.item = r.path)
        /\ pending' = BagAdd(BagRemove(pending, r), x)
    BY <1>11 DEF Serve, pageVars
  <2>2. r \in Requests /\ SentFrom(r)
    BY <1>0
  <2>3. x.path = r.path /\ x.type = r.type /\ x.kind = r.kind /\ x.item = r.item
    BY <2>2 DEF Requests
  <2>4. r.path # Undefined /\ r.path = Home1(r.type)
    <3>1. PICK t \in Types, a \in Adapters : <<r.path, r.type>> = <<Home(t, a), t>>
      BY <2>1 DEF Spaces
    <3>2. r.type = t /\ r.path = Home(t, a)
      BY <3>1
    <3>3. a # Sut /\ a # Undefined /\ Sut # Undefined
      BY SutIsNoAdapter, EverybodyIsNobody
    <3> QED
      BY <2>2, <3>2, <3>3 DEF SentFrom, Home1, Home
  <2>5. SentFrom(x)
    BY <2>1, <2>2, <2>3, <2>4 DEF SentFrom
  <2> HIDE DEF x
  <2>6. DOMAIN pending' \subseteq DOMAIN pending \cup {x}
    <3>1. /\ DOMAIN pending' = DOMAIN BagRemove(pending, r) \cup {x}
          /\ DOMAIN BagRemove(pending, r) \subseteq DOMAIN pending
      BY <2>1, BagDomains
    <3> QED
      BY <3>1
  <2> QED
    BY <1>1, <2>1, <2>5, <2>6 DEF getAdapter
<1>12. \/ UNCHANGED <<life, box, saved, shared, pending>>
       \/ Login \/ Logout \/ LearnSUTs \/ \E s \in Sockets : Reconnect(s) \/ Update(s)
       \/ \E a \in Adapters : SwitchAdapter(a)
       \/ \E r \in Regions : Make(r) \/ Free(r)
       \/ Save \/ \E t \in Types : Choose(t)
       \/ \E r \in DOMAIN pending : CallBack(r) \/ Serve(r)
  BY DEF WindowNext, windowVars, pageVars, StartDetached, Change
<1> QED
  BY <1>2, <1>3, <1>4, <1>5, <1>6, <1>7, <1>8, <1>9, <1>10, <1>11, <1>12

-----------------------------------------------------------------------------
\* While liberties = {} there is one page at a time, and each box of it lists
\* what is offered, or a request that will bring it is out, or a message that
\* will cause one is on its way.
Here(r) == life[r] \in {"up", "broken"}
Space(t) == <<Home1(t), t>>
Current(t) == box[t].items = [path |-> Home1(t), version |-> offers[Space(t)]]
Brings(r, t) ==
    /\ r.kind = "items" /\ r.type = t /\ r.path = Home1(t)
    /\ r.status = "sent" \/ r.version = offers[Space(t)]
Tells(m, t) == m.resource = t /\ isMsg4CurrentAdapter(m)
Told(t) == \E i \in 1..Len(inbox[getEnvirSocket]) : Tells(inbox[getEnvirSocket][i], t)
Coming(t) == Current(t) \/ (\E r \in DOMAIN pending : Brings(r, t)) \/ Told(t)
InTime(r) ==
    r.kind = "items" /\ r.status = "ok" =>
      <<r.path, r.type>> \in Spaces /\ r.version <= offers[<<r.path, r.type>>]
SetUp == isLogin /\ getAdapter # Undefined /\ getSUTs = Suts
Alone == \A p, q \in Regions : Here(p) /\ Here(q) => p = q
Catch ==
    liberties = {} =>
      /\ \A r \in DOMAIN pending : InTime(r)
      /\ Up # {} => SetUp /\ Alone /\ \A t \in Types : box[t] # Null /\ Coming(t)

LEMMA Homes ==
    ASSUME WindowTypeOK, SetUp, NEW t \in Types
    PROVE  /\ getAdapter \in Adapters /\ Path(t) = Home1(t)
           /\ Space(t) \in Spaces /\ offers[Space(t)] \in 0..MaxChanges
<1>1. getAdapter \in Adapters /\ getSUTs = Suts
  BY DEF SetUp, getAdapter, WindowTypeOK
<1>2. Path(t) = Home1(t)
  BY <1>1 DEF Path, Home1, Home
<1>3. Space(t) \in Spaces
  BY <1>1 DEF Space, Spaces, Home1
<1> QED
  BY <1>1, <1>2, <1>3 DEF WindowTypeOK

\* The steps that do not touch what a page has.
LEMMA CatchAround ==
    ASSUME WindowTypeOK, Catch, liberties = {}, liberties' = {},
           \/ UNCHANGED <<shared, life, inbox, box, pending, offers>>
           \/ Login \/ Logout \/ LearnSUTs
           \/ \E a \in Adapters : SwitchAdapter(a)
           \/ \E s \in Sockets : Reconnect(s)
    PROVE  Catch'
<1>0. \A r \in DOMAIN pending : InTime(r)
  BY DEF Catch
<1>1. CASE UNCHANGED <<shared, life, inbox, box, pending, offers>>
  BY <1>0, <1>1 DEF Catch, InTime, SetUp, Alone, Here, Coming, Current, Brings, Told, Tells,
    Space, Home1, isMsg4CurrentAdapter, getAdapter, getSUTs, getEnvirSocket, isLogin, Up
<1>2. ASSUME Up = {}, UNCHANGED <<life, pending, offers>> PROVE Catch'
  BY <1>0, <1>2 DEF Catch, InTime, Up
<1>3. CASE \/ Login \/ Logout \/ LearnSUTs
           \/ \E a \in Adapters : SwitchAdapter(a)
           \/ \E s \in Sockets : Reconnect(s)
  <2>1. UNCHANGED <<life, pending, offers>>
    BY <1>3 DEF Login, Logout, LearnSUTs, SwitchAdapter, Reconnect, Shared, pageVars
  <2>2. Up # {} => SetUp
    BY <1>0 DEF Catch
  <2>3. Up = {}
    BY <1>3, <2>2, Liberty DEF Login, Logout, LearnSUTs, SwitchAdapter, Reconnect, SetUp
  <2> QED
    BY <1>2, <2>1, <2>3
<1> QED
  BY <1>1, <1>3

\* A new page asks for the items of both boxes.
LEMMA CatchMake ==
    ASSUME WindowTypeOK, Catch, liberties' = {},
           NEW r \in Regions, Make(r)
    PROVE  Catch'
<1> DEFINE mid == With(pending, GetItems("sgsn-mme"))
<1>0. \A q \in DOMAIN pending : InTime(q)
  <2>1. CASE pending = EmptyBag
    BY <2>1, EmptyDomain
  <2>2. CASE pending # EmptyBag
    <3>1. liberties = {}
      BY <2>2 DEF Make, Unsettled
    <3> QED
      BY <3>1 DEF Catch
  <2> QED
    BY <2>1, <2>2
<1>1. /\ UNCHANGED <<shared, inbox, offers>> /\ isLogin
      /\ box' = [t \in Types |-> NewBox] /\ pending' = With(mid, GetItems("ue-group"))
  BY DEF Make
<1>2. DOMAIN mid = DOMAIN pending \cup {GetItems("sgsn-mme")}
  BY <1>1, BagDomains
<1> HIDE DEF mid
<1>3. DOMAIN pending' = DOMAIN mid \cup {GetItems("ue-group")}
  BY <1>1, BagDomains
<1>4. \A t \in Types : GetItems(t) \in DOMAIN pending'
  BY <1>2, <1>3 DEF Types
<1>5. \A q \in DOMAIN pending' : InTime(q)'
  <2>1. \A t : GetItems(t).status = "sent"
    BY DEF GetItems
  <2> QED
    BY <1>0, <1>1, <1>2, <1>3, <2>1 DEF InTime
<1>6. getAdapter # Undefined /\ getSUTs = Suts /\ \A q \in Regions : ~Here(q)
  <2>1. ~(\/ getAdapter = Undefined \/ getSUTs # Suts
          \/ \E q \in Regions : life[q] \in {"up", "broken"})
    BY DEF Make, Unsettled
  <2> QED
    BY <2>1 DEF Here
<1>7. SetUp /\ SetUp'
  BY <1>1, <1>6 DEF SetUp, isLogin, getAdapter, getSUTs
<1>8. Alone'
  <2>1. \A q \in Regions : q # r => life'[q] = life[q]
    BY DEF Make, WindowTypeOK
  <2> QED
    BY <1>6, <2>1 DEF Alone, Here
<1>9. ASSUME NEW t \in Types PROVE box'[t] # Null /\ Coming(t)'
  <2>1. NewBox \in Boxes
    BY WindowBounds DEF NewBox, Boxes, Items, NoItems, Paths
  <2>2. PICK q \in DOMAIN pending' : q = GetItems(t)
    BY <1>4
  <2>3. Brings(q, t)'
    <3>1. q.kind = "items" /\ q.type = t /\ q.path = Path(t) /\ q.status = "sent"
      BY <2>2 DEF GetItems
    <3>2. Path(t) = Home1(t)
      BY <1>7, Homes
    <3> QED
      BY <1>1, <3>1, <3>2 DEF Brings, Home1, getAdapter
  <2>4. Coming(t)'
    BY <2>3 DEF Coming
  <2> QED
    BY <1>1, <2>1, <2>4, NullIsNoBox
<1> QED
  BY <1>5, <1>7, <1>8, <1>9 DEF Catch

LEMMA CatchFree ==
    ASSUME WindowTypeOK, Catch, liberties = {}, liberties' = {},
           NEW r \in Regions, Free(r)
    PROVE  Catch'
<1>0. \A q \in DOMAIN pending : InTime(q)
  BY DEF Catch
<1>1. /\ UNCHANGED <<pending, offers>> /\ Here(r)
      /\ life' = [life EXCEPT ![r] = "freed"]
  BY DEF Free, Here
<1>2. Up' = {}
  <2>1. Up' = Up \ {r}
    BY <1>1 DEF Up, WindowTypeOK
  <2>2. Up # {} => Alone
    BY <1>0 DEF Catch
  <2> QED
    BY <1>1, <2>1, <2>2 DEF Alone, Here, Up
<1> QED
  BY <1>0, <1>1, <1>2 DEF Catch, InTime

\* A message makes the page ask.
LEMMA CatchUpdate ==
    ASSUME WindowTypeOK, Catch, Live, liberties = {}, liberties' = {},
           NEW s \in Sockets, Update(s)
    PROVE  Catch'
<1> DEFINE msg == Head(inbox[s])
<1>0. \A q \in DOMAIN pending : InTime(q)
  BY DEF Catch
<1>1. /\ UNCHANGED <<shared, life, box, offers>> /\ inbox[s] # <<>>
      /\ inbox' = [inbox EXCEPT ![s] = Tail(@)]
  BY DEF Update, pageVars
<1>2. /\ msg \in Messages /\ DOMAIN pending \subseteq DOMAIN pending'
      /\ \A q \in DOMAIN pending' \ DOMAIN pending :
           q = GetItems(msg.resource) \/ \E i : q = GetValue(msg.resource, i)
      /\ isLogin /\ isMsg4CurrentAdapter(msg) /\ listeners[s] # {}
           => GetItems(msg.resource) \in DOMAIN pending'
  BY UpdateSends
<1> HIDE DEF msg
<1>3. \A q \in DOMAIN pending' : InTime(q)'
  <2>1. \A t, i : GetItems(t).status = "sent" /\ GetValue(t, i).status = "sent"
    BY DEF GetItems, GetValue
  <2> QED
    BY <1>0, <1>1, <1>2, <2>1 DEF InTime
<1>4. ASSUME Up # {}, NEW t \in Types PROVE box'[t] # Null /\ Coming(t)'
  <2>1. SetUp /\ box[t] # Null /\ Coming(t)
    BY <1>0, <1>4 DEF Catch
  <2>2. CASE Current(t) \/ \E q \in DOMAIN pending : Brings(q, t)
    BY <1>1, <1>2, <2>1, <2>2 DEF Coming, Current, Brings, Space, Home1, getAdapter
  <2>3. ASSUME NEW i \in 1..Len(inbox[getEnvirSocket]),
               Tells(inbox[getEnvirSocket][i], t)
        PROVE  Coming(t)'
    <3>1. getEnvirSocket \in Sockets /\ \A u \in Sockets : inbox[u] \in Seq(Messages)
      BY <1>4 DEF Live, getEnvirSocket, WindowTypeOK
    <3>2. CASE s # getEnvirSocket
      <4>1. inbox'[getEnvirSocket] = inbox[getEnvirSocket]
        BY <1>1, <3>2 DEF WindowTypeOK
      <4> QED
        BY <1>1, <2>3, <4>1 DEF Coming, Told, Tells, isMsg4CurrentAdapter, getAdapter,
          getEnvirSocket
    <3>3. CASE s = getEnvirSocket /\ i # 1
      <4>1. inbox'[s] = Tail(inbox[s])
        BY <1>1 DEF WindowTypeOK
      <4>2. /\ i - 1 \in 1..Len(Tail(inbox[s]))
            /\ Tail(inbox[s])[i - 1] = inbox[s][i]
        BY <1>1, <2>3, <3>1, <3>3
      <4> QED
        BY <1>1, <2>3, <3>3, <4>1, <4>2 DEF Coming, Told, Tells, isMsg4CurrentAdapter,
          getAdapter, getEnvirSocket
    <3>4. CASE s = getEnvirSocket /\ i = 1
      <4>1. msg = inbox[s][i]
        BY <1>1, <3>1, <3>4 DEF msg
      <4>2. msg.resource = t /\ isMsg4CurrentAdapter(msg) /\ listeners[s] = Up
        BY <1>0, <2>3, <3>4, <4>1 DEF Tells, Live, ListenersAreLive
      <4>3. GetItems(t) \in DOMAIN pending'
        BY <1>2, <1>4, <2>1, <4>2 DEF SetUp
      <4>4. Brings(GetItems(t), t)
        <5>1. /\ GetItems(t).kind = "items" /\ GetItems(t).type = t
              /\ GetItems(t).path = Path(t) /\ GetItems(t).status = "sent"
          BY DEF GetItems
        <5> QED
          BY <2>1, <5>1, Homes DEF Brings
      <4> QED
        BY <1>1, <4>3, <4>4 DEF Coming, Brings, Space, Home1, getAdapter
    <3> QED
      BY <3>2, <3>3, <3>4
  <2> QED
    BY <1>1, <2>1, <2>2, <2>3 DEF Coming, Told
<1>5. /\ Up' = Up /\ SetUp' = SetUp /\ Alone' = Alone
  BY <1>1 DEF Up, SetUp, Alone, Here, isLogin, getAdapter, getSUTs
<1> QED
  BY <1>0, <1>3, <1>4, <1>5 DEF Catch

\* What the user chooses leaves the items alone.
LEMMA CatchChoose ==
    ASSUME WindowTypeOK, Catch, liberties = {}, liberties' = {},
           NEW u \in Types, Choose(u)
    PROVE  Catch'
<1>0. \A q \in DOMAIN pending : InTime(q)
  BY DEF Catch
<1>1. /\ UNCHANGED <<shared, life, inbox, pending, offers>> /\ box[u] # Null /\ Up # {}
      /\ box' = [box EXCEPT ![u].value = box[u].items.path]
  BY DEF Choose, pageVars
<1>2. \A t \in Types : box[t] # Null => box'[t] # Null /\ box'[t].items = box[t].items
  <2>1. box[u] \in Boxes
    BY <1>1 DEF WindowTypeOK
  <2>2. box'[u] \in Boxes /\ box'[u].items = box[u].items
    BY <1>1, <2>1 DEF WindowTypeOK, Boxes, Items
  <2> QED
    BY <1>1, <2>2, NullIsNoBox DEF WindowTypeOK
<1> QED
  BY <1>0, <1>1, <1>2 DEF Catch, InTime, SetUp, Alone, Here, Coming, Current, Brings, Told,
    Tells, Space, Home1, isMsg4CurrentAdapter, getAdapter, getSUTs, getEnvirSocket, isLogin, Up

\* An answer that is called back brings what is offered, or is older; older
\* than the list it replaces only if it was overtaken.
LEMMA CatchCallBack ==
    ASSUME WindowTypeOK, Catch, Fits, liberties = {}, liberties' = {},
           NEW r \in DOMAIN pending, CallBack(r)
    PROVE  Catch'
<1>0. /\ \A q \in DOMAIN pending : InTime(q) /\ SentFrom(q)
      /\ r \in Requests /\ r.type \in Types
  <2>1. r \in Requests
    BY DEF WindowTypeOK
  <2> QED
    BY <2>1 DEF Catch, Fits, Requests
<1>1. /\ UNCHANGED <<shared, life, inbox, offers>> /\ pending' = BagRemove(pending, r)
      /\ ItemsLoaded(r) \/ ValueLoaded(r) \/ Failed(r)
  BY DEF CallBack, ItemsLoaded, ValueLoaded, Failed, Rest, pageVars
<1>2. /\ DOMAIN pending' \subseteq DOMAIN pending
      /\ DOMAIN pending \ {r} \subseteq DOMAIN pending'
  BY <1>1, BagDomains
<1>3. \A q \in DOMAIN pending' : InTime(q)'
  BY <1>0, <1>1, <1>2 DEF InTime
<1>4. ASSUME Up # {}, NEW t \in Types PROVE box'[t] # Null /\ Coming(t)'
  <2>1. SetUp /\ Coming(t) /\ \A u \in Types : box[u] # Null /\ box[u] \in Boxes
    BY <1>0, <1>4 DEF Catch, WindowTypeOK
  <2>2. ASSUME NEW b \in Boxes, SetBox(r.type, b)
        PROVE  /\ box'[r.type] = b /\ box'[t] # Null
               /\ t # r.type => box'[t] = box[t]
    BY <1>0, <2>1, <2>2, NullIsNoBox DEF SetBox, WindowTypeOK
  <2>3. ASSUME box'[t] # Null, box'[t].items = box[t].items,
               ~(r.kind = "items" /\ r.type = t)
        PROVE  box'[t] # Null /\ Coming(t)'
    <3>1. \A q \in DOMAIN pending : Brings(q, t) => q \in DOMAIN pending'
      BY <1>2, <2>3 DEF Brings
    <3> QED
      BY <1>1, <2>1, <2>3, <3>1 DEF Coming, Current, Brings, Told, Tells, Space, Home1,
        isMsg4CurrentAdapter, getAdapter, getEnvirSocket
  <2>4. CASE ItemsLoaded(r)
    <3> DEFINE b == [items |-> [path |-> r.path, version |-> r.version],
                     value |-> box[r.type].value]
    <3>1. /\ SetBox(r.type, b) /\ r.kind = "items" /\ r.status = "ok"
          /\ ~(/\ box[r.type] # Null /\ box[r.type].items.path = r.path
               /\ box[r.type].items.version > r.version)
      BY <2>4, Liberty DEF ItemsLoaded
    <3>2. b \in Boxes
      BY <1>0, <2>1 DEF Boxes, Items, Requests
    <3>3. box'[r.type] = b /\ box'[t] # Null /\ (t # r.type => box'[t] = box[t])
      BY <2>2, <3>1, <3>2
    <3>4. CASE t # r.type
      BY <2>3, <3>3, <3>4
    <3>5. CASE t = r.type
      <4>1. /\ r.path = Home1(t) /\ r.version <= offers[Space(t)]
            /\ r.version \in Int /\ offers[Space(t)] \in Int
        <5>1. r.path = Home1(t)
          BY <1>0, <3>1, <3>5 DEF SentFrom
        <5>2. r.version <= offers[Space(t)]
          BY <1>0, <3>1, <3>5, <5>1 DEF InTime, Space
        <5>3. r.version \in Int /\ offers[Space(t)] \in Int
          BY <1>0, <2>1, Homes DEF Requests
        <5> QED
          BY <5>1, <5>2, <5>3
      <4>2. box'[t].items = [path |-> r.path, version |-> r.version]
        BY <3>3, <3>5
      <4>3. CASE r.version = offers[Space(t)]
        BY <1>1, <3>3, <4>1, <4>2, <4>3 DEF Coming, Current, Space, Home1, getAdapter
      <4>4. CASE r.version # offers[Space(t)]
        <5>1. ~Current(t)
          <6>1. ASSUME Current(t) PROVE FALSE
            <7>1. /\ box[t].items.path = r.path
                  /\ box[t].items.version = offers[Space(t)]
              BY <4>1, <6>1 DEF Current
            <7> QED
              BY <2>1, <3>1, <3>5, <4>1, <4>4, <7>1
          <6> QED
            BY <6>1
        <5>2. \A q \in DOMAIN pending : Brings(q, t) => q \in DOMAIN pending'
          BY <1>2, <3>1, <4>4 DEF Brings
        <5>3. Coming(t)'
          BY <1>1, <2>1, <5>1, <5>2 DEF Coming, Brings, Told, Tells, Space, Home1,
            isMsg4CurrentAdapter, getAdapter, getEnvirSocket
        <5> QED
          BY <3>3, <5>3
      <4> QED
        BY <4>3, <4>4
    <3> QED
      BY <3>4, <3>5
  <2>5. ASSUME NEW v \in Paths, r.kind = "value",
               SetBox(r.type, [box[r.type] EXCEPT !.value = v])
        PROVE  box'[t] # Null /\ Coming(t)'
    <3> DEFINE b == [box[r.type] EXCEPT !.value = v]
    <3>1. b \in Boxes /\ b.items = box[r.type].items
      BY <1>0, <2>1 DEF Boxes
    <3>2. box'[r.type] = b /\ box'[t] # Null /\ (t # r.type => box'[t] = box[t])
      BY <2>2, <2>5, <3>1
    <3> QED
      BY <2>3, <2>5, <3>1, <3>2
  <2>6. CASE ValueLoaded(r)
    BY <1>0, <2>5, <2>6 DEF ValueLoaded, Requests
  <2>7. CASE Failed(r)
    <3>1. r.kind # "items"
      BY <2>7, Liberty DEF Failed
    <3>2. r.kind = "value" /\ Undefined \in Paths
      BY <1>0, <3>1 DEF Requests, Paths
    <3> QED
      BY <2>5, <2>7, <3>1, <3>2 DEF Failed
  <2> QED
    BY <1>1, <2>4, <2>6, <2>7
<1>5. /\ Up' = Up /\ SetUp' = SetUp /\ Alone' = Alone
  BY <1>1 DEF Up, SetUp, Alone, Here, isLogin, getAdapter, getSUTs
<1> QED
  BY <1>0, <1>3, <1>4, <1>5 DEF Catch

\* The server answers with what it offers then.
LEMMA CatchServe ==
    ASSUME WindowTypeOK, Catch, liberties = {}, liberties' = {},
           NEW r \in DOMAIN pending, Serve(r)
    PROVE  Catch'
<1> DEFINE x == [r EXCEPT !.status = "ok",
                   !.version = IF r.kind = "items"
                               THEN offers[<<r.path, r.type>>] ELSE 0]
<1>0. /\ \A q \in DOMAIN pending : InTime(q)
      /\ r \in Requests /\ r.type \in Types
  <2>1. r \in Requests
    BY DEF WindowTypeOK
  <2> QED
    BY <2>1 DEF Catch, Requests
<1>1. /\ UNCHANGED <<shared, life, inbox, box, offers>> /\ <<r.path, r.type>> \in Spaces
      /\ pending' = BagAdd(BagRemove(pending, r), x)
  BY DEF Serve, pageVars
<1>2. /\ x.kind = r.kind /\ x.type = r.type /\ x.path = r.path
      /\ r.kind = "items" => x.version = offers[<<r.path, r.type>>]
  BY <1>0 DEF Requests
<1>3. offers[<<r.path, r.type>>] \in Int
  BY <1>1 DEF WindowTypeOK
<1> HIDE DEF x
<1>4. /\ DOMAIN pending' = DOMAIN BagRemove(pending, r) \cup {x}
      /\ DOMAIN BagRemove(pending, r) \subseteq DOMAIN pending
      /\ DOMAIN pending \ {r} \subseteq DOMAIN BagRemove(pending, r)
  BY <1>1, BagDomains
<1>5. \A q \in DOMAIN pending' : InTime(q)'
  BY <1>0, <1>1, <1>2, <1>3, <1>4 DEF InTime
<1>6. ASSUME Up # {}, NEW t \in Types PROVE box'[t] # Null /\ Coming(t)'
  <2>1. box[t] # Null /\ Coming(t)
    BY <1>0, <1>6 DEF Catch
  <2>2. Brings(r, t) => Brings(x, t)
    BY <1>2 DEF Brings, Space
  <2>3. \A q \in DOMAIN pending : q = r \/ q \in DOMAIN pending'
    BY <1>4
  <2>4. x \in DOMAIN pending'
    BY <1>4
  <2> QED
    BY <1>1, <2>1, <2>2, <2>3, <2>4 DEF Coming, Current, Brings, Told, Tells, Space, Home1,
      isMsg4CurrentAdapter, getAdapter, getEnvirSocket
<1>7. /\ Up' = Up /\ SetUp' = SetUp /\ Alone' = Alone
  BY <1>1 DEF Up, SetUp, Alone, Here, isLogin, getAdapter, getSUTs
<1> QED
  BY <1>0, <1>5, <1>6, <1>7 DEF Catch

\* The page is told of a change of what its box lists.
LEMMA CatchChange ==
    ASSUME WindowTypeOK, Catch, Live, liberties = {}, liberties' = {},
           NEW sp \in Spaces, Change(sp)
    PROVE  Catch'
<1> DEFINE msg == [adapter |-> IF sp[1] = Sut THEN EveryAdapter ELSE sp[1],
                   resource |-> sp[2]]
<1>0. \A q \in DOMAIN pending : InTime(q)
  BY DEF Catch
<1>1. /\ UNCHANGED <<shared, life, box, pending>>
      /\ offers' = [offers EXCEPT ![sp] = @ + 1]
  BY DEF Change, pageVars
<1>2. inbox' = [s \in Sockets |-> IF s = getEnvirSocket \/ listeners[s] # {}
                                  THEN Append(inbox[s], msg) ELSE inbox[s]]
  BY DEF Change
<1>3. \A q \in DOMAIN pending' : InTime(q)'
  <2>1. \A y \in Spaces : offers[y] \in Int /\ offers'[y] \in Int /\ offers[y] <= offers'[y]
    BY <1>1 DEF WindowTypeOK
  <2>2. ASSUME NEW q \in DOMAIN pending, q.kind = "items", q.status = "ok"
        PROVE  /\ <<q.path, q.type>> \in Spaces
               /\ q.version <= offers'[<<q.path, q.type>>]
    <3>1. q.version \in Int /\ <<q.path, q.type>> \in Spaces
          /\ q.version <= offers[<<q.path, q.type>>]
      BY <1>0, <2>2 DEF InTime, WindowTypeOK, Requests
    <3> QED
      BY <2>1, <3>1
  <2> QED
    BY <1>1, <2>2 DEF InTime
<1>4. ASSUME Up # {}, NEW t \in Types PROVE box'[t] # Null /\ Coming(t)'
  <2>1. SetUp /\ box[t] # Null /\ Coming(t)
    BY <1>0, <1>4 DEF Catch
  <2>2. /\ getEnvirSocket \in Sockets /\ inbox[getEnvirSocket] \in Seq(Messages)
        /\ Space(t) \in Spaces /\ getAdapter \in Adapters
    <3>1. getEnvirSocket \in Sockets
      BY <1>4 DEF Live, getEnvirSocket, WindowTypeOK
    <3> QED
      BY <2>1, <3>1, Homes DEF WindowTypeOK
  <2>3. inbox'[getEnvirSocket] = Append(inbox[getEnvirSocket], msg)
    BY <1>2, <2>2
  <2> HIDE DEF msg
  <2>4. CASE sp = Space(t)
    <3>1. sp[1] = Home1(t) /\ sp[2] = t
      BY <2>4 DEF Space
    <3>2. Tells(msg, t)
      <4>1. msg.resource = t /\ msg.adapter \in {getAdapter, EveryAdapter}
        BY <3>1 DEF msg, Home1, Home
      <4> QED
        BY <4>1 DEF Tells, isMsg4CurrentAdapter
    <3> DEFINE k == Len(inbox[getEnvirSocket]) + 1
    <3>3. k \in 1..Len(inbox'[getEnvirSocket]) /\ inbox'[getEnvirSocket][k] = msg
      BY <2>2, <2>3
    <3> HIDE DEF k
    <3>4. Told(t)'
      BY <1>1, <3>2, <3>3 DEF Told, Tells, isMsg4CurrentAdapter, getAdapter, getEnvirSocket
    <3> QED
      BY <1>1, <2>1, <3>4 DEF Coming
  <2>5. CASE sp # Space(t)
    <3>1. offers'[Space(t)] = offers[Space(t)]
      BY <1>1, <2>2, <2>5 DEF WindowTypeOK
    <3>2. CASE Current(t) \/ \E q \in DOMAIN pending : Brings(q, t)
      BY <1>1, <2>1, <3>1, <3>2 DEF Coming, Current, Brings, Space, Home1, getAdapter
    <3>3. ASSUME NEW i \in 1..Len(inbox[getEnvirSocket]),
                 Tells(inbox[getEnvirSocket][i], t)
          PROVE  Told(t)'
      <4>1. /\ i \in 1..Len(inbox'[getEnvirSocket])
            /\ inbox'[getEnvirSocket][i] = inbox[getEnvirSocket][i]
        BY <2>2, <2>3, <3>3
      <4> QED
        BY <1>1, <3>3, <4>1 DEF Told, Tells, isMsg4CurrentAdapter, getAdapter, getEnvirSocket
    <3> QED
      BY <1>1, <2>1, <3>2, <3>3 DEF Coming, Told
  <2> QED
    BY <2>4, <2>5
<1>5. /\ Up' = Up /\ SetUp' = SetUp /\ Alone' = Alone
  BY <1>1 DEF Up, SetUp, Alone, Here, isLogin, getAdapter, getSUTs
<1> QED
  BY <1>0, <1>3, <1>4, <1>5 DEF Catch

LEMMA CatchNext ==
    ASSUME WindowTypeOK, Live, Fits, Catch, [WindowNext]_windowVars PROVE Catch'
<1>1. CASE liberties' # {}
  BY <1>1 DEF Catch
<1>2. CASE liberties' = {}
  <2>1. \/ UNCHANGED <<shared, life, inbox, box, pending, offers>>
        \/ Login \/ Logout \/ LearnSUTs
        \/ \E a \in Adapters : SwitchAdapter(a)
        \/ \E s \in Sockets : Reconnect(s) \/ Update(s)
        \/ \E q \in Regions : Make(q) \/ Free(q)
        \/ \E t \in Types : Choose(t)
        \/ \E q \in DOMAIN pending : CallBack(q) \/ Serve(q)
        \/ \E sp \in Spaces : Change(sp)
    BY DEF WindowNext, windowVars, pageVars, StartDetached, Save
  <2>2. CASE \E r \in Regions : Make(r)
    BY <1>2, <2>2, CatchMake
  <2>3. CASE ~\E r \in Regions : Make(r)
    <3>1. liberties = {}
      BY <1>2, <2>3, LibertiesGrow
    <3> QED
      BY <1>2, <2>1, <2>3, <3>1, CatchAround, CatchFree, CatchUpdate, CatchChoose,
        CatchCallBack, CatchServe, CatchChange
  <2> QED
    BY <2>2, <2>3
<1> QED
  BY <1>1, <1>2

-----------------------------------------------------------------------------
WindowInv == WindowTypeOK /\ Live /\ Fits /\ Catch

LEMMA Inductive == WindowSpec => []WindowInv
<1>1. ASSUME WindowInit PROVE WindowInv
  <2>1. /\ Up = {} /\ DOMAIN pending = {} /\ saved = Null
        /\ \A s \in Sockets : listeners[s] = {}
    BY <1>1, EmptyDomain DEF WindowInit, Up
  <2> QED
    BY <1>1, <2>1, TypeInit
    DEF WindowInv, Live, ListenersAreLive, Fits, SavesFit, Catch
<1>2. WindowInv /\ [WindowNext]_windowVars => WindowInv'
  <2> SUFFICES ASSUME WindowInv, [WindowNext]_windowVars PROVE WindowInv'
    OBVIOUS
  <2>1. Fits'
    <3>1. CASE "switched" \in liberties'
      BY <3>1 DEF Fits
    <3> QED
      BY <3>1, FitsNext DEF WindowInv
  <2> QED
    BY <2>1, TypeNext, LiveNext, CatchNext DEF WindowInv
<1> QED
  BY <1>1, <1>2, PTL DEF WindowSpec

\* The types of Window hold in every reachable state (WindowTypeOK).
THEOREM WindowTypes == WindowSpec => []WindowTypeOK
<1>1. WindowInv => WindowTypeOK
  BY DEF WindowInv
<1> QED
  BY <1>1, Inductive, PTL

\* Each page that is up has its handler on the socket, and no other page has
\* one, unless the socket was replaced under a page (ListenersAreLive).
THEOREM ListenersFollowPages == WindowSpec => []ListenersAreLive
<1>1. WindowInv => ListenersAreLive
  BY DEF WindowInv, Live
<1> QED
  BY <1>1, Inductive, PTL

\* A test case is saved where its items are from, whatever answers come late
\* and however pages overlap, unless the adapter was switched meanwhile
\* (SavesFit).
THEOREM SavedWhereItFits == WindowSpec => []SavesFit
<1>1. WindowInv => SavesFit
  BY DEF WindowInv, Fits, SavesFit
<1> QED
  BY <1>1, Inductive, PTL

\* On a page with nothing against it (liberties = {}: no other page about, answers
\* in order, no list failed, the session, the adapter and the socket kept) the
\* boxes list what the server offers once all is answered and handled, for any
\* number of changes and messages and whatever befell earlier pages (BoxesCatchUp).
THEOREM BoxesListWhatIsOffered == WindowSpec => []BoxesCatchUp
<1>1. ASSUME WindowInv PROVE BoxesCatchUp
  <2>1. SUFFICES ASSUME Up # {}, liberties = {}, pending = EmptyBag,
                        inbox[getEnvirSocket] = <<>>, NEW t \in Types
                 PROVE  box[t] # Null /\ Current(t)
    BY DEF BoxesCatchUp, Current, Space, Home1
  <2>2. box[t] # Null /\ Coming(t) /\ DOMAIN pending = {}
    BY <1>1, <2>1, EmptyDomain DEF WindowInv, Catch
  <2>3. ~Told(t)
    BY <2>1 DEF Told
  <2> QED
    BY <2>2, <2>3 DEF Coming
<1> QED
  BY <1>1, Inductive, PTL
=============================================================================

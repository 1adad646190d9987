------------------------------- MODULE Window -------------------------------
(***************************************************************************)
(* A browser window whose user works on load test cases, over its whole    *)
(* life: login, choice of the adapter, pages that are made, kept while     *)
(* another is made, and freed (js/ajaxUtil.js), requests that aatlib.ajax  *)
(* sends under the adapter of the moment (js/Ajax.js), sockets that tell   *)
(* the pages what has changed, and the storage they share (Sharedata).     *)
(* LoadTestRegion is about one page in detail; here a page is its two      *)
(* select boxes.                                                           *)
(*                                                                         *)
(* selectBox is a property of the prototype (ajaxUtil.js:21), and so ONE   *)
(* object for all regions: an answer for a page that is gone, or an older  *)
(* page's free, gets at the boxes of the page that is up now.              *)
(*                                                                         *)
(* What the server offers for a box is a space of its own per adapter, or  *)
(* one for all adapters if the box is about a system under test; a version *)
(* number stands for the list of items.                                    *)
(***************************************************************************)
EXTENDS Sharedata, Naturals, Sequences, FiniteSets, Bags
LOCAL INSTANCE BagsExt

CONSTANTS
    Sut,            \* the path of the systems under test, 'sut'
    Suts,           \* the select boxes that are about systems under test
    Null,           \* a select box that free has taken away
    MaxRegions,     \* bound on the pages made
    MaxChanges,     \* bound on the changes of one list of items
    MaxChanging,    \* bound on the lists that change
    MaxPending,     \* bound on requests in flight when more are made
    MaxLiberties    \* bound on the kinds of liberties taken in one run

Types == {"sgsn-mme", "ue-group"}
Regions == 1..MaxRegions
Paths == Adapters \cup {Sut, Undefined}

ASSUME SutsAreBoxes == Suts \subseteq Types
ASSUME SutIsNoAdapter == {Sut, Null} \cap (Adapters \cup {Undefined}) = {}
ASSUME WindowBounds ==
    /\ MaxRegions \in Nat /\ MaxChanges \in Nat /\ MaxChanging \in Nat
    /\ MaxPending \in Nat /\ MaxLiberties \in Nat

\* Where the server has the items of a box, for a page of adapter a.
Home(t, a) == IF t \in Suts THEN Sut ELSE a
Spaces == {<<Home(t, a), t>> : t \in Types, a \in Adapters}
NoItems == [path |-> Undefined, version |-> 0]
Items == [path : Paths, version : 0..MaxChanges]
Boxes == [items : Items, value : Paths]

ASSUME NullIsNoBox == Null \notin Boxes

VARIABLES
    initialized,    \* app.initialized
    life,           \* "none", "up", "freed", or "broken": onViewReady threw
    listeners,      \* the regions with a handler on each socket
    inbox,          \* the messages under way on each socket
    box,            \* selectBox: per box what it lists and which path the
                    \* chosen item is from
    pending,        \* the bag of requests not called back yet
    offers,         \* the server: the version of the items of each space
    saved,          \* the server: the test case saved last, and its path
    liberties       \* history: what went on around the pages that the code
                    \* does not guard against

pageVars == <<initialized, life>>
windowVars == <<shared, pageVars, listeners, inbox, box, pending, offers, saved,
                liberties>>

\* "unsettled" stands for all that only BoxesCatchUp needs: a page made before
\* the adapter and its systems are known, or while another page is not freed
\* yet, a session that ends under a page, an answer that overtakes a newer
\* one, a list of items that fails.  A page made when no request is out makes a
\* fresh start.
Liberties == {"unsettled", "switched", "reconnected"}
Unsettled(cond) ==
    liberties' = IF cond THEN liberties \cup {"unsettled"}
                 ELSE IF pending = EmptyBag THEN liberties \ {"unsettled"}
                 ELSE liberties
Taking(l, cond) ==
    /\ liberties' = liberties \cup (IF cond THEN {l} ELSE {})
    /\ Cardinality(liberties') <= MaxLiberties

Up == {r \in Regions : life[r] = "up"}
Newest == {r \in Regions : life[r] # "none" /\ \A q \in Regions : q > r => life[q] = "none"}
NewBox == [items |-> NoItems, value |-> Undefined]

-----------------------------------------------------------------------------
\* Mutant: a test case is a common resource.
PathUnlessCase(resource) ==
    IF resource \in getSUTs THEN Sut
    ELSE IF resource = "test_case" THEN Undefined ELSE getAdapter

\* aatlib.ajax: the path of a resource under the adapter of the moment.  The
\* common resources are not used by the region.
Path(resource) == IF resource \in getSUTs THEN Sut ELSE getAdapter

\* GET of the items of a box, and of the item chosen in it.
GetItems(t) ==
    [kind |-> "items", type |-> t, path |-> Path(t), item |-> Undefined,
     version |-> 0, status |-> "sent"]
GetValue(t, item) == [GetItems(t) EXCEPT !.kind = "value", !.item = item]
Messages == [adapter : Adapters \cup {EveryAdapter}, resource : Types]
Requests == [kind : {"items", "value"}, type : Types, path : Paths, item : Paths,
             version : 0..MaxChanges, status : {"sent", "ok"}]

\* Without an API key nothing is sent.
With(bag, r) == IF isLogin THEN BagAdd(bag, r) ELSE bag

-----------------------------------------------------------------------------
WindowInit ==
    /\ SharedInit
    /\ initialized = FALSE /\ life = [r \in Regions |-> "none"]
    /\ listeners = [s \in Sockets |-> {}] /\ inbox = [s \in Sockets |-> <<>>]
    /\ box = [t \in Types |-> Null]
    /\ pending = EmptyBag
    /\ offers = [sp \in Spaces |-> 0]
    /\ saved = Null /\ liberties = {}

\* The applications around the pages set what is shared, when they like.
Shared == UNCHANGED <<pageVars, listeners, inbox, box, pending, offers, saved>>
Login == ~isLogin /\ setApiKey /\ Shared /\ UNCHANGED liberties
Logout == isLogin /\ clearApiKey /\ Shared /\ Taking("unsettled", Up # {})
SwitchAdapter(a) ==
    /\ a # getAdapter /\ setAdapter(a) /\ Shared
    /\ Taking("switched", getAdapter # Undefined
                            /\ (Up # {} \/ pending # EmptyBag))
LearnSUTs == getSUTs # Suts /\ setSUTs(Suts) /\ Shared /\ UNCHANGED liberties
Reconnect(s) ==
    /\ s # getEnvirSocket /\ setSocketConnect(s) /\ Shared
    /\ Taking("reconnected", Up # {})

\* The application that makes and frees the pages is outside src/.  It makes
\* one when it is not initialized, and when it has freed the newest it is not.
\* It is started.  detachIfNotLogin: not without a login, and it
\* will be initialized again.
StartDetached ==
    /\ ~isLogin /\ initialized /\ initialized' = FALSE
    /\ UNCHANGED <<shared, life, listeners, inbox, box, pending, offers, saved,
                   liberties>>

\* onViewReady: two boxes, a GET for each, and a handler on the socket.
Make(r) ==
    /\ isLogin /\ ~initialized /\ initialized' = TRUE
    /\ life[r] = "none" /\ \A q \in Regions : q < r => life[q] # "none"
    /\ BagCardinality(pending) + 2 <= MaxPending
    /\ box' = [t \in Types |-> NewBox]
    /\ pending' = With(With(pending, GetItems("sgsn-mme")), GetItems("ue-group"))
    /\ IF getEnvirSocket = Undefined
       THEN life' = [life EXCEPT ![r] = "broken"] /\ UNCHANGED listeners
       ELSE /\ life' = [life EXCEPT ![r] = "up"]
            /\ listeners' = [listeners EXCEPT ![getEnvirSocket] = @ \cup {r}]
    /\ Unsettled(getAdapter = Undefined \/ getSUTs # Suts
                   \/ \E q \in Regions : life[q] \in {"up", "broken"})
    /\ Cardinality(liberties') <= MaxLiberties
    /\ UNCHANGED <<shared, inbox, offers, saved>>

\* Mutant: the handler stays on the socket.
FreeListening(r) ==
    /\ life[r] \in {"up", "broken"} /\ life' = [life EXCEPT ![r] = "freed"]
    /\ initialized' = (initialized /\ r \notin Newest)
    /\ box' = [t \in Types |-> Null]
    /\ UNCHANGED <<shared, listeners, inbox, pending, offers, saved, liberties>>

\* free: the handler is taken off the socket of the moment, and the boxes go,
\* whoever's they are.  Without a socket it throws before it gets that far.
Free(r) ==
    /\ life[r] \in {"up", "broken"} /\ life' = [life EXCEPT ![r] = "freed"]
    /\ initialized' = (initialized /\ r \notin Newest)
    /\ IF getEnvirSocket = Undefined THEN UNCHANGED <<listeners, box>>
       ELSE /\ listeners' = [listeners EXCEPT ![getEnvirSocket] = @ \ {r}]
            /\ box' = [t \in Types |-> Null]
    /\ UNCHANGED <<shared, inbox, pending, offers, saved, liberties>>

-----------------------------------------------------------------------------
\* update, for every region with a handler: the items are asked for, and the
\* item chosen.  On a box that is gone it throws, and the next is not called.
Copies(bag, r, n) == IF isLogin /\ n > 0 THEN bag (+) [x \in {r} |-> n] ELSE bag
Updated(t, n) ==
    IF n = 0 THEN pending
    ELSE IF box[t] = Null THEN Copies(pending, GetItems(t), 1)
    ELSE IF box[t].value = Undefined THEN Copies(pending, GetItems(t), n)
    ELSE Copies(Copies(pending, GetItems(t), n), GetValue(t, box[t].value), n)

Update(s) ==
    /\ inbox[s] # <<>>
    /\ inbox' = [inbox EXCEPT ![s] = Tail(@)]
    /\ LET msg == Head(inbox[s])
           n == IF isMsg4CurrentAdapter(msg) THEN Cardinality(listeners[s]) ELSE 0
       IN  /\ n > 0 => BagCardinality(pending) + n <= MaxPending
           /\ pending' = Updated(msg.resource, n)
    /\ UNCHANGED <<shared, pageVars, listeners, box, offers, saved, liberties>>

\* Mutant: the item itself is kept, and not what identifies it.
ChooseWhole(t) ==
    /\ Up # {} /\ box[t] # Null /\ box[t].items # NoItems
    /\ box' = [box EXCEPT ![t].value = box[t].items]
    /\ UNCHANGED <<shared, pageVars, listeners, inbox, pending, offers, saved,
                   liberties>>

\* The user chooses an item of those listed, and saves a test case with it.
Choose(t) ==
    /\ Up # {} /\ box[t] # Null /\ box[t].items # NoItems
    /\ box' = [box EXCEPT ![t].value = box[t].items.path]
    /\ UNCHANGED <<shared, pageVars, listeners, inbox, pending, offers, saved,
                   liberties>>
Save ==
    /\ Up # {} /\ isLogin
    /\ \A t \in Types : box[t] # Null /\ box[t].value # Undefined
    /\ saved' = [path |-> Path("test_case"), refs |-> [t \in Types |-> box[t].value]]
    /\ UNCHANGED <<shared, pageVars, listeners, inbox, box, pending, offers,
                   liberties>>

\* The callbacks.  On a box that is gone they throw, and change nothing.
Rest(r) == pending' = BagRemove(pending, r)
SetBox(t, b) == box' = [box EXCEPT ![t] = IF @ = Null THEN Null ELSE b]

ItemsLoaded(r) ==
    /\ r.kind = "items" /\ r.status = "ok" /\ Rest(r)
    /\ SetBox(r.type, [items |-> [path |-> r.path, version |-> r.version],
                       value |-> box[r.type].value])
    /\ Taking("unsettled", box[r.type] # Null
                             /\ box[r.type].items.path = r.path
                             /\ box[r.type].items.version > r.version)
ValueLoaded(r) ==
    /\ r.kind = "value" /\ r.status = "ok" /\ Rest(r)
    /\ SetBox(r.type, [box[r.type] EXCEPT !.value = r.item])
    /\ UNCHANGED liberties

\* The list of items has no error callback; the box of a lost item is emptied.
Failed(r) ==
    /\ Rest(r)
    /\ IF r.kind = "items" THEN UNCHANGED box /\ Taking("unsettled", TRUE)
       ELSE SetBox(r.type, [box[r.type] EXCEPT !.value = Undefined])
              /\ UNCHANGED liberties

CallBack(r) ==
    /\ ItemsLoaded(r) \/ ValueLoaded(r) \/ Failed(r)
    /\ UNCHANGED <<shared, pageVars, listeners, inbox, offers, saved>>

-----------------------------------------------------------------------------
\* The server answers what it finds on the path, and nothing else.
Serve(r) ==
    /\ r.status = "sent" /\ <<r.path, r.type>> \in Spaces
    /\ r.kind = "value" => r.item = r.path
    /\ pending' = BagAdd(BagRemove(pending, r),
                         [r EXCEPT !.status = "ok",
                            !.version = IF r.kind = "items"
                                        THEN offers[<<r.path, r.type>>] ELSE 0])
    /\ UNCHANGED <<shared, pageVars, listeners, inbox, box, offers, saved, liberties>>

\* What a space offers changes, and every socket in use is told.
Change(sp) ==
    /\ offers[sp] < MaxChanges
    /\ Cardinality({x \in Spaces : offers[x] > 0} \cup {sp}) <= MaxChanging
    /\ offers' = [offers EXCEPT ![sp] = @ + 1]
    /\ LET msg == [adapter |-> IF sp[1] = Sut THEN EveryAdapter ELSE sp[1],
                   resource |-> sp[2]]
       IN  inbox' = [s \in Sockets |->
             IF s = getEnvirSocket \/ listeners[s] # {}
             THEN Append(inbox[s], msg) ELSE inbox[s]]
    /\ UNCHANGED <<shared, pageVars, listeners, box, pending, saved, liberties>>

WindowNext ==
    \/ Login \/ Logout \/ LearnSUTs \/ StartDetached
    \/ \E a \in Adapters : SwitchAdapter(a)
    \/ \E s \in Sockets : Reconnect(s) \/ Update(s)
    \/ \E r \in Regions : Make(r) \/ Free(r)
    \/ Save \/ \E t \in Types : Choose(t)
    \/ \E r \in DOMAIN pending : CallBack(r) \/ Serve(r)
    \/ \E sp \in Spaces : Change(sp)

WindowSpec == WindowInit /\ [][WindowNext]_windowVars
-----------------------------------------------------------------------------
\* Every variable holds a value of its type.
WindowTypeOK ==
    /\ shared \in [login : BOOLEAN, adapter : Adapters \cup {Undefined},
                   SUTs : {{}, Suts}, socket : Sockets \cup {Undefined}]
    /\ initialized \in BOOLEAN
    /\ life \in [Regions -> {"none", "up", "broken", "freed"}]
    /\ listeners \in [Sockets -> SUBSET Regions]
    /\ inbox \in [Sockets -> Seq(Messages)]
    /\ box \in [Types -> Boxes \cup {Null}]
    /\ DOMAIN pending \subseteq Requests
    /\ offers \in [Spaces -> 0..MaxChanges]
    /\ saved \in [path : Paths, refs : [Types -> Paths]] \cup {Null}
    /\ liberties \subseteq Liberties

\* The boxes of a page list, once its requests are answered and its messages
\* handled, what the server offers by then: no change falls between the GET and
\* the handler on the socket (onViewReady), none is filtered out by
\* isMsg4CurrentAdapter, and none is asked of the wrong path.
\* The code keeps this only if liberties = {}: when the page is made, the adapter
\* and its systems are known and the older page is freed (or its free takes away
\* the boxes of the newer, ajaxUtil.js:152); since then the session goes on, no
\* list of items fails (there is no error callback), no answer overtakes a newer
\* one; and the adapter and the socket have never been replaced under a page.
BoxesCatchUp ==
    /\ Up # {} /\ liberties = {}
    /\ pending = EmptyBag /\ inbox[getEnvirSocket] = <<>>
    => \A t \in Types :
         LET home == Home(t, getAdapter)
         IN  box[t] # Null
               /\ box[t].items = [path |-> home, version |-> offers[<<home, t>>]]

\* However pages come and go, also when one is made before the last is freed,
\* every page that is up has its handler on the socket and a freed one none,
\* unless the socket is replaced under a page: free takes the handler off the
\* socket of the moment (ajaxUtil.js:121), not off the one it was put on.
ListenersAreLive ==
    "reconnected" \notin liberties =>
      \A s \in Sockets : listeners[s] = IF s = getEnvirSocket THEN Up ELSE {}

\* A test case is saved to the adapter its items are from, although paths are
\* made at the moment of each request and answers for an older page end in the
\* boxes of the newer one.  It takes that the adapter is never switched while
\* a page is up or a request is out.
SavesFit ==
    saved # Null /\ "switched" \notin liberties =>
      \A t \in Types : saved.refs[t] = Home(t, saved.path)
=============================================================================

---------------------------- MODULE RegionProofs ----------------------------
(***************************************************************************)
(* The load test region, for any test cases, offers, sizes of groups and   *)
(* bounds.  Whatever is under way is well-formed, any size that the page   *)
(* counts with is one that the group has had (Sized), and a request that   *)
(* is to change a test case has its id from an answer (Entitled).  Of a user who waits for the answers  *)
(* (~hasty) at most one request that he waits for is under way (Alone),    *)
(* so that what it carries is still what the page shows and the server has *)
(* (UpToDate).                                                             *)
(***************************************************************************)
EXTENDS LoadTestRegion, SequenceTheorems, TLAPS
LOCAL INSTANCE BagsExt

Requests ==
    [kind : Kinds, type : Types \cup {"none"}, value : Values \cup {NoChoice},
     number : Nat, case : TestCases \cup {NoCase}, body : Bodies \cup {NoBody},
     list : SUBSET (TestCases \cup AnyItem), status : {"sent", "ok"}]

\* The items that box t can have been given: the group had the size they say.
Good(t) ==
    {i \in AnyItem : /\ i.value \in Offer[t]
                     /\ i.value \in Groups => i.number \in had[i.value]}

WellFormed(r) ==
    /\ r \in Requests
    /\ r.kind = "items" =>
         r.type \in Types /\ (r.status = "ok" => r.list \subseteq Good(r.type))
    /\ r.kind = "value" =>
         /\ r.type \in Types /\ r.value \in Offer[r.type]
         /\ r.status = "ok" => Item(r.value, r.number) \in Good(r.type)
    /\ r.kind = "cases" => r.list \subseteq TestCases
    /\ r.kind = "open" =>
         r.case \in TestCases /\ (r.status = "ok" => r.body \in Bodies)
    /\ r.kind = "save" =>
         /\ r.body \in Bodies /\ Complete(r.body) /\ WasLicensed(r.body)
         /\ r.status = "ok" => r.case \in TestCases
    /\ r.kind = "delete" /\ r.status = "ok" => r.body \in Bodies

\* The types of the variables but pending.
Typed ==
    /\ name \in Names \cup {Empty}
    /\ rows \in Seq(Procedures)
    /\ box \in [Types -> AnyItem]
    /\ testCaseID \in TestCases \cup {NoCase} /\ seen \subseteq TestCases
    /\ savedName \in Names \cup {Empty, NoName}
    /\ quota \in {0, Licence}
    /\ items \in [Types -> SUBSET AnyItem] /\ procedures \subseteq Procedures
    /\ listed \subseteq TestCases /\ dialogs \subseteq Dialogs
    /\ store \in [TestCases -> Bodies \cup {NoBody}]
    /\ available \in [Types -> SUBSET Values]
    /\ \A t \in Types : available[t] \subseteq Offer[t]

Sized ==
    /\ sizes \in [Groups -> Sizes] /\ had \in [Groups -> SUBSET Sizes]
    /\ \A g \in Groups : sizes[g] \in had[g]
    /\ \A t \in Types : box[t] \in Good(t) \cup {NoItem} /\ items[t] \subseteq Good(t)

Formed ==
    /\ Typed /\ Sized
    /\ \A r \in DOMAIN pending : WellFormed(r)
    /\ StoreIsValid

Entitled(r) ==
    r.kind \in {"save", "delete"} /\ r.status = "sent"
      => r.case \in seen \cup {NoCase}

Known ==
    /\ testCaseID \in seen \cup {NoCase}
    /\ testCaseID = NoCase <=> savedName = NoName
    /\ \A r \in DOMAIN pending : Entitled(r)

Wired ==
    /\ started \in BOOLEAN /\ starts \in 0..MaxStarts
    /\ subs \in [Events -> 0..starts]
    /\ HandlersCounted

\* Of the requests the user waits for one is under way, once.
Alone ==
    \A q, r \in DOMAIN pending :
        q.kind \in Awaited /\ r.kind \in Awaited => q = r /\ pending[r] = 1

Stores(r) == r.case \in InStore /\ store[r.case] = r.body
UpToDate(r) ==
    /\ r.kind = "open" => rows = <<>> /\ (r.status = "ok" => Stores(r))
    /\ r.kind = "save" => /\ r.body.name = name /\ r.body.steps = rows
                          /\ r.status = "ok" => Stores(r)
    /\ r.kind = "delete" => testCaseID = NoCase

\* An Open that is under way, or came to nothing, has emptied the table.
Unedited == {"clean", "emptied"}
Matches ==
    /\ testCaseID \in InStore /\ savedName = name
    /\ store[testCaseID].name = name
    /\ rows = IF touch = "clean" THEN store[testCaseID].steps ELSE <<>>

Calm ==
    ~hasty =>
      /\ Alone
      /\ \A r \in DOMAIN pending : UpToDate(r)
      /\ testCaseID \in InStore \cup {NoCase}
      /\ touch \in Unedited => Matches

RegionInv == Formed /\ Known /\ Wired /\ Calm

-----------------------------------------------------------------------------
(* Requests *)

\* What becomes of the requests under way when one is made or called back.
LEMMA BagFacts ==
    ASSUME NEW B, NEW x
    PROVE  /\ DOMAIN BagAdd(B, x) = DOMAIN B \cup {x}
           /\ x \notin DOMAIN B => BagAdd(B, x)[x] = 1
           /\ \A y \in DOMAIN B \ {x} : BagAdd(B, x)[y] = B[y]
           /\ DOMAIN BagRemove(B, x) \subseteq DOMAIN B
           /\ B[x] = 1 => x \notin DOMAIN BagRemove(B, x)
           /\ \A y \in DOMAIN BagRemove(B, x) \ {x} : BagRemove(B, x)[y] = B[y]
           /\ With(B, x) = B \/ With(B, x) = BagAdd(B, x)
BY DEF BagAdd, BagRemove, With

LEMMA Constants ==
    /\ NoChoice \notin Values /\ NoCase \notin TestCases
    /\ Empty \notin Names /\ NoName \notin Names /\ Empty # NoName
    /\ NoBody \notin Bodies
    /\ Sizes \subseteq Nat /\ Licence \in Nat
    /\ Offer \in [Types -> SUBSET Values] /\ Offer["ue-group"] = Groups
    /\ \A b \in Bodies : b.box["ue-group"] \in Groups
    /\ NoItem \in AnyItem /\ NoItem.value = NoChoice
<1>1. Offer \in [Types -> SUBSET Values] /\ Offer["ue-group"] = Groups
  BY DEF Offer, Values, Types
<1>2. \A b \in Bodies : b.box["ue-group"] \in Groups
  BY <1>1 DEF Bodies, Boxes, Types
<1>3. NoItem \in AnyItem /\ NoItem.value = NoChoice
  BY DEF NoItem, Item, AnyItem
<1> QED
  BY <1>1, <1>2, <1>3, NothingsAreApart, SizesAreNumbers

\* Sizes that a group has had stay on record.
Remembered == \A g \in Groups : had[g] \subseteq had'[g]

LEMMA StaysFormed ==
    ASSUME Remembered
    PROVE  /\ \A t \in Types : Good(t) \subseteq Good(t)'
           /\ \A b \in Bodies : WasLicensed(b) => WasLicensed(b)'
           /\ \A r : WellFormed(r) => WellFormed(r)'
<1>1. \A t \in Types : Good(t) \subseteq Good(t)'
  BY DEF Remembered, Good
<1>2. \A b \in Bodies : WasLicensed(b) => WasLicensed(b)'
  BY Constants DEF Remembered, WasLicensed
<1>3. ASSUME NEW r, WellFormed(r) PROVE WellFormed(r)'
  <2>1. r.kind = "items" => r.type \in Types /\ (r.status = "ok" => r.list \subseteq Good(r.type)')
    BY <1>1, <1>3 DEF WellFormed
  <2>2. r.kind = "value" =>
          /\ r.type \in Types /\ r.value \in Offer[r.type]
          /\ r.status = "ok" => Item(r.value, r.number) \in Good(r.type)'
    BY <1>1, <1>3 DEF WellFormed
  <2>3. r.kind = "save" =>
          /\ r.body \in Bodies /\ Complete(r.body) /\ WasLicensed(r.body)'
          /\ r.status = "ok" => r.case \in TestCases
    BY <1>2, <1>3 DEF WellFormed
  <2> QED
    BY <1>3, <2>1, <2>2, <2>3 DEF WellFormed
<1> QED
  BY <1>1, <1>2, <1>3

\* The requests of the page are well-formed.
LEMMA RequestsFormed ==
    /\ \A k \in Kinds \ {"items", "value", "open", "save", "delete"} :
         WellFormed(Fixed(k)) /\ WellFormed(Request(k))
    /\ \A t \in Types : WellFormed(Items(t))
    /\ \A t \in Types : \A v \in Offer[t] : WellFormed(Value(t, v))
    /\ \A c \in TestCases : WellFormed(About("open", c))
    /\ \A c \in TestCases \cup {NoCase} : WellFormed(About("delete", c))
    /\ \A c \in TestCases \cup {NoCase}, b \in Bodies :
         Complete(b) /\ WasLicensed(b) => WellFormed(Saving(c, b))
<1> USE DEF WellFormed, Requests, Request
<1>1. \A k \in Kinds \ {"items", "value", "open", "save", "delete"} :
         WellFormed(Fixed(k)) /\ WellFormed(Request(k))
  BY DEF Fixed
<1>2. ASSUME NEW t \in Types PROVE WellFormed(Items(t))
  <2>1. PICK x : x = Items(t)
    OBVIOUS
  <2>2. x \in Requests /\ x.kind = "items" /\ x.type = t /\ x.status = "sent"
    BY <2>1 DEF Items, Kinds
  <2> QED
    BY <2>1, <2>2
<1>3. ASSUME NEW t \in Types, NEW v \in Offer[t] PROVE WellFormed(Value(t, v))
  <2>0. v \in Values
    BY Constants
  <2>1. PICK x : x = Value(t, v)
    OBVIOUS
  <2>2. x \in Requests /\ x.kind = "value" /\ x.type = t /\ x.value = v /\ x.status = "sent"
    BY <2>0, <2>1 DEF Value, Kinds
  <2> QED
    BY <2>1, <2>2
<1>4. /\ \A c \in TestCases : WellFormed(About("open", c))
      /\ \A c \in TestCases \cup {NoCase} : WellFormed(About("delete", c))
  BY DEF About, Kinds
<1>5. \A c \in TestCases \cup {NoCase}, b \in Bodies :
         Complete(b) /\ WasLicensed(b) => WellFormed(Saving(c, b))
  <2> SUFFICES ASSUME NEW c \in TestCases \cup {NoCase}, NEW b \in Bodies,
                      Complete(b), WasLicensed(b)
               PROVE  WellFormed(Saving(c, b))
    OBVIOUS
  <2>1. PICK x : x = Saving(c, b)
    OBVIOUS
  <2>2. x \in Requests /\ x.kind = "save" /\ x.status = "sent" /\ x.body = b
    BY <2>1 DEF Saving, Kinds
  <2> QED
    BY <2>1, <2>2
<1> QED
  BY <1>1, <1>2, <1>3, <1>4, <1>5

\* Who asks for what.
LEMMA KindsOf ==
    /\ \A k : Fixed(k).kind = k /\ Request(k).kind = k
    /\ \A t : Items(t).kind = "items" /\ Items(t).status = "sent"
    /\ \A t, v : Value(t, v).kind = "value" /\ Value(t, v).status = "sent"
    /\ \A k, c : About(k, c).kind = k /\ About(k, c).case = c /\ About(k, c).status = "sent"
    /\ \A c, b : /\ Saving(c, b).kind = "save" /\ Saving(c, b).case = c
                 /\ Saving(c, b).body = b /\ Saving(c, b).status = "sent"
BY DEF Fixed, Request, Items, Value, About, Saving

\* The answers of the server are well-formed.
LEMMA AnswersFormed ==
    ASSUME Formed, NEW r \in Requests, WellFormed(r)
    PROVE  /\ r.kind = "cases" =>
                WellFormed([[r EXCEPT !.list = InStore] EXCEPT !.status = "ok"])
           /\ r.kind = "open" /\ r.case \in InStore =>
                WellFormed([[r EXCEPT !.body = store[r.case]] EXCEPT !.status = "ok"])
           /\ \A c \in TestCases :
                r.kind = "save" => WellFormed([[r EXCEPT !.case = c] EXCEPT !.status = "ok"])
           /\ r.kind = "save" /\ r.case \in TestCases =>
                WellFormed([r EXCEPT !.status = "ok"])
           /\ r.kind = "delete" /\ r.case \in InStore =>
                WellFormed([[r EXCEPT !.body = store[r.case]] EXCEPT !.status = "ok"])
           /\ r.kind = "items" =>
                WellFormed([[r EXCEPT !.list = {Item(v, SizeOf(v)) : v \in available[r.type]}]
                              EXCEPT !.status = "ok"])
           /\ r.kind = "value" /\ r.value \in available[r.type] =>
                WellFormed([[r EXCEPT !.number = SizeOf(r.value)] EXCEPT !.status = "ok"])
<1>0. ASSUME NEW t \in Types, NEW v \in available[t]
      PROVE  Item(v, SizeOf(v)) \in Good(t) /\ SizeOf(v) \in Nat
  <2>1. v \in Offer[t] /\ v \in Values
    BY Constants DEF Formed, Typed
  <2>2. SizeOf(v) \in Nat /\ (v \in Groups => SizeOf(v) \in had[v])
    BY Constants DEF SizeOf, Formed, Sized
  <2> QED
    BY <2>1, <2>2 DEF Good, Item, AnyItem
<1>7. \A t \in Types : Good(t) \subseteq AnyItem
  BY DEF Good
<1>1. InStore \subseteq TestCases /\ \A c \in InStore : store[c] \in Bodies
  BY DEF Formed, Typed, InStore
<1> USE DEF WellFormed, Requests
<1>2. r.kind = "cases" => WellFormed([[r EXCEPT !.list = InStore] EXCEPT !.status = "ok"])
  BY <1>1
<1>3. r.kind = "open" /\ r.case \in InStore =>
        WellFormed([[r EXCEPT !.body = store[r.case]] EXCEPT !.status = "ok"])
  BY <1>1
<1>4. \A c \in TestCases :
        r.kind = "save" => WellFormed([[r EXCEPT !.case = c] EXCEPT !.status = "ok"])
  OBVIOUS
<1>5. r.kind = "save" /\ r.case \in TestCases => WellFormed([r EXCEPT !.status = "ok"])
  OBVIOUS
<1>6. r.kind = "delete" /\ r.case \in InStore =>
        WellFormed([[r EXCEPT !.body = store[r.case]] EXCEPT !.status = "ok"])
  BY <1>1
<1>8. ASSUME r.kind = "items"
      PROVE  WellFormed([[r EXCEPT !.list = {Item(v, SizeOf(v)) : v \in available[r.type]}]
                           EXCEPT !.status = "ok"])
  <2>1. PICK L : L = {Item(v, SizeOf(v)) : v \in available[r.type]}
    OBVIOUS
  <2>2. L \subseteq Good(r.type) /\ L \subseteq AnyItem /\ r.type \in Types
    BY <1>0, <1>7, <1>8, <2>1
  <2>3. WellFormed([[r EXCEPT !.list = L] EXCEPT !.status = "ok"])
    BY <1>8, <2>2
  <2> QED
    BY <2>1, <2>3
<1>9. ASSUME r.kind = "value", r.value \in available[r.type]
      PROVE  WellFormed([[r EXCEPT !.number = SizeOf(r.value)] EXCEPT !.status = "ok"])
  <2>1. PICK n : n = SizeOf(r.value)
    OBVIOUS
  <2>2. r.type \in Types /\ n \in Nat /\ Item(r.value, n) \in Good(r.type)
    BY <1>0, <1>9, <2>1
  <2>3. WellFormed([[r EXCEPT !.number = n] EXCEPT !.status = "ok"])
    BY <1>9, <2>2
  <2> QED
    BY <2>1, <2>3
<1> QED
  BY <1>2, <1>3, <1>4, <1>5, <1>6, <1>8, <1>9

-----------------------------------------------------------------------------
(* Types, requests and the store *)

LEMMA FormedInit == RegionInit => Formed
<1> SUFFICES ASSUME RegionInit PROVE Formed
  OBVIOUS
<1>1. Offer \in [Types -> SUBSET Values]
  BY DEF Offer, Values
<1>2. DOMAIN pending = {Fixed("quota"), Fixed("instruction")}
                         \cup {Items(t) : t \in Types}
  BY DEF RegionInit, SetToBag
<1>3. \A r \in DOMAIN pending : WellFormed(r)
  BY <1>1, <1>2, RequestsFormed DEF Kinds
<1>4. StoreIsValid
  <2>1. ASSUME NEW c \in InStore PROVE Complete(store[c]) /\ WasLicensed(store[c])
    <3>1. c \in TestCases /\ store[c] = Stored[c] /\ Stored[c] \in Bodies /\ Stored[c] # NoBody
      BY <2>1, StoredIsFine DEF RegionInit, InStore
    <3>2. Complete(Stored[c]) /\ UEs[Stored[c].box["ue-group"]] <= Licence
      BY <3>1, StoredIsFine
    <3>3. Stored[c].box["ue-group"] \in Groups
      BY <3>1, Constants
    <3>4. had[Stored[c].box["ue-group"]] = {UEs[Stored[c].box["ue-group"]]}
      BY <3>3 DEF RegionInit
    <3> QED
      BY <3>1, <3>2, <3>4 DEF WasLicensed
  <2> QED
    BY <2>1 DEF StoreIsValid
<1>5. Typed
  <2>1. box \in [Types -> AnyItem] /\ items \in [Types -> SUBSET AnyItem]
    BY Constants DEF RegionInit
  <2>2. available = Offer
    BY DEF RegionInit
  <2> QED
    BY <1>1, <2>1, <2>2, StoredIsFine, EmptySeq, NothingsAreApart DEF RegionInit, Typed
<1>6. Sized
  <2>1. sizes \in [Groups -> Sizes] /\ had \in [Groups -> SUBSET Sizes]
    BY SizesAreNumbers DEF RegionInit
  <2> QED
    BY <2>1 DEF RegionInit, Sized
<1> QED
  BY <1>3, <1>4, <1>5, <1>6 DEF Formed

\* A step that leaves the store alone and adds no malformed request.
LEMMA FormedOn ==
    ASSUME Formed, Typed', Sized', Remembered, store' = store,
           \A r \in DOMAIN pending' \ DOMAIN pending : WellFormed(r)
    PROVE  Formed'
<1>1. \A r \in DOMAIN pending' : WellFormed(r)'
  <2>1. \A r \in DOMAIN pending' : WellFormed(r)
    BY DEF Formed
  <2>2. \A r : WellFormed(r) => WellFormed(r)'
    BY StaysFormed
  <2> QED
    BY <2>1, <2>2
<1>2. StoreIsValid'
  <2>1. ASSUME NEW c \in InStore PROVE Complete(store[c]) /\ WasLicensed(store[c])'
    BY <2>1, StaysFormed DEF Formed, Typed, StoreIsValid, InStore
  <2>2. InStore' = InStore
    BY DEF InStore
  <2> QED
    BY <2>1, <2>2 DEF StoreIsValid, WasLicensed
<1> QED
  BY <1>1, <1>2 DEF Formed

\* Such a step, if it leaves the sizes alone as well.
LEMMA FormedQuiet ==
    ASSUME Formed, Typed', UNCHANGED <<box, items, sizes, had, store>>,
           \A r \in DOMAIN pending' \ DOMAIN pending : WellFormed(r)
    PROVE  Formed'
<1>1. Sized' /\ Remembered
  BY DEF Formed, Sized, Good, Remembered
<1> QED
  BY <1>1, FormedOn

\* What the user does sends nothing malformed, and nothing the licence forbids.
LEMMA UserFormed == Formed /\ UserActs => Formed'
<1> SUFFICES ASSUME Formed, UserActs PROVE Formed'
  OBVIOUS
<1> USE DEF loadVars, lifeVars, serverVars, shownVars, idVars
<1>0. /\ Typed /\ store' = store
      /\ UNCHANGED <<quota, items, procedures, store, available, sizes, had>>
      /\ Remembered
  BY DEF Remembered, Formed, UserActs, TypeName, Choose, AddRow, Edit, OnPage, New, Published,
     NewConfirmed, Submit, Open, OpenSelected, Delete, DeleteConfirmed, Dismiss, Click
<1>s. ASSUME NEW x, pending' = With(pending, x), WellFormed(x)
      PROVE  \A r \in DOMAIN pending' \ DOMAIN pending : WellFormed(r)
  <2>1. With(pending, x) = pending \/ With(pending, x) = BagAdd(pending, x)
    BY BagFacts
  <2>2. DOMAIN BagAdd(pending, x) = DOMAIN pending \cup {x}
    BY BagFacts
  <2> QED
    BY <1>s, <2>1, <2>2
<1>1. ASSUME \/ \E n \in Names \cup {Empty} : TypeName(n)
             \/ \E t \in Types : \E i \in items[t] : Choose(t, i)
             \/ \E p \in Procedures : AddRow(p)
      PROVE  Formed'
  <2>1. UNCHANGED <<pending, testCaseID, seen, savedName, listed, dialogs>>
    BY <1>1 DEF Edit, TypeName, Choose, AddRow
  <2>2. /\ name' \in Names \cup {Empty} /\ rows' \in Seq(Procedures)
        /\ box' \in [Types -> AnyItem] /\ Sized'
    <3>1. ASSUME NEW n \in Names \cup {Empty}, TypeName(n)
          PROVE  name' \in Names \cup {Empty} /\ rows' = rows /\ box' = box
      BY <3>1 DEF TypeName
    <3>2. ASSUME NEW t \in Types, NEW i \in items[t], Choose(t, i)
          PROVE  /\ box' \in [Types -> AnyItem] /\ Sized'
                 /\ name' = name /\ rows' = rows
      <4>1. i \in Good(t) /\ i \in AnyItem
        BY DEF Formed, Sized, Good
      <4>2. box' = [box EXCEPT ![t] = i] /\ box \in [Types -> AnyItem]
        BY <1>0, <3>2 DEF Choose, Typed
      <4>3. box' \in [Types -> AnyItem]
            /\ \A u \in Types : box'[u] = IF u = t THEN i ELSE box[u]
        BY <4>1, <4>2
      <4>4. Sized'
        BY <1>0, <4>1, <4>3 DEF Formed, Sized, Good
      <4> QED
        BY <3>2, <4>3, <4>4 DEF Choose
    <3>3. ASSUME NEW p \in Procedures, AddRow(p)
          PROVE  rows' \in Seq(Procedures) /\ name' = name /\ box' = box
      BY <1>0, <3>3, AppendProperties DEF AddRow, Typed
    <3>4. UNCHANGED box => Sized'
      BY <1>0 DEF Formed, Sized, Good
    <3> QED
      BY <1>0, <1>1, <3>1, <3>2, <3>3, <3>4 DEF Typed
  <2>3. Typed'
    BY <1>0, <2>1, <2>2 DEF Typed
  <2> QED
    BY <1>0, <2>1, <2>2, <2>3, FormedOn
<1>2. ASSUME New \/ (\E d \in Dialogs : Dismiss(d)) PROVE Formed'
  <2>1. /\ UNCHANGED <<pending, name, rows, box, testCaseID, seen, savedName>>
        /\ listed' \subseteq TestCases /\ dialogs' \subseteq Dialogs
    BY <1>0, <1>2 DEF New, Dismiss, Typed, Dialogs
  <2>2. Typed'
    BY <1>0, <2>1 DEF Typed
  <2> QED
    BY <1>0, <2>1, <2>2, FormedQuiet
<1>3. ASSUME NewConfirmed \/ DeleteConfirmed PROVE Formed'
  <2>1. /\ name' = Empty /\ rows' = <<>> /\ box' = [t \in Types |-> NoItem]
        /\ testCaseID' = NoCase /\ savedName' = NoName
        /\ UNCHANGED <<seen, listed>> /\ dialogs' \subseteq Dialogs
    BY <1>0, <1>3 DEF NewConfirmed, DeleteConfirmed, ResetRegion, Typed
  <2>2. Typed' /\ Sized'
    <3>1. box' \in [Types -> AnyItem] /\ \A t \in Types : box'[t] = NoItem
      BY <2>1, Constants
    <3>2. Typed'
      BY <1>0, <2>1, <3>1, EmptySeq DEF Typed
    <3>3. Sized'
      BY <1>0, <3>1 DEF Formed, Sized, Good
    <3> QED BY <3>2, <3>3
  <2>3. pending' = pending \/ pending' = With(pending, About("delete", testCaseID))
    BY <1>3 DEF NewConfirmed, DeleteConfirmed, Ajax
  <2>4. WellFormed(About("delete", testCaseID))
    BY <1>0, RequestsFormed DEF Typed
  <2> QED
    BY <1>0, <1>s, <2>2, <2>3, <2>4, FormedOn
<1>4. ASSUME NEW savetype \in {"save", "saveas"}, Submit(savetype) PROVE Formed'
  <2>1. /\ UNCHANGED <<name, rows, box, testCaseID, seen, savedName, listed>>
        /\ dialogs' \subseteq Dialogs
    BY <1>0, <1>4 DEF Submit, Typed, Dialogs
  <2>2. Typed'
    BY <1>0, <2>1 DEF Typed
  <2>3. CASE UNCHANGED pending
    BY <1>0, <2>1, <2>2, <2>3, FormedQuiet
  <2>4. CASE Valid /\ ~OverQuota /\ Ajax(Saving(Target(savetype), Shown))
    <3>0. \A t \in Types : box[t] \in Good(t) /\ box[t].value \in Offer[t]
      <4>1. \A t \in Types : box[t] # NoItem
        BY <2>4, Constants DEF Valid
      <4> QED
        BY <4>1 DEF Formed, Sized, Good
    <3>1. Shown \in Bodies
      <4>1. [t \in Types |-> box[t].value] \in Boxes
        BY <3>0, Constants DEF Boxes
      <4>2. name \in Names /\ rows \in Seq(Procedures)
        BY <1>0, <2>4 DEF Valid, Typed
      <4> QED
        BY <4>1, <4>2 DEF Shown, Bodies
    <3>2. Complete(Shown)
      BY <2>4 DEF Valid, Shown, Complete
    <3>3. box["ue-group"].number <= Licence
      <4>1. box["ue-group"].number \in Nat
        BY <1>0 DEF Typed, AnyItem, Types
      <4> QED
        BY <1>0, <2>4, <4>1, Constants DEF OverQuota, Typed
    <3>4. WasLicensed(Shown)
      <4>1. box["ue-group"].value \in Groups /\ box["ue-group"] \in Good("ue-group")
        BY <3>0, Constants DEF Types
      <4>2. box["ue-group"].number \in had[box["ue-group"].value]
        BY <4>1 DEF Good
      <4>3. Shown.box["ue-group"] = box["ue-group"].value
        BY DEF Shown, Types
      <4> QED
        BY <3>3, <4>2, <4>3 DEF WasLicensed
    <3>5. Target(savetype) \in TestCases \cup {NoCase}
      BY <1>0 DEF Target, Typed
    <3>6. WellFormed(Saving(Target(savetype), Shown))
      BY <3>1, <3>2, <3>4, <3>5, RequestsFormed
    <3> QED
      BY <1>0, <1>s, <2>1, <2>2, <2>4, <3>6, FormedQuiet DEF Ajax
  <2> QED
    BY <1>4, <2>3, <2>4 DEF Submit
<1>5. ASSUME Open \/ Delete PROVE Formed'
  <2>1. UNCHANGED <<name, rows, box, testCaseID, seen, savedName, listed, dialogs>>
    BY <1>5 DEF Open, Delete
  <2>2. Typed'
    BY <1>0, <2>1 DEF Typed
  <2>3. PICK x : pending' = With(pending, x) /\ WellFormed(x)
    BY <1>5, RequestsFormed DEF Open, Delete, Ajax, Kinds
  <2> QED
    BY <1>0, <1>s, <2>1, <2>2, <2>3, FormedQuiet
<1>6. ASSUME NEW c \in TestCases \cup {NoCase}, OpenSelected(c) PROVE Formed'
  <2>1. /\ UNCHANGED <<name, box, testCaseID, seen, savedName>>
        /\ rows' = <<>> /\ listed' = {} /\ dialogs' \subseteq Dialogs
    BY <1>0, <1>6 DEF OpenSelected, NewTable, Typed
  <2>2. Typed'
    BY <1>0, <2>1, EmptySeq DEF Typed
  <2>3. \/ pending' = pending
        \/ pending' = With(pending, About("open", c)) /\ c \in TestCases
    BY <1>6 DEF OpenSelected, Ajax
  <2> QED
    BY <1>0, <1>s, <2>1, <2>2, <2>3, RequestsFormed, FormedQuiet
<1> QED
  BY <1>1, <1>2, <1>3, <1>4, <1>5, <1>6 DEF UserActs

\* What a bag has when requests are sent.
LEMMA SentDomain ==
    ASSUME NEW B, NEW x
    PROVE  DOMAIN With(B, x) \subseteq DOMAIN B \cup {x} /\ DOMAIN B \subseteq DOMAIN With(B, x)
<1>1. With(B, x) = B \/ With(B, x) = BagAdd(B, x)
  BY BagFacts
<1>2. DOMAIN BagAdd(B, x) = DOMAIN B \cup {x}
  BY BagFacts
<1> QED
  BY <1>1, <1>2

LEMMA RestDomain == \A r : DOMAIN Rest(r) \subseteq DOMAIN pending
  BY BagFacts DEF Rest

\* What openTestCaseSuccess asks for.
LEMMA OpenedSends ==
    ASSUME NEW r, Opened(r)
    PROVE  LET v(t) == Value(t, r.body.box[t])
           IN  DOMAIN pending' \subseteq DOMAIN Rest(r) \cup {v("sgsn-mme"), v("ue-group")}
<1> DEFINE v(t) == Value(t, r.body.box[t])
           once == With(Rest(r), v("sgsn-mme"))
<1>1. pending' = With(once, v("ue-group"))
  BY DEF Opened
<1>2. DOMAIN once \subseteq DOMAIN Rest(r) \cup {v("sgsn-mme")}
  BY SentDomain
<1> HIDE DEF once, v
<1>3. DOMAIN With(once, v("ue-group")) \subseteq DOMAIN once \cup {v("ue-group")}
  BY SentDomain
<1>4. DOMAIN pending' \subseteq DOMAIN Rest(r) \cup {v("sgsn-mme"), v("ue-group")}
  BY <1>1, <1>2, <1>3
<1> QED
  BY <1>4 DEF v

\* What update asks for.
LEMMA UpdateSends ==
    ASSUME NEW t, Update(t)
    PROVE  \A q \in DOMAIN pending' \ DOMAIN pending :
             \/ q = Items(t)
             \/ q = Value(t, box[t].value) /\ box[t].value # NoChoice
<1> DEFINE x == Items(t)
           v == box[t].value
           once == With(pending, x)
<1>1. DOMAIN once \subseteq DOMAIN pending \cup {x}
  BY SentDomain
<1>2. \/ v = NoChoice /\ pending' = once
      \/ v # NoChoice /\ pending' = With(once, Value(t, v))
  BY DEF Update
<1> HIDE DEF once, x, v
<1>3. DOMAIN With(once, Value(t, v)) \subseteq DOMAIN once \cup {Value(t, v)}
  BY SentDomain
<1>4. \A q \in DOMAIN pending' \ DOMAIN pending :
        q = x \/ (q = Value(t, v) /\ v # NoChoice)
  BY <1>1, <1>2, <1>3
<1> QED
  BY <1>4 DEF x, v

\* The callbacks keep types, and ask for values in their place only.
LEMMA CallBackFormed ==
    ASSUME Formed, NEW r \in DOMAIN pending, CallBack(r) PROVE Formed'
<1> USE DEF loadVars, lifeVars, serverVars, shownVars, idVars
<1>0. /\ Typed /\ WellFormed(r) /\ Remembered
      /\ UNCHANGED <<store, available, sizes, had>>
  BY DEF CallBack, Formed, Remembered
<1>1. \A q \in DOMAIN Rest(r) : q \in DOMAIN pending
  BY RestDomain
<1>2. ASSUME Back(r), Typed', UNCHANGED <<box, items>> PROVE Formed'
  BY <1>0, <1>1, <1>2, FormedQuiet DEF Back
<1> USE DEF Called, Typed
<1>3. CASE QuotaLoaded(r)
  BY <1>0, <1>2, <1>3 DEF QuotaLoaded
<1>4. CASE InstructionsLoaded(r)
  BY <1>0, <1>2, <1>4 DEF InstructionsLoaded
<1>5. CASE ItemsLoaded(r)
  <2>1. r.type \in Types /\ r.list \subseteq Good(r.type) /\ items' = [items EXCEPT ![r.type] = r.list]
    BY <1>0, <1>5 DEF ItemsLoaded, WellFormed
  <2>2. /\ items' \in [Types -> SUBSET AnyItem]
        /\ \A t \in Types : items'[t] = IF t = r.type THEN r.list ELSE items[t]
    BY <1>0, <2>1 DEF Good
  <2>3. Typed'
    BY <1>0, <1>5, <2>2 DEF ItemsLoaded
  <2>4. Sized'
    BY <1>0, <1>5, <2>1, <2>2 DEF ItemsLoaded, Formed, Sized, Good
  <2> QED
    BY <1>0, <1>1, <1>5, <2>3, <2>4, FormedOn DEF ItemsLoaded, Back
<1>6. ASSUME NEW i \in AnyItem, SetBox(r, i), r.type \in Types,
             i \in Good(r.type) \cup {NoItem}
      PROVE  Formed'
  <2>1. /\ box' \in [Types -> AnyItem]
        /\ \A t \in Types : box'[t] = IF t = r.type THEN i ELSE box[t]
    BY <1>0, <1>6 DEF SetBox
  <2>2. Typed'
    BY <1>0, <1>6, <2>1 DEF SetBox
  <2>3. Sized'
    BY <1>0, <1>6, <2>1 DEF SetBox, Formed, Sized, Good
  <2> QED
    BY <1>0, <1>1, <1>6, <2>2, <2>3, FormedOn DEF SetBox, Back
<1>7. CASE ValueLoaded(r)
  <2>1. r.type \in Types /\ Item(r.value, r.number) \in Good(r.type)
    BY <1>0, <1>7 DEF ValueLoaded, WellFormed
  <2>2. PICK i : i = Item(r.value, r.number)
    OBVIOUS
  <2>3. i \in AnyItem
    BY <2>1, <2>2 DEF Good
  <2> QED
    BY <1>6, <1>7, <2>1, <2>2, <2>3 DEF ValueLoaded
<1>8. CASE CasesLoaded(r)
  BY <1>0, <1>2, <1>8 DEF CasesLoaded, WellFormed, Dialogs
<1>9. CASE Opened(r)
  <2>1. r.case \in TestCases /\ r.body \in Bodies
    BY <1>0, <1>9 DEF Opened, WellFormed
  <2>2. /\ r.body.name \in Names /\ r.body.steps \in Seq(Procedures)
        /\ \A t \in Types : r.body.box[t] \in Offer[t]
    BY <2>1 DEF Bodies, Boxes
  <2>3. rows' \in Seq(Procedures)
    BY <1>0, <1>9, <2>2, ConcatProperties DEF Opened, RenderRows
  <2>4. Typed'
    BY <1>0, <1>9, <2>1, <2>2, <2>3 DEF Opened
  <2>5. \A q \in DOMAIN pending' \ DOMAIN pending : WellFormed(q)
    <3>1. \A q \in DOMAIN pending' \ DOMAIN pending : \E t \in Types :
            q = Value(t, r.body.box[t])
      BY <1>1, <1>9, OpenedSends DEF Types
    <3> QED
      BY <2>2, <3>1, RequestsFormed
  <2>6. UNCHANGED <<box, items>>
    BY <1>9 DEF Opened
  <2> QED
    BY <1>0, <2>4, <2>5, <2>6, FormedQuiet
<1>10. CASE Saved(r)
  BY <1>0, <1>2, <1>10 DEF Saved, WellFormed
<1>11. CASE Deleted(r)
  BY <1>0, <1>2, <1>11 DEF Deleted
<1>12. CASE CollectionsLoaded(r)
  BY <1>0, <1>2, <1>12 DEF CollectionsLoaded, Dialogs
<1>13. CASE Failed(r)
  <2>1. CASE r.kind = "value" /\ SetBox(r, NoItem)
    <3>1. r.type \in Types /\ NoItem \in AnyItem
      BY <1>0, <2>1, Constants DEF WellFormed
    <3> QED
      BY <1>6, <2>1, <3>1
  <2>2. CASE ~(r.kind = "value" /\ SetBox(r, NoItem))
    BY <1>0, <1>2, <1>13, <2>2 DEF Failed, SaveFailed, Dialogs
  <2> QED
    BY <2>1, <2>2
<1> QED
  BY <1>3, <1>4, <1>5, <1>7, <1>8, <1>9, <1>10, <1>11, <1>12, <1>13 DEF CallBack

LEMMA AnswerDomain ==
    ASSUME NEW r, NEW a, Answer(r, a)
    PROVE  DOMAIN pending' = DOMAIN Rest(r) \cup {[a EXCEPT !.status = "ok"]}
BY BagFacts DEF Answer

\* The server stores what it is sent, which is valid, and answers in form.
LEMMA ServeFormed ==
    ASSUME Formed, NEW r \in DOMAIN pending, Serve(r) PROVE Formed'
<1> USE DEF loadVars, lifeVars, shownVars, idVars
<1>0. /\ Typed /\ WellFormed(r) /\ r \in Requests /\ StoreIsValid
      /\ UNCHANGED <<name, rows, box, testCaseID, savedName, seen, quota, items,
                     procedures, listed, dialogs, available, sizes, had>>
  BY DEF Serve, Formed, WellFormed
<1>f. Sized' /\ Remembered
  BY <1>0 DEF Formed, Sized, Good, Remembered
<1>1. ASSUME NEW a, Answer(r, a), WellFormed([a EXCEPT !.status = "ok"])
      PROVE  \A q \in DOMAIN pending' : WellFormed(q)'
  <2>1. DOMAIN pending' = DOMAIN Rest(r) \cup {[a EXCEPT !.status = "ok"]}
    BY <1>1, AnswerDomain
  <2>2. \A q \in DOMAIN Rest(r) : q \in DOMAIN pending
    BY RestDomain
  <2>3. \A q \in DOMAIN pending' : WellFormed(q)
    BY <1>1, <2>1, <2>2 DEF Formed
  <2>4. \A q : WellFormed(q) => WellFormed(q)'
    BY <1>f, StaysFormed
  <2> QED
    BY <2>3, <2>4
<1>2. ASSUME NEW c \in TestCases, NEW b \in Bodies \cup {NoBody},
             store' = [store EXCEPT ![c] = b],
             b # NoBody => Complete(b) /\ WasLicensed(b)
      PROVE  Typed' /\ StoreIsValid'
  <2>1. store' \in [TestCases -> Bodies \cup {NoBody}]
    BY <1>0, <1>2 DEF Typed
  <2>2. Typed'
    BY <1>0, <2>1 DEF Typed
  <2>3. \A d \in TestCases : store'[d] = IF d = c THEN b ELSE store[d]
    BY <1>0, <1>2 DEF Typed
  <2> QED
    BY <1>0, <1>2, <2>2, <2>3 DEF StoreIsValid, WasLicensed, InStore
<1>3. CASE Read(r)
  <2>1. Typed' /\ StoreIsValid'
    BY <1>0, <1>3 DEF Read, Typed, StoreIsValid, WasLicensed, InStore
  <2>2. CASE r.kind = "cases" /\ Answer(r, [r EXCEPT !.list = InStore])
    BY <1>0, <1>1, <1>f, <2>1, <2>2, AnswersFormed DEF Formed
  <2>3. CASE r.kind = "open" /\ r.case \in InStore
               /\ Answer(r, [r EXCEPT !.body = store[r.case]])
    BY <1>0, <1>1, <1>f, <2>1, <2>3, AnswersFormed DEF Formed
  <2>4. CASE /\ r.kind = "items"
             /\ Answer(r, [r EXCEPT !.list = {Item(v, SizeOf(v)) : v \in available[r.type]}])
    BY <1>0, <1>1, <1>f, <2>1, <2>4, AnswersFormed DEF Formed
  <2>5. CASE /\ r.kind = "value" /\ r.value \in available[r.type]
             /\ Answer(r, [r EXCEPT !.number = SizeOf(r.value)])
    BY <1>0, <1>1, <1>f, <2>1, <2>5, AnswersFormed DEF Formed
  <2> QED
    BY <1>3, <2>2, <2>3, <2>4, <2>5 DEF Read
<1>4. CASE Create(r)
  <2>1. PICK c \in TestCases \ InStore :
          store' = [store EXCEPT ![c] = r.body] /\ Answer(r, [r EXCEPT !.case = c])
    BY <1>4 DEF Create
  <2>2. r.kind = "save" /\ r.body \in Bodies /\ Complete(r.body) /\ WasLicensed(r.body)
    BY <1>0, <1>4 DEF Create, WellFormed
  <2>3. Typed' /\ StoreIsValid'
    BY <1>2, <2>1, <2>2
  <2> QED
    BY <1>0, <1>1, <1>f, <2>1, <2>2, <2>3, AnswersFormed DEF Formed
<1>5. CASE Replace(r)
  <2>1. /\ r.case \in TestCases /\ store' = [store EXCEPT ![r.case] = r.body]
        /\ Answer(r, r)
    BY <1>5 DEF Replace, InStore
  <2>2. r.kind = "save" /\ r.body \in Bodies /\ Complete(r.body) /\ WasLicensed(r.body)
    BY <1>0, <1>5 DEF Replace, WellFormed
  <2>3. Typed' /\ StoreIsValid'
    BY <1>2, <2>1, <2>2
  <2> QED
    BY <1>0, <1>1, <1>f, <2>1, <2>2, <2>3, AnswersFormed DEF Formed
<1>6. CASE Remove(r)
  <2>1. /\ r.kind = "delete" /\ r.case \in InStore /\ r.case \in TestCases
        /\ store' = [store EXCEPT ![r.case] = NoBody]
        /\ Answer(r, [r EXCEPT !.body = store[r.case]])
    BY <1>6 DEF Remove, InStore
  <2>2. Typed' /\ StoreIsValid'
    BY <1>2, <2>1
  <2> QED
    BY <1>0, <1>1, <1>f, <2>1, <2>2, AnswersFormed DEF Formed
<1> QED
  BY <1>3, <1>4, <1>5, <1>6 DEF Serve

LEMMA FormedNext == Formed /\ [RegionNext]_regionVars => Formed'
<1> SUFFICES ASSUME Formed, [RegionNext]_regionVars PROVE Formed'
  OBVIOUS
<1> USE DEF loadVars, lifeVars, serverVars, userVars, shownVars, idVars
<1>1. ASSUME UNCHANGED <<shownVars, idVars, loadVars, listed, dialogs, pending,
                         store, available, sizes, had>>
      PROVE  Formed'
  BY <1>1, FormedQuiet DEF Formed, Typed
<1>2. CASE Start \/ Stop \/ LogOut \/ UNCHANGED regionVars
  BY <1>1, <1>2 DEF Start, Stop, LogOut, regionVars
<1>3. ASSUME NEW t \in Types, Update(t), Remembered,
             /\ available' \in [Types -> SUBSET Values]
             /\ \A u \in Types : available'[u] \subseteq Offer[u],
             /\ sizes' \in [Groups -> Sizes] /\ had' \in [Groups -> SUBSET Sizes]
             /\ \A g \in Groups : sizes'[g] \in had'[g]
      PROVE  Formed'
  <2>1. UNCHANGED <<box, items, store>>
    BY <1>3 DEF Update
  <2>2. Typed'
    BY <1>3 DEF Update, Formed, Typed
  <2>3. Sized'
    <3>1. \A u \in Types : Good(u) \subseteq Good(u)'
      BY <1>3, StaysFormed
    <3>2. \A u \in Types : box[u] \in Good(u)' \cup {NoItem} /\ items[u] \subseteq Good(u)'
      BY <3>1 DEF Formed, Sized
    <3> QED
      BY <1>3, <2>1, <3>2 DEF Sized
  <2>4. box[t].value # NoChoice => box[t].value \in Offer[t]
    BY Constants DEF Formed, Sized, Good
  <2>5. \A q \in DOMAIN pending' \ DOMAIN pending : WellFormed(q)
    BY <1>3, <2>4, UpdateSends, RequestsFormed
  <2> QED
    BY <1>3, <2>1, <2>2, <2>3, <2>5, FormedOn
<1>4. ASSUME NEW t \in Types, Withdraw(t) PROVE Formed'
  <2>1. /\ available' \in [Types -> SUBSET Values]
        /\ \A u \in Types : available'[u] \subseteq Offer[u]
    BY <1>4 DEF Withdraw, Formed, Typed
  <2>2. Update(t) /\ UNCHANGED <<sizes, had>>
    BY <1>4 DEF Withdraw
  <2>3. Remembered
    BY <2>2 DEF Remembered
  <2> QED
    BY <1>3, <2>1, <2>2, <2>3 DEF Formed, Sized
<1>5. ASSUME NEW g \in Groups, Resize(g) PROVE Formed'
  <2>1. Update("ue-group") /\ available' = available
    BY <1>5 DEF Resize
  <2>2. PICK n \in Sizes : /\ sizes' = [sizes EXCEPT ![g] = n]
                           /\ had' = [had EXCEPT ![g] = @ \cup {n}]
    BY <1>5 DEF Resize
  <2>3. /\ sizes' \in [Groups -> Sizes] /\ had' \in [Groups -> SUBSET Sizes]
        /\ \A h \in Groups : sizes'[h] \in had'[h]
    BY <2>2 DEF Formed, Sized
  <2>4. Remembered
    BY <2>2 DEF Formed, Sized, Remembered
  <2> QED
    BY <1>3, <2>1, <2>3, <2>4 DEF Formed, Typed, Types
<1> QED
  BY <1>2, <1>4, <1>5, UserFormed, CallBackFormed, ServeFormed DEF RegionNext

-----------------------------------------------------------------------------
(* Ids and handlers *)

\* A click sends nothing, or one request.
LEMMA UserSends ==
    ASSUME UserActs
    PROVE  \/ pending' = pending
           \/ \E x : /\ pending' = With(pending, x)
                     /\ \/ x.kind \notin {"save", "delete"}
                        \/ x.case \in {testCaseID, NoCase}
<1>1. ASSUME NEW savetype \in {"save", "saveas"}, Submit(savetype)
      PROVE  pending' = pending \/ pending' = With(pending, Saving(Target(savetype), Shown))
  BY <1>1 DEF Submit, Ajax
<1>2. \A savetype : Target(savetype) \in {testCaseID, NoCase}
  BY DEF Target
<1>3. ASSUME Open \/ Delete
      PROVE  pending' = With(pending, Request("cases"))
               \/ pending' = With(pending, Fixed("collections"))
  BY <1>3 DEF Open, Delete, Ajax
<1>4. ASSUME NEW c \in TestCases \cup {NoCase}, OpenSelected(c)
      PROVE  pending' = pending \/ pending' = With(pending, About("open", c))
  BY <1>4 DEF OpenSelected, Ajax
<1>5. ASSUME DeleteConfirmed PROVE pending' = With(pending, About("delete", testCaseID))
  BY <1>5 DEF DeleteConfirmed, Ajax
<1>6. ASSUME \/ \E n \in Names \cup {Empty} : TypeName(n)
             \/ \E t \in Types : \E i \in items[t] : Choose(t, i)
             \/ \E p \in Procedures : AddRow(p)
             \/ New \/ NewConfirmed \/ \E d \in Dialogs : Dismiss(d)
      PROVE  pending' = pending
  BY <1>6 DEF TypeName, Choose, AddRow, Edit, New, NewConfirmed, Dismiss
<1>7. CASE \E savetype \in {"save", "saveas"} : Submit(savetype)
  BY <1>1, <1>2, <1>7, KindsOf
<1>8. CASE Open \/ Delete
  BY <1>3, <1>8, KindsOf
<1>9. CASE \E c \in TestCases \cup {NoCase} : OpenSelected(c)
  BY <1>4, <1>9, KindsOf
<1>10. CASE DeleteConfirmed
  BY <1>5, <1>10, KindsOf
<1> QED
  BY <1>6, <1>7, <1>8, <1>9, <1>10 DEF UserActs

LEMMA KnownOn ==
    ASSUME Known, seen \subseteq seen', testCaseID' \in seen' \cup {NoCase},
           testCaseID' = NoCase <=> savedName' = NoName,
           \A q \in DOMAIN pending' \ DOMAIN pending : Entitled(q)'
    PROVE  Known'
BY DEF Known, Entitled

\* The page has its ids from answers, and what it sends has them from there.
LEMMA KnownNext == Formed /\ Known /\ [RegionNext]_regionVars => Known'
<1> SUFFICES ASSUME Formed, Known, [RegionNext]_regionVars PROVE Known'
  OBVIOUS
<1> USE DEF loadVars, lifeVars, serverVars, userVars, shownVars, idVars
<1>1. ASSUME UNCHANGED idVars, \A q \in DOMAIN pending' \ DOMAIN pending : Entitled(q)'
      PROVE  Known'
  BY <1>1, KnownOn DEF Known
<1>2. CASE Start \/ Stop \/ LogOut \/ UNCHANGED regionVars
  BY <1>1, <1>2 DEF Start, Stop, LogOut, regionVars
<1>3. ASSUME NEW t \in Types, Update(t) PROVE Known'
  <2>1. UNCHANGED idVars
    BY <1>3 DEF Update
  <2>2. \A q \in DOMAIN pending' \ DOMAIN pending : q.kind \in {"items", "value"}
    BY <1>3, UpdateSends, KindsOf
  <2> QED
    BY <1>1, <2>1, <2>2 DEF Entitled
<1>4. CASE UserActs
  <2>1. \A q \in DOMAIN pending' \ DOMAIN pending :
          q.kind \notin {"save", "delete"} \/ q.case \in {testCaseID, NoCase}
    BY <1>4, UserSends, SentDomain
  <2>2. /\ seen' = seen
        /\ \/ testCaseID' = testCaseID /\ savedName' = savedName
           \/ testCaseID' = NoCase /\ savedName' = NoName
    BY <1>4 DEF UserActs, TypeName, Choose, AddRow, Edit, New, NewConfirmed,
       Submit, Open, OpenSelected, Delete, DeleteConfirmed, Dismiss, ResetRegion
  <2>3. \A q \in DOMAIN pending' \ DOMAIN pending : Entitled(q)'
    BY <2>1, <2>2 DEF Entitled, Known
  <2> QED
    BY <2>2, <2>3, KnownOn DEF Known
<1>5. ASSUME NEW r \in DOMAIN pending, CallBack(r) PROVE Known'
  <2>0. WellFormed(r) /\ \A q \in DOMAIN Rest(r) : q \in DOMAIN pending
    BY RestDomain DEF Formed
  <2>1. CASE Opened(r)
    <3>1. \A q \in DOMAIN pending' \ DOMAIN pending : q.kind = "value"
      BY <2>0, <2>1, OpenedSends, KindsOf
    <3>2. r.case \in TestCases /\ r.body \in Bodies
      BY <2>0, <2>1 DEF Opened, Called, WellFormed
    <3>3. r.body.name \in Names
      BY <3>2 DEF Bodies
    <3>4. /\ testCaseID' = r.case /\ seen' = seen \cup {r.case}
          /\ savedName' = r.body.name
      BY <2>1 DEF Opened
    <3>5. r.case # NoCase /\ r.body.name # NoName
      BY <3>2, <3>3, Constants
    <3> QED
      BY <3>1, <3>4, <3>5, KnownOn DEF Entitled
  <2>2. CASE Saved(r)
    <3>1. /\ testCaseID' = r.case /\ seen' = seen \cup {r.case} /\ savedName' = name
          /\ pending' = Rest(r)
      BY <2>2 DEF Saved, Back
    <3>2. r.case \in TestCases /\ name \in Names \cup {Empty}
      BY <2>0, <2>2 DEF Saved, Called, WellFormed, Formed, Typed
    <3>3. r.case # NoCase /\ name # NoName
      BY <3>2, Constants
    <3> QED
      BY <2>0, <3>1, <3>3, KnownOn
  <2>3. CASE ~Opened(r) /\ ~Saved(r)
    <3>1. UNCHANGED idVars /\ pending' = Rest(r)
      BY <1>5, <2>3 DEF CallBack, QuotaLoaded, InstructionsLoaded, ItemsLoaded,
         ValueLoaded, SetBox, CasesLoaded, Deleted, CollectionsLoaded, Failed, Back
    <3> QED
      BY <1>1, <2>0, <3>1
  <2> QED
    BY <2>1, <2>2, <2>3
<1>6. ASSUME NEW r \in DOMAIN pending, Serve(r) PROVE Known'
  <2>0. r \in Requests /\ \A q \in DOMAIN Rest(r) : q \in DOMAIN pending
    BY RestDomain DEF Formed, WellFormed
  <2>1. UNCHANGED idVars
    BY <1>6 DEF Serve
  <2>2. PICK a \in Requests : Answer(r, a)
    <3>1. ASSUME NEW c \in InStore
          PROVE  c \in TestCases /\ store[c] \in Bodies
      BY <3>1 DEF InStore, Formed, Typed
    <3>2. InStore \in SUBSET (TestCases \cup AnyItem)
      BY DEF InStore
    <3>7. ASSUME r.kind \in {"items", "value"}
          PROVE  /\ \A v \in available[r.type] :
                      Item(v, SizeOf(v)) \in AnyItem /\ SizeOf(v) \in Nat
                 /\ {Item(v, SizeOf(v)) : v \in available[r.type]} \in SUBSET (TestCases \cup AnyItem)
      <4>1. r.type \in Types
        BY <3>7 DEF Formed, WellFormed
      <4>2. ASSUME NEW v \in available[r.type]
            PROVE  Item(v, SizeOf(v)) \in AnyItem /\ SizeOf(v) \in Nat
        <5>1. v \in Values
          BY <4>1 DEF Formed, Typed
        <5>2. SizeOf(v) \in Nat
          BY Constants DEF SizeOf, Formed, Sized
        <5> QED
          BY <5>1, <5>2 DEF Item, AnyItem
      <4> QED
        BY <4>2
    <3>8. CASE r.kind \in {"cases", "open"} /\ Read(r)
      BY <2>0, <3>1, <3>2, <3>8 DEF Read, Requests
    <3>9. CASE r.kind = "items" /\ Read(r)
      <4>1. PICK L : L = {Item(v, SizeOf(v)) : v \in available[r.type]}
        OBVIOUS
      <4>2. L \in SUBSET (TestCases \cup AnyItem) /\ Answer(r, [r EXCEPT !.list = L])
        BY <3>7, <3>9, <4>1 DEF Read
      <4>3. [r EXCEPT !.list = L] \in Requests
        BY <2>0, <4>2 DEF Requests
      <4> QED BY <4>2, <4>3
    <3>10. CASE r.kind = "value" /\ Read(r)
      <4>1. PICK n : n = SizeOf(r.value)
        OBVIOUS
      <4>2. n \in Nat /\ Answer(r, [r EXCEPT !.number = n])
        BY <3>7, <3>10, <4>1 DEF Read
      <4>3. [r EXCEPT !.number = n] \in Requests
        BY <2>0, <4>2 DEF Requests
      <4> QED BY <4>2, <4>3
    <3>3. CASE Read(r)
      BY <3>3, <3>8, <3>9, <3>10 DEF Read
    <3>4. CASE Create(r)
      BY <2>0, <3>4 DEF Create, Requests
    <3>5. CASE Replace(r)
      BY <2>0, <3>5 DEF Replace
    <3>6. CASE Remove(r)
      BY <2>0, <3>1, <3>6 DEF Remove, Requests
    <3> QED
      BY <1>6, <3>3, <3>4, <3>5, <3>6 DEF Serve
  <2>3. [a EXCEPT !.status = "ok"].status = "ok"
    BY DEF Requests
  <2> QED
    <3>1. DOMAIN pending' = DOMAIN Rest(r) \cup {[a EXCEPT !.status = "ok"]}
      BY <2>2, AnswerDomain
    <3>2. \A q \in DOMAIN pending' \ DOMAIN pending : q.status = "ok"
      BY <2>0, <2>3, <3>1
    <3> QED
      BY <1>1, <2>1, <3>2 DEF Entitled
<1> QED
  BY <1>2, <1>3, <1>4, <1>5, <1>6 DEF RegionNext, Withdraw, Resize, Types

\* Each start puts one handler of each event on the bus, after taking off the
\* one that is there.
LEMMA WiredNext == Wired /\ [RegionNext]_regionVars => Wired'
<1> SUFFICES ASSUME Wired, [RegionNext]_regionVars PROVE Wired'
  OBVIOUS
<1> USE RegionBounds DEF Wired, HandlersCounted
<1>1. CASE Start
  <2>1. \A e \in Events : subs'[e] = Unsubscribed[e] + 1
    BY <1>1 DEF Start
  <2>2. \A e \in Events : Unsubscribed[e] = IF e = "newConfirmed" THEN starts ELSE 0
    BY <1>1 DEF Start, Unsubscribed
  <2> QED
    BY <1>1, <2>1, <2>2 DEF Start
<1>2. CASE Stop
  <2>1. \A e \in Events : Unsubscribed[e] = IF e = "newConfirmed" THEN subs[e] ELSE 0
    BY <1>2 DEF Stop, Unsubscribed
  <2>2. \A e \in Events : subs'[e] = IF e = "newConfirmed" THEN subs[e] ELSE 0
    BY <1>2, <2>1 DEF Stop
  <2>3. started' = FALSE /\ starts' = starts
    BY <1>2 DEF Stop
  <2>4. 0 \in 0..starts
    OBVIOUS
  <2>5. subs' \in [Events -> 0..starts']
    BY <1>2, <2>1, <2>3 DEF Stop, Unsubscribed
  <2> QED
    BY <2>2, <2>3, <2>4, <2>5
<1>3. CASE UNCHANGED lifeVars
  BY <1>3 DEF lifeVars
<1>4. CASE UserActs
  BY <1>3, <1>4 DEF UserActs, TypeName, Choose, AddRow, Edit, OnPage, New, Published,
     NewConfirmed, Submit, Open, OpenSelected, Delete, DeleteConfirmed, Dismiss, Click
<1>5. CASE \/ (\E t \in Types : Withdraw(t)) \/ (\E g \in Groups : Resize(g))
           \/ LogOut \/ UNCHANGED regionVars
  BY <1>3, <1>5 DEF Withdraw, Resize, Update, LogOut, regionVars
<1>6. CASE \E r \in DOMAIN pending : CallBack(r) \/ Serve(r)
  BY <1>3, <1>6 DEF CallBack, Serve
<1> QED
  BY <1>1, <1>2, <1>4, <1>5, <1>6 DEF RegionNext

-----------------------------------------------------------------------------
(* A user who waits *)

\* A request that is called back leaves the others as they are.
LEMMA RestKeeps ==
    ASSUME NEW r, NEW q \in DOMAIN Rest(r), pending[q] = 1
    PROVE  q \in DOMAIN pending /\ q # r /\ Rest(r)[q] = 1
<1>1. pending[r] = 1 => r \notin DOMAIN BagRemove(pending, r)
  BY BagFacts
<1>2. \A y \in DOMAIN BagRemove(pending, r) \ {r} : BagRemove(pending, r)[y] = pending[y]
  BY BagFacts
<1>3. DOMAIN BagRemove(pending, r) \subseteq DOMAIN pending
  BY BagFacts
<1> QED
  BY <1>1, <1>2, <1>3 DEF Rest

\* Asking for items and values leaves the requests the user waits for.
LEMMA AskingKeeps ==
    ASSUME NEW B, NEW x, x.kind \notin Awaited, NEW q \in DOMAIN With(B, x),
           q.kind \in Awaited
    PROVE  q \in DOMAIN B /\ With(B, x)[q] = B[q]
<1>1. With(B, x) = B \/ With(B, x) = BagAdd(B, x)
  BY BagFacts
<1>2. \A y \in DOMAIN B \ {x} : BagAdd(B, x)[y] = B[y]
  BY BagFacts
<1>3. DOMAIN BagAdd(B, x) = DOMAIN B \cup {x}
  BY BagFacts
<1> QED
  BY <1>1, <1>2, <1>3

CalmVars == <<rows, name, testCaseID, savedName, store, touch, hasty>>

\* A step that leaves page and store alone, and sends nothing awaited.
LEMMA CalmQuiet ==
    ASSUME Calm, UNCHANGED CalmVars,
           \A q \in DOMAIN pending' :
             q.kind \in Awaited =>
               q \in DOMAIN pending /\ (pending[q] = 1 => pending'[q] = 1)
    PROVE  Calm'
<1> SUFFICES ASSUME ~hasty PROVE Calm'
  BY DEF Calm, CalmVars
<1> USE DEF CalmVars
<1>1. Alone'
  BY DEF Calm, Alone
<1>2. \A q \in DOMAIN pending' : UpToDate(q)'
  BY DEF Calm, UpToDate, Stores, InStore, Awaited
<1>3. /\ testCaseID' \in (InStore \cup {NoCase})'
      /\ touch' \in Unedited => Matches'
  BY DEF Calm, Matches, InStore
<1> QED
  BY <1>1, <1>2, <1>3 DEF Calm

\* A click: if it was not hasty, nothing awaited was out before it.
LEMMA CalmClick ==
    ASSUME Calm, Click, testCaseID' \in {testCaseID, NoCase},
           touch' \in Unedited =>
             /\ UNCHANGED <<testCaseID, savedName, name>> /\ touch \in Unedited
             /\ \/ UNCHANGED <<touch, rows>>
                \/ touch' = "emptied" /\ rows' = <<>>,
           \/ pending' = pending
           \/ \E x : pending' = With(pending, x) /\ UpToDate(x)'
    PROVE  Calm'
<1> SUFFICES ASSUME ~hasty' PROVE Calm'
  BY DEF Calm
<1>1. ~hasty /\ ~Waiting /\ store' = store
  BY DEF Click, serverVars
<1>2. \A q \in DOMAIN pending : q.kind \notin Awaited
  BY <1>1 DEF Waiting
<1>3. /\ testCaseID' \in (InStore \cup {NoCase})'
      /\ touch' \in Unedited => Matches'
  BY <1>1 DEF Calm, Matches, InStore, Unedited
<1>4. CASE pending' = pending
  BY <1>2, <1>3, <1>4 DEF Calm, Alone, UpToDate, Awaited
<1>5. CASE \E x : pending' = With(pending, x) /\ UpToDate(x)'
  <2>1. PICK x : pending' = With(pending, x) /\ UpToDate(x)'
    BY <1>5
  <2>2. pending' = pending \/ pending' = BagAdd(pending, x)
    BY <2>1, BagFacts
  <2>3. /\ DOMAIN BagAdd(pending, x) = DOMAIN pending \cup {x}
        /\ x \notin DOMAIN pending => BagAdd(pending, x)[x] = 1
    BY BagFacts
  <2>4. \A q \in DOMAIN pending' :
          q.kind \in Awaited => q = x /\ pending'[q] = 1
    BY <1>2, <2>2, <2>3
  <2>5. Alone'
    BY <2>4 DEF Alone
  <2>6. \A q \in DOMAIN pending' : UpToDate(q)'
    <3>1. \A q \in DOMAIN pending' : q.kind \notin Awaited => UpToDate(q)'
      BY DEF UpToDate, Awaited
    <3> QED
      BY <2>1, <2>4, <3>1
  <2> QED
    BY <1>3, <2>5, <2>6 DEF Calm
<1> QED
  BY <1>4, <1>5

LEMMA UserCalm == Calm /\ UserActs => Calm'
<1> SUFFICES ASSUME Calm, UserActs PROVE Calm'
  OBVIOUS
<1> USE DEF OnPage, Published, shownVars, idVars, Unedited
<1>1. CASE \/ \E n \in Names \cup {Empty} : TypeName(n)
           \/ \E t \in Types : \E i \in items[t] : Choose(t, i)
           \/ \E p \in Procedures : AddRow(p)
  BY <1>1, CalmClick DEF TypeName, Choose, AddRow, Edit
<1>2. CASE New \/ \E d \in Dialogs : Dismiss(d)
  BY <1>2, CalmClick DEF New, Dismiss
<1>3. CASE NewConfirmed
  BY <1>3, CalmClick DEF NewConfirmed, ResetRegion
<1>4. ASSUME NEW savetype \in {"save", "saveas"}, Submit(savetype) PROVE Calm'
  <2>1. Click /\ UNCHANGED <<name, rows, box, testCaseID, savedName, touch>>
    BY <1>4 DEF Submit
  <2>2. PICK x : x = Saving(Target(savetype), Shown)
    OBVIOUS
  <2>3. x.kind = "save" /\ x.status = "sent" /\ x.body = Shown
    BY <2>2, KindsOf
  <2>4. UpToDate(x)'
    BY <2>1, <2>3 DEF UpToDate, Shown
  <2>5. pending' = pending \/ pending' = With(pending, x)
    BY <1>4, <2>2 DEF Submit, Ajax
  <2> QED
    BY <2>1, <2>4, <2>5, CalmClick
<1>5. CASE Open \/ Delete
  <2>1. Click /\ UNCHANGED <<name, rows, box, testCaseID, savedName, touch>>
    BY <1>5 DEF Open, Delete
  <2>2. PICK x : pending' = With(pending, x) /\ x.kind \in {"cases", "collections"}
    BY <1>5, KindsOf DEF Open, Delete, Ajax
  <2>3. UpToDate(x)'
    BY <2>2 DEF UpToDate
  <2> QED
    BY <2>1, <2>2, <2>3, CalmClick
<1>6. ASSUME NEW c \in TestCases \cup {NoCase}, OpenSelected(c) PROVE Calm'
  <2>1. /\ Click /\ UNCHANGED <<testCaseID, savedName, name>> /\ rows' = <<>>
        /\ touch' = IF touch = "clean" THEN "emptied" ELSE touch
    BY <1>6 DEF OpenSelected, NewTable, Emptied
  <2>2. PICK x : x = About("open", c)
    OBVIOUS
  <2>3. x.kind = "open" /\ x.status = "sent"
    BY <2>2, KindsOf
  <2>4. UpToDate(x)'
    BY <2>1, <2>3 DEF UpToDate
  <2>5. pending' = pending \/ pending' = With(pending, x)
    BY <1>6, <2>2 DEF OpenSelected, Ajax
  <2> QED
    BY <2>1, <2>4, <2>5, CalmClick
<1>7. CASE DeleteConfirmed
  <2>1. Click /\ testCaseID' = NoCase /\ touch' = "reset"
    BY <1>7 DEF DeleteConfirmed, ResetRegion
  <2>2. PICK x : x = About("delete", testCaseID)
    OBVIOUS
  <2>3. x.kind = "delete" /\ pending' = With(pending, x)
    BY <1>7, <2>2, KindsOf DEF DeleteConfirmed, Ajax
  <2>4. UpToDate(x)'
    BY <2>1, <2>3 DEF UpToDate
  <2> QED
    BY <2>1, <2>3, <2>4, CalmClick
<1> QED
  BY <1>1, <1>2, <1>3, <1>4, <1>5, <1>6, <1>7 DEF UserActs

\* When an answer is called back, the user waits for nothing else.
LEMMA NoneLeft ==
    ASSUME Alone, NEW r \in DOMAIN pending, r.kind \in Awaited
    PROVE  pending[r] = 1 /\ \A q \in DOMAIN Rest(r) : q.kind \notin Awaited
<1>1. pending[r] = 1
  BY DEF Alone
<1>2. ASSUME NEW q \in DOMAIN Rest(r), q.kind \in Awaited PROVE FALSE
  <2>1. q \in DOMAIN pending
    BY RestDomain
  <2>2. q = r
    BY <1>2, <2>1 DEF Alone
  <2>3. pending[q] = 1
    BY <1>1, <2>2
  <2> QED
    BY <2>2, <2>3, RestKeeps
<1> QED
  BY <1>1, <1>2

LEMMA CalmNone ==
    ASSUME \A q \in DOMAIN pending' : q.kind \notin Awaited,
           testCaseID' \in (InStore \cup {NoCase})', touch' \in Unedited => Matches'
    PROVE  Calm'
<1>1. Alone'
  BY DEF Alone
<1>2. \A q \in DOMAIN pending' : UpToDate(q)'
  BY DEF UpToDate, Awaited
<1> QED
  BY <1>1, <1>2 DEF Calm

\* openTestCaseSuccess and saveTestCaseSuccess show what the server has, if
\* the page was left as it was.
LEMMA CallBackCalm ==
    ASSUME Formed, Calm, NEW r \in DOMAIN pending, CallBack(r) PROVE Calm'
<1> SUFFICES ASSUME ~hasty' PROVE Calm'
  BY DEF Calm
<1> USE DEF loadVars, lifeVars, serverVars, userVars, shownVars, idVars
<1>0. /\ ~hasty /\ store' = store /\ UpToDate(r) /\ Alone /\ WellFormed(r)
      /\ testCaseID \in InStore \cup {NoCase} /\ (touch \in Unedited => Matches)
  BY DEF CallBack, Calm, Formed
<1>1. CASE Opened(r)
  <2>1. r.kind = "open" /\ r.status = "ok"
    BY <1>1 DEF Opened, Called
  <2>2. /\ testCaseID' = r.case /\ savedName' = r.body.name /\ name' = r.body.name
        /\ rows' = rows \o r.body.steps /\ touch' = "clean"
    BY <1>1 DEF Opened, RenderRows
  <2>3. rows = <<>> /\ r.case \in InStore /\ store[r.case] = r.body
    BY <1>0, <2>1 DEF UpToDate, Stores
  <2>4. r.body \in Bodies
    BY <1>0, <2>1 DEF WellFormed
  <2>5. <<>> \o r.body.steps = r.body.steps
    <3>1. r.body.steps \in Seq(Procedures)
      BY <2>4 DEF Bodies
    <3> QED
      BY <3>1
  <2>6. \A q \in DOMAIN pending' : q.kind \notin Awaited
    <3>1. \A q \in DOMAIN Rest(r) : q.kind \notin Awaited
      BY <1>0, <2>1, NoneLeft DEF Awaited
    <3>2. \A q \in DOMAIN pending' : q \in DOMAIN Rest(r) \/ q.kind = "value"
      BY <1>1, OpenedSends, KindsOf
    <3> QED
      BY <3>1, <3>2 DEF Awaited
  <2>7. Matches' /\ testCaseID' \in InStore'
    BY <1>0, <2>2, <2>3, <2>5 DEF Matches, InStore
  <2> QED
    BY <2>6, <2>7, CalmNone
<1>2. CASE Saved(r)
  <2>1. /\ r.kind = "save" /\ r.status = "ok" /\ pending' = Rest(r)
        /\ testCaseID' = r.case /\ savedName' = name /\ name' = name /\ rows' = rows
    BY <1>2 DEF Saved, Called, Back
  <2>2. /\ r.case \in InStore /\ store[r.case] = r.body
        /\ r.body.name = name /\ r.body.steps = rows
    BY <1>0, <2>1 DEF UpToDate, Stores
  <2>3. \A q \in DOMAIN pending' : q.kind \notin Awaited
    BY <1>0, <2>1, NoneLeft DEF Awaited
  <2>4. touch' \in {"reset", "clean"}
    BY <1>2 DEF Saved
  <2>5. (touch' \in Unedited => Matches') /\ testCaseID' \in InStore'
    BY <1>0, <2>1, <2>2, <2>4 DEF Matches, InStore, Unedited
  <2> QED
    BY <2>3, <2>5, CalmNone
<1>3. CASE ~Opened(r) /\ ~Saved(r)
  <2>1. UNCHANGED CalmVars /\ pending' = Rest(r)
    BY <1>3 DEF CallBack, QuotaLoaded, InstructionsLoaded, ItemsLoaded, ValueLoaded,
       SetBox, CasesLoaded, Deleted, CollectionsLoaded, Failed, Back, CalmVars
  <2>2. \A q \in DOMAIN pending' :
          q \in DOMAIN pending /\ (pending[q] = 1 => pending'[q] = 1)
    BY <2>1, RestDomain, RestKeeps
  <2> QED
    BY <2>1, <2>2, CalmQuiet
<1> QED
  BY <1>1, <1>2, <1>3

\* The server answers the one request that is out, on the page as it is.
LEMMA ServeCalm ==
    ASSUME Formed, Calm, NEW r \in DOMAIN pending, Serve(r) PROVE Calm'
<1> SUFFICES ASSUME ~hasty' PROVE Calm'
  BY DEF Calm
<1> USE DEF lifeVars, userVars, shownVars, idVars
<1>0. /\ ~hasty /\ UpToDate(r) /\ Alone /\ r \in Requests /\ WellFormed(r)
      /\ testCaseID \in InStore \cup {NoCase} /\ (touch \in Unedited => Matches)
      /\ store \in [TestCases -> Bodies \cup {NoBody}]
      /\ UNCHANGED <<name, rows, testCaseID, savedName, touch>>
  BY DEF Serve, Calm, Formed, Typed, WellFormed
<1>1. r.kind \in Awaited => \A q \in DOMAIN Rest(r) : q.kind \notin Awaited
  BY <1>0, NoneLeft
<1>8. CASE r.kind \in {"items", "value"}
  <2>1. UNCHANGED CalmVars
    BY <1>8 DEF Serve, Read, Create, Replace, Remove, CalmVars
  <2>2. PICK b : Answer(r, b) /\ [b EXCEPT !.status = "ok"].kind = r.kind
    BY <1>0, <1>8 DEF Serve, Read, Create, Replace, Remove, Requests
  <2>3. PICK a : a = [b EXCEPT !.status = "ok"]
    OBVIOUS
  <2>4. pending' = BagAdd(Rest(r), a) /\ a.kind \notin Awaited
    BY <1>8, <2>2, <2>3 DEF Answer, Awaited
  <2>5. /\ DOMAIN pending' = DOMAIN Rest(r) \cup {a}
        /\ \A y \in DOMAIN Rest(r) \ {a} : pending'[y] = Rest(r)[y]
    <3>1. /\ DOMAIN BagAdd(Rest(r), a) = DOMAIN Rest(r) \cup {a}
          /\ \A y \in DOMAIN Rest(r) \ {a} : BagAdd(Rest(r), a)[y] = Rest(r)[y]
      BY BagFacts
    <3> QED
      BY <2>4, <3>1
  <2>6. \A q \in DOMAIN pending' :
          q.kind \in Awaited => q \in DOMAIN pending /\ (pending[q] = 1 => pending'[q] = 1)
    BY <2>4, <2>5, RestDomain, RestKeeps
  <2> QED
    BY <2>1, <2>6, CalmQuiet
<1>2. ASSUME NEW b, NEW a, a = [b EXCEPT !.status = "ok"], Answer(r, b),
             r.kind \in Awaited, a.kind \in Awaited, UpToDate(a)',
             testCaseID \in (InStore \cup {NoCase})', touch \in Unedited => Matches'
      PROVE  Calm'
  <2>1. pending' = BagAdd(Rest(r), a)
    BY <1>2 DEF Answer
  <2>2. /\ DOMAIN BagAdd(Rest(r), a) = DOMAIN Rest(r) \cup {a}
        /\ a \notin DOMAIN Rest(r) => BagAdd(Rest(r), a)[a] = 1
    BY BagFacts
  <2>3. \A q \in DOMAIN pending' : q.kind \in Awaited => q = a /\ pending'[q] = 1
    BY <1>1, <1>2, <2>1, <2>2
  <2>4. Alone'
    BY <2>3 DEF Alone
  <2>5. \A q \in DOMAIN pending' : UpToDate(q)'
    <3>1. \A q : q.kind \notin Awaited => UpToDate(q)'
      BY DEF UpToDate, Awaited
    <3> QED
      BY <1>2, <2>3, <3>1
  <2> QED
    BY <1>0, <1>2, <2>4, <2>5 DEF Calm
\* What is stored under another id is as it was.
<1>3. ASSUME NEW c \in TestCases, NEW b, store' = [store EXCEPT ![c] = b]
      PROVE  /\ testCaseID # c =>
                  /\ testCaseID \in (InStore \cup {NoCase})'
                  /\ touch \in Unedited => Matches'
             /\ b # NoBody => c \in InStore' /\ store'[c] = b
  BY <1>0, <1>3 DEF Matches, InStore
<1>4. CASE Read(r)
  <2>1. testCaseID \in (InStore \cup {NoCase})' /\ (touch \in Unedited => Matches')
    BY <1>0, <1>4 DEF Read, Matches, InStore
  <2>2. CASE r.kind = "cases" /\ Answer(r, [r EXCEPT !.list = InStore])
    <3>1. PICK a : a = [[r EXCEPT !.list = InStore] EXCEPT !.status = "ok"]
      OBVIOUS
    <3>2. a.kind = "cases"
      BY <1>0, <2>2, <3>1 DEF Requests
    <3> QED
      BY <1>2, <2>1, <2>2, <3>1, <3>2 DEF UpToDate, Awaited
  <2>3. CASE r.kind = "open" /\ r.case \in InStore
               /\ Answer(r, [r EXCEPT !.body = store[r.case]])
    <3>1. PICK a : a = [[r EXCEPT !.body = store[r.case]] EXCEPT !.status = "ok"]
      OBVIOUS
    <3>2. a.kind = "open" /\ a.case = r.case /\ a.body = store[r.case]
      BY <1>0, <2>3, <3>1 DEF Requests
    <3>3. rows = <<>> /\ store' = store
      BY <1>0, <1>4, <2>3 DEF UpToDate, Read
    <3>4. UpToDate(a)'
      BY <1>0, <2>3, <3>2, <3>3 DEF UpToDate, Stores, InStore
    <3> QED
      BY <1>2, <2>1, <2>3, <3>1, <3>2, <3>4 DEF Awaited
  <2> QED
    BY <1>4, <1>8, <2>2, <2>3 DEF Read
<1>5. CASE Create(r)
  <2>1. PICK c \in TestCases \ InStore :
          store' = [store EXCEPT ![c] = r.body] /\ Answer(r, [r EXCEPT !.case = c])
    BY <1>5 DEF Create
  <2>2. r.kind = "save" /\ r.body \in Bodies /\ r.body # NoBody
    BY <1>0, <1>5, Constants DEF Create, WellFormed
  <2>3. testCaseID # c
    BY <1>0, <2>1, Constants
  <2>4. PICK a : a = [[r EXCEPT !.case = c] EXCEPT !.status = "ok"]
    OBVIOUS
  <2>5. a.kind = "save" /\ a.case = c /\ a.body = r.body
    BY <1>0, <2>2, <2>4 DEF Requests
  <2>6. UpToDate(a)'
    BY <1>0, <1>3, <2>1, <2>2, <2>5 DEF UpToDate, Stores
  <2> QED
    BY <1>2, <1>3, <2>1, <2>2, <2>3, <2>4, <2>5, <2>6 DEF Awaited
<1>6. CASE Replace(r)
  <2>1. /\ r.case \in TestCases /\ store' = [store EXCEPT ![r.case] = r.body]
        /\ Answer(r, r)
    BY <1>6 DEF Replace, InStore
  <2>2. /\ r.kind = "save" /\ r.body \in Bodies /\ r.body # NoBody
        /\ r.body.name = name /\ r.body.steps = rows
    BY <1>0, <1>6, Constants DEF Replace, WellFormed, UpToDate
  <2>3. r.case \in InStore' /\ store'[r.case] = r.body
    BY <1>3, <2>1, <2>2
  <2>4. testCaseID \in (InStore \cup {NoCase})' /\ (touch \in Unedited => Matches')
    BY <1>0, <1>3, <2>1, <2>2, <2>3 DEF Matches
  <2>5. PICK a : a = [r EXCEPT !.status = "ok"]
    OBVIOUS
  <2>6. a.kind = "save" /\ a.case = r.case /\ a.body = r.body
    BY <1>0, <2>2, <2>5 DEF Requests
  <2>7. UpToDate(a)'
    BY <1>0, <2>2, <2>3, <2>6 DEF UpToDate, Stores
  <2> QED
    BY <1>2, <2>1, <2>2, <2>4, <2>5, <2>6, <2>7 DEF Awaited
<1>7. CASE Remove(r)
  <2>1. /\ r.kind = "delete" /\ r.case \in TestCases
        /\ store' = [store EXCEPT ![r.case] = NoBody]
        /\ Answer(r, [r EXCEPT !.body = store[r.case]])
    BY <1>7 DEF Remove, InStore
  <2>2. testCaseID = NoCase /\ testCaseID # r.case
    BY <1>0, <2>1, Constants DEF UpToDate
  <2>3. PICK a : a = [[r EXCEPT !.body = store[r.case]] EXCEPT !.status = "ok"]
    OBVIOUS
  <2>4. a.kind = "delete"
    BY <1>0, <2>1, <2>3 DEF Requests
  <2>5. UpToDate(a)'
    BY <1>0, <2>2, <2>4 DEF UpToDate
  <2> QED
    BY <1>2, <1>3, <2>1, <2>2, <2>3, <2>4, <2>5 DEF Awaited
<1> QED
  BY <1>4, <1>5, <1>6, <1>7, <1>8 DEF Serve

LEMMA CalmNext == Formed /\ Calm /\ [RegionNext]_regionVars => Calm'
<1> SUFFICES ASSUME Formed, Calm, [RegionNext]_regionVars PROVE Calm'
  OBVIOUS
<1>1. CASE Start \/ Stop \/ LogOut \/ UNCHANGED regionVars
  BY <1>1, CalmQuiet DEF Start, Stop, LogOut, regionVars, loadVars, lifeVars,
     serverVars, userVars, shownVars, idVars, CalmVars
<1>2. ASSUME NEW t \in Types, Update(t) PROVE Calm'
  <2>1. UNCHANGED CalmVars
    BY <1>2 DEF Update, shownVars, idVars, userVars, CalmVars
  <2>2. PICK x : x = Items(t)
    OBVIOUS
  <2>3. PICK y : y = Value(t, box[t].value)
    OBVIOUS
  <2>4. x.kind \notin Awaited /\ y.kind \notin Awaited
    BY <2>2, <2>3, KindsOf DEF Awaited
  <2>5. PICK B : B = With(pending, x)
    OBVIOUS
  <2>6. pending' = B \/ pending' = With(B, y)
    BY <1>2, <2>2, <2>3, <2>5 DEF Update
  <2>7. \A q \in DOMAIN B : q.kind \in Awaited => q \in DOMAIN pending /\ B[q] = pending[q]
    BY <2>4, <2>5, AskingKeeps
  <2>8. \A q \in DOMAIN With(B, y) :
          q.kind \in Awaited => q \in DOMAIN B /\ With(B, y)[q] = B[q]
    BY <2>4, AskingKeeps
  <2>9. \A q \in DOMAIN pending' :
          q.kind \in Awaited => q \in DOMAIN pending /\ pending'[q] = pending[q]
    BY <2>6, <2>7, <2>8
  <2> QED
    BY <2>1, <2>9, CalmQuiet
<1> QED
  BY <1>1, <1>2, UserCalm, CallBackCalm, ServeCalm
  DEF RegionNext, Withdraw, Resize, Types

-----------------------------------------------------------------------------
(* The theorems *)

\* The page has no test case at first, and is not waited for.
LEMMA RegionInvInit == RegionInit => RegionInv
<1> SUFFICES ASSUME RegionInit PROVE RegionInv
  OBVIOUS
<1>1. DOMAIN pending = {Fixed("quota"), Fixed("instruction")}
                         \cup {Items(t) : t \in Types}
  BY DEF RegionInit, SetToBag
<1>2. \A q \in DOMAIN pending : q.kind \in {"quota", "instruction", "items"}
  BY <1>1, KindsOf
<1>3. Known
  BY <1>2 DEF RegionInit, Known, Entitled
<1>4. Wired
  <2>1. started = FALSE /\ starts = 0 /\ subs = [e \in Events |-> 0]
    BY DEF RegionInit
  <2>2. subs \in [Events -> 0..0] /\ \A e \in Events : subs[e] = 0
    BY <2>1
  <2>3. subs \in [Events -> 0..starts]
    BY <2>1, <2>2
  <2>4. 0 \in 0..MaxStarts
    BY RegionBounds
  <2>5. HandlersCounted
    BY <2>1, <2>2 DEF HandlersCounted
  <2> QED
    BY <2>1, <2>3, <2>4, <2>5 DEF Wired
<1>5. Calm
  BY <1>2 DEF RegionInit, Calm, Alone, UpToDate, Awaited, Unedited
<1> QED
  BY <1>3, <1>4, <1>5, FormedInit DEF RegionInv

LEMMA RegionInvNext == RegionInv /\ [RegionNext]_regionVars => RegionInv'
BY FormedNext, KnownNext, WiredNext, CalmNext DEF RegionInv

LEMMA RegionInvariant == RegionSpec => []RegionInv
BY RegionInvInit, RegionInvNext, PTL DEF RegionSpec

\* Every variable holds a value of its type; the requests under way and the
\* answers to them too.
THEOREM RegionTypes == RegionSpec => []RegionTypeOK
<1>1. ASSUME RegionInv PROVE RegionTypeOK
  <2>1. Typed /\ \A r \in DOMAIN pending : r \in Requests
    BY <1>1 DEF RegionInv, Formed, WellFormed
  <2>2. \A r \in DOMAIN pending :
          /\ r.kind \in Kinds /\ r.type \in Types \cup {"none"}
          /\ r.case \in TestCases \cup {NoCase}
          /\ r.body \in Bodies \cup {NoBody}
          /\ r.status \in {"sent", "ok"}
    BY <2>1 DEF Requests
  <2>4. sizes \in [Groups -> Sizes] /\ \A t \in Types : items[t] \subseteq AnyItem
    BY <1>1 DEF RegionInv, Formed, Sized, Typed
  <2>3. started \in BOOLEAN /\ subs \in [Events -> 0..MaxStarts]
    BY <1>1, RegionBounds DEF RegionInv, Wired
  <2> QED
    BY <2>1, <2>2, <2>3, <2>4 DEF Typed, RegionTypeOK
<1> QED
  BY <1>1, RegionInvariant, PTL

\* Whatever has been loaded by then and whatever fails, what reaches the server
\* is complete, and its group had a size within the licence at some time:
\* submitTestCase checks a size that the group has had against a quota that is 0
\* or the licence.  The size the group has when the test case is stored may be
\* another.
THEOREM StoreStaysValid == RegionSpec => []StoreIsValid
<1>1. RegionInv => StoreIsValid
  BY DEF RegionInv, Formed
<1> QED
  BY <1>1, RegionInvariant, PTL

\* For a user who waits for the answers, and has edited nothing since, the page
\* shows what is stored under its id; after an Open that came to nothing it has
\* the id and the name of the test case before, and an empty table.
THEOREM PageShowsTheStored == RegionSpec => []ShownIsStored
<1>1. RegionInv => ShownIsStored
  BY DEF RegionInv, Calm, Matches, Unedited, ShownIsStored
<1> QED
  BY <1>1, RegionInvariant, PTL

\* The id and the saved name come and go together, and the id of a user who
\* waits for the answers is that of a stored test case.
THEOREM IdStaysStored == RegionSpec => []IdIsStored
<1>1. RegionInv => IdIsStored
  BY DEF RegionInv, Known, Calm, IdIsStored
<1> QED
  BY <1>1, RegionInvariant, PTL

\* However often the region has been started, each button has one handler while
\* it is started and none while it is not; but newConfirmed, whose handler is
\* never taken off, has as many as there were starts.
THEOREM HandlersStayCounted == RegionSpec => []HandlersCounted
<1>1. RegionInv => HandlersCounted
  BY DEF RegionInv, Wired
<1> QED
  BY <1>1, RegionInvariant, PTL

\* Only test cases that the page has had open, or has made, are replaced or
\* deleted, however clicks and answers overtake one another.
THEOREM OthersKept == RegionSpec => OthersAreLeftAlone
<1>1. ASSUME RegionInv, [RegionNext]_regionVars
      PROVE  [\A c \in InStore : store'[c] # store[c] => c \in seen]_regionVars
  <2>1. ASSUME NEW c \in InStore, store'[c] # store[c] PROVE c \in seen
    <3>1. PICK r \in DOMAIN pending :
            r.status = "sent" /\ (Create(r) \/ Replace(r) \/ Remove(r))
      BY <1>1, <2>1 DEF RegionNext, regionVars, serverVars, Start, Stop, UserActs,
         TypeName, Choose, AddRow, Edit, OnPage, New, Published, NewConfirmed,
         Submit, Open, OpenSelected, Delete, DeleteConfirmed, Dismiss, Click,
         CallBack, Serve, Read, Withdraw, Resize, Update, LogOut
    <3>2. Entitled(r) /\ store \in [TestCases -> Bodies \cup {NoBody}]
      BY <1>1 DEF RegionInv, Formed, Typed, Known
    <3>3. c \in TestCases /\ c # NoCase
      BY Constants DEF InStore
    <3>4. CASE Create(r)
      <4>1. PICK d \in TestCases \ InStore : store' = [store EXCEPT ![d] = r.body]
        BY <3>4 DEF Create
      <4> QED
        BY <2>1, <3>2, <4>1
    <3>5. CASE Replace(r) \/ Remove(r)
      <4>1. /\ r.kind \in {"save", "delete"}
            /\ \E b : store' = [store EXCEPT ![r.case] = b]
        BY <3>5 DEF Replace, Remove
      <4>2. c = r.case
        BY <2>1, <3>2, <4>1
      <4> QED
        BY <3>1, <3>2, <3>3, <4>1, <4>2 DEF Entitled
    <3> QED
      BY <3>1, <3>4, <3>5
  <2> QED
    BY <2>1
<1> QED
  BY <1>1, RegionInvariant, PTL DEF RegionSpec, OthersAreLeftAlone

-----------------------------------------------------------------------------
(* How far a reset and the notification of a deletion can be trusted *)

Bare ==
    name = Empty /\ rows = <<>> /\ testCaseID = NoCase /\ savedName = NoName
Blank == Bare /\ \A t \in Types : box[t] = NoItem

\* Of a user who waits: the page is bare after a reset, and no answer that is
\* still to come will change that; a deletion is under way only after a reset.
Patient ==
    ~hasty =>
      /\ touch = "reset" => Bare /\ \A q \in DOMAIN pending : q.kind # "save"
      /\ \A q \in DOMAIN pending : q.kind = "delete" => touch = "reset"

\* The answer of the server is of the kind of the request.
LEMMA ServeKinds ==
    ASSUME Formed, NEW r \in DOMAIN pending, Serve(r)
    PROVE  \A q \in DOMAIN pending' \ DOMAIN pending : q.kind = r.kind
<1>1. r \in Requests /\ \A q \in DOMAIN Rest(r) : q \in DOMAIN pending
  BY RestDomain DEF Formed, WellFormed
<1>2. PICK a : Answer(r, a) /\ [a EXCEPT !.status = "ok"].kind = r.kind
  <2>1. CASE Read(r)
    BY <1>1, <2>1 DEF Read, Requests
  <2>2. CASE Create(r)
    BY <1>1, <2>2 DEF Create, Requests
  <2>3. CASE Replace(r)
    BY <1>1, <2>3 DEF Replace, Requests
  <2>4. CASE Remove(r)
    BY <1>1, <2>4 DEF Remove, Requests
  <2> QED
    BY <2>1, <2>2, <2>3, <2>4 DEF Serve
<1>3. DOMAIN pending' = DOMAIN Rest(r) \cup {[a EXCEPT !.status = "ok"]}
  BY <1>2, AnswerDomain
<1> QED
  BY <1>1, <1>2, <1>3

\* What a step that leaves the page alone adds to the requests under way.
LEMMA PatientOn ==
    ASSUME Patient, UNCHANGED CalmVars,
           \A q \in DOMAIN pending' \ DOMAIN pending :
             q.kind \in {"save", "delete"} =>
               \E r \in DOMAIN pending : r.kind = q.kind
    PROVE  Patient'
BY DEF Patient, CalmVars, Bare

LEMMA UserPatient == Patient /\ UserActs => Patient'
<1> SUFFICES ASSUME Patient, UserActs, ~hasty' PROVE Patient'
  BY DEF Patient
<1> USE DEF OnPage, Published, shownVars, idVars
<1>0. ~hasty /\ \A q \in DOMAIN pending : q.kind \notin {"save", "delete"}
  BY DEF UserActs, TypeName, Choose, AddRow, Edit, New, NewConfirmed, Submit, Open,
     OpenSelected, Delete, DeleteConfirmed, Dismiss, Click, Waiting, Awaited
<1>1. CASE \/ \E n \in Names \cup {Empty} : TypeName(n)
           \/ \E t \in Types : \E i \in items[t] : Choose(t, i)
           \/ \E p \in Procedures : AddRow(p)
  BY <1>0, <1>1 DEF TypeName, Choose, AddRow, Edit, Patient
<1>2. CASE New \/ \E d \in Dialogs : Dismiss(d)
  BY <1>0, <1>2 DEF New, Dismiss, Patient, Bare
<1>3. CASE NewConfirmed
  BY <1>0, <1>3 DEF NewConfirmed, ResetRegion, Patient, Bare
<1>4. ASSUME NEW savetype \in {"save", "saveas"}, Submit(savetype) PROVE Patient'
  <2>1. UNCHANGED <<name, rows, box, testCaseID, savedName, touch>>
    BY <1>4 DEF Submit
  <2>2. CASE touch = "reset"
    <3>1. pending' = pending
      BY <1>0, <1>4, <2>2 DEF Submit, Valid, Patient, Bare
    <3> QED
      BY <1>0, <2>1, <3>1 DEF Patient, Bare
  <2>3. CASE touch # "reset"
    <3>1. PICK x : x = Saving(Target(savetype), Shown)
      OBVIOUS
    <3>2. x.kind = "save" /\ (pending' = pending \/ pending' = With(pending, x))
      BY <1>4, <3>1, KindsOf DEF Submit, Ajax
    <3>3. \A q \in DOMAIN pending' : q \in DOMAIN pending \/ q = x
      BY <3>2, SentDomain
    <3> QED
      BY <1>0, <2>1, <2>3, <3>2, <3>3 DEF Patient
  <2> QED
    BY <2>2, <2>3
<1>5. CASE Open \/ Delete
  <2>1. UNCHANGED <<name, rows, testCaseID, savedName, touch>>
    BY <1>5 DEF Open, Delete
  <2>2. PICK x : pending' = With(pending, x) /\ x.kind \in {"cases", "collections"}
    BY <1>5, KindsOf DEF Open, Delete, Ajax
  <2>3. \A q \in DOMAIN pending' : q \in DOMAIN pending \/ q = x
    BY <2>2, SentDomain
  <2> QED
    BY <1>0, <2>1, <2>2, <2>3 DEF Patient, Bare
<1>6. ASSUME NEW c \in TestCases \cup {NoCase}, OpenSelected(c) PROVE Patient'
  <2>1. /\ touch' = "reset" => touch = "reset"
        /\ rows' = <<>> /\ UNCHANGED <<name, testCaseID, savedName>>
    BY <1>6 DEF OpenSelected, NewTable, Emptied
  <2>2. PICK x : x = About("open", c)
    OBVIOUS
  <2>3. x.kind = "open" /\ (pending' = pending \/ pending' = With(pending, x))
    BY <1>6, <2>2, KindsOf DEF OpenSelected, Ajax
  <2>4. \A q \in DOMAIN pending' : q \in DOMAIN pending \/ q = x
    BY <2>3, SentDomain
  <2> QED
    BY <1>0, <2>1, <2>3, <2>4 DEF Patient, Bare
<1>7. CASE DeleteConfirmed
  <2>1. touch' = "reset" /\ Bare'
    BY <1>7 DEF DeleteConfirmed, ResetRegion, Bare
  <2>2. PICK x : x = About("delete", testCaseID)
    OBVIOUS
  <2>3. x.kind = "delete" /\ pending' = With(pending, x)
    BY <1>7, <2>2, KindsOf DEF DeleteConfirmed, Ajax
  <2>4. \A q \in DOMAIN pending' : q \in DOMAIN pending \/ q = x
    BY <2>3, SentDomain
  <2> QED
    BY <1>0, <2>1, <2>3, <2>4 DEF Patient
<1> QED
  BY <1>1, <1>2, <1>3, <1>4, <1>5, <1>6, <1>7 DEF UserActs

LEMMA PatientNext == Formed /\ Calm /\ Patient /\ [RegionNext]_regionVars => Patient'
<1> SUFFICES ASSUME Formed, Calm, Patient, [RegionNext]_regionVars PROVE Patient'
  OBVIOUS
<1>1. CASE Start \/ Stop \/ LogOut \/ UNCHANGED regionVars
  BY <1>1, PatientOn DEF Start, Stop, LogOut, regionVars, loadVars, lifeVars,
     serverVars, userVars, shownVars, idVars, CalmVars
<1>2. ASSUME NEW t \in Types, Update(t) PROVE Patient'
  <2>1. UNCHANGED CalmVars
    BY <1>2 DEF Update, shownVars, idVars, userVars, CalmVars
  <2>2. \A q \in DOMAIN pending' \ DOMAIN pending : q.kind \in {"items", "value"}
    BY <1>2, UpdateSends, KindsOf
  <2> QED
    BY <2>1, <2>2, PatientOn
<1>3. ASSUME NEW r \in DOMAIN pending, CallBack(r), ~hasty' PROVE Patient'
  <2>0. ~hasty /\ Alone /\ \A q \in DOMAIN Rest(r) : q \in DOMAIN pending
    BY <1>3, RestDomain DEF CallBack, userVars, Calm
  <2>1. CASE Opened(r)
    <3>1. r.kind = "open" /\ touch' = "clean"
      BY <2>1 DEF Opened, Called
    <3>2. \A q \in DOMAIN pending' : q \in DOMAIN Rest(r) \/ q.kind = "value"
      BY <2>1, OpenedSends, KindsOf
    <3>3. \A q \in DOMAIN Rest(r) : q.kind \notin Awaited
      BY <2>0, <3>1, NoneLeft DEF Awaited
    <3> QED
      BY <3>1, <3>2, <3>3 DEF Patient, Awaited
  <2>2. CASE Saved(r)
    <3>1. r.kind = "save" /\ pending' = Rest(r)
      BY <2>2 DEF Saved, Called, Back
    <3>2. touch' = "clean"
      BY <2>0, <2>2, <3>1 DEF Saved, Patient
    <3>3. \A q \in DOMAIN Rest(r) : q.kind \notin Awaited
      BY <2>0, <3>1, NoneLeft DEF Awaited
    <3> QED
      BY <3>1, <3>2, <3>3 DEF Patient, Awaited
  <2>3. CASE ~Opened(r) /\ ~Saved(r)
    <3>1. UNCHANGED CalmVars /\ pending' = Rest(r)
      BY <1>3, <2>3 DEF CallBack, QuotaLoaded, InstructionsLoaded, ItemsLoaded,
         ValueLoaded, SetBox, CasesLoaded, Deleted, CollectionsLoaded, Failed, Back,
         CalmVars, loadVars, lifeVars, serverVars, userVars, shownVars, idVars
    <3> QED
      BY <2>0, <3>1, PatientOn
  <2> QED
    BY <2>1, <2>2, <2>3
<1>4. ASSUME NEW r \in DOMAIN pending, Serve(r), ~hasty' PROVE Patient'
  <2>1. UNCHANGED <<rows, name, testCaseID, savedName, touch, hasty>>
    BY <1>4 DEF Serve, shownVars, idVars, userVars
  <2>2. \A q \in DOMAIN pending' \ DOMAIN pending : q.kind = r.kind
    BY <1>4, ServeKinds
  <2> QED
    BY <2>1, <2>2 DEF Patient, Bare
<1> QED
  BY <1>1, <1>2, <1>3, <1>4, UserPatient
  DEF RegionNext, Withdraw, Resize, Types, Patient

LEMMA PatientInvariant == RegionSpec => []Patient
<1>1. RegionInit => Patient
  <2> SUFFICES ASSUME RegionInit PROVE Patient
    OBVIOUS
  <2>1. DOMAIN pending = {Fixed("quota"), Fixed("instruction")}
                           \cup {Items(t) : t \in Types}
    BY DEF RegionInit, SetToBag
  <2>2. \A q \in DOMAIN pending : q.kind \in {"quota", "instruction", "items"}
    BY <2>1, KindsOf
  <2> QED
    BY <2>2 DEF RegionInit, Patient, Bare
<1> QED
  BY <1>1, PatientNext, RegionInvariant, PTL DEF RegionSpec, RegionInv

\* For a user who waits for the answers the name, the procedures and the id stay
\* reset until he edits: ResetLasts (ajaxUtil.js:651) then fails for the select
\* boxes alone, which answers to their own requests fill in again.
THEOREM PatientResetLasts ==
    RegionSpec =>
      [](~hasty /\ touch = "reset" =>
           name = Empty /\ rows = <<>> /\ testCaseID = NoCase /\ savedName = NoName)
<1>1. Patient => (~hasty /\ touch = "reset" =>
           name = Empty /\ rows = <<>> /\ testCaseID = NoCase /\ savedName = NoName)
  BY DEF Patient, Bare
<1> QED
  BY <1>1, PatientInvariant, PTL

\* For that user the notification of a deletion (ajaxUtil.js:224) never names
\* what was deleted: the page was reset first, so the name in it is empty.
THEOREM DeletionNeverNamesIt ==
    RegionSpec =>
      [][\A r \in DOMAIN pending : ~hasty /\ Deleted(r) =>
           NameInNotification = Empty /\ NameInNotification # r.body.name]_regionVars
<1>1. ASSUME Formed, Patient, NEW r \in DOMAIN pending, ~hasty, Deleted(r)
      PROVE  NameInNotification = Empty /\ NameInNotification # r.body.name
  <2>1. r.kind = "delete" /\ r.status = "ok"
    BY <1>1 DEF Deleted, Called
  <2>2. name = Empty
    BY <1>1, <2>1 DEF Patient, Bare
  <2>3. r.body.name \in Names
    BY <1>1, <2>1 DEF Formed, WellFormed, Bodies
  <2> QED
    BY <2>2, <2>3, Constants DEF NameInNotification
<1>2. RegionInv /\ Patient /\ [RegionNext]_regionVars =>
        [\A r \in DOMAIN pending : ~hasty /\ Deleted(r) =>
           NameInNotification = Empty /\ NameInNotification # r.body.name]_regionVars
  BY <1>1 DEF RegionInv
<1> QED
  BY <1>2, RegionInvariant, PatientInvariant, PTL DEF RegionSpec

\* No save and no value of a select box is still to be answered.
NoneUndoes == \A q \in DOMAIN pending : q.kind \notin {"save", "value"}

LEMMA BlankStays ==
    ASSUME Formed, touch = "reset", Blank, NoneUndoes, [RegionNext]_regionVars,
           touch' = "reset", ~NewConfirmed, ~DeleteConfirmed
    PROVE  Blank' /\ NoneUndoes'
<1> DEFINE blankVars == <<name, rows, box, testCaseID, savedName>>
<1> USE DEF OnPage, Published, shownVars, idVars
<1>1. ASSUME UNCHANGED blankVars,
             \A q \in DOMAIN pending' \ DOMAIN pending : q.kind \notin {"save", "value"}
      PROVE  Blank' /\ NoneUndoes'
  BY <1>1 DEF Blank, Bare, NoneUndoes
<1>2. CASE Start \/ Stop \/ LogOut \/ UNCHANGED regionVars
  BY <1>1, <1>2 DEF Start, Stop, LogOut, regionVars
<1>3. ASSUME NEW t \in Types, Update(t) PROVE Blank' /\ NoneUndoes'
  <2>1. UNCHANGED blankVars /\ box[t].value = NoChoice
    BY <1>3, Constants DEF Update, Blank
  <2>2. \A q \in DOMAIN pending' \ DOMAIN pending : q.kind = "items"
    BY <1>3, <2>1, UpdateSends, KindsOf
  <2> QED
    BY <1>1, <2>1, <2>2
<1>4. CASE UserActs
  <2>1. \/ New \/ Open \/ Delete \/ \E d \in Dialogs : Dismiss(d)
        \/ \E savetype \in {"save", "saveas"} : Submit(savetype)
        \/ \E c \in TestCases \cup {NoCase} : OpenSelected(c)
    BY <1>4 DEF UserActs, TypeName, Choose, AddRow, Edit
  <2>2. UNCHANGED blankVars
    BY <2>1 DEF New, Open, Delete, Dismiss, Submit, OpenSelected, NewTable, Blank, Bare
  <2>3. CASE New \/ \E d \in Dialogs : Dismiss(d)
    BY <1>1, <2>2, <2>3 DEF New, Dismiss
  <2>4. CASE \E savetype \in {"save", "saveas"} : Submit(savetype)
    BY <1>1, <2>2, <2>4 DEF Submit, Valid, Blank, Bare
  <2>5. CASE Open \/ Delete
    <3>1. PICK x : pending' = With(pending, x) /\ x.kind \in {"cases", "collections"}
      BY <2>5, KindsOf DEF Open, Delete, Ajax
    <3>2. \A q \in DOMAIN pending' \ DOMAIN pending : q = x
      BY <3>1, SentDomain
    <3> QED
      BY <1>1, <2>2, <3>1, <3>2
  <2>6. ASSUME NEW c \in TestCases \cup {NoCase}, OpenSelected(c)
        PROVE  Blank' /\ NoneUndoes'
    <3>1. PICK x : x = About("open", c)
      OBVIOUS
    <3>2. x.kind = "open" /\ (pending' = pending \/ pending' = With(pending, x))
      BY <2>6, <3>1, KindsOf DEF OpenSelected, Ajax
    <3>3. \A q \in DOMAIN pending' \ DOMAIN pending : q = x
      BY <3>2, SentDomain
    <3> QED
      BY <1>1, <2>2, <3>2, <3>3
  <2> QED
    BY <2>1, <2>3, <2>4, <2>5, <2>6
<1>5. ASSUME NEW r \in DOMAIN pending, CallBack(r) PROVE Blank' /\ NoneUndoes'
  <2>1. r.kind \notin {"save", "value"} /\ ~Opened(r)
    BY DEF NoneUndoes, Opened
  <2>2. UNCHANGED blankVars /\ pending' = Rest(r)
    BY <1>5, <2>1 DEF CallBack, QuotaLoaded, InstructionsLoaded, ItemsLoaded,
       ValueLoaded, CasesLoaded, Saved, Deleted, CollectionsLoaded, Failed, Back, Called
  <2>3. \A q \in DOMAIN pending' : q \in DOMAIN pending
    BY <2>2, RestDomain
  <2> QED
    BY <1>1, <2>2, <2>3
<1>6. ASSUME NEW r \in DOMAIN pending, Serve(r) PROVE Blank' /\ NoneUndoes'
  <2>1. UNCHANGED blankVars
    BY <1>6 DEF Serve
  <2>2. \A q \in DOMAIN pending' \ DOMAIN pending : q.kind = r.kind
    BY <1>6, ServeKinds
  <2> QED
    BY <1>1, <2>1, <2>2 DEF NoneUndoes
<1> QED
  BY <1>2, <1>3, <1>4, <1>5, <1>6 DEF RegionNext, Withdraw, Resize, Types

\* All that can undo a reset is an answer that was outstanding when it was made:
\* with no save and no value of a select box under way, whatever else is, the
\* region is blank after resetRegion and remains blank, and nothing of the kind
\* is asked for, until the user edits or opens something.
THEOREM OnlyAnswersUndoAReset ==
    RegionSpec =>
      [][/\ touch' = "reset" /\ NoneUndoes
         /\ NewConfirmed \/ DeleteConfirmed \/ (touch = "reset" /\ Blank)
         => Blank' /\ NoneUndoes']_regionVars
<1>1. ASSUME NoneUndoes, NewConfirmed \/ DeleteConfirmed PROVE Blank' /\ NoneUndoes'
  <2>1. Blank'
    BY <1>1 DEF NewConfirmed, DeleteConfirmed, ResetRegion, Blank, Bare
  <2>2. PICK x : x = About("delete", testCaseID)
    OBVIOUS
  <2>3. x.kind = "delete" /\ (pending' = pending \/ pending' = With(pending, x))
    BY <1>1, <2>2, KindsOf DEF NewConfirmed, DeleteConfirmed, Ajax
  <2>4. \A q \in DOMAIN pending' : q \in DOMAIN pending \/ q = x
    BY <2>3, SentDomain
  <2> QED
    BY <1>1, <2>1, <2>3, <2>4 DEF NoneUndoes
<1>2. RegionInv /\ [RegionNext]_regionVars =>
      [/\ touch' = "reset" /\ NoneUndoes
       /\ NewConfirmed \/ DeleteConfirmed \/ (touch = "reset" /\ Blank)
       => Blank' /\ NoneUndoes']_regionVars
  BY <1>1, BlankStays DEF RegionInv
<1> QED
  BY <1>2, RegionInvariant, PTL DEF RegionSpec
=============================================================================

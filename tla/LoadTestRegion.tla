--------------------------- MODULE LoadTestRegion ---------------------------
(***************************************************************************)
(* The page region of js/ajaxUtil.js on which a user builds load test      *)
(* cases, and what it asks of the server through aatlib.ajax (js/Ajax.js). *)
(* JavaScript runs one handler at a time, so a click, an answer and a      *)
(* message of the socket are one step each.  Requests are answered in any  *)
(* order; the server does its part at one moment and the callback runs at  *)
(* a later one, and either can fail.                                       *)
(*                                                                         *)
(* A test case is its name, the choice in each select box and its steps.   *)
(* The description goes wherever the name goes, and the parameters of a    *)
(* step wherever the step goes; both are left out.  Dialogs are modal:     *)
(* while one is shown the page below cannot be used.                       *)
(*                                                                         *)
(* A UE group has a size, which the licence limits and which others change *)
(* on the server.  The page works on copies of it: each item of a select   *)
(* box has the size that came with it.                                     *)
(***************************************************************************)
EXTENDS Naturals, Sequences, FiniteSets, Bags
LOCAL INSTANCE BagsExt

CONSTANTS
    TestCases,      \* ids of test cases
    NoCase,         \* testCaseID when there is none
    Names,          \* valid names of test cases
    Empty,          \* the empty string
    NoName,         \* savedTestCaseName when there is none
    Procedures,     \* what the table of all procedures offers
    Mmes, Groups,   \* what the two select boxes offer
    NoChoice,       \* the value of an empty select box
    Sizes,          \* numbers of UEs that a group can have
    UEs,            \* the number that each group has at first
    Licence,        \* the licence quota
    NoBody,         \* no test case: the place of an id not in use
    Stored,         \* the test cases of the server at first
    MaxClicks,      \* bound on what the user does
    MaxEvents,      \* bound on what happens outside the page
    MaxActs,        \* bound on both together
    MaxStarts,      \* bound on starts of the region
    MaxPending      \* bound on requests in flight when the user sends one

Types == {"sgsn-mme", "ue-group"}
Offer == [t \in Types |-> IF t = "ue-group" THEN Groups ELSE Mmes]
Values == Mmes \cup Groups
Boxes == {f \in [Types -> Values] : \A t \in Types : f[t] \in Offer[t]}
Bodies == [name : Names, box : Boxes, steps : Seq(Procedures)]

\* What a select box can show: a value with the size it had when it was loaded.
Item(v, n) == [value |-> v, number |-> n]
NoItem == Item(NoChoice, 0)
AnyItem == [value : Values \cup {NoChoice}, number : Nat]

\* A test case with nothing missing.
Complete(b) ==
    /\ b.name # Empty
    /\ \A t \in Types : b.box[t] # NoChoice
    /\ b.steps # <<>>

ASSUME NothingsAreApart ==
    /\ NoCase \notin TestCases /\ NoChoice \notin Values
    /\ Names \cap {Empty, NoName} = {} /\ Empty # NoName
    /\ NoBody \notin Bodies
ASSUME SizesAreNumbers ==
    Sizes \subseteq Nat /\ UEs \in [Groups -> Sizes] /\ Licence \in Nat
ASSUME StoredIsFine ==
    /\ Stored \in [TestCases -> Bodies \cup {NoBody}]
    /\ \A c \in TestCases : Stored[c] # NoBody =>
         Complete(Stored[c]) /\ UEs[Stored[c].box["ue-group"]] <= Licence
ASSUME RegionBounds == MaxClicks \in Nat /\ MaxEvents \in Nat
                         /\ MaxActs \in Nat /\ MaxStarts \in Nat /\ MaxPending \in Nat

VARIABLES
    name, rows, box,        \* the name input, selected procedures, select boxes
    testCaseID, savedName,  \* testCaseID and savedTestCaseName
    quota, items, procedures, \* what has been loaded for the page
    listed,                 \* the test cases that the open dialog shows
    dialogs,                \* the dialogs shown
    started, subs,          \* between onStart and onStop; handlers per event
    login,                  \* Sharedata has an API key
    pending,                \* the bag of requests not called back yet
    store, available,       \* the server: test cases, what the boxes can offer
    sizes,                  \* the server: the number of UEs of each group
    had,                    \* history: the sizes each group has had
    clicks, events, starts, \* counters for the bounds
    touch,                  \* history: "dirty" once the user edits, "clean"
                            \* when saved or loaded, "emptied" when the rows of
                            \* a clean page go, "reset" by resetRegion
    hasty,                  \* history: the user acted before an answer was in
    seen                    \* history: the ids that were ever testCaseID

shownVars == <<name, rows, box>>
idVars == <<testCaseID, savedName, seen>>
loadVars == <<quota, items, procedures>>
lifeVars == <<started, subs, starts>>
serverVars == <<store, available, sizes, had, events>>
userVars == <<clicks, hasty>>
regionVars == <<shownVars, idVars, loadVars, listed, dialogs, lifeVars, login,
                pending, serverVars, userVars, touch>>

Events == {"new", "newConfirmed", "save", "saveas", "open", "delete"}
Dialogs == {"open", "delete", "quota", "failed", "new"}

-----------------------------------------------------------------------------
\* A request, and what the server adds to it.
Kinds == {"quota", "instruction", "items", "value", "cases", "open", "save",
          "delete", "collections"}
Request(kind) ==
    [kind |-> kind, type |-> "none", value |-> NoChoice, number |-> 0,
     case |-> NoCase, body |-> NoBody, list |-> {}, status |-> "sent"]
\* Requests whose answer is the same at any time.
Fixed(kind) == [Request(kind) EXCEPT !.status = "ok"]
Items(t) == [Request("items") EXCEPT !.type = t]
Value(t, v) == [Request("value") EXCEPT !.type = t, !.value = v]
About(kind, c) == [Request(kind) EXCEPT !.case = c]
Saving(c, b) == [Request("save") EXCEPT !.case = c, !.body = b]

\* aatlib.ajax: without an API key it goes to the login page and calls
\* nothing back.
With(bag, r) == IF login THEN BagAdd(bag, r) ELSE bag
Ajax(r) == pending' = With(pending, r)

\* The user is waiting for these, and knows it.
Awaited == {"cases", "open", "save", "delete", "collections"}
Waiting == \E r \in DOMAIN pending : r.kind \in Awaited

RegionInit ==
    /\ name = Empty /\ rows = <<>> /\ box = [t \in Types |-> NoItem]
    /\ testCaseID = NoCase /\ savedName = NoName /\ seen = {}
    /\ quota = 0
    /\ items = [t \in Types |-> {}]
    /\ procedures = {}
    /\ listed = {} /\ dialogs = {}
    /\ started = FALSE /\ subs = [e \in Events |-> 0] /\ starts = 0
    /\ login = TRUE
    /\ pending = SetToBag({Fixed("quota"), Fixed("instruction")}
                            \cup {Items(t) : t \in Types})
    /\ store = Stored /\ available = Offer
    /\ sizes = UEs /\ had = [g \in Groups |-> {UEs[g]}]
    /\ clicks = 0 /\ events = 0
    /\ touch = "reset" /\ hasty = FALSE

-----------------------------------------------------------------------------
\* Mutants: handlers are taken off that are not on the bus; saveas is forgotten.
UnsubscribedBlindly ==
    [e \in Events |-> IF e # "newConfirmed" THEN subs[e] - 1 ELSE subs[e]]
UnsubscribedButOne ==
    [e \in Events |-> IF e \notin {"newConfirmed", "saveas"} /\ subs[e] > 0
                      THEN subs[e] - 1 ELSE subs[e]]

\* The handlers of one event are called in turn.  unsubscribe takes the handler
\* with the id that subscribe gave last off the bus, if it is still there; for
\* newConfirmed it is given the function newConfirmEvent in place of the name
\* that this returns, and finds nothing.
Unsubscribed ==
    [e \in Events |-> IF e # "newConfirmed" /\ subs[e] > 0 THEN subs[e] - 1
                                                          ELSE subs[e]]
Start ==
    /\ ~started /\ starts < MaxStarts
    /\ started' = TRUE /\ starts' = starts + 1
    /\ subs' = [e \in Events |-> Unsubscribed[e] + 1]
    /\ UNCHANGED <<shownVars, idVars, loadVars, listed, dialogs, login, pending,
                   serverVars, userVars, touch>>
Stop ==
    /\ started
    /\ started' = FALSE
    /\ subs' = Unsubscribed
    /\ UNCHANGED <<shownVars, idVars, loadVars, listed, dialogs, starts, login,
                   pending, serverVars, userVars, touch>>

InBounds == clicks + events < MaxActs

\* The user does something.
Click ==
    /\ started
    /\ InBounds /\ clicks < MaxClicks /\ clicks' = clicks + 1
    /\ hasty' = (hasty \/ Waiting)
    /\ UNCHANGED <<loadVars, lifeVars, login, serverVars>>
OnPage == Click /\ dialogs = {}
Published(e) == OnPage /\ subs[e] > 0
Below(n) == BagCardinality(pending) < n

\* The inputs of the page: they touch no other variable of the region.
Edit == OnPage /\ touch' = "dirty" /\ UNCHANGED <<idVars, listed, dialogs, pending>>
TypeName(n) == Edit /\ n # name /\ name' = n /\ UNCHANGED <<rows, box>>
Choose(t, i) ==
    /\ Edit
    /\ i # box[t]
    /\ box' = [box EXCEPT ![t] = i]
    /\ UNCHANGED <<name, rows>>
\* cellClicked of the table of all procedures.
AddRow(p) ==
    /\ Edit
    /\ p \in procedures
    /\ rows' = Append(rows, p)
    /\ UNCHANGED <<name, box>>

\* Mutant: the test case that was open is still the one to save to.
ResetInputs ==
    /\ rows' = <<>> /\ name' = Empty /\ box' = [t \in Types |-> NoItem]
    /\ touch' = "reset"
    /\ UNCHANGED idVars

ResetRegion ==
    /\ rows' = <<>> /\ name' = Empty /\ box' = [t \in Types |-> NoItem]
    /\ testCaseID' = NoCase /\ savedName' = NoName
    /\ touch' = "reset"
    /\ UNCHANGED seen

\* "new": the page of the application asks whether to go on, if there is
\* anything to lose, and publishes the answer.
New ==
    /\ Published("new")
    /\ dialogs' = IF rows # <<>> \/ name # Empty THEN {"new"} ELSE {}
    /\ UNCHANGED <<shownVars, idVars, listed, pending, touch>>
NewConfirmed ==
    /\ Click
    /\ "new" \in dialogs /\ dialogs' = dialogs \ {"new"}
    /\ subs["newConfirmed"] > 0 /\ ResetRegion
    /\ UNCHANGED <<listed, pending>>

\* saveValidate: what is missing, then the licence; submitTestCase.
Shown == [name |-> name, box |-> [t \in Types |-> box[t].value], steps |-> rows]
Valid ==
    /\ \A t \in Types : box[t].value # NoChoice
    /\ name # Empty
    /\ rows # <<>>

\* Mutant: no licence known, none exceeded.
OverKnownQuota == quota # 0 /\ box["ue-group"].number > quota

\* By the size that came with the item, which the group may not have any more.
OverQuota == box["ue-group"].number > quota
Target(savetype) == IF savetype = "save" THEN testCaseID ELSE NoCase

Submit(savetype) ==
    /\ Published(savetype)
    /\ \/ ~Valid /\ UNCHANGED <<pending, dialogs>>
       \/ /\ Valid /\ OverQuota
          /\ dialogs' = dialogs \cup {"quota"}
          /\ UNCHANGED pending
       \/ /\ Valid /\ ~OverQuota
          /\ Below(MaxPending)
          /\ Ajax(Saving(Target(savetype), Shown))
          /\ UNCHANGED dialogs
    /\ UNCHANGED <<shownVars, idVars, listed, touch>>

\* "open": the table of the dialog is loaded anew, which shows the dialog.
Open ==
    /\ Published("open")
    /\ Below(MaxPending)
    /\ Ajax(Request("cases"))
    /\ UNCHANGED <<shownVars, idVars, listed, dialogs, touch>>

Emptied == touch' = IF touch = "clean" THEN "emptied" ELSE touch

\* Mutants: the id is that of the selection at once; the old rows stay.
OpenAtOnce(c) ==
    /\ Click
    /\ "open" \in dialogs /\ dialogs' = dialogs \ {"open"}
    /\ c \in listed /\ listed' = {}
    /\ rows' = <<>>
    /\ Below(MaxPending) /\ Ajax(About("open", c))
    /\ testCaseID' = c /\ Emptied
    /\ UNCHANGED <<name, box, savedName, seen>>

OpenBelowRows(c) ==
    /\ Click
    /\ "open" \in dialogs /\ dialogs' = dialogs \ {"open"}
    /\ c \in listed /\ listed' = {}
    /\ Below(MaxPending) /\ Ajax(About("open", c))
    /\ Emptied
    /\ UNCHANGED <<name, rows, box, idVars>>

\* The table of selected procedures, made anew and with rows added to it.
NewTable == rows' = <<>>
RenderRows(steps) == rows' = rows \o steps

\* The button Open, with test case c selected, or none: the rows go at once, the
\* rest of the page stays as it is until the answer is there, if it ever is.
OpenSelected(c) ==
    /\ Click
    /\ "open" \in dialogs /\ dialogs' = dialogs \ {"open"}
    /\ c \in listed \cup {NoCase}
    /\ NewTable
    /\ Below(MaxPending)
    /\ IF c # NoCase THEN Ajax(About("open", c)) ELSE UNCHANGED pending
    /\ listed' = {}
    /\ Emptied
    /\ UNCHANGED <<name, box, idVars>>

\* "delete" asks for the collections that have the test case; the dialog
\* names them.
Delete ==
    /\ Published("delete")
    /\ Below(MaxPending)
    /\ Ajax(Fixed("collections"))
    /\ UNCHANGED <<shownVars, idVars, listed, dialogs, touch>>
DeleteConfirmed ==
    /\ Click
    /\ "delete" \in dialogs /\ dialogs' = dialogs \ {"delete"}
    /\ Below(MaxPending)
    /\ Ajax(About("delete", testCaseID))
    /\ ResetRegion
    /\ UNCHANGED listed

\* Cancel, Ok or Close of a dialog.
Dismiss(d) ==
    /\ Click
    /\ d \in dialogs /\ dialogs' = dialogs \ {d}
    /\ listed' = IF d = "open" THEN {} ELSE listed
    /\ UNCHANGED <<shownVars, idVars, pending, touch>>

UserActs ==
    \/ \E n \in Names \cup {Empty} : TypeName(n)
    \/ \E t \in Types : \E i \in items[t] : Choose(t, i)
    \/ \E p \in Procedures : AddRow(p)
    \/ New \/ NewConfirmed
    \/ \E savetype \in {"save", "saveas"} : Submit(savetype)
    \/ Open
    \/ \E c \in TestCases \cup {NoCase} : OpenSelected(c)
    \/ Delete \/ DeleteConfirmed
    \/ \E d \in Dialogs : Dismiss(d)

-----------------------------------------------------------------------------
\* The callbacks.  Called(r) takes the request off; Back also says that the
\* callback sends nothing and leaves the lists alone.
Called(r, kind) == r.kind = kind /\ r.status = "ok"
Rest(r) == BagRemove(pending, r)
Back(r) == pending' = Rest(r)

QuotaLoaded(r) ==
    /\ Called(r, "quota") /\ Back(r)
    /\ quota' = Licence
    /\ UNCHANGED <<shownVars, idVars, items, procedures, listed, dialogs, touch>>
InstructionsLoaded(r) ==
    /\ Called(r, "instruction") /\ Back(r)
    /\ procedures' = Procedures
    /\ UNCHANGED <<shownVars, idVars, quota, items, listed, dialogs, touch>>

\* setSelectBox and setSelectBoxVal.
ItemsLoaded(r) ==
    /\ Called(r, "items") /\ Back(r)
    /\ items' = [items EXCEPT ![r.type] = r.list]
    /\ UNCHANGED <<shownVars, idVars, quota, procedures, listed, dialogs, touch>>
SetBox(r, i) ==
    /\ Back(r)
    /\ box' = [box EXCEPT ![r.type] = i]
    /\ UNCHANGED <<name, rows, idVars, loadVars, listed, dialogs, touch>>
ValueLoaded(r) ==
    /\ Called(r, "value")
    /\ SetBox(r, Item(r.value, r.number))

CasesLoaded(r) ==
    /\ Called(r, "cases") /\ Back(r)
    /\ listed' = r.list /\ dialogs' = dialogs \cup {"open"}
    /\ UNCHANGED <<shownVars, idVars, loadVars, touch>>

\* renderTestCase: the rows are added to what the table has.
Opened(r) ==
    /\ Called(r, "open")
    /\ testCaseID' = r.case /\ seen' = seen \cup {r.case}
    /\ savedName' = r.body.name /\ name' = r.body.name
    /\ RenderRows(r.body.steps)
    /\ pending' = With(With(Rest(r), Value("sgsn-mme", r.body.box["sgsn-mme"])),
                       Value("ue-group", r.body.box["ue-group"]))
    /\ touch' = "clean"
    /\ UNCHANGED <<box, loadVars, listed, dialogs>>

\* The name is the one the input has by now.
Saved(r) ==
    /\ Called(r, "save") /\ Back(r)
    /\ testCaseID' = r.case /\ seen' = seen \cup {r.case}
    /\ savedName' = name
    /\ touch' = IF touch = "reset" THEN "reset" ELSE "clean"
    /\ UNCHANGED <<shownVars, loadVars, listed, dialogs>>

\* The notification says "Test Case ... Deleted".
NameInNotification == name
Deleted(r) ==
    /\ Called(r, "delete") /\ Back(r)
    /\ UNCHANGED <<shownVars, idVars, loadVars, listed, dialogs, touch>>

CollectionsLoaded(r) ==
    /\ Called(r, "collections") /\ Back(r)
    /\ dialogs' = dialogs \cup {"delete"}
    /\ UNCHANGED <<shownVars, idVars, loadVars, listed, touch>>

\* The error callbacks: saveFailed shows a dialog, a select box is emptied; the
\* others change nothing, or are not there.  The server refused the request, or
\* the request or the answer to it was lost.
SaveFailed == dialogs' = dialogs \cup {"failed"}
Failed(r) ==
    /\ \/ r.kind = "value" /\ SetBox(r, NoItem)
       \/ /\ r.kind # "value" /\ Back(r)
          /\ IF r.kind = "save" THEN SaveFailed ELSE UNCHANGED dialogs
          /\ UNCHANGED <<shownVars, idVars, loadVars, listed, touch>>

CallBack(r) ==
    /\ \/ QuotaLoaded(r) \/ InstructionsLoaded(r) \/ ItemsLoaded(r)
       \/ ValueLoaded(r) \/ CasesLoaded(r) \/ Opened(r) \/ Saved(r)
       \/ Deleted(r) \/ CollectionsLoaded(r)
       \/ Failed(r)
    /\ UNCHANGED <<lifeVars, login, serverVars, userVars>>

\* A message on the socket says that what a box offers has changed: update.
Update(t) ==
    /\ Below(MaxPending)
    /\ pending' = IF box[t].value = NoChoice THEN With(pending, Items(t))
                  ELSE With(With(pending, Items(t)), Value(t, box[t].value))
    /\ UNCHANGED <<shownVars, idVars, loadVars, listed, dialogs, lifeVars, login,
                   store, userVars, touch>>

-----------------------------------------------------------------------------
\* The server.
Answer(r, answer) == pending' = BagAdd(Rest(r), [answer EXCEPT !.status = "ok"])
InStore == {c \in TestCases : store[c] # NoBody}
SizeOf(v) == IF v \in Groups THEN sizes[v] ELSE 0

Read(r) ==
    /\ \/ /\ r.kind = "items"
          /\ Answer(r, [r EXCEPT !.list = {Item(v, SizeOf(v)) : v \in available[r.type]}])
       \/ /\ r.kind = "value" /\ r.value \in available[r.type]
          /\ Answer(r, [r EXCEPT !.number = SizeOf(r.value)])
       \/ r.kind = "cases" /\ Answer(r, [r EXCEPT !.list = InStore])
       \/ /\ r.kind = "open" /\ r.case \in InStore
          /\ Answer(r, [r EXCEPT !.body = store[r.case]])
    /\ UNCHANGED store
Create(r) ==
    /\ r.kind = "save" /\ r.case = NoCase
    /\ \E c \in TestCases \ InStore :
         /\ store' = [store EXCEPT ![c] = r.body]
         /\ Answer(r, [r EXCEPT !.case = c])
Replace(r) ==
    /\ r.kind = "save" /\ r.case \in InStore
    /\ store' = [store EXCEPT ![r.case] = r.body]
    /\ Answer(r, r)
Remove(r) ==
    /\ r.kind = "delete" /\ r.case \in InStore
    /\ store' = [store EXCEPT ![r.case] = NoBody]
    /\ Answer(r, [r EXCEPT !.body = store[r.case]])

Serve(r) ==
    /\ r.status = "sent"
    /\ Read(r) \/ Create(r) \/ Replace(r) \/ Remove(r)
    /\ UNCHANGED <<shownVars, idVars, loadVars, listed, dialogs, lifeVars, login,
                   available, sizes, had, events, userVars, touch>>

\* Something happens outside.
Event == InBounds /\ events < MaxEvents /\ events' = events + 1

\* A group or an SGSN-MME is removed, or a group gets another size; every page
\* is told.
Withdraw(t) ==
    /\ Event
    /\ \E v \in available[t] : available' = [available EXCEPT ![t] = @ \ {v}]
    /\ UNCHANGED <<sizes, had>>
    /\ Update(t)
Resize(g) ==
    /\ Event
    /\ \E n \in Sizes \ {sizes[g]} :
         /\ sizes' = [sizes EXCEPT ![g] = n]
         /\ had' = [had EXCEPT ![g] = @ \cup {n}]
    /\ UNCHANGED available
    /\ Update("ue-group")

\* Another page clears the API key.
LogOut ==
    /\ Event
    /\ login /\ login' = FALSE
    /\ UNCHANGED <<shownVars, idVars, loadVars, listed, dialogs, lifeVars, pending,
                   store, available, sizes, had, userVars, touch>>

RegionNext ==
    \/ Start \/ Stop
    \/ UserActs
    \/ \E r \in DOMAIN pending : CallBack(r) \/ Serve(r)
    \/ \E t \in Types : Withdraw(t)
    \/ \E g \in Groups : Resize(g)
    \/ LogOut

RegionSpec == RegionInit /\ [][RegionNext]_regionVars
-----------------------------------------------------------------------------
\* Every variable holds a value of its type.
RegionTypeOK ==
    /\ name \in Names \cup {Empty}
    /\ rows \in Seq(Procedures)
    /\ box \in [Types -> AnyItem]
    /\ testCaseID \in TestCases \cup {NoCase} /\ seen \subseteq TestCases
    /\ savedName \in Names \cup {Empty, NoName}
    /\ quota \in {0, Licence}
    /\ \A t \in Types : items[t] \subseteq AnyItem
    /\ procedures \subseteq Procedures
    /\ listed \subseteq TestCases /\ dialogs \subseteq Dialogs
    /\ started \in BOOLEAN /\ subs \in [Events -> 0..MaxStarts]
    /\ store \in [TestCases -> Bodies \cup {NoBody}]
    /\ sizes \in [Groups -> Sizes]
    /\ \A r \in DOMAIN pending :
         /\ r.kind \in Kinds /\ r.type \in Types \cup {"none"}
         /\ r.case \in TestCases \cup {NoCase}
         /\ r.body \in Bodies \cup {NoBody}
         /\ r.status \in {"sent", "ok"}

\* However late the licence, the lists and the choices are loaded, and whatever
\* fails, a test case that reaches the server is complete, and its group was
\* within the licence quota at some time: saveValidate (ajaxUtil.js) works on
\* what is shown, on a quota of 0 until the real one is there, and on a size
\* that the group really had, when its item was loaded.  By the time of the save
\* the group may be larger: the copy in the select box can be out of date, and
\* then the size of the group does exceed the licence.
WasLicensed(b) == \E n \in had[b.box["ue-group"]] : n <= Licence
StoreIsValid ==
    \A c \in InStore : Complete(store[c]) /\ WasLicensed(store[c])

\* Only test cases that this page has had open (or has made) are replaced or
\* deleted, also when clicks and answers overtake one another: what is sent to
\* the server takes its id from answers alone, never from a selection.
OthersAreLeftAlone ==
    [][\A c \in InStore : store'[c] # store[c] => c \in seen]_regionVars

\* A user who never acts before the answer is in finds the page in step with
\* the server, although select boxes are refreshed, requests fail and the
\* session ends in between: unless he has edited something since, the name and
\* the procedures shown under an id are those stored under it.  The one
\* exception the code makes is an Open that comes to nothing, because nothing
\* was selected or the test case could not be loaded: then the id and the name
\* are those of the test case that was open before, over an empty table.
ShownIsStored ==
    ~hasty /\ ~Waiting /\ touch \in {"clean", "emptied"} =>
        /\ testCaseID \in InStore
        /\ savedName = name /\ store[testCaseID].name = name
        /\ rows = IF touch = "clean" THEN store[testCaseID].steps ELSE <<>>

\* The id and the saved name come and go together, and that user, having edited
\* a test case, still works on one that is stored: Save does not go to a test
\* case that is deleted, or to a new one in place of the old.
IdIsStored ==
    /\ (testCaseID = NoCase) = (savedName = NoName)
    /\ ~hasty /\ ~Waiting => testCaseID \in InStore \cup {NoCase}

\* However often the region is started and stopped, a click on a button of the
\* application is handled once while it is started, and not at all after.  The
\* handler of newConfirmed is never taken off (ajaxUtil.js:346): there is one
\* more of them for each start, and resetRegion runs that often.
HandlersCounted ==
    \A e \in Events :
        subs[e] = CASE e = "newConfirmed" -> starts
                    [] e # "newConfirmed" /\ started -> 1
                    [] OTHER -> 0

\* "Reset page and back to the status when it's opened" (ajaxUtil.js:651): the
\* region is blank after resetRegion until the user does something.
ResetLasts ==
    touch = "reset" =>
        /\ name = Empty /\ rows = <<>> /\ testCaseID = NoCase
        /\ savedName = NoName /\ \A t \in Types : box[t] = NoItem

\* The notification of a deletion, "Test Case ... Deleted" (ajaxUtil.js:224),
\* has the name of the test case that was deleted.
DeletionNamesIt ==
    [][\A r \in DOMAIN pending : Deleted(r) => NameInNotification = r.body.name]_regionVars
=============================================================================

# A verification of procodes

The repository is a collection of small programs: a game server and a chat
server in Go, a browser page of a test tool in JavaScript, a shell script that
supervises Erlang/OTP nodes, servers and exercises in Erlang, SCTP and Boost
servers in C++, and many one-file exercises.  This directory holds TLA+ modules
for the parts that have state and concurrency, the TLC configurations that
check them on small instances, and TLAPS proofs of what matters most for every
instance.  `PROJECT.json` is the index: components, runs, the code lines behind
every definition, the hazards, and the theorems.

Run `tlc -config MCIpc.cfg MCIpc` (and so on) to check a model, `tlapm
IpcProofs.tla` to check its proofs.

## 1. Inventory

| Part | State it keeps | Operations | Interaction | What is hard |
|---|---|---|---|---|
| `golang/cgss/src/ipc` | one unbuffered channel and one goroutine per session | `Connect`, `Call`, `Close` | client and session meet on the channel, in both directions | who receives what is sent; both ends waiting in one direction; leaked sessions |
| `golang/cgss/src/cg` (server) | roster (slice), RWMutex, a mailbox and a printer goroutine per player | `addplayer`, `removeplayer`, `listplayer`, `broadcast` | handlers of all sessions share the roster; a broadcast sends to bounded mailboxes with the lock held | exclusion, stale slices, slice arithmetic, blocking under a lock, exact delivery |
| `golang/cgss/src/cg` (client), `cgss.go` | the session | login, logout, listplayer, send, quit, help | each command is a Call | one outcome per command, the right one; every command ends |
| `golang/go_chat` | the set of clients (owned by the broadcaster), a channel and two goroutines per connection | arrive, enter, say, leave; broadcast; write | three global unbuffered channels, one channel per client | panics on closed channels, one order of messages for all, the message lost when a connection is closed, stalled writers |
| `js/ajaxUtil.js` (load test region) | the test case shown, its id, select boxes, licence quota, dialogs, event subscriptions | new, open, save, save as, delete, socket updates | ajax requests answered in any order, or with an error | late answers, what a Save overwrites, subscriptions that pile up |
| `js/Ajax.js`, `js/Sharedata.js`, and the life of the pages in `js/ajaxUtil.js` | API key, adapter, systems under test and socket in `window`; one object of select boxes for all pages | login gating, URLs per adapter, `onViewReady`, `free`, messages of the socket | every page uses them, also pages that overlap | requests under the adapter of the moment, answers for a page that is gone, handlers left on a socket, updates missed |
| `shell/otp` | pipes and `beam` processes of the nodes | start, stop, restart, status | starts `run_erl`, waits for pipes, kills by name | retries and give-up, pipes and processes out of step |
| `erlang/tmall_gen_server.erl` | shopping cart, mailbox | order, remove, list, empty, close | gen_server: calls with a time-out, a link to the starter | requests given up that still take effect, late answers, a server that ends with calls in its mailbox |
| `erlang/udptest.erl`, `system_var.erl` | sockets, process dictionary | one datagram each way, a time-out | UDP | nothing that two steps share |
| `erlang/proctest.erl`, `strtest.erl`, `erlang_league.erl`, `golang/go_toposort` | none: algorithms | ranges of TACs, BCD, coins, topological order | none | boundary cases, termination |
| `cpro/sctp_test`, `cpro/boost_send_recv.cpp` | sockets, buffers, a deadline | send, receive, time-out | one peer | lengths, streams, an answer that races the time-out |
| `golang/go_fetchall`, `go_login`, `go_web`, other `golang/*`, `python`, `shell/shelltest`, Makefiles | little or none | | | not stateful enough to model |

What makes each of them correct:

- **ipc**: a Call returns the answer to its own request; it returns; Close ends
  the session.
- **center server**: a request takes effect alone, once, on a roster nobody
  else is changing; a broadcast reaches everybody who is logged in, once per
  place in the roster, in the order of broadcasts; a logout removes the player
  it names and nobody else (it does not, see below); the lock is never held for
  ever.
- **whole of cgss**: seen from the command loops the above is one serial
  server, end to end.
- **go_chat**: the server never panics; a client hears everything said while it
  is in the room, in the one order in which it was said; only the very last
  message can be lost; nobody is kept waiting for ever (except by a peer that
  stops reading, see below).
- **load test region**: what is saved is what is shown, to the test case that
  was opened; nothing incomplete is saved, and no group that never was within
  the licence; New blanks the page (it may not last, see below).
- **window**: select boxes list what the server offers, once all answers and
  messages are in; a test case is saved to the adapter its items are from;
  handlers on a socket are those of pages that are up.
- **otp**: no two nodes share pipes; a node that is logged as started has its
  pipes; what `status` says is so; stop leaves no node (it may, see below);
  every command ends.
- **cart**: a call takes effect at most once, in the order of its client, and
  its answer is its own; every call returns.

## 2. Plan

In order of importance to the repository's own logic; all of it is done.

1. `Ipc`, `IpcEcho`, `IpcProofs`: the string IPC.
2. `Roster`, `Lobby`, `CenterServer`, `CenterProofs`: the center server, and
   the abstract serial server it implements.
3. `Cgss`, `CgssProofs`: both composed, with command loops; implements the
   `Lobby` end to end, which is proved.
4. `ChatRoom`, `Chat`, `ChatProofs`: the chat server and the room it
   implements.
5. `LoadTestRegion`, `RegionProofs`: the page of the test tool, with requests
   and answers as separate steps.
6. `Sharedata`, `Window`, `WindowProofs`: the window around that page: login,
   adapters, sockets, and pages that come, go and overlap.
7. `OtpNodes`, `OtpProofs`: the node control script over nodes that are slow,
   crash and keep their names.
8. `CartCalls`, `Cart`, `CartServer`, `CartProofs`: the cart server under
   time-outs and exits, and the abstract cart it implements.

What is left is in section 9, with the reasons.

## 3. Modules and their correspondence to the code

**Ipc, IpcEcho** (`ipc/client.go`, `ipc/server.go`, `ipc/ipc_test.go`).  `conn`
is `IpcClient.conn`; `cpc` and `spc` are the program counters of the goroutine
that uses a client and of the goroutine `Connect` starts; `out`, `got` and
`sbuf` are the strings they hold.  A rendezvous on the unbuffered channel is one
step of the receiver (`ServerReceive`, `ClientReceive`), who takes what *any*
process blocked in a send on that channel offers (`Offering`): that is how the
one channel for both directions behaves, and `Paired` has to exclude the bad
matches.  `Ipc` has the actions of the two ends, `IpcEcho` closes them with a
server that is a function of the request (the test's `EchoServer`).  `Marshal`
and `Unmarshal` are taken to succeed on what the other produced.
`TestIpc` itself calls `Call` with one argument where the method takes two and
does not compile; what it intends is the run `ipc`.

**Roster, Lobby, CenterServer** (`cg/center.go`, `cg/player.go`,
`cg/centerclient.go`).  `Roster` has the data: players with the identity of the
object `NewPlayer` makes, requests by method, responses by code, and `Cut`,
which is the slicing of `removePlayer` as it is written.  `CenterServer` has
one handler per session.  `Handle` dispatches; `Lock` or `RLock` takes the mutex
*and* loads the slice header into `snap`; the body works on `snap`; `Leave` is
the deferred unlock.  A broadcast is one `Push` per player, and a push blocks
while the mailbox is full, with the lock held.  `Printer` is the goroutine of
`NewPlayer`.  `log` is a history variable.  `Lobby` is the abstract server:
call, take effect, return.

**Cgss** (`cgss.go`) composes the two by step: `Serve` is the call of `Handle`
by the session's goroutine, `Respond` its return; `Command` is what the command
loop calls, `Hear` and `Outcome` the receive and the return of `Call`.  What the
methods of `CenterClient` and the commands make of the response (an error for a
code, lines on the terminal) changes no state and is left out.  The program starts one loop; the
module lets any number run, as the server is written for that.

**ChatRoom, Chat** (`go_chat.go`).  The broadcaster has a map `clients`, and
while it is in its range loop the message `bmsg` and the clients `todo`.  The
rendezvous with a handler is the handler's action (`Arrive`, `Enter`, `Say`,
`Leave`, `Depart`); that with a writer is `Send`, or `Greet` for the one message
that the handler itself sends.  A write takes its time (`Write` is a later step)
and fails when the peer has reset the connection or the handler has closed it.
`sent` and `shown` are history variables.  `ChatRoom` is the abstract room, in
which a message is heard by all members at once; the refinement mapping counts a
message as heard by a client from the moment the broadcaster takes it.

**Sharedata, Window** (`js/Sharedata.js`, `js/Ajax.js`, and `onViewReady`,
`free`, `update`, the select boxes and `submitTestCase` of `js/ajaxUtil.js`).
`LoadTestRegion` is one page in detail; `Window` is the life of several, in
which a page is reduced to its two select boxes.  `shared` is
`window.aatDataStorage`, with one operator per function of `Sharedata.js`.
`box` is `selectBox`, which is a property of the prototype and so one for all
pages: `Free` of an older page takes away the boxes of the newer, as in the
code.  `Path` is the part of the URL that `aatlib.ajax` chooses at the moment of
the request.  `Make` is `onViewReady` (the two `GET`s, then the handler on the
socket of the moment; it throws if there is no socket), `Update` the handler,
once per page on that socket, `ItemsLoaded`, `ValueLoaded` and `Failed` the
callbacks.  The application that makes and frees pages, and the server, are
external.  Items are a path and a version: enough to tell where they are from
and whether they are the latest.

**OtpNodes** (`shell/otp`).  `script` is where the script is, with its locals;
each loop is one step per try, so that nodes move between tries: `Wait` looks
for the pipes numbered `I+1`, `stop_otp` sends SIGTERM to all beams and looks
again, `check_start_bin` waits for a directory.  A node is in one of the stages
*launched*, *picked* (it has chosen a number), *booting* (it has its pipes),
*up*, *dying*, *refused* (another beam has its name), and can die in any of
them.  `log` is what the log says of the start under way, and `made` records
whether the node that was launched has made the pipes the script waits for, also
if it has died since.  What `run_erl`, `epmd` and the beams do is external, taken from the
script and its comments, above all that numbers are chosen and pipes made in two
steps (`otp:90`).

**CartCalls, Cart, CartServer** (`erlang/tmall_gen_server.erl`).  `CartCalls`
has the effect and answer of each call.  `CartServer` is the process with its
mailbox and the client it is linked to; `call`, `receive` and `timeout` are the
client's side of `gen_server:call`, `Stop` the end of the server, whose notice
reaches those who wait.  A call that times out leaves its request in the
mailbox.  `Cart` is the abstract cart: the calls made and not done are a set,
and each takes effect once, at one point after it is made, those of one client in
their order; a client that gave up does not know when.

**LoadTestRegion** (`js/ajaxUtil.js`, with the gate of `js/Ajax.js`).  Each
handler of the page is one action: `New`, `Submit` (for `save` and `saveas`),
`Open`, `OpenSelected`, `Delete`, `DeleteConfirmed`, the inputs, `Start`, `Stop`
and `Update`.  A request is a record in the bag `pending`; the server serves it
at one moment (`Serve`) and its callback runs at a later one (`CallBack`), or
its error callback does, whether or not the server did its part (`Failed`).
`With` is `aatlib.ajax`: without an API key nothing is sent.  Requests whose
answer does not depend on the moment (the licence, the instructions) carry it
from the start.  Dialogs are modal, as the widget library makes them.
The size of a UE group belongs to the server (`sizes`) and can change there
(`Resize`); what a select box lists and shows are copies (`Item`), made when a
list or a value is loaded, and `OverQuota` looks at the copy, as
`ajaxUtil.js:584` does.  Four history variables carry the properties: `seen`
(the ids the page ever had), `had` (the sizes each group has had), `hasty`
(whether the user ever acted with an answer outstanding) and `touch`: *clean*
after an answer to Open or Save, *dirty* once the user types, chooses or adds a
row, *reset* after `resetRegion`, *emptied* when the button Open has taken the
rows off a clean page and no answer has filled it again.

The `MC*` modules give the constants values; they replace no definition.
Operators under a comment that begins with "Mutant" are deliberately wrong
variants of the operator that follows them: each shows that some property fails
if the code had that mistake.  Nothing else uses them.

## 4. What the runs check

| Run | Instance | Shows |
|---|---|---|
| `ipc` | 3 clients, 3 sessions, 2 requests | a Call gets the answer to its own request and returns; a Close ends the session; the ends of a channel stay in step |
| `center` | 2 sessions, 2 names, 3 logins, 2 broadcasts, mailboxes of 1 | handlers exclude one another and see a fresh roster; broadcasts are delivered exactly, in order; the handlers implement the `Lobby` |
| `logout` | 1 session, 2 logins | **violation**: a logout removes more than the player it names |
| `cgss` | 2 loops, 1 login, 2 broadcasts, mailboxes of 1 | end to end the program implements the `Lobby`; every command ends; a broadcast is printed by whoever was logged in when it was typed, although it waits for the lock and for a full mailbox |
| `chat` | 2 connections, 1 line each | no panic; senders have receivers; only the last message can be lost; implements the `ChatRoom`; nobody is kept waiting for ever, but by a peer that stays connected and does not read |
| `region` | 3 ids, 2 of them stored, 2 names, 2 groups of 1 or 3 UEs with a licence for 2, 4 clicks and outside events together, at most 1 of them outside, 2 starts, at most 2 requests out when the user sends one | nothing incomplete is stored, and no group that never was within the licence; no test case this page never had is changed; a patient user sees what is stored, or empty rows after an Open that came to nothing, and saves to it; a click is handled once, but a confirmed New once per start |
| `region_reset` | as above, no outside events, 1 start | **violation**: late answers fill a page that was reset |
| `region_deletion` | as above | **violation**: the notification of a deletion does not name the test case |
| `window` | 2 adapters, 2 pages, 2 sockets, one box about systems under test and one not, 1 list that changes up to twice, 3 requests out, 1 kind of liberty | boxes catch up with the server; saves go where their items are from; handlers come and go with their pages |
| `otp` | 2 instances, 3 slots, 3 pipe numbers, 2 tries, 1 check | no shared pipes and true reports, unless a node was given up before it had pipes; every command ends |
| `otp_stop` | as above | **violation**: a beam may run after a stop that is logged as successful |
| `cart` | 2 clients, 2 orders, 2 calls each | implements the `Cart`; every call returns, even if no time-out ever comes |

Why the bounds are enough.  *ipc*: sessions share nothing, so a mix-up needs two
clients; a third leaves room for one that comes while another closes.  *center*:
three logins with two names give rosters of one, two and three players, with
equal names among them, which are the cases `removePlayer` tells apart (only
one, first, middle, last); a mailbox of one is full after the first of two
broadcasts, so a push does block with the lock held; two sessions are enough for
every pair of handlers to meet.  *cgss*: the smallest instance in which two
loops contend and a broadcast waits for a printer.  *chat*: two connections give
newcomers, hearers, leavers and a second message while the first is still being
sent; the proofs cover any number.  *region*: open, confirm, edit, save is four
clicks, and so is open, confirm, new, confirm; three clicks and one outside
event put a group withdrawn or resized, or the session lost, at any moment of
open, confirm, save.  Two sizes, one on each side of the licence, are what the
check tells apart.  What four clicks cannot do is two complete edits in a row;
the proofs cover any number.  *window*: two pages one after the other, or
at once, are what a late answer, a late free and a second handler need; a change
and one more between the answer and the callback need two changes of one list.
*otp*: the third slot is for a node of an earlier start that is still there; two
tries let a node be waited for once more before it is given up.  *cart*: a call
given up and one made again are two calls; a second client puts requests in
between, and can be the one the server is linked to.

Three history variables say under which circumstances a property is claimed,
and each stands for something the code does not guard against.  `liberties`
(`Window`): the adapter was *switched* or the socket *reconnected* under a page
or a request, or something *unsettled* the boxes, which are overlapping pages, a
session that ends under a page, answers that overtake one another, or a list
that failed; a page that is made when no request is out starts afresh, and
*unsettled* is forgotten.  After each of them the code does go wrong: a page
saves to the new adapter what it lists from the old, its handler stays on the old
socket, its boxes list what is old or are gone.  No text of the repository denies
that, so the properties name it as their condition.  Behaviours with two different kinds are cut off in the run
(`MaxLiberties`), as each property is affected by one kind only; the proofs have
no such bound.  `late` (`OtpNodes`): a node was given up before it had pipes;
from then on numbers may be shifted, and the report of a start may be about
another node.
`hasty` (`LoadTestRegion`): the user acted with an answer outstanding.

Deadlock is checked in all runs but those of the region, the window and the
cart, where the bounds on clicks, events, pages or calls end every behaviour.  The others have an explicit
last action (`Finished`, `AllQuit`, `Quiet`), or never end.

## 5. Fairness

- Goroutines that can take a step take one: weak fairness per goroutine, which
  is what the Go scheduler gives.
- A lock that is free again and again is given to every waiter (strong fairness
  of `Lock` and `RLock`): `sync.Mutex` hands over to a waiter that starves, and
  new readers of an `RWMutex` wait behind a writer that waits.
- A handler that is ready again and again when the broadcaster is in its
  `select` is picked (strong fairness of `Busy`): `select` chooses at random
  among what is ready, and senders on one channel queue in order.
- In `Chat` nothing is assumed of the peers.  None has to type, to end its input
  or to read: a read ends by itself only after a reset (`Busy`), a write only
  when it fails (`WriteFails`), and the range loop of the broadcaster is sure to
  go on only when every writer it still has to meet receives (`LoopGoesOn`), as
  it may have come to any of them.  `go_chat.go:71` writes with no deadline, so
  one peer that stays connected and does not read holds its writer, then the
  broadcaster, and then whoever wants to come, talk or leave.
  `NobodyKeptWaiting` has just this as its exception, and says that there is no
  other.
- Nobody has to type a command, call, close or connect.
- The page and the window have no fairness: their properties are safety
  properties.
- The node control script goes on when it can (weak fairness of `Script`): its
  loops sleep a tenth of a second and wait for no node.  Nothing is assumed of
  the nodes, so `CommandsEnd` holds although a beam may never die.
- The cart server takes the next message, and a client takes what has come for
  it (weak fairness of `Serve` and `receive`).  No time-out is assumed:
  `CallsReturn` rests on the notice that the end of a server gives.

## 6. Disagreements found

- **Logout takes off the wrong players** (`center.go:57-71`, run `logout`).
  `Cut` is what the code does with slices: for the last of several players it
  keeps `[:i-1]` and so drops one more; for one in the middle it appends
  `[:i+1]` to `[:i-1]`, which keeps the player named, repeats those before it
  and drops those after it.  The other properties of the
  center server are about order and exclusion and hold with `Cut` as it is.
- **A page that was reset does not stay so** (`ajaxUtil.js:650-660`, run
  `region_reset`): answers to requests made before the reset still fill it.
- **The notification of a deletion** (`ajaxUtil.js:224`, run `region_deletion`)
  reads the name after `resetRegion` has emptied it.
- **A stop that is logged as successful leaves a node** (`otp:113`, run
  `otp_stop`): a node that has its pipes and is not a beam process yet is not
  found by `pkill`, so it is neither killed nor waited for, and comes up later,
  without the pipes that the stop has removed.

## 7. What is proved

All theorems hold for every value of the constants that satisfies the named
`ASSUME`s: clients, sessions and the special values are different
(`ClientsAreNotSessions`, `ClientsAreApart`, `CloseIsNotARequest`, `CloseIsNoRequest`,
`NoStringIsNotSent`, `NoSessionIsNone`, `NothingsAreApart`, `SutIsNoAdapter`,
`NullIsNoBox`, `EverybodyIsNobody`, `NoSocketIsUndefined`,
`NobodyIsNoClient`), a mailbox holds at
least one message (`MailboxesHoldOne`), what is stored at first is valid
(`StoredIsFine`), the sizes of groups and the licence are natural numbers
(`SizesAreNumbers`), and so are the bounds (`RosterBounds`, `MaxLinesNat`,
`RegionBounds`, `WindowBounds`, `OtpBounds`, `CallsAreBounded`).  In the proofs
the bounds are arbitrary.  Every invariant, every action property and every
refinement that a passing run checks is proved; what is left to TLC is liveness.

**IpcProofs**: `IpcTypes`, `SessionsPaired`, `CallsGetOwnAnswer`.  `OwnAnswer`
alone is not inductive: that the receive in `Call` takes an answer and not a
request depends on nobody else using the channel.  `IpcInv` adds `Paired`: a
session has one client, and each state of the client goes with certain states of
the session.  From it `OnlyPartner` says that the only offer on a channel is the
partner's, and each action is then a small case.  `PartnersMeet` sums this up for
the line that `client.go` marks with "?????": whoever sends finds the other end
waiting to receive, and whoever waits for an answer can meet nobody but its session.

**CenterProofs**: about the data, `CutNeverPanics` (the slices stay inside the
roster wherever the search stops, so a logout never panics with the mutex
locked), `CutMakesNobodyUp` (who is left was there before), `CutKeepsTheMiddle`
and `CutIsRightForTheFirst`, which say how far the finding of the run `logout`
goes: in a roster of different players `Cut` is the removal it should be if and
only if the first one logs out.  `LogoutsRemoveTheFirst` carries that over to
the steps of the server.  They rest on `CutShape` and `WithoutShape`, which give
the length and every entry of the two results.  About the handlers, `CenterTypes`, `HandlersExclude`, `HandlersSeeTheRoster`,
`BroadcastsAreRead` and `HandlersAreSerial`.  The inductive invariant is
`CenterInv`: the types; `Locking`, which ties who is inside to what the lock
says, needed as the lock is data and not a construct of the language; and
`NothingStale`, which follows since only a writer changes the roster and nobody
else is then inside.  `BroadcastsAreRead` adds that everyone in the roster has
a printer.  `HandlersAreSerial` is the refinement: every step maps to a step of
the `Lobby` or to a stutter, with the effect at the unlock; `NothingStale` is
what makes the effect on `snap` the effect on the roster.
`BroadcastsAreExact` is `ExactDelivery`.  `FlattenSeq` is a recursive function,
so what it returns cannot be expanded by a prover: `FlattenAppend`, that a copy
more at the end of the log is one more at the end of what was delivered, is shown
by the least place at which two such functions could differ (`FlattensUnique`).
`Delivery` then says of each handler inside a broadcast which copies it has sent
and which not, and that nobody else is inside.
`HandlersNeverDeadlock` is the safety core of the liveness properties: who waits
for the lock waits for a handler inside, which goes on or waits for a full
mailbox, and that has a printer.

**ChatProofs**: `ChatTypes`, `ServerNeverPanics`, `SendsHaveReceivers`,
`AtMostTheLastIsLost`, `ServerIsChatRoom`, `ServerNeverStuck`.  The inductive invariant `ChatInv`
adds `Phases`: where a handler is determines whether its client is in the map and in the loop, whether
its channel is closed and whether its writer lives.  The refinement then needs
only that the members of the room are the keys of the map.
`AtMostTheLastIsLost` keeps a ledger per peer (`Ledgers`): what was sent to a
peer that does not reset is what it was shown, or that and one message more,
which its writer holds as long as the connection is open.
`ServerNeverStuck` is the part of `NobodyKeptWaiting` that needs no fairness: the
rendezvous of handlers, broadcaster and writers never block in a circle.  The
step that it finds may be a write, which is up to its peer.

**CgssProofs**: `CgssTypes`, `HandlersServeTheirClients`,
`HandlersExcludeInCgss`, `DeliveryInCgss`, `SystemIsLobby`,
`CommandsNeverStuck`.  The invariants of the two parts hold
in the composition, as each step of it is a step of one part, or of both.
`Pairs` connects them: a handler is busy exactly when its session has received
and not yet sent, and then with the request that its client sent (`Served`).
With that the refinement of `CenterProofs` is carried through the IPC: a command
is in the `Lobby` from the moment it is typed until its outcome.
`CommandsNeverStuck` follows a command from the loop through session and handler
to the lock and the printers: at each point the step waited for can be taken, or
one that it waits for in turn.

**RegionProofs**: `RegionTypes`, `StoreStaysValid`, `OthersKept`,
`PageShowsTheStored`, `IdStaysStored`, `HandlersStayCounted`.  But for the last, none
of these is inductive, since what they say is decided by requests that were made long
before.  `Formed` says that every request and answer under way is well-formed,
a save also complete, and its group within the licence at some size that it has
had; every copy of an item, in a list, in a box or under way, carries such a
size.  With it the store stays valid, in the sense of `StoreIsValid`: the size
that was checked is real but may be old, and nothing in the code compares it
with that of the moment.  `Known` says that every request that is to change a test case has
its id from an answer (`Entitled`).  `Calm` is about a user who waits: of the
requests he waits for at most one is out, once (`Alone`), what it carries is
what the page still shows and what the server still has (`UpToDate`), and an
unedited page is the stored test case, with its rows or, after an Open that came
to nothing, without any (`Matches`).  `Wired` counts handlers per
start: one, but of `newConfirmed` one for each start there was.  Three more theorems say how far two of the findings go.
`OnlyAnswersUndoAReset`: a reset with no save and no value of a select box under
way lasts until the user edits, so late answers of these two kinds are the whole
cause of `region_reset`.  `PatientResetLasts`: of a user who waits for the answers
only the select boxes are filled again.  `DeletionNeverNamesIt`: for that user the
name in the notification of a deletion is not just sometimes wrong, it is always
empty.  The last two rest on the invariant `Patient`.

**WindowProofs**: `WindowTypes`, `ListenersFollowPages`, `SavedWhereItFits`,
`BoxesListWhatIsOffered`.  `Live` says which pages have a handler where; `Fits`
that every request, answer and box content under way is of the adapter in use;
`Catch` that as long as `liberties` is empty and a list in a box is old, a message, a request or a newer
answer is under way that will replace it.

**OtpProofs**: `OtpTypes`, `PipesAreNotShared`, `LogIsTrue`,
`CountingIsEnough`, `ScriptGetsOn`, `LaunchesFindSlots`.  While no node was given up early, the only node without
pipes is the one waited for (`OneLaunches`), and no pipe has a number above its instance's,
so that the number it chooses is the one the script looks for (`Numbering`).
`CountingIsEnough` is a pigeonhole argument: names are unique among beams that
were not refused, so as many beams as instances are all of them.
`ScriptGetsOn` and `LaunchesFindSlots` are what `CommandsEnd` rests on: every
step of the script is further along in the command by a lexicographic measure
that the types bound, and no step waits for anything.

**CartProofs**: `CartTypes`, `ServerIsCart`, and two facts that no run lists, about
where the requests of a client are: `NobodyWaitsInVain` (a call that waits has its request
in the mailbox of a server that is there) and `AnswersComeLast` (once a call has
its answer, or the notice that the server ended, none of its client's requests is
left to take effect later).
Both rest on `Numbered`: the references of a client increase along the mailbox
and end with the last one made.  `ServerIsCart` is the refinement: the set of what
is to be done is what the mailbox holds, and as the references increase the
message at its head is the first one left of its client, which is the one the
`Cart` lets take effect.

## 8. What is only model-checked

- Liveness (`CallReturns`, `CloseEndsSession`, `BroadcastsArePrinted`,
  `NobodyKeptWaiting`, `CallsReturn`, and `CommandsEnd` of `Cgss` and `OtpNodes`):
  liveness under fairness is outside the prover's reach.  What is proved towards
  it is that nobody is stuck: `NobodyWaitsInVain`, `PartnersMeet`,
  `ServerNeverStuck`, `CommandsNeverStuck`, `ScriptGetsOn`.
- The four violations: a counterexample is its own proof.

## 9. What is not modelled

`PROJECT.json` lists every part with its status.  Of the parts that are
modelled, these are left out: the branch for a request that is no JSON
(`server.go:41-43`), which no `Call` reaches; `Level`, `Exp` and `Room` of a
player; the goroutine that a refused `addplayer` leaks, and the one of the
player that `cgss.go` makes on the client's side, whose mailbox nobody uses; the
command loop at the end of its input, where it spins, and what it prints of
responses and errors (`centerclient.go:13-60`); a failing `Accept`, which
is logged; of the page, the removal of a row (a widget of a library that is not
in the repository), help popups, and the descriptions and parameters that travel
with names and steps; of `Sharedata.js`, the adapter, resource and configuration
maps and the reset indicators, which no code of the repository reads; of
`Ajax.js`, the login request and the redirection to the login page; of
`shell/otp`, the choice of cores, flags and directories, and two scripts at
once; of the cart server, `handle_info`, which prints.

Parts without a model, and why:

- `erlang/udptest.erl` is one datagram each way and a time-out: two states.
  `udp_genserver.erl` does not compile.
- `proctest.erl`, `strtest.erl`, `erlang_league.erl` and `go_toposort.go` are
  pure functions; a unit test per function reaches what a bounded check would,
  and what they compute for every input needs induction.
- `go_fetchall` joins goroutines that each send once.  `go_login` keeps its
  pages in files that no code guards: a model would be of the file system.
- The SCTP and Boost programs are exercises of socket interfaces; what is hard
  in them, the race of an answer and a deadline, is inside `boost::asio`.
- The other one-file exercises in Go, Python, shell, C and Erlang, the
  Makefiles, and the record and ASN.1 definitions have no state that two steps
  share.

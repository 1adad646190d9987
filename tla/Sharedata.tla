----------------------------- MODULE Sharedata -----------------------------
(***************************************************************************)
(* js/Sharedata.js: what the pages of one browser window share, in         *)
(* window.aatDataStorage.  The object is made by whichever function is     *)
(* called first; a field that nobody set is Undefined, as is every field   *)
(* of an object not made yet.  (All of src/ calls getApiKey first, which   *)
(* makes it.)  The maps and indicators that no code of src/ reads are left *)
(* out.                                                                    *)
(***************************************************************************)

CONSTANTS
    Undefined,
    Adapters,       \* names of adapters
    Sockets,        \* connections to the server's test environment
    EveryAdapter    \* the adapter of a message for all: its length is 0

ASSUME EverybodyIsNobody ==
    Undefined \notin Adapters /\ EveryAdapter \notin Adapters \cup {Undefined}
ASSUME NoSocketIsUndefined == Undefined \notin Sockets

VARIABLE shared     \* window.aatDataStorage

SharedInit ==
    shared = [login |-> FALSE, adapter |-> Undefined, SUTs |-> {},
              socket |-> Undefined]

\* There is one API key; login says whether it is set.
setApiKey == shared' = [shared EXCEPT !.login = TRUE]
clearApiKey == shared' = [shared EXCEPT !.login = FALSE]
isLogin == shared.login
setAdapter(name) == shared' = [shared EXCEPT !.adapter = name]
getAdapter == shared.adapter
setSUTs(resources) == shared' = [shared EXCEPT !.SUTs = resources]
getSUTs == shared.SUTs
setSocketConnect(s) == shared' = [shared EXCEPT !.socket = s]
getEnvirSocket == shared.socket

\* Mutant: messages for every adapter are taken for another's.
OnlyItsAdapter(msg) == msg.adapter = getAdapter

isMsg4CurrentAdapter(msg) == msg.adapter \in {getAdapter, EveryAdapter}
=============================================================================

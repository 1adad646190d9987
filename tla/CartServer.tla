----------------------------- MODULE CartServer -----------------------------
(***************************************************************************)
(* erlang/tmall_gen_server.erl: the server process, registered under one   *)
(* name, its mailbox, and clients that call it, each call with a reference *)
(* of its own, a monitor of the server, and five seconds to be answered.   *)
(* The cart is the state of the process.  start_link links the server to   *)
(* the client that starts it, and the server goes down with that one.      *)
(*                                                                         *)
(* What gen_server does, and Erlang's messages, links and monitors, are    *)
(* modelled from how the module uses them.  An answer or a notice that is  *)
(* not for the call a client is in is never looked at, and left out.       *)
(***************************************************************************)
EXTENDS CartCalls, Naturals

CONSTANTS
    Nobody,         \* no process
    MaxCalls        \* bound on the calls of one client

ASSUME NobodyIsNoClient == Nobody \notin Clients
ASSUME CallsAreBounded == MaxCalls \in Nat

VARIABLES
    owner,      \* the client the server is linked to; Nobody: there is no server
    cart,       \* the server's state
    mailbox,    \* the server's: calls, and the cast of close
    made,       \* per client: the number of calls made, its last reference
    result      \* per client: not in a call, Waiting, or what has come for it

serverVars == <<owner, cart, mailbox, made, result>>

\* The cast of close, and the notice that the server is down.
Terminate == [op |-> "terminate"]
Down == [down |-> TRUE]

ServerInit ==
    /\ owner = Nobody /\ cart = <<>> /\ mailbox = <<>>
    /\ made = [c \in Clients |-> 0] /\ result = [c \in Clients |-> Idle]

-----------------------------------------------------------------------------
\* It fails if the name is taken.  init: an empty cart.
start_link(c) ==
    /\ owner = Nobody /\ owner' = c /\ cart' = <<>>
    /\ result[c] = Idle /\ UNCHANGED <<mailbox, made, result>>

\* order, remove_order, cart and empty_cart.  Without a server a call exits
\* and changes nothing.
call(c, req) ==
    /\ owner # Nobody /\ result[c] = Idle /\ made[c] < MaxCalls
    /\ made' = [made EXCEPT ![c] = @ + 1]
    /\ result' = [result EXCEPT ![c] = Waiting]
    /\ mailbox' = Append(mailbox, [from |-> c, ref |-> made[c] + 1, req |-> req])
    /\ UNCHANGED <<owner, cart>>

\* close is a cast: nobody waits for it, nor cares whether there is a server.
\* Two of them under way are as good as one.
close ==
    /\ owner # Nobody /\ ~Contains(mailbox, Terminate)
    /\ mailbox' = Append(mailbox, Terminate)
    /\ UNCHANGED <<owner, cart, made, result>>

Reply(msg, answer) ==
    result' = IF result[msg.from] = Waiting /\ made[msg.from] = msg.ref
              THEN [result EXCEPT ![msg.from] = answer] ELSE result

\* Mutants: an order that is removed stays; an emptied cart is not answered;
\* a cart that is listed is wrapped once more.
handle_call_keeping(msg) ==
    /\ cart' = IF msg.req.op = "remove" THEN cart ELSE Effect(msg.req, cart)
    /\ Reply(msg, Answer(msg.req, cart))
handle_call_silent(msg) ==
    /\ cart' = Effect(msg.req, cart)
    /\ IF msg.req.op = "empty" THEN UNCHANGED result ELSE Reply(msg, Answer(msg.req, cart))
handle_call_nested(msg) ==
    /\ cart' = IF msg.req.op = "order" /\ cart # <<>> THEN <<msg.req.of, cart>>
               ELSE Effect(msg.req, cart)
    /\ Reply(msg, Answer(msg.req, cart))

\* The new cart, and the answer for the caller.
handle_call(msg) == cart' = Effect(msg.req, cart) /\ Reply(msg, Answer(msg.req, cart))

\* The end of the server, after which those who wait get a notice.
Stop ==
    /\ owner' = Nobody /\ cart' = <<>> /\ mailbox' = <<>>
    /\ result' = [c \in Clients |-> IF result[c] = Waiting THEN Down ELSE result[c]]

\* gen_server: one message at a time.
Serve ==
    /\ mailbox # <<>> /\ UNCHANGED made
    /\ \/ /\ Head(mailbox) # Terminate /\ handle_call(Head(mailbox))
          /\ mailbox' = Tail(mailbox) /\ UNCHANGED owner
       \/ Head(mailbox) = Terminate /\ Stop

-----------------------------------------------------------------------------
\* A call returns what has come, or exits on the notice; or it exits after
\* five seconds, and its request stays in the mailbox.
Return(c) == result' = [result EXCEPT ![c] = Idle] /\ UNCHANGED <<owner, cart, mailbox, made>>
receive(c) == result[c] \notin {Idle, Waiting} /\ Return(c)
timeout(c) == result[c] = Waiting /\ Return(c)

\* The server goes down with the client it is linked to, which may be one
\* whose call exited, or that removed what is not an order (line 25).
exit ==
    /\ owner # Nobody /\ result[owner] = Idle
    /\ Stop /\ UNCHANGED made

ServerNext ==
    \/ Serve \/ close \/ exit
    \/ \E c \in Clients :
         start_link(c) \/ receive(c) \/ timeout(c) \/ \E req \in Requests : call(c, req)

\* The scheduler lets a process go on that has a message.  Nothing is assumed
\* of the timeouts.
ServerSpec ==
    /\ ServerInit /\ [][ServerNext]_serverVars
    /\ WF_serverVars(Serve) /\ \A c \in Clients : WF_serverVars(receive(c))
-----------------------------------------------------------------------------
\* Every variable holds a value of its type, and there is nothing in the
\* mailbox of a server that is not there.
Calls == [from : Clients, ref : 1..MaxCalls, req : Requests]
CartTypeOK ==
    /\ owner \in Clients \cup {Nobody} /\ cart \in Seq(Orders)
    /\ mailbox \in Seq(Calls \cup {Terminate})
    /\ owner = Nobody => mailbox = <<>> /\ cart = <<>>
    /\ made \in [Clients -> 0..MaxCalls]
    /\ result \in [Clients -> {Idle, Waiting, Down, [ok |-> TRUE]}
                     \cup [order : Orders] \cup [cart : Seq(Orders)]]

\* The requests are those in the mailbox; whoever has the notice that the
\* server is down still waits, as far as the cart goes.
Promised == INSTANCE Cart WITH
    todo <- {m \in Range(mailbox) : m # Terminate},
    result <- [c \in Clients |-> IF result[c] = Down THEN Waiting ELSE result[c]]

\* The server is the cart for all that it promises to be: across timeouts,
\* late answers, calls made again and servers that end and are started
\* again, a call takes effect at most once, in the order of its client, and
\* an answer is that of the call that is waited for.
IsCart == Promised!CartSpec

\* Every call ends, answered or with an exit, even if no timeout ever comes:
\* the end of the server is told to all who wait for it.
CallsReturn == \A c \in Clients : result[c] # Idle ~> result[c] = Idle
=============================================================================

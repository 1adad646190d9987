-------------------------------- MODULE Cart --------------------------------
(***************************************************************************)
(* What erlang/tmall_gen_server.erl promises its clients: one cart for     *)
(* all.  A call takes effect once, at one point after it was made; a       *)
(* client that has given up its call cannot know whether it will.  The     *)
(* requests of one client take effect in the order they were made.  The    *)
(* whole cart may be lost, and with it what was asked and not done.        *)
(***************************************************************************)
EXTENDS CartCalls, Naturals

VARIABLES
    cart,
    made,       \* per client: the number of its requests
    todo,       \* the requests made and not done, numbered for each client
    result      \* per client: no call, one that waits, or its answer

cartVars == <<cart, made, todo, result>>

CartInit ==
    /\ cart = <<>> /\ todo = {}
    /\ made = [c \in Clients |-> 0] /\ result = [c \in Clients |-> Idle]

Ask(c, r) ==
    /\ result[c] = Idle /\ result' = [result EXCEPT ![c] = Waiting]
    /\ made' = [made EXCEPT ![c] = @ + 1]
    /\ todo' = todo \cup {[from |-> c, ref |-> made[c] + 1, req |-> r]}
    /\ UNCHANGED cart

\* What else its client has asked for and not got.
Others(m) == {n \in todo \ {m} : n.from = m.from}

\* The first request of a client that is left, which has an answer if it is
\* the last one too and the client waits.
Do(m) ==
    /\ \A n \in Others(m) : m.ref < n.ref
    /\ todo' = todo \ {m}
    /\ cart' = Effect(m.req, cart)
    /\ result' = IF Others(m) = {} /\ result[m.from] = Waiting
               THEN [result EXCEPT ![m.from] = Answer(m.req, cart)] ELSE result
    /\ UNCHANGED made

\* The call returns its answer, or it exits.
Return(c) ==
    /\ result[c] # Idle /\ result' = [result EXCEPT ![c] = Idle]
    /\ UNCHANGED <<cart, made, todo>>

Lose ==
    /\ cart' = <<>> /\ todo' = {}
    /\ UNCHANGED <<made, result>>

CartNext ==
    \/ Lose
    \/ \E m \in todo : Do(m)
    \/ \E c \in Clients : Return(c) \/ \E r \in Requests : Ask(c, r)

CartSpec == CartInit /\ [][CartNext]_cartVars
=============================================================================

----------------------------- MODULE CartCalls ------------------------------
\* The calls of erlang/tmall_gen_server.erl: what each does to a cart, and
\* what it answers.  A cart is the sequence of its orders, the latest first.
EXTENDS Sequences, SequencesExt

CONSTANTS
    Clients,    \* processes that call the server
    Orders      \* orders that can be made

Requests == [op : {"order", "remove"}, of : Orders] \cup [op : {"list", "empty"}]

\* handle_call: the cart after a request, and the answer.  An order is put in
\* front; the first that equals it is removed.
Effect(r, cart) ==
    CASE r.op = "order" -> <<r.of>> \o cart
      [] r.op = "remove" -> IF Contains(cart, r.of) THEN RemoveFirst(cart, r.of) ELSE cart
      [] r.op = "list" -> cart
      [] r.op = "empty" -> <<>>
Answer(r, cart) ==
    CASE r.op = "order" -> [order |-> r.of]
      [] r.op = "empty" -> [ok |-> TRUE]
      [] OTHER -> [cart |-> Effect(r, cart)]

\* What a client has of its call, besides an answer.
Idle == [idle |-> TRUE]
Waiting == [waiting |-> TRUE]
=============================================================================

---------------------------- MODULE BoundedQueue ----------------------------
(***************************************************************************)
(* What src/ring.h promises the two stages it stands between: a queue of   *)
(* at most Capacity values that comes out in the order it went in.  A full *)
(* queue makes push wait and tryPush say no; after close nothing goes in   *)
(* and all that is in still comes out.  No mutex, no wakeups, no slots.    *)
(***************************************************************************)
EXTENDS Naturals, Sequences

CONSTANTS Threads, Values, Capacity

VARIABLES
  queue,    \* what is in, oldest first
  closed,
  request   \* by thread: what it asked last, or the answer once there is one

abstract == <<queue, closed, request>>

Asked(op, v) == [op |-> op, value |-> v]

None == Asked("none", "none")

\* Refused is the code's false, Drained its nullopt.
Accepted == Asked("accepted", "none")
Refused == Asked("refused", "none")
Drained == Asked("drained", "none")

Questions == {Asked("pop", "none")}
             \cup {Asked(op, v) : op \in {"push", "tryPush"}, v \in Values}

Answers == {Accepted, Refused, Drained} \cup {Asked("popped", v) : v \in Values}

Pending(t) == request[t] \in Questions

Room == Len(queue) < Capacity

Ask(t, q) ==
  /\ ~Pending(t)
  /\ request' = [request EXCEPT ![t] = q]
  /\ UNCHANGED <<queue, closed>>

Put(t) ==
  /\ request[t].op \in {"push", "tryPush"}
  /\ ~closed /\ Room
  /\ queue' = Append(queue, request[t].value)
  /\ request' = [request EXCEPT ![t] = Accepted]
  /\ UNCHANGED closed

Refuse(t) ==
  /\ request[t].op \in {"push", "tryPush"}
  /\ closed \/ (request[t].op = "tryPush" /\ ~Room)
  /\ request' = [request EXCEPT ![t] = Refused]
  /\ UNCHANGED <<queue, closed>>

Take(t) ==
  /\ request[t].op = "pop" /\ queue # <<>>
  /\ queue' = Tail(queue)
  /\ request' = [request EXCEPT ![t] = Asked("popped", Head(queue))]
  /\ UNCHANGED closed

End(t) ==
  /\ request[t].op = "pop" /\ queue = <<>> /\ closed
  /\ request' = [request EXCEPT ![t] = Drained]
  /\ UNCHANGED <<queue, closed>>

Close == closed' = TRUE /\ UNCHANGED <<queue, request>>

Init == queue = <<>> /\ closed = FALSE /\ request = [t \in Threads |-> None]

Next ==
  \/ \E t \in Threads : (\E q \in Questions : Ask(t, q)) \/ Put(t) \/ Refuse(t) \/ Take(t) \/ End(t)
  \/ Close

Spec == Init /\ [][Next]_abstract

\* Whoever could be answered and goes on being answerable is answered: a
\* consumer while there is something in the queue, a producer while there is
\* room, tryPush always, everybody once the queue is closed.
Due(t) ==
  \/ request[t].op = "tryPush"
  \/ request[t].op = "push" /\ (closed \/ Room)
  \/ request[t].op = "pop" /\ (closed \/ queue # <<>>)

DueAnswered == \A t \in Threads : []<>~Due(t)
=============================================================================

-------------------------------- MODULE Ring --------------------------------
(***************************************************************************)
(* Ring<T> (src/ring.h): a circular buffer with one slot left empty, a     *)
(* mutex and two condition variables.                                      *)
(*                                                                         *)
(* What a call does between taking the mutex and releasing it, or between  *)
(* taking it and falling asleep on a condition variable, is one action.    *)
(* A notify comes after the unlock and is an action of its own: between    *)
(* the two, others run.  A sleeper may also wake for no reason.            *)
(*                                                                         *)
(* The header asks for one producer and one consumer.  Nothing in the code *)
(* uses that, and the model has any number of each.  pushed_ and popped_   *)
(* only count, and are left out.                                           *)
(***************************************************************************)
EXTENDS Integers, Sequences, FiniteSets

CONSTANTS
  Producers,   \* threads that push
  Consumers,   \* threads that pop
  Values,
  Capacity     \* the constructor's argument

ASSUME RingAssumption ==
  /\ Producers \cap Consumers = {} /\ IsFiniteSet(Producers \cup Consumers)
  /\ Capacity \in Nat

VARIABLES
  slots, read, write, closed,   \* the members of Ring
  notEmpty,   \* the threads asleep on notEmpty_
  notFull,    \* the threads asleep on notFull_
  at,         \* by thread: where it is
  request     \* by thread: what it asked last, or the answer once there is one

buffer == <<slots, read, write>>
vars   == <<buffer, closed, notEmpty, notFull, at, request>>

Threads == Producers \cup Consumers

N == Capacity + 1

Empty == "none"

\* "notify*" and "close*" are behind the unlock of pop, push and close.
Places == {"out", "call", "notifyFull", "notifyEmpty", "closeEmpty", "closeFull"}

next(i) == (i + 1) % N

\* Mutant: counts the empty slot twice.
fullTooSoon == next(next(write)) = read

full == next(write) = read

empty == write = read

Size == (write + N - read) % N

Items == [i \in 1 .. Size |-> slots[(read + i - 1) % N]]

Queue == INSTANCE BoundedQueue WITH queue <- Items

Init ==
  /\ slots = [i \in 0 .. Capacity |-> Empty]
  /\ read = 0 /\ write = 0
  /\ closed = FALSE
  /\ notEmpty = {} /\ notFull = {}
  /\ at = [t \in Threads |-> "out"]
  /\ request = [t \in Threads |-> Queue!None]

Goes(t, place) == at' = [at EXCEPT ![t] = place]

Answers(t, answer) == request' = [request EXCEPT ![t] = answer]

\* t holds the mutex and evaluates the condition of its wait.
Runs(t, ops) ==
  /\ at[t] = "call" /\ t \notin notEmpty \cup notFull
  /\ request[t].op \in ops

-----------------------------------------------------------------------------
Begin(t, q) ==
  /\ at[t] = "out"
  /\ Goes(t, "call") /\ Answers(t, q)
  /\ UNCHANGED <<buffer, closed, notEmpty, notFull>>

Store(t) ==
  /\ Runs(t, {"push", "tryPush"}) /\ ~closed /\ ~full
  /\ slots' = [slots EXCEPT ![write] = request[t].value]
  /\ write' = next(write)
  /\ Goes(t, "notifyEmpty") /\ Answers(t, Queue!Accepted)
  /\ UNCHANGED <<read, closed, notEmpty, notFull>>

MustRefuse(t) == closed \/ (request[t].op = "tryPush" /\ full)

Refuses(t) ==
  /\ Runs(t, {"push", "tryPush"}) /\ MustRefuse(t)
  /\ Goes(t, "out") /\ Answers(t, Queue!Refused)
  /\ UNCHANGED <<buffer, closed, notEmpty, notFull>>

WaitNotFull(t) ==
  /\ Runs(t, {"push"}) /\ ~closed /\ full
  /\ notFull' = notFull \cup {t}
  /\ UNCHANGED <<buffer, closed, notEmpty, at, request>>

Load(t) ==
  /\ Runs(t, {"pop"}) /\ ~empty
  /\ slots' = [slots EXCEPT ![read] = Empty]   \* moved from
  /\ read' = next(read)
  /\ Goes(t, "notifyFull") /\ Answers(t, Queue!Asked("popped", slots[read]))
  /\ UNCHANGED <<write, closed, notEmpty, notFull>>

Drains(t) ==
  /\ Runs(t, {"pop"}) /\ empty /\ closed
  /\ Goes(t, "out") /\ Answers(t, Queue!Drained)
  /\ UNCHANGED <<buffer, closed, notEmpty, notFull>>

WaitNotEmpty(t) ==
  /\ Runs(t, {"pop"}) /\ empty /\ ~closed
  /\ notEmpty' = notEmpty \cup {t}
  /\ UNCHANGED <<buffer, closed, notFull, at, request>>

\* Mutant: no notify.
OneWokenNot(S) == {S}

\* notify_one: what may be left of the sleepers S.
OneWoken(S) == IF S = {} THEN {S} ELSE {S \ {t} : t \in S}

\* Mutant: notify_one where close says notify_all.
AllWokenButOne(S) == OneWoken(S)

AllWoken(S) == {{}}

NotifyEmpty(t) ==
  /\ at[t] = "notifyEmpty"
  /\ notEmpty' \in OneWoken(notEmpty)
  /\ Goes(t, "out")
  /\ UNCHANGED <<buffer, closed, notFull, request>>

NotifyFull(t) ==
  /\ at[t] = "notifyFull"
  /\ notFull' \in OneWoken(notFull)
  /\ Goes(t, "out")
  /\ UNCHANGED <<buffer, closed, notEmpty, request>>

\* Any thread may close, and again.
close(t) ==
  /\ at[t] = "out"
  /\ closed' = TRUE
  /\ Goes(t, "closeEmpty")
  /\ UNCHANGED <<buffer, notEmpty, notFull, request>>

CloseEmpty(t) ==
  /\ at[t] = "closeEmpty"
  /\ notEmpty' \in AllWoken(notEmpty)
  /\ Goes(t, "closeFull")
  /\ UNCHANGED <<buffer, closed, notFull, request>>

CloseFull(t) ==
  /\ at[t] = "closeFull"
  /\ notFull' \in AllWoken(notFull)
  /\ Goes(t, "out")
  /\ UNCHANGED <<buffer, closed, notEmpty, request>>

\* A condition variable may wake a thread that nobody notified.
Spurious(t) ==
  /\ t \in notEmpty \cup notFull
  /\ notEmpty' = notEmpty \ {t} /\ notFull' = notFull \ {t}
  /\ UNCHANGED <<buffer, closed, at, request>>
-----------------------------------------------------------------------------
\* A thread inside a call, awake.
Step(t) ==
  \/ Store(t) \/ Refuses(t) \/ WaitNotFull(t)
  \/ Load(t) \/ Drains(t) \/ WaitNotEmpty(t)
  \/ NotifyEmpty(t) \/ NotifyFull(t) \/ CloseEmpty(t) \/ CloseFull(t)

Next ==
  \/ \E t \in Producers, v \in Values, op \in {"push", "tryPush"} :
       Begin(t, Queue!Asked(op, v))
  \/ \E t \in Consumers : Begin(t, Queue!Asked("pop", Empty))
  \/ \E t \in Threads : Step(t) \/ close(t) \/ Spurious(t)

Spec == Init /\ [][Next]_vars

\* A thread that is awake inside a call runs on, and gets the mutex, which
\* nobody holds for long.  Nobody need ever call, and no wakeup is spurious
\* because something is owed.
FairSpec == Spec /\ \A t \in Threads : WF_vars(Step(t))
-----------------------------------------------------------------------------
\* Every variable has its type, and a thread sleeps only in a call that waits.
TypeOK ==
  /\ slots \in [0 .. Capacity -> Values \cup {Empty}]
  /\ read \in 0 .. Capacity /\ write \in 0 .. Capacity /\ closed \in BOOLEAN
  /\ notEmpty \subseteq {t \in Consumers : at[t] = "call"}
  /\ notFull \subseteq {t \in Producers : at[t] = "call" /\ request[t].op = "push"}
  /\ at \in [Threads -> Places]
  /\ request \in [Threads -> {Queue!None} \cup Queue!Questions \cup Queue!Answers]

Behind(place) == {t \in Threads : at[t] = place}

\* Awake in a call that takes one item, or one free slot.
Popping == {t \in Consumers : at[t] = "call"} \ notEmpty

Pushing == {t \in Producers : at[t] = "call" /\ request[t].op = "push"} \ notFull

\* No wakeup is lost.  While someone sleeps for an item, each item in the ring
\* has somebody on the way to it: a consumer that is awake, or a push that is
\* about to notify.  The same for free slots and sleeping producers; and once
\* the ring is closed the close that is to wake them is still under way.
WakeupsOwed ==
  /\ notEmpty # {} =>
       IF closed THEN Behind("closeEmpty") # {}
       ELSE Size <= Cardinality(Behind("notifyEmpty")) + Cardinality(Popping)
  /\ notFull # {} =>
       IF closed THEN Behind("closeEmpty") \cup Behind("closeFull") # {}
       ELSE Capacity - Size <= Cardinality(Behind("notifyFull")) + Cardinality(Pushing)

\* The ring is a bounded queue in order: capacity exactly as asked for, every
\* item once, nothing in after close and everything out, refused and drained
\* only when that is so ("first in, first out", "closing drains, it does not
\* drop", test_ring.cpp).
Implements == Queue!Spec

\* Nobody who could be answered sleeps for ever ("close wakes a blocked
\* consumer", "everything gets through once the consumer drains").
DueAnswered == Queue!DueAnswered
-----------------------------------------------------------------------------
\* A thread is pending exactly while it is in a call that has not answered,
\* with a question of its kind.
RequestsInv ==
  /\ \A t \in Producers : at[t] = "call" =>
       request[t] \in {Queue!Asked(op, v) : op \in {"push", "tryPush"}, v \in Values}
  /\ \A t \in Consumers : at[t] = "call" => request[t] = Queue!Asked("pop", Empty)
  /\ \A t \in Threads : at[t] # "call" => ~Queue!Pending(t)

\* What is between read and write has not been moved from.
ItemsInv == \A i \in 1 .. Size : Items[i] \in Values

IInv == TypeOK /\ RequestsInv /\ ItemsInv
=============================================================================

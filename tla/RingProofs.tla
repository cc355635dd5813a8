----------------------------- MODULE RingProofs -----------------------------
EXTENDS Ring, FiniteSetTheorems, SequenceTheorems, TLAPS

(* The indices.  Where the code takes a remainder, the value is either what *)
(* went in or one turn less.                                                *)

LEMMA OneTurn ==
  \A a \in 0 .. 2 * N - 1 : a % N = IF a < N THEN a ELSE a - N
<1>1. N \in Nat \ {0}
  BY RingAssumption DEF N
<1> QED BY <1>1

LEMMA NextIndex ==
  ASSUME NEW i \in 0 .. Capacity
  PROVE  /\ next(i) = IF i = Capacity THEN 0 ELSE i + 1
         /\ next(i) \in 0 .. Capacity
  BY RingAssumption DEF next, N

LEMMA SizeIndex ==
  ASSUME NEW r \in 0 .. Capacity, NEW w \in 0 .. Capacity
  PROVE  /\ (w + N - r) % N = IF r <= w THEN w - r ELSE w - r + N
         /\ (w + N - r) % N \in 0 .. Capacity
<1>1. N \in Nat \ {0} /\ w + N - r \in 0 .. 2 * N - 1
  BY RingAssumption DEF N
<1>2. (w + N - r) % N = IF w + N - r < N THEN w + N - r ELSE w + N - r - N
  BY <1>1, OneTurn
<1> QED BY <1>2, RingAssumption DEF N

\* The slot item i is in, when the oldest is in slot r.
Place(r, i) == IF r + i - 1 <= Capacity THEN r + i - 1 ELSE r + i - 1 - N

LEMMA PlaceIndex ==
  ASSUME NEW r \in 0 .. Capacity, NEW i \in 1 .. Capacity
  PROVE  (r + i - 1) % N = Place(r, i) /\ Place(r, i) \in 0 .. Capacity
<1>1. N \in Nat \ {0} /\ r + i - 1 \in 0 .. 2 * N - 1
  BY RingAssumption DEF N
<1>2. (r + i - 1) % N = IF r + i - 1 < N THEN r + i - 1 ELSE r + i - 1 - N
  BY <1>1, OneTurn
<1> QED BY <1>2, RingAssumption DEF Place, N

LEMMA ItemIndex ==
  ASSUME read \in 0 .. Capacity, write \in 0 .. Capacity
  PROVE  Items = [i \in 1 .. Size |-> slots[Place(read, i)]]
<1>1. Size \in 0 .. Capacity
  BY SizeIndex DEF Size
<1>2. \A i \in 1 .. Size : (read + i - 1) % N = Place(read, i)
  BY <1>1, PlaceIndex, RingAssumption
<1> QED BY <1>2 DEF Items

LEMMA ItemIndexAfter ==
  ASSUME read' \in 0 .. Capacity, write' \in 0 .. Capacity
  PROVE  Items' = [i \in 1 .. Size' |-> slots'[Place(read', i)]]
<1>1. Size' \in 0 .. Capacity
  BY SizeIndex DEF Size
<1>2. \A i \in 1 .. Size' : (read' + i - 1) % N = Place(read', i)
  BY <1>1, PlaceIndex, RingAssumption
<1> QED BY <1>2 DEF Items

LEMMA FunctionSeq ==
  ASSUME NEW S, NEW n \in Nat, NEW f \in [1 .. n -> S]
  PROVE  f \in Seq(S) /\ Len(f) = n
<1>1. f \in Seq(S)
  BY SeqDef
<1> QED BY <1>1, LenProperties

Held == Values \cup {Empty}

\* The indices say full and empty exactly when the queue is.
LEMMA FullAndEmpty ==
  ASSUME TypeOK
  PROVE  /\ Size \in 0 .. Capacity
         /\ full <=> Size = Capacity
         /\ empty <=> Size = 0
         /\ Items \in Seq(Held) /\ Len(Items) = Size
         /\ empty <=> Items = <<>>
<1>1. /\ read \in 0 .. Capacity /\ write \in 0 .. Capacity
      /\ slots \in [0 .. Capacity -> Held]
  BY DEF TypeOK, Held
<1>2. Size \in 0 .. Capacity /\ Size = IF read <= write THEN write - read ELSE write - read + N
  BY <1>1, SizeIndex DEF Size
<1>3. next(write) = IF write = Capacity THEN 0 ELSE write + 1
  BY <1>1, NextIndex
<1>4. /\ full <=> Size = Capacity
      /\ empty <=> Size = 0
  BY <1>1, <1>2, <1>3, RingAssumption DEF full, empty, N
<1>5. Size \in Nat /\ 1 .. Size \subseteq 1 .. Capacity
  BY <1>2, RingAssumption
<1>6. \A i \in 1 .. Size : Place(read, i) \in 0 .. Capacity
  BY <1>1, <1>5, PlaceIndex
<1>7. Items \in [1 .. Size -> Held]
  BY <1>1, <1>6, ItemIndex
<1>8. Items \in Seq(Held) /\ Len(Items) = Size
  BY <1>5, <1>7, FunctionSeq
<1> QED BY <1>2, <1>4, <1>8, EmptySeq

\* push puts its value behind the others.
LEMMA StoreAppends ==
  ASSUME TypeOK, ~full, NEW v \in Held,
         slots' = [slots EXCEPT ![write] = v], write' = next(write), read' = read
  PROVE  /\ Size' = Size + 1
         /\ Items' = Append(Items, v)
<1>1. /\ read \in 0 .. Capacity /\ write \in 0 .. Capacity
      /\ read' \in 0 .. Capacity /\ write' \in 0 .. Capacity
  BY NextIndex DEF TypeOK
<1>2. /\ Size = IF read <= write THEN write - read ELSE write - read + N
      /\ Size' = IF read' <= write' THEN write' - read' ELSE write' - read' + N
      /\ Size \in 0 .. Capacity
  BY <1>1, SizeIndex DEF Size
<1>3. write' = IF write = Capacity THEN 0 ELSE write + 1
  BY <1>1, NextIndex
<1>4. Size' = Size + 1
  BY <1>1, <1>2, <1>3, RingAssumption DEF full, N
<1>5. \A i \in 1 .. Size : slots'[Place(read, i)] = slots[Place(read, i)]
  BY <1>1, <1>2, RingAssumption DEF Place, N, TypeOK
<1>6. slots'[Place(read, Size + 1)] = v
  BY <1>1, <1>2, <1>4, RingAssumption DEF Place, N, TypeOK
<1>7. /\ Items = [i \in 1 .. Size |-> slots[Place(read, i)]]
      /\ Items' = [i \in 1 .. Size + 1 |-> slots'[Place(read, i)]]
  BY <1>1, <1>4, ItemIndex, ItemIndexAfter
<1>8. Items \in Seq(Held) /\ Len(Items) = Size
  BY FullAndEmpty
<1>9. /\ Append(Items, v) \in Seq(Held) /\ Len(Append(Items, v)) = Size + 1
      /\ \A i \in 1 .. Size : Append(Items, v)[i] = Items[i]
      /\ Append(Items, v)[Size + 1] = v
  BY <1>8, AppendProperties
<1>10. \A i \in 1 .. Size + 1 : Append(Items, v)[i] = Items'[i]
  BY <1>2, <1>5, <1>6, <1>7, <1>9
<1>11. Append(Items, v) = [i \in 1 .. Size + 1 |-> Append(Items, v)[i]]
  BY <1>9, LenProperties
<1> QED BY <1>4, <1>7, <1>10, <1>11

\* pop takes the oldest.
LEMMA LoadTakes ==
  ASSUME TypeOK, ~empty, NEW v \in Held,
         slots' = [slots EXCEPT ![read] = v], read' = next(read), write' = write
  PROVE  /\ Size' = Size - 1
         /\ Items' = Tail(Items)
         /\ Head(Items) = slots[read]
<1>1. /\ read \in 0 .. Capacity /\ write \in 0 .. Capacity
      /\ read' \in 0 .. Capacity /\ write' \in 0 .. Capacity
  BY NextIndex DEF TypeOK
<1>2. /\ Size = IF read <= write THEN write - read ELSE write - read + N
      /\ Size' = IF read' <= write' THEN write' - read' ELSE write' - read' + N
      /\ Size \in 0 .. Capacity
  BY <1>1, SizeIndex DEF Size
<1>3. read' = IF read = Capacity THEN 0 ELSE read + 1
  BY <1>1, NextIndex
<1>4. Size' = Size - 1 /\ Size > 0
  BY <1>1, <1>2, <1>3, RingAssumption DEF empty, N
<1>5. \A i \in 1 .. Size - 1 : slots'[Place(read', i)] = slots[Place(read, i + 1)]
  BY <1>1, <1>2, <1>3, RingAssumption DEF Place, N, TypeOK
<1>6. Place(read, 1) = read
  BY <1>1 DEF Place
<1>7. /\ Items = [i \in 1 .. Size |-> slots[Place(read, i)]]
      /\ Items' = [i \in 1 .. Size - 1 |-> slots'[Place(read', i)]]
  BY <1>1, <1>4, ItemIndex, ItemIndexAfter
<1>8. Items \in Seq(Held) /\ Len(Items) = Size /\ Items # <<>>
  BY FullAndEmpty
<1>9. /\ Tail(Items) \in Seq(Held) /\ Len(Tail(Items)) = Size - 1
      /\ \A i \in 1 .. Size - 1 : Tail(Items)[i] = Items[i + 1]
  BY <1>8, HeadTailProperties
<1>10. \A i \in 1 .. Size - 1 : Tail(Items)[i] = Items'[i]
  BY <1>2, <1>5, <1>7, <1>9
<1>11. Tail(Items) = [i \in 1 .. Size - 1 |-> Tail(Items)[i]]
  BY <1>9, LenProperties
<1>12. Head(Items) = Items[1]
  BY <1>8
<1>13. Head(Items) = slots[read]
  BY <1>2, <1>4, <1>6, <1>7, <1>12
<1> QED BY <1>4, <1>7, <1>10, <1>11, <1>13
-----------------------------------------------------------------------------
(* The inductive invariant. *)

PushQuestions == {Queue!Asked(op, v) : op \in {"push", "tryPush"}, v \in Values}

LEMMA QuestionsAndAnswers ==
  /\ Queue!Questions = PushQuestions \cup {Queue!Asked("pop", Empty)}
  /\ \A q \in PushQuestions : q.op \in {"push", "tryPush"} /\ q.value \in Values
  /\ Queue!Asked("pop", Empty).op = "pop"
  /\ Queue!Answers \cap Queue!Questions = {} /\ Queue!None \notin Queue!Questions
  /\ \A v \in Values : Queue!Asked("popped", v) \in Queue!Answers
  /\ Queue!Accepted \in Queue!Answers /\ Queue!Refused \in Queue!Answers
  /\ Queue!Drained \in Queue!Answers
<1>1. \A op, v : Queue!Asked(op, v).op = op /\ Queue!Asked(op, v).value = v
  BY DEF Queue!Asked
<1>2. Queue!Questions = PushQuestions \cup {Queue!Asked("pop", Empty)}
  BY DEF PushQuestions, Empty, Queue!Questions
<1>3. \A q \in PushQuestions : q.op \in {"push", "tryPush"} /\ q.value \in Values
  BY <1>1 DEF PushQuestions
<1>4. /\ \A q \in Queue!Questions : q.op \in {"push", "tryPush", "pop"}
      /\ \A a \in Queue!Answers : a.op \in {"accepted", "refused", "drained", "popped"}
      /\ Queue!None.op = "none" /\ Queue!Asked("pop", Empty).op = "pop"
  BY <1>1, <1>2, <1>3 DEF Queue!Answers, Queue!None, Queue!Accepted, Queue!Refused,
                          Queue!Drained
<1>5. /\ \A v \in Values : Queue!Asked("popped", v) \in Queue!Answers
      /\ Queue!Accepted \in Queue!Answers /\ Queue!Refused \in Queue!Answers
      /\ Queue!Drained \in Queue!Answers
  BY DEF Queue!Answers
<1> QED BY <1>2, <1>3, <1>4, <1>5

\* The requests of one thread change, and its place with them.
LEMMA RequestsKept ==
  ASSUME IInv, NEW t \in Threads, NEW place \in Places \ {"call"},
         NEW answer \in Queue!Answers, Goes(t, place), Answers(t, answer)
  PROVE  /\ RequestsInv'
         /\ at' \in [Threads -> Places]
         /\ request' \in [Threads -> {Queue!None} \cup Queue!Questions \cup Queue!Answers]
  BY QuestionsAndAnswers
     DEF IInv, TypeOK, RequestsInv, Goes, Answers, Queue!Pending, Threads

LEMMA InitInv == Init => IInv
<1> SUFFICES ASSUME Init PROVE IInv
  OBVIOUS
<1>1. TypeOK
  <2>1. 0 \in 0 .. Capacity /\ "out" \in Places
    BY RingAssumption DEF Places
  <2> QED BY <2>1 DEF Init, TypeOK
<1>2. RequestsInv
  BY QuestionsAndAnswers DEF Init, RequestsInv, Queue!Pending, Threads
<1>3. Size = 0
  BY <1>1, FullAndEmpty DEF Init, empty
<1> QED BY <1>1, <1>2, <1>3 DEF IInv, ItemsInv

\* What a thread asks suits its side.
Suits(t, q) ==
  \/ t \in Producers /\ q \in PushQuestions
  \/ t \in Consumers /\ q = Queue!Asked("pop", Empty)

LEMMA BeginInv ==
  ASSUME IInv, NEW t \in Threads, NEW q, Suits(t, q), Begin(t, q)
  PROVE  IInv'
<1>1. TypeOK'
  BY QuestionsAndAnswers
     DEF IInv, TypeOK, Begin, Goes, Answers, Places, buffer, Suits, Threads
<1>2. RequestsInv'
  BY QuestionsAndAnswers, RingAssumption
     DEF IInv, TypeOK, RequestsInv, Begin, Goes, Answers, PushQuestions, Queue!Pending,
         Suits, Threads
<1>3. ItemsInv'
  BY DEF IInv, Begin, buffer, ItemsInv, Items, Size
<1> QED BY <1>1, <1>2, <1>3 DEF IInv

LEMMA StoreInv == ASSUME IInv, NEW t \in Threads, Store(t) PROVE IInv'
<1>1. request[t] \in PushQuestions /\ request[t].value \in Values
  BY QuestionsAndAnswers
     DEF IInv, RequestsInv, Store, Runs, PushQuestions, Threads
<1>2. /\ RequestsInv' /\ at' \in [Threads -> Places]
      /\ request' \in [Threads -> {Queue!None} \cup Queue!Questions \cup Queue!Answers]
  BY RequestsKept, QuestionsAndAnswers DEF Store, Places
<1>3. t \notin notEmpty \cup notFull
  BY DEF Store, Runs
<1>4. TypeOK'
  BY <1>1, <1>2, <1>3, NextIndex DEF IInv, TypeOK, Store, Goes, Answers
<1>5. ItemsInv'
  <2>1. /\ Size' = Size + 1 /\ Items' = Append(Items, request[t].value)
    BY <1>1, StoreAppends DEF IInv, Store, Held
  <2>2. Items \in Seq(Held) /\ Len(Items) = Size
    BY FullAndEmpty DEF IInv
  <2> QED BY <1>1, <2>1, <2>2, AppendProperties DEF IInv, ItemsInv, Held
<1> QED BY <1>2, <1>4, <1>5 DEF IInv

LEMMA LoadInv == ASSUME IInv, NEW t \in Threads, Load(t) PROVE IInv'
<1>1. TypeOK /\ ~empty /\ Empty \in Held
  BY DEF IInv, Load, Held
<1>2. /\ Size' = Size - 1 /\ Items' = Tail(Items) /\ Head(Items) = slots[read]
  BY <1>1, LoadTakes DEF Load
<1>3. Items \in Seq(Held) /\ Len(Items) = Size /\ Items # <<>> /\ Size \in Nat \ {0}
  BY <1>1, FullAndEmpty, RingAssumption
<1>4. slots[read] \in Values
  BY <1>2, <1>3 DEF IInv, ItemsInv
<1>5. /\ RequestsInv' /\ at' \in [Threads -> Places]
      /\ request' \in [Threads -> {Queue!None} \cup Queue!Questions \cup Queue!Answers]
  BY <1>4, RequestsKept, QuestionsAndAnswers DEF Load, Places
<1>6. t \notin notEmpty \cup notFull
  BY DEF Load, Runs
<1>7. TypeOK'
  BY <1>5, <1>6, NextIndex DEF IInv, TypeOK, Load, Goes, Answers
<1>8. ItemsInv'
  BY <1>2, <1>3, HeadTailProperties DEF IInv, ItemsInv
<1> QED BY <1>5, <1>7, <1>8 DEF IInv

\* A call that answers and touches nothing else.
LEMMA AnswerInv ==
  ASSUME IInv, NEW t \in Threads, Refuses(t) \/ Drains(t)
  PROVE  IInv'
<1>1. /\ RequestsInv' /\ at' \in [Threads -> Places]
      /\ request' \in [Threads -> {Queue!None} \cup Queue!Questions \cup Queue!Answers]
  BY RequestsKept, QuestionsAndAnswers DEF Refuses, Drains, Places
<1>2. t \notin notEmpty \cup notFull
  BY DEF Refuses, Drains, Runs
<1>3. /\ UNCHANGED <<slots, read, write, closed, notEmpty, notFull>>
      /\ \A u \in Threads \ {t} : at'[u] = at[u] /\ request'[u] = request[u]
  BY DEF Refuses, Drains, buffer, Goes, Answers, IInv, TypeOK
<1>4. TypeOK'
  BY <1>1, <1>2, <1>3 DEF IInv, TypeOK, Threads
<1>5. ItemsInv'
  BY <1>3 DEF IInv, ItemsInv, Items, Size
<1> QED BY <1>1, <1>4, <1>5 DEF IInv

\* Falling asleep and waking.
LEMMA SleepInv ==
  ASSUME IInv, NEW t \in Threads, WaitNotFull(t) \/ WaitNotEmpty(t) \/ Spurious(t)
  PROVE  IInv'
<1>1. /\ Runs(t, {"push"}) => t \in Producers /\ at[t] = "call" /\ request[t].op = "push"
      /\ Runs(t, {"pop"}) => t \in Consumers /\ at[t] = "call"
  BY QuestionsAndAnswers, RingAssumption
     DEF IInv, RequestsInv, PushQuestions, Runs, Threads
<1>2. TypeOK'
  BY <1>1 DEF IInv, TypeOK, WaitNotFull, WaitNotEmpty, Spurious, buffer
<1>3. UNCHANGED <<buffer, at, request>>
  BY DEF WaitNotFull, WaitNotEmpty, Spurious
<1>4. RequestsInv'
  BY <1>3 DEF IInv, RequestsInv, Queue!Pending
<1>5. ItemsInv'
  BY <1>3 DEF IInv, buffer, ItemsInv, Items, Size
<1> QED BY <1>2, <1>4, <1>5 DEF IInv

\* What is behind the unlock, and close.
Behinds(t) ==
  NotifyEmpty(t) \/ NotifyFull(t) \/ close(t) \/ CloseEmpty(t) \/ CloseFull(t)

LEMMA BehindInv ==
  ASSUME IInv, NEW t \in Threads, Behinds(t)
  PROVE  IInv'
<1> USE DEF Behinds, NotifyEmpty, NotifyFull, close, CloseEmpty, CloseFull
<1>1. /\ at[t] # "call" /\ UNCHANGED <<buffer, request>>
      /\ \E place \in Places \ {"call"} : Goes(t, place)
      /\ notEmpty' \subseteq notEmpty /\ notFull' \subseteq notFull
      /\ closed' \in BOOLEAN
  BY DEF OneWoken, AllWoken, Places, IInv, TypeOK
<1>2. TypeOK'
  BY <1>1 DEF IInv, TypeOK, Goes, buffer
<1>3. RequestsInv'
  BY <1>1 DEF IInv, TypeOK, RequestsInv, Goes, Queue!Pending, Threads
<1>4. ItemsInv'
  BY <1>1 DEF IInv, buffer, ItemsInv, Items, Size
<1> QED BY <1>2, <1>3, <1>4 DEF IInv

\* The steps by kind.
LEMMA Steps ==
  ASSUME Next
  PROVE  \E t \in Threads :
           \/ \E q : Suits(t, q) /\ Begin(t, q)
           \/ Store(t) \/ Load(t)
           \/ Refuses(t) \/ Drains(t)
           \/ WaitNotFull(t) \/ WaitNotEmpty(t) \/ Spurious(t)
           \/ Behinds(t)
  BY DEF Next, Step, Suits, PushQuestions, Behinds, Threads

LEMMA NextInv == ASSUME IInv, [Next]_vars PROVE IInv'
<1>1. CASE UNCHANGED vars
  BY <1>1 DEF vars, buffer, IInv, TypeOK, RequestsInv, ItemsInv, Items, Size, Queue!Pending
<1>2. CASE Next
  <2>1. PICK t \in Threads :
           \/ \E q : Suits(t, q) /\ Begin(t, q)
           \/ Store(t) \/ Load(t)
           \/ Refuses(t) \/ Drains(t)
           \/ WaitNotFull(t) \/ WaitNotEmpty(t) \/ Spurious(t)
           \/ Behinds(t)
    BY <1>2, Steps
  <2> QED BY <2>1, BeginInv, StoreInv, LoadInv, AnswerInv, SleepInv, BehindInv
<1> QED BY <1>1, <1>2

\* The inductive invariant holds: types, questions and answers, and that what
\* lies between read_ and write_ is what was pushed and not yet moved out.
THEOREM RingInvariance == Spec => []IInv
<1>1. Init => IInv
  BY InitInv
<1>2. IInv /\ [Next]_vars => IInv'
  BY NextInv
<1> QED BY <1>1, <1>2, PTL DEF Spec

\* The variables of the ring keep their types, and only a thread in a call
\* that waits is asleep.
THEOREM RingTypeCorrect == Spec => []TypeOK
<1>1. IInv => TypeOK
  BY DEF IInv
<1> QED BY <1>1, RingInvariance, PTL
-----------------------------------------------------------------------------
(* The ring implements the bounded queue. *)

\* Nothing the queue sees changes.
LEMMA Stutters ==
  ASSUME UNCHANGED <<buffer, closed, request>>
  PROVE  UNCHANGED Queue!abstract
  BY DEF buffer, Queue!abstract, Items, Size

LEMMA BeginAsks ==
  ASSUME IInv, NEW t \in Threads, NEW q, Suits(t, q), Begin(t, q)
  PROVE  Queue!Ask(t, q) /\ q \in Queue!Questions
<1>1. q \in Queue!Questions
  BY QuestionsAndAnswers DEF Suits
<1>2. ~Queue!Pending(t)
  BY DEF IInv, RequestsInv, Begin
<1>3. UNCHANGED <<Items, closed>>
  BY DEF Begin, buffer, Items, Size
<1> QED BY <1>1, <1>2, <1>3 DEF Begin, Answers, Queue!Ask

LEMMA StorePuts ==
  ASSUME IInv, NEW t \in Threads, Store(t)
  PROVE  Queue!Put(t)
<1>1. request[t] \in PushQuestions
  BY QuestionsAndAnswers DEF IInv, RequestsInv, Store, Runs, PushQuestions, Threads
<1>2. request[t].value \in Held /\ request[t].op \in {"push", "tryPush"}
  BY <1>1, QuestionsAndAnswers DEF Held
<1>3. Items' = Append(Items, request[t].value)
  BY <1>2, StoreAppends DEF IInv, Store
<1>4. Queue!Room
  BY FullAndEmpty, RingAssumption DEF IInv, Store, Queue!Room
<1> QED BY <1>2, <1>3, <1>4 DEF Store, Answers, Queue!Put

LEMMA LoadGives ==
  ASSUME IInv, NEW t \in Threads, Load(t)
  PROVE  Queue!Take(t)
<1>1. Items # <<>>
  BY FullAndEmpty DEF IInv, Load
<1>2. Empty \in Held
  BY DEF Held
<1>3. Items' = Tail(Items) /\ Head(Items) = slots[read]
  BY <1>2, LoadTakes DEF IInv, Load
<1> QED BY <1>1, <1>3 DEF Load, Runs, Answers, Queue!Take

LEMMA AnswerRefusesOrEnds ==
  ASSUME IInv, NEW t \in Threads, Refuses(t) \/ Drains(t)
  PROVE  Queue!Refuse(t) \/ Queue!End(t)
<1>1. UNCHANGED <<Items, closed>>
  BY DEF Refuses, Drains, buffer, Items, Size
<1>2. full => ~Queue!Room
  BY FullAndEmpty, RingAssumption DEF IInv, Queue!Room
<1>3. empty => Items = <<>>
  BY FullAndEmpty DEF IInv
<1>4. CASE Refuses(t)
  BY <1>1, <1>2, <1>4 DEF Refuses, Runs, MustRefuse, Answers, Queue!Refuse
<1>5. CASE Drains(t)
  BY <1>1, <1>3, <1>5 DEF Drains, Runs, Answers, Queue!End
<1> QED BY <1>4, <1>5

LEMMA BehindClosesOrStutters ==
  ASSUME NEW t \in Threads, Behinds(t)
  PROVE  Queue!Close \/ UNCHANGED Queue!abstract
<1>1. CASE close(t)
  <2>1. UNCHANGED Items
    BY <1>1 DEF close, buffer, Items, Size
  <2> QED BY <1>1, <2>1 DEF close, Queue!Close
<1>2. CASE ~close(t)
  BY <1>2, Stutters DEF Behinds, NotifyEmpty, NotifyFull, CloseEmpty, CloseFull
<1> QED BY <1>1, <1>2

LEMMA NextMaps ==
  ASSUME IInv, [Next]_vars
  PROVE  [Queue!Next]_(Queue!abstract)
<1>1. CASE UNCHANGED vars
  BY <1>1, Stutters DEF vars
<1>2. CASE Next
  <2>1. PICK t \in Threads :
           \/ \E q : Suits(t, q) /\ Begin(t, q)
           \/ Store(t) \/ Load(t)
           \/ Refuses(t) \/ Drains(t)
           \/ WaitNotFull(t) \/ WaitNotEmpty(t) \/ Spurious(t)
           \/ Behinds(t)
    BY <1>2, Steps
  <2>2. CASE \E q : Suits(t, q) /\ Begin(t, q)
    BY <2>2, BeginAsks DEF Queue!Next
  <2>3. CASE Store(t) \/ Load(t)
    BY <2>3, StorePuts, LoadGives DEF Queue!Next
  <2>4. CASE Refuses(t) \/ Drains(t)
    BY <2>4, AnswerRefusesOrEnds DEF Queue!Next
  <2>5. CASE WaitNotFull(t) \/ WaitNotEmpty(t) \/ Spurious(t)
    BY <2>5, Stutters DEF WaitNotFull, WaitNotEmpty, Spurious
  <2>6. CASE Behinds(t)
    BY <2>6, BehindClosesOrStutters DEF Queue!Next
  <2> QED BY <2>1, <2>2, <2>3, <2>4, <2>5, <2>6
<1> QED BY <1>1, <1>2

LEMMA InitMaps == Init => Queue!Init
<1> SUFFICES ASSUME Init PROVE Queue!Init
  OBVIOUS
<1>1. Items = <<>>
  BY InitInv, FullAndEmpty DEF IInv, Init, empty
<1> QED BY <1>1 DEF Init, Queue!Init

\* Ring<T> is a bounded first-in first-out queue of exactly the capacity asked
\* for, with any number of threads on either side and wherever its indices wrap.
THEOREM RingIsBoundedQueue == Spec => Implements
<1>1. Init => Queue!Init
  BY InitMaps
<1>2. IInv /\ [Next]_vars => [Queue!Next]_(Queue!abstract)
  BY NextMaps
<1> QED BY <1>1, <1>2, RingInvariance, PTL DEF Spec, Implements, Queue!Spec
-----------------------------------------------------------------------------
(* No wakeup is lost.  The counts move by one, and always together.         *)

LEMMA Finite ==
  ASSUME NEW S \in SUBSET Threads
  PROVE  IsFiniteSet(S) /\ Cardinality(S) \in Nat
  BY FS_Subset, FS_CardinalityType, RingAssumption DEF Threads

LEMMA Grows ==
  ASSUME NEW S \in SUBSET Threads, NEW T \in SUBSET Threads, S \subseteq T
  PROVE  Cardinality(S) <= Cardinality(T)
  BY Finite, FS_Subset

LEMMA OneMore ==
  ASSUME NEW S \in SUBSET Threads, NEW t \in Threads \ S
  PROVE  Cardinality(S \cup {t}) = Cardinality(S) + 1
  BY Finite, FS_AddElement

LEMMA OneLess ==
  ASSUME NEW S \in SUBSET Threads, NEW t \in S
  PROVE  Cardinality(S \ {t}) = Cardinality(S) - 1
  BY Finite, FS_RemoveElement

LEMMA Counted ==
  /\ \A place : Behind(place) \in SUBSET Threads
  /\ Popping \in SUBSET Threads /\ Pushing \in SUBSET Threads
  BY DEF Behind, Popping, Pushing, Threads

LEMMA CountedAfter ==
  /\ \A place : Behind(place)' \in SUBSET Threads
  /\ Popping' \in SUBSET Threads /\ Pushing' \in SUBSET Threads
  BY DEF Behind, Popping, Pushing, Threads

\* The two halves of WakeupsOwed.
ItemsOwed ==
  notEmpty # {} =>
    IF closed THEN Behind("closeEmpty") # {}
    ELSE Size <= Cardinality(Behind("notifyEmpty")) + Cardinality(Popping)

RoomOwed ==
  notFull # {} =>
    IF closed THEN Behind("closeEmpty") \cup Behind("closeFull") # {}
    ELSE Capacity - Size <= Cardinality(Behind("notifyFull")) + Cardinality(Pushing)

\* Nobody on the way is lost, and no more is owed.
LEMMA ItemsStillOwed ==
  ASSUME IInv, ItemsOwed, Size' = Size, closed' = closed,
         notEmpty' \subseteq notEmpty, Popping \subseteq Popping',
         \A place \in {"closeEmpty", "notifyEmpty"} : Behind(place) \subseteq Behind(place)'
  PROVE  ItemsOwed'
<1>1. Size \in Nat
  BY FullAndEmpty, RingAssumption DEF IInv
<1>2. ASSUME NEW S \in SUBSET Threads, NEW T \in SUBSET Threads, S \subseteq T
      PROVE  Cardinality(S) \in Nat /\ Cardinality(T) \in Nat /\ Cardinality(S) <= Cardinality(T)
  BY <1>2, Finite, Grows
<1> QED BY <1>1, <1>2, Counted, CountedAfter DEF ItemsOwed

LEMMA RoomStillOwed ==
  ASSUME IInv, RoomOwed, Size' = Size, closed' = closed,
         notFull' \subseteq notFull, Pushing \subseteq Pushing',
         \A place \in {"notifyFull"} : Behind(place) \subseteq Behind(place)',
         closed => Behind("closeEmpty") \cup Behind("closeFull")
                     \subseteq Behind("closeEmpty")' \cup Behind("closeFull")'
  PROVE  RoomOwed'
<1>1. Size \in Nat
  BY FullAndEmpty, RingAssumption DEF IInv
<1>2. ASSUME NEW S \in SUBSET Threads, NEW T \in SUBSET Threads, S \subseteq T
      PROVE  Cardinality(S) \in Nat /\ Cardinality(T) \in Nat /\ Cardinality(S) <= Cardinality(T)
  BY <1>2, Finite, Grows
<1> QED BY <1>1, <1>2, Counted, CountedAfter, RingAssumption DEF RoomOwed

Owed == ItemsOwed /\ RoomOwed

LEMMA BeginOwes ==
  ASSUME IInv, Owed, NEW t \in Threads, NEW q, Suits(t, q), Begin(t, q)
  PROVE  Owed'
<1>1. \A place \in Places \ {"out", "call"} : Behind(place)' = Behind(place)
  BY DEF Begin, Goes, Behind, IInv, TypeOK
<1>2. Popping \subseteq Popping' /\ Pushing \subseteq Pushing'
  BY DEF Begin, Goes, Answers, Popping, Pushing, IInv, TypeOK, Threads
<1>3. UNCHANGED <<Size, closed, notEmpty, notFull>>
  BY DEF Begin, buffer, Size
<1> QED BY <1>1, <1>2, <1>3, ItemsStillOwed, RoomStillOwed DEF Owed, Places

LEMMA StoreOwes ==
  ASSUME IInv, Owed, NEW t \in Threads, Store(t)
  PROVE  Owed'
<1>1. request[t] \in PushQuestions /\ t \in Producers \ Consumers
  BY QuestionsAndAnswers, RingAssumption
     DEF IInv, RequestsInv, Store, Runs, PushQuestions, Threads
<1>2. Size' = Size + 1 /\ Size \in Nat /\ ~closed /\ UNCHANGED <<closed, notEmpty, notFull>>
  <2>1. TypeOK /\ request[t].value \in Held
    BY <1>1, QuestionsAndAnswers DEF IInv, Held
  <2>2. Size' = Size + 1
    BY <2>1, StoreAppends DEF Store
  <2>3. Size \in Nat
    BY <2>1, FullAndEmpty, RingAssumption
  <2> QED BY <2>2, <2>3 DEF Store
<1>3. /\ Behind("notifyEmpty")' = Behind("notifyEmpty") \cup {t}
      /\ Behind("notifyFull")' = Behind("notifyFull")
      /\ t \notin Behind("notifyEmpty")
  BY DEF Store, Runs, Goes, Behind, IInv, TypeOK
<1>4. Popping' = Popping /\ (Pushing' = Pushing \/ (t \in Pushing /\ Pushing' = Pushing \ {t}))
  BY <1>1, <1>2 DEF Store, Runs, Goes, Answers, Popping, Pushing, IInv, TypeOK, Threads,
                    Queue!Accepted, Queue!Asked
<1>5. ItemsOwed'
  <2>1. Cardinality(Behind("notifyEmpty")') = Cardinality(Behind("notifyEmpty")) + 1
    BY <1>3, Counted, OneMore
  <2> QED BY <2>1, <1>2, <1>4, Counted, Finite DEF Owed, ItemsOwed
<1>6. RoomOwed'
  <2>1. Cardinality(Pushing') \in {Cardinality(Pushing), Cardinality(Pushing) - 1}
    BY <1>4, Counted, OneLess
  <2>2. Cardinality(Pushing) \in Nat /\ Cardinality(Behind("notifyFull")) \in Nat
    BY Counted, Finite
  <2> QED BY <2>1, <2>2, <1>2, <1>3, RingAssumption DEF Owed, RoomOwed
<1> QED BY <1>5, <1>6 DEF Owed

LEMMA LoadOwes ==
  ASSUME IInv, Owed, NEW t \in Threads, Load(t)
  PROVE  Owed'
<1>1. t \in Consumers \ Producers
  BY QuestionsAndAnswers, RingAssumption
     DEF IInv, RequestsInv, Load, Runs, PushQuestions, Threads
<1>2. Size' = Size - 1 /\ Size \in Nat /\ UNCHANGED <<closed, notEmpty, notFull>>
  <2>1. TypeOK /\ Empty \in Held
    BY DEF IInv, Held
  <2>2. Size' = Size - 1
    BY <2>1, LoadTakes DEF Load
  <2>3. Size \in Nat
    BY <2>1, FullAndEmpty, RingAssumption
  <2> QED BY <2>2, <2>3 DEF Load
<1>3. /\ Behind("notifyFull")' = Behind("notifyFull") \cup {t}
      /\ \A place \in {"notifyEmpty", "closeEmpty", "closeFull"} : Behind(place)' = Behind(place)
      /\ t \notin Behind("notifyFull")
  BY DEF Load, Runs, Goes, Behind, IInv, TypeOK
<1>4. Pushing' = Pushing /\ t \in Popping /\ Popping' = Popping \ {t}
  BY <1>1, <1>2 DEF Load, Runs, Goes, Answers, Popping, Pushing, IInv, TypeOK, Threads
<1>5. ItemsOwed'
  <2>1. Cardinality(Popping') = Cardinality(Popping) - 1
    BY <1>4, Counted, OneLess
  <2> QED BY <2>1, <1>2, <1>3, Counted, Finite DEF Owed, ItemsOwed
<1>6. RoomOwed'
  <2>1. Cardinality(Behind("notifyFull")') = Cardinality(Behind("notifyFull")) + 1
    BY <1>3, Counted, OneMore
  <2>2. Cardinality(Pushing) \in Nat /\ Cardinality(Behind("notifyFull")) \in Nat
    BY Counted, Finite
  <2> QED BY <2>1, <2>2, <1>2, <1>3, <1>4, RingAssumption DEF Owed, RoomOwed
<1> QED BY <1>5, <1>6 DEF Owed

LEMMA AnswerOwes ==
  ASSUME IInv, Owed, NEW t \in Threads, Refuses(t) \/ Drains(t)
  PROVE  Owed'
<1>1. UNCHANGED <<Size, closed, notEmpty, notFull>>
  BY DEF Refuses, Drains, buffer, Size
<1>2. \A place \in Places \ {"out", "call"} : Behind(place)' = Behind(place)
  BY DEF Refuses, Drains, Runs, Goes, Behind, IInv, TypeOK
<1>3. CASE closed
  BY <1>1, <1>2, <1>3 DEF Owed, ItemsOwed, RoomOwed, Places
<1>4. CASE ~closed
  <2>1. request[t].op = "tryPush" /\ Refuses(t)
    BY <1>4 DEF Refuses, Drains, MustRefuse
  <2>2. t \notin Consumers
    BY <2>1, QuestionsAndAnswers DEF Refuses, Runs, IInv, RequestsInv
  <2>3. Popping' = Popping /\ Pushing \subseteq Pushing'
    BY <1>1, <2>1, <2>2 DEF Refuses, Goes, Answers, Popping, Pushing, IInv, TypeOK, Threads
  <2> QED BY <1>1, <1>2, <2>3, ItemsStillOwed, RoomStillOwed DEF Owed, Places
<1> QED BY <1>3, <1>4

LEMMA SleepOwes ==
  ASSUME IInv, Owed, NEW t \in Threads, WaitNotFull(t) \/ WaitNotEmpty(t)
  PROVE  Owed'
<1>1. UNCHANGED <<Size, closed, at, request>> /\ ~closed
  BY DEF WaitNotFull, WaitNotEmpty, buffer, Size
<1>2. \A place : Behind(place)' = Behind(place)
  BY <1>1 DEF Behind
<1>3. CASE WaitNotFull(t)
  <2>1. Capacity - Size = 0 /\ Size \in Nat
    BY <1>3, FullAndEmpty, RingAssumption DEF IInv, WaitNotFull
  <2>2. RoomOwed'
    BY <1>1, <2>1, CountedAfter, Finite DEF RoomOwed
  <2>3. Popping' = Popping /\ notEmpty' = notEmpty
    BY <1>1, <1>3 DEF WaitNotFull, Popping
  <2> QED BY <1>1, <1>2, <2>2, <2>3, ItemsStillOwed DEF Owed
<1>4. CASE WaitNotEmpty(t)
  <2>1. Size = 0
    BY <1>4, FullAndEmpty DEF IInv, WaitNotEmpty
  <2>2. ItemsOwed'
    BY <1>1, <2>1, CountedAfter, Finite DEF ItemsOwed
  <2>3. Pushing' = Pushing /\ notFull' = notFull
    BY <1>1, <1>4 DEF WaitNotEmpty, Pushing
  <2> QED BY <1>1, <1>2, <2>2, <2>3, RoomStillOwed DEF Owed
<1> QED BY <1>3, <1>4

LEMMA SpuriousOwes ==
  ASSUME IInv, Owed, NEW t \in Threads, Spurious(t)
  PROVE  Owed'
<1>1. UNCHANGED <<Size, closed>> /\ \A place : Behind(place)' = Behind(place)
  BY DEF Spurious, buffer, Size, Behind
<1>2. notEmpty' \subseteq notEmpty /\ notFull' \subseteq notFull
  BY DEF Spurious
<1>3. Popping \subseteq Popping' /\ Pushing \subseteq Pushing'
  BY DEF Spurious, Popping, Pushing
<1> QED BY <1>1, <1>2, <1>3, ItemsStillOwed, RoomStillOwed DEF Owed

\* The push behind its unlock passes what it owed on to the thread it wakes.
LEMMA NotifyEmptyOwes ==
  ASSUME IInv, Owed, NEW t \in Threads, NotifyEmpty(t)
  PROVE  Owed'
<1>1. UNCHANGED <<Size, closed, notFull, Pushing>>
  BY DEF NotifyEmpty, buffer, Size, Pushing, Goes, IInv, TypeOK
<1>2. /\ \A place \in {"notifyFull", "closeEmpty", "closeFull"} : Behind(place)' = Behind(place)
      /\ Behind("notifyEmpty")' = Behind("notifyEmpty") \ {t} /\ t \in Behind("notifyEmpty")
  BY DEF NotifyEmpty, Goes, Behind, IInv, TypeOK
<1>3. RoomOwed'
  BY <1>1, <1>2, RoomStillOwed DEF Owed
<1>4. CASE notEmpty = {} \/ closed
  BY <1>1, <1>2, <1>3, <1>4 DEF NotifyEmpty, OneWoken, Owed, ItemsOwed
<1>5. CASE notEmpty # {} /\ ~closed
  <2>1. PICK s \in notEmpty : notEmpty' = notEmpty \ {s}
    BY <1>5 DEF NotifyEmpty, OneWoken
  <2>2. s \in Threads \ Popping /\ Popping' = Popping \cup {s}
    BY <2>1 DEF NotifyEmpty, Goes, Popping, IInv, TypeOK, Threads
  <2>3. /\ Cardinality(Popping') = Cardinality(Popping) + 1
        /\ Cardinality(Behind("notifyEmpty")') = Cardinality(Behind("notifyEmpty")) - 1
    BY <1>2, <2>2, Counted, OneMore, OneLess
  <2>4. Cardinality(Popping) \in Nat /\ Cardinality(Behind("notifyEmpty")) \in Nat
    BY Counted, Finite
  <2>5. ItemsOwed'
    BY <1>1, <1>5, <2>3, <2>4 DEF Owed, ItemsOwed
  <2> QED BY <1>3, <2>5 DEF Owed
<1> QED BY <1>3, <1>4, <1>5 DEF Owed

\* The same for a pop.
LEMMA NotifyFullOwes ==
  ASSUME IInv, Owed, NEW t \in Threads, NotifyFull(t)
  PROVE  Owed'
<1>1. UNCHANGED <<Size, closed, notEmpty, Popping>>
  BY DEF NotifyFull, buffer, Size, Popping, Goes, IInv, TypeOK
<1>2. /\ \A place \in {"notifyEmpty", "closeEmpty", "closeFull"} : Behind(place)' = Behind(place)
      /\ Behind("notifyFull")' = Behind("notifyFull") \ {t} /\ t \in Behind("notifyFull")
  BY DEF NotifyFull, Goes, Behind, IInv, TypeOK
<1>3. ItemsOwed'
  BY <1>1, <1>2, ItemsStillOwed DEF Owed
<1>4. CASE notFull = {} \/ closed
  BY <1>1, <1>2, <1>3, <1>4 DEF NotifyFull, OneWoken, Owed, RoomOwed
<1>5. CASE notFull # {} /\ ~closed
  <2>1. PICK s \in notFull : notFull' = notFull \ {s}
    BY <1>5 DEF NotifyFull, OneWoken
  <2>2. s \in Threads \ Pushing /\ Pushing' = Pushing \cup {s}
    BY <2>1 DEF NotifyFull, Goes, Pushing, IInv, TypeOK, Threads
  <2>3. /\ Cardinality(Pushing') = Cardinality(Pushing) + 1
        /\ Cardinality(Behind("notifyFull")') = Cardinality(Behind("notifyFull")) - 1
    BY <1>2, <2>2, Counted, OneMore, OneLess
  <2>4. Cardinality(Pushing) \in Nat /\ Cardinality(Behind("notifyFull")) \in Nat
    BY Counted, Finite
  <2>5. RoomOwed'
    BY <1>1, <1>5, <2>3, <2>4 DEF Owed, RoomOwed
  <2> QED BY <1>3, <2>5 DEF Owed
<1> QED BY <1>3, <1>4, <1>5 DEF Owed

\* close owes everybody, and hands over from one condition variable to the other.
LEMMA CloseOwes ==
  ASSUME IInv, Owed, NEW t \in Threads, close(t) \/ CloseEmpty(t) \/ CloseFull(t)
  PROVE  Owed'
<1>1. CASE close(t)
  <2>1. closed' /\ Behind("closeEmpty")' # {}
    BY <1>1 DEF close, Goes, Behind, IInv, TypeOK
  <2> QED BY <2>1 DEF Owed, ItemsOwed, RoomOwed
<1>2. CASE CloseEmpty(t)
  <2>1. notEmpty' = {} /\ t \in Behind("closeFull")' /\ UNCHANGED <<Size, closed, notFull, Pushing>>
    BY <1>2 DEF CloseEmpty, AllWoken, Goes, Behind, IInv, TypeOK, buffer, Size, Pushing
  <2>2. Behind("notifyFull")' = Behind("notifyFull")
    BY <1>2 DEF CloseEmpty, Goes, Behind, IInv, TypeOK
  <2> QED BY <2>1, <2>2 DEF Owed, ItemsOwed, RoomOwed
<1>3. CASE CloseFull(t)
  <2>1. notFull' = {} /\ UNCHANGED <<Size, closed, notEmpty, Popping>>
    BY <1>3 DEF CloseFull, AllWoken, Goes, IInv, TypeOK, buffer, Size, Popping
  <2>2. \A place \in {"closeEmpty", "notifyEmpty"} : Behind(place)' = Behind(place)
    BY <1>3 DEF CloseFull, Goes, Behind, IInv, TypeOK
  <2> QED BY <2>1, <2>2 DEF Owed, ItemsOwed, RoomOwed
<1> QED BY <1>1, <1>2, <1>3

\* No wakeup is lost: whoever sleeps while there is something for it has a
\* notify or an awake thread on the way to it.
THEOREM NoWakeupLost == Spec => []WakeupsOwed
<1>1. Init => Owed
  BY DEF Init, Owed, ItemsOwed, RoomOwed
<1>2. ASSUME IInv, Owed, [Next]_vars PROVE Owed'
  <2>1. CASE UNCHANGED vars
    BY <1>2, <2>1 DEF vars, buffer, Owed, ItemsOwed, RoomOwed, Size, Behind, Popping, Pushing
  <2>2. CASE Next
    <3>1. PICK t \in Threads :
             \/ \E q : Suits(t, q) /\ Begin(t, q)
             \/ Store(t) \/ Load(t)
             \/ Refuses(t) \/ Drains(t)
             \/ WaitNotFull(t) \/ WaitNotEmpty(t) \/ Spurious(t)
             \/ Behinds(t)
      BY <2>2, Steps
    <3>2. CASE Behinds(t)
      BY <1>2, <3>2, NotifyEmptyOwes, NotifyFullOwes, CloseOwes DEF Behinds
    <3> QED BY <1>2, <3>1, <3>2, BeginOwes, StoreOwes, LoadOwes, AnswerOwes, SleepOwes,
               SpuriousOwes
  <2> QED BY <1>2, <2>1, <2>2
<1>3. Owed => WakeupsOwed
  BY DEF Owed, ItemsOwed, RoomOwed, WakeupsOwed
<1> QED BY <1>1, <1>2, <1>3, RingInvariance, PTL DEF Spec
=============================================================================

--------------------------- MODULE TwoQueuesProofs --------------------------
(***************************************************************************)
(* Two queues of a device do what the calls said, in the order they were   *)
(* made, whichever backend makes them: each way of queueing an operation   *)
(* keeps the invariants of TwoQueues.                                      *)
(***************************************************************************)
EXTENDS TwoQueues, TLAPS

(***************************************************************************)
(* What a new operation is.                                                *)
(***************************************************************************)
LEMMA Enqueued ==
  ASSUME NEW q \in Queues, NEW reads \in SUBSET Buffers, NEW writes \in SUBSET Buffers,
         NEW from, Enqueue(q, reads, writes, from)
  PROVE  \E n : /\ ops' = ops \cup {n}
                /\ n.num = Num /\ n.on = q /\ n.after = behind'[q] /\ n.from = from
                /\ n.writes = writes /\ n.reads = reads
                /\ n.sees = [b \in Buffers |-> IF b \in reads THEN latest[b] ELSE 0]
<1> DEFINE sees == [b \in Buffers |-> IF b \in reads THEN latest[b] ELSE 0]
           n == [num |-> Num, on |-> q, after |-> behind'[q], from |-> from,
                 writes |-> writes, reads |-> reads, sees |-> sees]
<1>1. ops' = ops \cup {n}
  BY DEF Enqueue
<1>2. /\ n.num = Num /\ n.on = q /\ n.after = behind'[q] /\ n.from = from
      /\ n.writes = writes /\ n.reads = reads /\ n.sees = sees
  OBVIOUS
<1> QED
  BY <1>1, <1>2

LEMMA EnqueueTypes ==
  ASSUME QueuesTypeOK, NEW q \in Queues,
         NEW reads \in SUBSET Buffers, NEW writes \in SUBSET Buffers,
         NEW from \in Slots,
         Enqueue(q, reads, writes, from), behind' \in [Queues -> Nat]
  PROVE  /\ ops' \subseteq Op /\ mem' \in [Buffers -> Nat]
         /\ issued' \in Nat /\ latest' \in [Buffers -> Nat]
<1>1. issued' = issued + 1 /\ mem' = mem /\ Num \in Nat
  BY DEF Enqueue, Num, QueuesTypeOK
<1>2. latest' \in [Buffers -> Nat]
  BY <1>1 DEF Enqueue, QueuesTypeOK
<1>3. [b \in Buffers |-> IF b \in reads THEN latest[b] ELSE 0] \in [Buffers -> Nat]
  BY DEF QueuesTypeOK
<1>4. behind'[q] \in Nat
  OBVIOUS
<1>5. [num |-> Num, on |-> q, after |-> behind'[q], from |-> from, writes |-> writes,
       reads |-> reads, sees |-> [b \in Buffers |-> IF b \in reads THEN latest[b] ELSE 0]] \in Op
  BY <1>1, <1>3, <1>4 DEF Op
<1> QED
  BY <1>1, <1>2, <1>5 DEF Enqueue, QueuesTypeOK

(***************************************************************************)
(* An operation that waits for all it conflicts with may be queued.        *)
(***************************************************************************)
LEMMA EnqueueKeepsData ==
  ASSUME QueuesTypeOK, DataInv, NEW q \in Queues,
         NEW reads \in SUBSET Buffers, NEW writes \in SUBSET Buffers, NEW from,
         Enqueue(q, reads, writes, from),
         \A o \in ops :
           o.writes \cap (reads \cup writes) # {} \/ o.reads \cap writes # {}
             => o.on = q \/ o.num <= behind'[q]
  PROVE  DataInv'
<1>1. PICK n : /\ ops' = ops \cup {n}
               /\ n.num = Num /\ n.on = q /\ n.after = behind'[q]
               /\ n.writes = writes /\ n.reads = reads
               /\ n.sees = [b \in Buffers |-> IF b \in reads THEN latest[b] ELSE 0]
  BY Enqueued, SMTT(30), ZenonT(30)
<1>2. /\ issued' = issued + 1 /\ Num = issued + 1 /\ mem' = mem /\ issued \in Nat
      /\ latest' = [b \in Buffers |-> IF b \in writes THEN Num ELSE latest[b]]
  BY DEF Enqueue, Num, QueuesTypeOK
<1>3. \A o \in ops : /\ o.num \in Nat /\ o.num <= issued /\ o.num < n.num
                     /\ o.writes \subseteq Buffers /\ o.reads \subseteq Buffers
  BY <1>1, <1>2 DEF QueuesTypeOK, Op, DataInv
<1>4. \A b \in Buffers : /\ mem[b] \in Nat /\ latest[b] \in Nat
                         /\ mem[b] <= issued /\ latest[b] <= issued
  BY DEF QueuesTypeOK, DataInv
<1>5. \A o \in ops' : o.num <= issued'
  BY <1>1, <1>2, <1>3
<1>6. \A o, p \in ops' : o.num = p.num => o = p
  BY <1>1, <1>2, <1>3 DEF DataInv
<1>7. \A o, p \in ops' : o.num < p.num /\ Conflict(o, p) => o.on = p.on \/ o.num <= p.after
  <2>1. ASSUME NEW o \in ops, Conflict(o, n)
        PROVE  o.on = n.on \/ o.num <= n.after
    BY <1>1, <2>1 DEF Conflict
  <2>2. \A o \in ops : ~(n.num < o.num) /\ ~(n.num < n.num)
    BY <1>1, <1>2, <1>3
  <2> QED
    BY <1>1, <2>1, <2>2 DEF DataInv
<1>8. \A o \in ops' : \A b \in o.writes : mem'[b] < o.num /\ o.num <= latest'[b]
  BY <1>1, <1>2, <1>3, <1>4 DEF DataInv
<1>9. \A b \in Buffers :
        /\ mem'[b] <= issued' /\ latest'[b] <= issued'
        /\ mem'[b] = latest'[b] \/ \E o \in ops' : o.num = latest'[b] /\ b \in o.writes
  <2> SUFFICES ASSUME NEW b \in Buffers
               PROVE  /\ mem'[b] <= issued' /\ latest'[b] <= issued'
                      /\ mem'[b] = latest'[b] \/ \E o \in ops' : o.num = latest'[b] /\ b \in o.writes
    OBVIOUS
  <2>1. mem'[b] <= issued' /\ latest'[b] <= issued'
    BY <1>2, <1>4
  <2>2. CASE b \in writes
    BY <1>1, <1>2, <2>1, <2>2
  <2>3. CASE b \notin writes
    BY <1>1, <1>2, <2>1, <2>3 DEF DataInv
  <2> QED
    BY <2>2, <2>3
<1>10. \A p \in ops' : \A b \in p.reads :
         /\ \A o \in ops' : o.num < p.num /\ b \in o.writes => o.num <= p.sees[b]
         /\ \/ mem'[b] = p.sees[b]
            \/ \E o \in ops' : o.num = p.sees[b] /\ b \in o.writes /\ o.num < p.num
  <2>1. ASSUME NEW p \in ops, NEW b \in p.reads
        PROVE  /\ \A o \in ops' : o.num < p.num /\ b \in o.writes => o.num <= p.sees[b]
               /\ \/ mem'[b] = p.sees[b]
                  \/ \E o \in ops' : o.num = p.sees[b] /\ b \in o.writes /\ o.num < p.num
    <3>1. ~(n.num < p.num)
      BY <1>1, <1>2, <1>3
    <3> QED
      BY <1>1, <1>2, <3>1 DEF DataInv
  <2>2. ASSUME NEW b \in n.reads
        PROVE  /\ \A o \in ops' : o.num < n.num /\ b \in o.writes => o.num <= n.sees[b]
               /\ \/ mem'[b] = n.sees[b]
                  \/ \E o \in ops' : o.num = n.sees[b] /\ b \in o.writes /\ o.num < n.num
    <3>1. b \in Buffers /\ n.sees[b] = latest[b] /\ ~(n.num < n.num)
      BY <1>1, <1>2, <2>2
    <3> QED
      BY <1>1, <1>2, <1>3, <3>1 DEF DataInv
  <2> QED
    BY <1>1, <2>1, <2>2
<1> QED
  BY <1>5, <1>6, <1>7, <1>8, <1>9, <1>10 DEF DataInv, Conflict

(***************************************************************************)
(* What is ready has nothing before it that it conflicts with.             *)
(***************************************************************************)
LEMMA ReadyIsFirst ==
  ASSUME QueuesTypeOK, DataInv, NEW o \in ops, Ready(o), NEW p \in ops, Conflict(p, o)
  PROVE  p = o \/ o.num < p.num
<1>1. o.num \in Nat /\ p.num \in Nat /\ o.after \in Nat
  BY DEF QueuesTypeOK, Op
<1>2. CASE p.num < o.num
  BY <1>1, <1>2 DEF Ready, DataInv
<1>3. CASE p.num = o.num
  BY <1>3 DEF DataInv
<1> QED
  BY <1>1, <1>2, <1>3

LEMMA LandsKeepsData ==
  ASSUME QueuesTypeOK, DataInv, NEW o \in ops, Lands(o)
  PROVE  DataInv' /\ \A b \in Buffers : mem'[b] >= mem[b]
<1>1. /\ ops' = ops \ {o} /\ issued' = issued /\ latest' = latest /\ Ready(o)
      /\ mem' = [b \in Buffers |-> IF b \in o.writes THEN o.num ELSE mem[b]]
  BY DEF Lands
<1>2. \A p \in ops : /\ p.num \in Nat /\ p.num <= issued /\ p.sees \in [Buffers -> Nat]
                     /\ p.writes \subseteq Buffers /\ p.reads \subseteq Buffers
  BY DEF QueuesTypeOK, Op, DataInv
<1>3. \A b \in Buffers : mem[b] \in Nat /\ latest[b] \in Nat /\ mem[b] <= issued
  BY DEF QueuesTypeOK, DataInv
<1>4. \A b \in o.writes : mem[b] < o.num /\ o.num <= latest[b]
  BY DEF DataInv
<1>5. \A b \in Buffers : mem'[b] >= mem[b] /\ mem'[b] <= issued'
  BY <1>1, <1>2, <1>3, <1>4
<1>6. ASSUME NEW p \in ops', NEW b \in p.writes
      PROVE  mem'[b] < p.num /\ p.num <= latest'[b]
  <2>1. p \in ops /\ p # o /\ b \in Buffers
    BY <1>1, <1>2
  <2>2. CASE b \in o.writes
    <3>1. o.num < p.num
      BY <1>1, <1>6, <2>1, <2>2, ReadyIsFirst DEF Conflict
    <3> QED
      BY <1>1, <1>6, <2>1, <2>2, <3>1 DEF DataInv
  <2>3. CASE b \notin o.writes
    BY <1>1, <1>6, <2>1, <2>3 DEF DataInv
  <2> QED
    BY <2>2, <2>3
<1>7. ASSUME NEW b \in Buffers
      PROVE  mem'[b] = latest'[b] \/ \E p \in ops' : p.num = latest'[b] /\ b \in p.writes
  <2>1. CASE b \in o.writes
    <3>1. PICK p \in ops : p.num = latest[b] /\ b \in p.writes
      BY <1>2, <1>3, <1>4, <1>7, <2>1 DEF DataInv
    <3> QED
      BY <1>1, <1>7, <2>1, <3>1
  <2>2. CASE b \notin o.writes
    BY <1>1, <1>7, <2>2 DEF DataInv
  <2> QED
    BY <2>1, <2>2
<1>8. ASSUME NEW p \in ops', NEW b \in p.reads
      PROVE  \/ mem'[b] = p.sees[b]
             \/ \E w \in ops' : w.num = p.sees[b] /\ b \in w.writes /\ w.num < p.num
  <2>1. p \in ops /\ p # o /\ b \in Buffers /\ p.sees[b] \in Nat
    BY <1>1, <1>2
  <2>2. CASE b \in o.writes
    <3>1. o.num < p.num
      BY <1>1, <1>8, <2>1, <2>2, ReadyIsFirst DEF Conflict
    <3>2. o.num <= p.sees[b]
      BY <1>8, <2>1, <2>2, <3>1 DEF DataInv
    <3>3. mem[b] # p.sees[b]
      BY <1>2, <1>3, <1>4, <2>1, <2>2, <3>2
    <3>4. PICK w \in ops : w.num = p.sees[b] /\ b \in w.writes /\ w.num < p.num
      BY <1>8, <2>1, <3>3 DEF DataInv
    <3> QED
      BY <1>1, <2>1, <2>2, <3>4
  <2>3. CASE b \notin o.writes
    <3>1. mem'[b] = mem[b]
      BY <1>1, <2>1, <2>3
    <3>2. CASE mem[b] = p.sees[b]
      BY <3>1, <3>2
    <3>3. CASE mem[b] # p.sees[b]
      <4>1. PICK w \in ops : w.num = p.sees[b] /\ b \in w.writes /\ w.num < p.num
        BY <1>8, <2>1, <3>3 DEF DataInv
      <4> QED
        BY <1>1, <2>3, <4>1
    <3> QED
      BY <3>2, <3>3
  <2> QED
    BY <2>2, <2>3
<1>9. \A p, r \in ops' : p.num < r.num /\ Conflict(p, r) => p.on = r.on \/ p.num <= r.after
  BY <1>1 DEF DataInv
<1>10. DataInv'
  BY <1>1, <1>5, <1>6, <1>7, <1>8, <1>9 DEF DataInv, Conflict
<1> QED
  BY <1>5, <1>10

(***************************************************************************)
(* What the two waits leave behind: all that may touch a buffer on the     *)
(* other stream is waited for.                                             *)
(***************************************************************************)
LEMMA ComputeAwaited ==
  ASSUME QueuesTypeOK, FlagsInv, awaitCompute, pc # "download"
  PROVE  /\ behind' \in [Queues -> Nat] /\ computePending' = FALSE
         /\ behind'["compute"] = behind["compute"] /\ behind'["copy"] <= computeDone
         /\ \A o \in ops : o.on # "copy" =>
              (o.reads = {} /\ o.writes = {}) \/ o.num <= behind'["copy"]
<1>1. computeDone \in Nat /\ behind \in [Queues -> Nat] /\ "copy" \in Queues /\ "compute" \in Queues
  BY DEF QueuesTypeOK, Queues
<1>2. CASE computePending
  <2>1. behind' = [behind EXCEPT !["copy"] = computeDone] /\ computePending' = FALSE
    BY <1>2 DEF awaitCompute
  <2>2. behind'["copy"] = computeDone /\ behind["copy"] <= computeDone
    BY <1>1, <2>1 DEF FlagsInv
  <2>3. \A o \in ops : o.num \in Nat
    BY DEF QueuesTypeOK, Op
  <2>4. behind["copy"] \in Nat
    BY <1>1
  <2>5. \A o \in ops : o.on # "copy" =>
          (o.reads = {} /\ o.writes = {}) \/ o.num <= behind["copy"] \/ o.num <= computeDone
    BY DEF FlagsInv
  <2>6. \A o \in ops : o.num <= behind["copy"] => o.num <= computeDone
    BY <1>1, <2>2, <2>3, <2>4
  <2>7. behind' \in [Queues -> Nat] /\ behind'["compute"] = behind["compute"]
    BY <1>1, <2>1
  <2> QED
    BY <1>1, <2>1, <2>2, <2>5, <2>6, <2>7
<1>3. CASE ~computePending
  <2>1. behind' = behind /\ computePending' = FALSE
    BY <1>3 DEF awaitCompute
  <2> QED
    BY <1>1, <1>3, <2>1 DEF FlagsInv
<1> QED
  BY <1>2, <1>3

LEMMA CopiesAwaited ==
  ASSUME QueuesTypeOK, FlagsInv, AwaitCopy
  PROVE  /\ behind' \in [Queues -> Nat] /\ uploadPending' = FALSE
         /\ behind'["copy"] = behind["copy"] /\ behind'["compute"] <= copyDone
         /\ \A o \in ops : o.on = "copy" => o.num <= behind'["compute"]
<1>1. copyDone \in Nat /\ behind \in [Queues -> Nat] /\ "copy" \in Queues /\ "compute" \in Queues
  BY DEF QueuesTypeOK, Queues
<1>2. CASE uploadPending
  <2>1. behind' = [behind EXCEPT !["compute"] = copyDone] /\ uploadPending' = FALSE
    BY <1>2 DEF AwaitCopy
  <2>2. behind'["compute"] = copyDone /\ behind["compute"] <= copyDone
    BY <1>1, <2>1 DEF FlagsInv
  <2>3. \A o \in ops : o.num \in Nat
    BY DEF QueuesTypeOK, Op
  <2>4. behind["compute"] \in Nat
    BY <1>1
  <2>5. \A o \in ops : o.on = "copy" => o.num <= behind["compute"] \/ o.num <= copyDone
    BY DEF FlagsInv
  <2>6. \A o \in ops : o.num <= behind["compute"] => o.num <= copyDone
    BY <1>1, <2>2, <2>3, <2>4
  <2>7. behind' \in [Queues -> Nat] /\ behind'["copy"] = behind["copy"]
    BY <1>1, <2>1
  <2> QED
    BY <1>1, <2>1, <2>2, <2>5, <2>6, <2>7
<1>3. CASE ~uploadPending
  <2>1. behind' = behind /\ uploadPending' = FALSE
    BY <1>3 DEF AwaitCopy
  <2> QED
    BY <1>1, <1>3, <2>1 DEF FlagsInv
<1> QED
  BY <1>2, <1>3

(***************************************************************************)
(* A slot that is filled is no longer read.                                *)
(***************************************************************************)
LEMMA FilledKeepsHost ==
  ASSUME HostInv, NEW slots, NEW Held, host \in [slots -> Held], NEW s \in slots, Passed(s),
         host' = [host EXCEPT ![s] = [holds |-> Num, done |-> Num]],
         NEW q \in Queues, NEW reads \in SUBSET Buffers, NEW writes \in SUBSET Buffers,
         Enqueue(q, reads, writes, s)
  PROVE  HostInv'
<1>1. PICK n : /\ ops' = ops \cup {n}
               /\ n.num = Num /\ n.on = q /\ n.after = behind'[q] /\ n.from = s
               /\ n.writes = writes /\ n.reads = reads
               /\ n.sees = [b \in Buffers |-> IF b \in reads THEN latest[b] ELSE 0]
  BY Enqueued, SMTT(30), ZenonT(30)
<1>2. DOMAIN host' = DOMAIN host /\ host'[s] = [holds |-> Num, done |-> Num]
      /\ \A x \in DOMAIN host : x # s => host'[x] = host[x]
  OBVIOUS
<1>3. ASSUME NEW o \in ops, o.from # NoSlot
      PROVE  o.from \in DOMAIN host' /\ host'[o.from] = [holds |-> o.num, done |-> o.num]
  <2>1. o.from \in DOMAIN host /\ host[o.from] = [holds |-> o.num, done |-> o.num]
    BY <1>3 DEF HostInv
  <2>2. host[o.from].done = o.num
    BY <2>1
  <2>3. o.from # s
    BY <2>2 DEF Passed
  <2> QED
    BY <1>2, <2>1, <2>3
<1> QED
  BY <1>1, <1>2, <1>3 DEF HostInv

LEMMA UnstagedKeepsHost ==
  ASSUME HostInv, host' = host,
         NEW q \in Queues, NEW reads \in SUBSET Buffers, NEW writes \in SUBSET Buffers,
         Enqueue(q, reads, writes, NoSlot)
  PROVE  HostInv'
<1>1. PICK n : /\ ops' = ops \cup {n}
               /\ n.num = Num /\ n.on = q /\ n.after = behind'[q] /\ n.from = NoSlot
               /\ n.writes = writes /\ n.reads = reads
               /\ n.sees = [b \in Buffers |-> IF b \in reads THEN latest[b] ELSE 0]
  BY Enqueued
<1> QED
  BY <1>1 DEF HostInv

(***************************************************************************)
(* A copy is queued behind every kernel and fill that may touch its buffer. *)
(***************************************************************************)
LEMMA CopyKeeps ==
  ASSUME QueuesTypeOK, DataInv, FlagsInv, pc # "download",
         awaitCompute, NoteCopy, computeDone' = computeDone,
         NEW out \in SUBSET Buffers, NEW from \in Slots, Enqueue("copy", {}, out, from)
  PROVE  QueuesTypeOK' /\ DataInv' /\ FlagsInv'
<1>1. /\ copyDone' = Num /\ uploadPending' = TRUE /\ Num = issued + 1 /\ issued' = Num
  BY DEF NoteCopy, Num, Enqueue
<1>2. "copy" \in Queues /\ "compute" \in Queues /\ {} \in SUBSET Buffers
  BY DEF Queues
<1>3. PICK n : /\ ops' = ops \cup {n}
               /\ n.num = Num /\ n.on = "copy" /\ n.after = behind'["copy"] /\ n.from = from
               /\ n.writes = out /\ n.reads = {}
               /\ n.sees = [b \in Buffers |-> IF b \in {} THEN latest[b] ELSE 0]
  BY <1>2, Enqueued
<1>4. /\ behind' \in [Queues -> Nat] /\ computePending' = FALSE
      /\ behind'["compute"] = behind["compute"] /\ behind'["copy"] <= computeDone
      /\ \A o \in ops : o.on # "copy" =>
           (o.reads = {} /\ o.writes = {}) \/ o.num <= behind'["copy"]
  BY ComputeAwaited
<1>5. /\ ops' \subseteq Op /\ mem' \in [Buffers -> Nat]
      /\ issued' \in Nat /\ latest' \in [Buffers -> Nat]
  BY <1>2, <1>4, EnqueueTypes
<1>6. QueuesTypeOK'
  BY <1>1, <1>4, <1>5 DEF QueuesTypeOK
<1>7. DataInv'
  BY <1>2, <1>4, EnqueueKeepsData
<1>8. FlagsInv'
  <2>1. /\ copyDone \in Nat /\ computeDone \in Nat /\ issued \in Nat
        /\ copyDone <= issued /\ computeDone <= issued
        /\ behind["compute"] \in Nat /\ behind["compute"] <= copyDone
    BY <1>2 DEF QueuesTypeOK, FlagsInv
  <2>2. \A o \in ops : o.num \in Nat /\ o.num <= issued /\ (o.on = "copy" => o.reads = {})
    BY DEF QueuesTypeOK, Op, FlagsInv, DataInv
  <2>3. copyDone' <= issued' /\ computeDone' <= issued'
        /\ behind'["compute"] <= copyDone' /\ behind'["copy"] <= computeDone'
    BY <1>1, <1>4, <2>1
  <2>4. ASSUME NEW o \in ops'
        PROVE  IF o.on = "copy"
               THEN /\ o.reads = {}
                    /\ o.num <= behind'["compute"] \/ (uploadPending' /\ o.num <= copyDone')
               ELSE \/ o.reads = {} /\ o.writes = {}
                    \/ o.num <= behind'["copy"]
    BY <1>1, <1>3, <1>4, <2>1, <2>2
  <2> QED
    BY <2>3, <2>4 DEF FlagsInv
<1> QED
  BY <1>6, <1>7, <1>8

(***************************************************************************)
(* A kernel is queued behind every copy.                                   *)
(***************************************************************************)
LEMMA KernelKeeps ==
  ASSUME QueuesTypeOK, DataInv, FlagsInv, pc # "download",
         AwaitCopy, noteCompute, copyDone' = copyDone,
         NEW in \in SUBSET Buffers, NEW out \in SUBSET Buffers,
         Enqueue("compute", in, out, NoSlot)
  PROVE  QueuesTypeOK' /\ DataInv' /\ FlagsInv'
<1>1. /\ computeDone' = Num /\ computePending' = TRUE /\ Num = issued + 1 /\ issued' = Num
  BY DEF noteCompute, Num, Enqueue
<1>2. "copy" \in Queues /\ "compute" \in Queues /\ NoSlot \in Slots
  BY DEF Queues, NoSlot, Slots
<1>3. PICK n : /\ ops' = ops \cup {n}
               /\ n.num = Num /\ n.on = "compute" /\ n.after = behind'["compute"] /\ n.from = NoSlot
               /\ n.writes = out /\ n.reads = in
               /\ n.sees = [b \in Buffers |-> IF b \in in THEN latest[b] ELSE 0]
  BY <1>2, Enqueued
<1>4. /\ behind' \in [Queues -> Nat] /\ uploadPending' = FALSE
      /\ behind'["copy"] = behind["copy"] /\ behind'["compute"] <= copyDone
      /\ \A o \in ops : o.on = "copy" => o.num <= behind'["compute"]
  BY CopiesAwaited
<1>5. /\ ops' \subseteq Op /\ mem' \in [Buffers -> Nat]
      /\ issued' \in Nat /\ latest' \in [Buffers -> Nat]
  BY <1>2, <1>4, EnqueueTypes
<1>6. QueuesTypeOK'
  BY <1>1, <1>4, <1>5 DEF QueuesTypeOK
<1>7. \A o \in ops : o.on # "copy" => o.on = "compute"
  BY DEF QueuesTypeOK, Op, Queues
<1>8. DataInv'
  BY <1>2, <1>4, <1>7, EnqueueKeepsData
<1>9. FlagsInv'
  <2>1. /\ copyDone \in Nat /\ computeDone \in Nat /\ issued \in Nat
        /\ copyDone <= issued /\ computeDone <= issued
        /\ behind["copy"] \in Nat /\ behind["copy"] <= computeDone
    BY <1>2 DEF QueuesTypeOK, FlagsInv
  <2>2. \A o \in ops : o.num \in Nat /\ o.num <= issued /\ (o.on = "copy" => o.reads = {})
    BY DEF QueuesTypeOK, Op, FlagsInv, DataInv
  <2>3. copyDone' <= issued' /\ computeDone' <= issued'
        /\ behind'["compute"] <= copyDone' /\ behind'["copy"] <= computeDone'
    BY <1>1, <1>4, <2>1
  <2>4. ASSUME NEW o \in ops'
        PROVE  IF o.on = "copy"
               THEN o.reads = {} /\ o.num <= behind'["compute"]
               ELSE computePending' /\ o.num <= computeDone'
    BY <1>1, <1>3, <1>4, <2>1, <2>2
  <2> QED
    BY <2>3, <2>4 DEF FlagsInv
<1> QED
  BY <1>6, <1>8, <1>9

(***************************************************************************)
(* fill waits for nothing: its buffer must have been waited for.           *)
(***************************************************************************)
LEMMA FillKeeps ==
  ASSUME QueuesTypeOK, DataInv, FlagsInv, FillsAnytime = FALSE, NEW b \in Buffers, MayFill(b),
         noteCompute, UNCHANGED <<uploadPending, copyDone, behind>>,
         Enqueue("compute", {}, {b}, NoSlot)
  PROVE  QueuesTypeOK' /\ DataInv' /\ FlagsInv'
<1>1. /\ Awaited(b) /\ pc = "idle" /\ uploadPending' = uploadPending
      /\ computeDone' = Num /\ computePending' = TRUE
      /\ copyDone' = copyDone /\ behind' = behind /\ Num = issued + 1 /\ issued' = Num
  BY DEF MayFill, noteCompute, Num, Enqueue
<1>2. /\ "copy" \in Queues /\ "compute" \in Queues /\ NoSlot \in Slots
      /\ {} \in SUBSET Buffers /\ {b} \in SUBSET Buffers
  BY DEF Queues, NoSlot, Slots
<1>3. PICK n : /\ ops' = ops \cup {n}
               /\ n.num = Num /\ n.on = "compute" /\ n.after = behind'["compute"] /\ n.from = NoSlot
               /\ n.writes = {b} /\ n.reads = {}
               /\ n.sees = [x \in Buffers |-> IF x \in {} THEN latest[x] ELSE 0]
  BY <1>2, Enqueued
<1>4. behind' \in [Queues -> Nat]
  BY <1>1 DEF QueuesTypeOK
<1>5. /\ ops' \subseteq Op /\ mem' \in [Buffers -> Nat]
      /\ issued' \in Nat /\ latest' \in [Buffers -> Nat]
  BY <1>2, <1>4, EnqueueTypes
<1>6. QueuesTypeOK'
  BY <1>1, <1>4, <1>5 DEF QueuesTypeOK
<1>7. ASSUME NEW o \in ops, o.writes \cap ({} \cup {b}) # {} \/ o.reads \cap {b} # {}
      PROVE  o.on = "compute" \/ o.num <= behind'["compute"]
  <2>1. o.on = "compute" \/ o.on = "copy"
    BY DEF QueuesTypeOK, Op, Queues
  <2>2. CASE o.on = "copy"
    <3>1. o.reads = {}
      BY <2>2 DEF FlagsInv
    <3> QED
      BY <1>1, <1>7, <2>2, <3>1 DEF Awaited
  <2> QED
    BY <2>1, <2>2
<1>8. DataInv'
  BY <1>2, <1>7, EnqueueKeepsData
<1>9. FlagsInv'
  <2>1. /\ copyDone \in Nat /\ computeDone \in Nat /\ issued \in Nat
        /\ copyDone <= issued /\ computeDone <= issued
        /\ behind["copy"] \in Nat /\ behind["copy"] <= computeDone
        /\ behind["compute"] <= copyDone
    BY <1>2 DEF QueuesTypeOK, FlagsInv
  <2>2. \A o \in ops : o.num \in Nat /\ o.num <= issued
    BY DEF QueuesTypeOK, Op, DataInv
  <2>3. copyDone' <= issued' /\ computeDone' <= issued'
        /\ behind'["compute"] <= copyDone' /\ behind'["copy"] <= computeDone'
    BY <1>1, <2>1
  <2>4. ASSUME NEW o \in ops'
        PROVE  IF o.on = "copy"
               THEN /\ o.reads = {}
                    /\ o.num <= behind'["compute"] \/ (uploadPending' /\ o.num <= copyDone')
               ELSE computePending' /\ o.num <= computeDone'
    <3>1. CASE o = n
      BY <1>1, <1>3, <3>1, <2>1
    <3>2. CASE o \in ops
      BY <1>1, <3>2, <2>1, <2>2 DEF FlagsInv
    <3> QED
      BY <1>3, <3>1, <3>2
  <2> QED
    BY <2>3, <2>4 DEF FlagsInv
<1> QED
  BY <1>6, <1>8, <1>9

LEMMA DownloadKeeps ==
  ASSUME QueuesTypeOK, DataInv, FlagsInv, pc = "idle", pc' = "download",
         AwaitCopy, UNCHANGED <<copyDone, computePending, computeDone>>,
         NEW b \in Buffers, Enqueue("compute", {b}, {}, NoSlot)
  PROVE  QueuesTypeOK' /\ DataInv' /\ FlagsInv'
<1>1. /\ copyDone' = copyDone /\ computeDone' = computeDone /\ computePending' = computePending
      /\ Num = issued + 1 /\ issued' = Num
  BY DEF Num, Enqueue
<1>2. /\ "copy" \in Queues /\ "compute" \in Queues /\ NoSlot \in Slots
      /\ {} \in SUBSET Buffers /\ {b} \in SUBSET Buffers
  BY DEF Queues, NoSlot, Slots
<1>3. PICK n : /\ ops' = ops \cup {n}
               /\ n.num = Num /\ n.on = "compute" /\ n.after = behind'["compute"] /\ n.from = NoSlot
               /\ n.writes = {} /\ n.reads = {b}
               /\ n.sees = [x \in Buffers |-> IF x \in {b} THEN latest[x] ELSE 0]
  BY <1>2, Enqueued
<1>4. /\ behind' \in [Queues -> Nat] /\ uploadPending' = FALSE
      /\ behind'["copy"] = behind["copy"] /\ behind'["compute"] <= copyDone
      /\ \A o \in ops : o.on = "copy" => o.num <= behind'["compute"]
  BY CopiesAwaited
<1>5. /\ ops' \subseteq Op /\ mem' \in [Buffers -> Nat]
      /\ issued' \in Nat /\ latest' \in [Buffers -> Nat]
  BY <1>2, <1>4, EnqueueTypes
<1>6. QueuesTypeOK'
  BY <1>1, <1>4, <1>5 DEF QueuesTypeOK
<1>7. \A o \in ops : o.on # "copy" => o.on = "compute"
  BY DEF QueuesTypeOK, Op, Queues
<1>8. DataInv'
  BY <1>2, <1>4, <1>7, EnqueueKeepsData
<1>9. FlagsInv'
  <2>1. /\ copyDone \in Nat /\ computeDone \in Nat /\ issued \in Nat
        /\ copyDone <= issued /\ computeDone <= issued /\ behind["copy"] <= computeDone
    BY DEF QueuesTypeOK, FlagsInv
  <2>2. copyDone' <= issued' /\ computeDone' <= issued'
        /\ behind'["compute"] <= copyDone' /\ behind'["copy"] <= computeDone'
    BY <1>1, <1>4, <2>1
  <2>3. ASSUME NEW o \in ops'
        PROVE  IF o.on = "copy"
               THEN o.reads = {} /\ o.num <= behind'["compute"]
               ELSE \/ o.reads = {} /\ o.writes = {}
                    \/ o.num <= behind'["copy"]
                    \/ computePending' /\ o.num <= computeDone'
                    \/ pc' = "download" /\ o.writes = {}
    <3>1. CASE o = n
      BY <1>1, <1>3, <3>1
    <3>2. CASE o \in ops
      BY <1>1, <1>4, <3>2 DEF FlagsInv
    <3> QED
      BY <1>3, <3>1, <3>2
  <2> QED
    BY <2>2, <2>3 DEF FlagsInv
<1> QED
  BY <1>6, <1>8, <1>9

LEMMA QueuesLand ==
  ASSUME QueuesInv, NEW o \in ops, Lands(o)
  PROVE  QueuesInv'
<1>1. /\ ops' = ops \ {o} /\ UNCHANGED <<flags, host, pc, issued, latest>>
      /\ mem' = [b \in Buffers |-> IF b \in o.writes THEN o.num ELSE mem[b]]
  BY DEF Lands
<1>2. mem' \in [Buffers -> Nat]
  BY <1>1 DEF QueuesInv, QueuesTypeOK, Op
<1>3. QueuesTypeOK'
  BY <1>1, <1>2 DEF QueuesInv, QueuesTypeOK, flags
<1>4. DataInv'
  BY LandsKeepsData DEF QueuesInv
<1>5. FlagsInv' /\ HostInv'
  BY <1>1 DEF QueuesInv, FlagsInv, HostInv, flags
<1> QED
  BY <1>3, <1>4, <1>5 DEF QueuesInv

LEMMA QueuesBegin ==
  ASSUME NEW slots, QueuesInit(slots)
  PROVE  QueuesInv
<1>1. QueuesTypeOK
  BY DEF QueuesInit, QueuesTypeOK
<1>2. DataInv
  BY DEF QueuesInit, DataInv
<1>3. FlagsInv
  BY DEF QueuesInit, FlagsInv, Queues
<1>4. HostInv
  BY DEF QueuesInit, HostInv
<1> QED
  BY <1>1, <1>2, <1>3, <1>4 DEF QueuesInv

(***************************************************************************)
(* What the invariants give.                                               *)
(***************************************************************************)
LEMMA ReadsFromInv ==
  QueuesInv => ReadsInOrder
<1> SUFFICES ASSUME QueuesInv, NEW o \in ops, Ready(o), NEW b \in o.reads
             PROVE  mem[b] = o.sees[b]
  BY DEF ReadsInOrder
<1>1. ASSUME NEW w \in ops, w.num = o.sees[b], b \in w.writes, w.num < o.num
      PROVE  FALSE
  <2>1. Conflict(w, o)
    BY <1>1 DEF Conflict
  <2>2. o.num \in Nat /\ w.num \in Nat
    BY DEF QueuesInv, QueuesTypeOK, Op
  <2>3. w = o \/ o.num < w.num
    BY <2>1, ReadyIsFirst DEF QueuesInv
  <2> QED
    BY <1>1, <2>2, <2>3
<1> QED
  BY <1>1 DEF QueuesInv, DataInv

LEMMA BytesFromInv ==
  QueuesInv => BytesKept
<1> SUFFICES ASSUME QueuesInv, NEW o \in ops, o.from # NoSlot
             PROVE  host[o.from].holds = o.num
  BY DEF BytesKept
<1>1. host[o.from] = [holds |-> o.num, done |-> o.num]
  BY DEF QueuesInv, HostInv
<1> QED
  BY <1>1
=============================================================================

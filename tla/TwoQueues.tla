----------------------------- MODULE TwoQueues ------------------------------
(***************************************************************************)
(* What the two backends have in common (src/cuda/device_cuda.cpp and      *)
(* src/metal/device_metal.mm): transfers on one queue of the device,       *)
(* kernels, fills and downloads on another, ordered by an event each way   *)
(* and a flag that says whether the event is still to be waited for, and   *)
(* memory of the host that a queued copy reads when its turn comes, not    *)
(* when it is called for.                                                  *)
(*                                                                         *)
(* What is on a queue runs in its order; two queues run as they like       *)
(* unless one was told to wait for the other's event.  Every operation has *)
(* a number, and memory is abstracted to the number of the operation that  *)
(* wrote it last.                                                          *)
(*                                                                         *)
(* PooledDevice holds its lock around every call, so calls do not overlap: *)
(* only the device runs beside them.                                       *)
(***************************************************************************)
EXTENDS Naturals

CONSTANTS
  Buffers,        \* valid buffers: a call with another returns at once
  FillsAnytime,   \* FALSE: fill only where a dispatch or download waited for
                  \* the copies queued to the buffer, or they are done
  MaxOps          \* bound: operations queued

ASSUME QueuesAssumption == FillsAnytime \in BOOLEAN /\ MaxOps \in Nat

VARIABLES
  ops,             \* queued and not done
  mem,             \* by buffer: the operation whose bytes it holds
  uploadPending,   \* uploadPending_
  computePending,  \* computePending_
  copyDone,        \* the operation the event of the copies was last recorded behind
  computeDone,     \* the same for the event of compute
  behind,          \* by queue: what it was last told to wait for
  host,            \* by slot: whose bytes it holds, and what its event is behind
  pc,              \* the place in the call that is being made
  issued,          \* history: operations queued so far
  latest           \* history, by buffer: the last operation queued that writes it

flags == <<uploadPending, computePending, copyDone, computeDone, behind>>
queue == <<ops, mem, issued, latest>>

Queues == {"copy", "compute"}

Slots == {"none", "upload", "staging"} \X Nat

\* Memory of the decode ring, or none.
NoSlot == <<"none", 0>>

QueuesInit(slots) ==
  /\ ops = {} /\ mem = [b \in Buffers |-> 0]
  /\ uploadPending = FALSE /\ computePending = FALSE
  /\ copyDone = 0 /\ computeDone = 0 /\ behind = [q \in Queues |-> 0]
  /\ host = [s \in slots |-> [holds |-> 0, done |-> 0]]
  /\ pc = "idle"
  /\ issued = 0 /\ latest = [b \in Buffers |-> 0]

Num == issued + 1

\* Puts an operation on queue q; what q waits for by now holds it back.
Enqueue(q, reads, writes, from) ==
  /\ issued < MaxOps
  /\ issued' = Num
  /\ ops' = ops \cup {[num |-> Num, on |-> q, after |-> behind'[q], from |-> from,
                       writes |-> writes, reads |-> reads,
                       sees |-> [b \in Buffers |-> IF b \in reads THEN latest[b] ELSE 0]]}
  /\ latest' = [b \in Buffers |-> IF b \in writes THEN Num ELSE latest[b]]
  /\ UNCHANGED mem

\* The CPU waits for the event of slot s.
Passed(s) == \A o \in ops : o.num # host[s].done
-----------------------------------------------------------------------------
(* The two waits between the queues. *)

\* Mutant: fill and dispatch record no event.
NotesNothing == UNCHANGED <<computeDone, computePending>>

noteCompute == computeDone' = Num /\ computePending' = TRUE

awaitCompute ==
  /\ behind' = IF computePending THEN [behind EXCEPT !["copy"] = computeDone] ELSE behind
  /\ computePending' = FALSE

NoteCopy == copyDone' = Num /\ uploadPending' = TRUE

\* Mutant: the kernel may read a buffer whose DMA is still running.
AwaitsNoCopy == UNCHANGED <<behind, uploadPending>>

AwaitCopy ==
  /\ behind' = IF uploadPending THEN [behind EXCEPT !["compute"] = copyDone] ELSE behind
  /\ uploadPending' = FALSE

\* What a caller of fill has to see to: no copy into b is queued that compute
\* has not been told to wait for.
Awaited(b) ==
  \A o \in ops : o.on = "copy" /\ b \in o.writes => o.num <= behind["compute"]

MayFill(b) == pc = "idle" /\ (FillsAnytime \/ Awaited(b))
-----------------------------------------------------------------------------
(* The device, external. *)

\* First on its queue, and what the queue was told to wait for is done.
Ready(o) ==
  /\ o \in ops
  /\ \A p \in ops : p.num < o.num => p.on # o.on /\ p.num > o.after

Lands(o) ==
  /\ Ready(o)
  /\ ops' = ops \ {o}
  /\ mem' = [b \in Buffers |-> IF b \in o.writes THEN o.num ELSE mem[b]]
  /\ UNCHANGED <<flags, host, pc, issued, latest>>
-----------------------------------------------------------------------------
Op == [num : Nat, on : Queues, after : Nat, from : Slots,
       writes : SUBSET Buffers, reads : SUBSET Buffers, sees : [Buffers -> Nat]]

QueuesTypeOK ==
  /\ ops \subseteq Op /\ mem \in [Buffers -> Nat]
  /\ uploadPending \in BOOLEAN /\ computePending \in BOOLEAN
  /\ copyDone \in Nat /\ computeDone \in Nat /\ behind \in [Queues -> Nat]
  /\ issued \in Nat /\ latest \in [Buffers -> Nat]

\* Whatever runs, on either queue, reads what the calls before it wrote and
\* nothing later: "a kernel never reads a buffer whose bytes are still in
\* flight", nor a download, and no copy lands in what is still to be read.
ReadsInOrder == \A o \in ops : Ready(o) => \A b \in o.reads : mem[b] = o.sees[b]

\* What is written is never overwritten by what was called for before it: "a DMA
\* never lands in a buffer a memset or a kernel is about to write", and neither
\* lands in one that a DMA is about to write.
WritesInOrder == [][\A b \in Buffers : mem'[b] >= mem[b]]_mem

\* A queued copy finds in its host memory the bytes it was called for with,
\* however often the rings have gone round or a slot has grown.
BytesKept == \A o \in ops : o.from # NoSlot => host[o.from].holds = o.num
-----------------------------------------------------------------------------
\* Why these hold.

\* Two operations that may not change places.
Conflict(o, p) ==
  o.writes \cap (p.reads \cup p.writes) # {} \/ o.reads \cap p.writes # {}

\* The later of two waits for the earlier; what an operation is to see is there
\* or on its way, and nothing that was overwritten is.
DataInv ==
  /\ \A o \in ops : o.num <= issued
  /\ \A o, p \in ops : o.num = p.num => o = p
  /\ \A o, p \in ops : o.num < p.num /\ Conflict(o, p) => o.on = p.on \/ o.num <= p.after
  /\ \A o \in ops : \A b \in o.writes : mem[b] < o.num /\ o.num <= latest[b]
  /\ \A b \in Buffers :
       /\ mem[b] <= issued /\ latest[b] <= issued
       /\ mem[b] = latest[b] \/ \E o \in ops : o.num = latest[b] /\ b \in o.writes
  /\ \A p \in ops : \A b \in p.reads :
       /\ \A o \in ops : o.num < p.num /\ b \in o.writes => o.num <= p.sees[b]
       /\ \/ mem[b] = p.sees[b]
          \/ \E o \in ops : o.num = p.sees[b] /\ b \in o.writes /\ o.num < p.num

\* What one queue has not been told to wait for, its flag and event remember;
\* a download is waited for before the next call.
FlagsInv ==
  /\ copyDone <= issued /\ computeDone <= issued
  /\ behind["compute"] <= copyDone /\ behind["copy"] <= computeDone
  /\ \A o \in ops :
       IF o.on = "copy"
       THEN /\ o.reads = {}
            /\ o.num <= behind["compute"] \/ (uploadPending /\ o.num <= copyDone)
       ELSE \/ o.reads = {} /\ o.writes = {}
            \/ o.num <= behind["copy"]
            \/ computePending /\ o.num <= computeDone
            \/ pc = "download" /\ o.writes = {}

HostInv ==
  \A o \in ops : o.from # NoSlot =>
    o.from \in DOMAIN host /\ host[o.from] = [holds |-> o.num, done |-> o.num]

QueuesInv == QueuesTypeOK /\ DataInv /\ FlagsInv /\ HostInv
=============================================================================

---------------------------- MODULE MetalProofs -----------------------------
(***************************************************************************)
(* The two command queues of the Metal backend do what the calls said, in  *)
(* the order they were made, and sync leaves nothing queued though it      *)
(* waits for two command buffers only: for any number of buffers, calls    *)
(* and slots, where nobody fills a buffer that a copy is on its way to.    *)
(***************************************************************************)
EXTENDS MetalQueues, TwoQueuesProofs, TLAPS

Held == [holds : Nat, done : Nat]

LEMMA NextSlot ==
  ASSUME NEW i \in 0 .. kUploadSlots - 1
  PROVE  SlotAfter(i) \in 0 .. kUploadSlots - 1
BY MetalAssumption DEF SlotAfter

LEMMA Begins == Init => IInv
<1> SUFFICES ASSUME Init PROVE IInv
  OBVIOUS
<1>1. QueuesInv
  BY QueuesBegin DEF Init
<1>2. TypeOK
  <2>1. host \in [UploadSlots -> Held] /\ pc = "idle"
    BY DEF Init, QueuesInit, Held
  <2>2. uploadAt \in 0 .. kUploadSlots - 1 /\ lastBlit \in Nat /\ previous \in Nat
    BY MetalAssumption DEF Init
  <2> QED
    BY <1>1, <2>1, <2>2 DEF QueuesInv, TypeOK, Held
<1>3. KeptInv
  BY DEF Init, QueuesInit, KeptInv
<1> QED
  BY <1>1, <1>2, <1>3 DEF QueuesInv, IInv

(***************************************************************************)
(* What is kept for sync.                                                  *)
(***************************************************************************)
LEMMA BlitKept ==
  ASSUME IInv, pc = "idle", pc' = pc, KeepsBlit,
         NEW out \in SUBSET Buffers, NEW from \in Slots, Enqueue("copy", {}, out, from)
  PROVE  KeptInv' /\ lastBlit' \in Nat /\ previous' = previous
<1>1. /\ lastBlit' = Num /\ previous' = previous /\ Num = issued + 1 /\ issued' = Num
      /\ issued \in Nat
  BY DEF KeepsBlit, Num, Enqueue, IInv, TypeOK, QueuesTypeOK
<1>2. "copy" \in Queues /\ {} \in SUBSET Buffers
  BY DEF Queues
<1>3. PICK n : /\ ops' = ops \cup {n}
               /\ n.num = Num /\ n.on = "copy" /\ n.after = behind'["copy"] /\ n.from = from
               /\ n.writes = out /\ n.reads = {}
               /\ n.sees = [b \in Buffers |-> IF b \in {} THEN latest[b] ELSE 0]
  BY <1>2, Enqueued
<1>4. \A o \in ops : o.num \in Nat /\ o.num <= issued
  BY DEF IInv, TypeOK, QueuesTypeOK, Op, DataInv
<1>5. ASSUME NEW o \in ops', o.on = "copy"
      PROVE  o.num <= lastBlit' /\ \E p \in ops' : p.num = lastBlit' /\ p.on = o.on
  BY <1>1, <1>3, <1>4, <1>5
<1>6. ASSUME NEW o \in ops', o.on # "copy"
      PROVE  o.num <= previous' /\ \E p \in ops' : p.num = previous' /\ p.on = o.on
  BY <1>1, <1>3, <1>6 DEF IInv, KeptInv
<1> QED
  BY <1>1, <1>5, <1>6 DEF KeptInv

\* A kernel or a fill is kept; what a download queues is waited for by itself.
LEMMA WorkKept ==
  ASSUME IInv, pc = "idle", lastBlit' = lastBlit,
         NEW in \in SUBSET Buffers, NEW out \in SUBSET Buffers,
         Enqueue("compute", in, out, NoSlot),
         (pc' = "idle" /\ Keeps) \/ pc' = "download"
  PROVE  KeptInv'
<1>1. Num = issued + 1 /\ issued' = Num /\ issued \in Nat
  BY DEF Num, Enqueue, IInv, TypeOK, QueuesTypeOK
<1>2. "compute" \in Queues
  BY DEF Queues
<1>3. PICK n : /\ ops' = ops \cup {n}
               /\ n.num = Num /\ n.on = "compute" /\ n.after = behind'["compute"] /\ n.from = NoSlot
               /\ n.writes = out /\ n.reads = in
               /\ n.sees = [b \in Buffers |-> IF b \in in THEN latest[b] ELSE 0]
  BY <1>2, Enqueued, SMTT(30), ZenonT(30)
<1>4. \A o \in ops : o.num \in Nat /\ o.num <= issued /\ o.on \in {"copy", "compute"}
  BY DEF IInv, TypeOK, QueuesTypeOK, Op, Queues, DataInv
<1>5. ASSUME NEW o \in ops', o.on = "copy"
      PROVE  o.num <= lastBlit' /\ \E p \in ops' : p.num = lastBlit' /\ p.on = o.on
  BY <1>1, <1>3, <1>5 DEF IInv, KeptInv
<1>6. ASSUME NEW o \in ops', o.on # "copy"
      PROVE  o.num <= Num /\ \E p \in ops' : p.num = Num /\ p.on = o.on
  BY <1>1, <1>3, <1>4, <1>6
<1>7. CASE pc' = "idle" /\ Keeps
  BY <1>1, <1>5, <1>6, <1>7 DEF KeptInv, Keeps
<1>8. CASE pc' = "download"
  BY <1>1, <1>5, <1>6, <1>8 DEF KeptInv
<1> QED
  BY <1>7, <1>8

LEMMA LandsKept ==
  ASSUME IInv, NEW o \in ops, Lands(o), UNCHANGED kept
  PROVE  KeptInv'
<1>1. /\ ops' = ops \ {o} /\ Ready(o) /\ pc' = pc /\ issued' = issued
      /\ lastBlit' = lastBlit /\ previous' = previous
  BY DEF Lands, kept
<1>2. \A p \in ops : p.num \in Nat
  BY DEF IInv, TypeOK, QueuesTypeOK, Op
<1>3. ASSUME NEW p \in ops', NEW last,
             p.num <= last /\ \E w \in ops : w.num = last /\ w.on = p.on
      PROVE  p.num <= last /\ \E w \in ops' : w.num = last /\ w.on = p.on
  <2>1. PICK w \in ops : w.num = last /\ w.on = p.on
    BY <1>3
  <2>2. w # o
    <3>1. SUFFICES ASSUME w = o PROVE FALSE
      OBVIOUS
    <3>2. p \in ops /\ p # o /\ p.on = o.on /\ p.num <= o.num
      BY <1>1, <1>3, <2>1, <3>1
    <3>3. p.num # o.num
      BY <3>2 DEF IInv, DataInv
    <3>4. p.num < o.num
      BY <1>2, <3>2, <3>3
    <3> QED
      BY <1>1, <3>2, <3>4 DEF Ready
  <2> QED
    BY <1>1, <1>3, <2>1, <2>2
<1> QED
  BY <1>1, <1>3 DEF IInv, KeptInv

(***************************************************************************)
(* Step by step.                                                           *)
(***************************************************************************)
LEMMA UploadDirectKeeps ==
  ASSUME IInv, NEW b \in Buffers, UploadDirect(b)
  PROVE  IInv'
<1>1. /\ Enqueue("copy", {}, {b}, NoSlot) /\ awaitCompute /\ NoteCopy /\ KeepsBlit
      /\ pc = "idle" /\ pc' = pc /\ computeDone' = computeDone /\ host' = host
      /\ uploadAt' = uploadAt
  BY DEF UploadDirect
<1>2. "copy" \in Queues /\ {b} \in SUBSET Buffers /\ {} \in SUBSET Buffers /\ NoSlot \in Slots
  BY DEF Queues, NoSlot, Slots
<1>3. QueuesTypeOK' /\ DataInv' /\ FlagsInv'
  BY <1>1, <1>2, CopyKeeps DEF IInv, TypeOK
<1>4. HostInv'
  BY <1>1, <1>2, UnstagedKeepsHost DEF IInv
<1>5. KeptInv' /\ lastBlit' \in Nat /\ previous' = previous
  BY <1>1, <1>2, BlitKept
<1>6. TypeOK'
  BY <1>1, <1>3, <1>5 DEF IInv, TypeOK
<1> QED
  BY <1>3, <1>4, <1>5, <1>6 DEF IInv

LEMMA UploadKeeps ==
  ASSUME IInv, NEW b \in Buffers, upload(b)
  PROVE  IInv'
<1> DEFINE s == <<"upload", uploadAt>>
<1>1. /\ Enqueue("copy", {}, {b}, s) /\ awaitCompute /\ NoteCopy /\ KeepsBlit
      /\ SlotFree(s) /\ host' = [host EXCEPT ![s] = [holds |-> Num, done |-> Num]]
      /\ pc = "idle" /\ pc' = pc /\ computeDone' = computeDone
      /\ uploadAt' = SlotAfter(uploadAt)
  BY DEF upload
<1>2. "copy" \in Queues /\ {b} \in SUBSET Buffers /\ {} \in SUBSET Buffers
      /\ s \in UploadSlots /\ s \in Slots
  BY MetalAssumption DEF Queues, IInv, TypeOK, UploadSlots, Slots
<1> HIDE DEF s
<1>3. QueuesTypeOK' /\ DataInv' /\ FlagsInv'
  BY <1>1, <1>2, CopyKeeps DEF IInv, TypeOK
<1>4. host \in [UploadSlots -> Held] /\ Num \in Nat /\ Passed(s)
  BY <1>1 DEF IInv, TypeOK, QueuesTypeOK, Held, Num, SlotFree
<1>5. HostInv'
  BY <1>1, <1>2, <1>4, FilledKeepsHost DEF IInv
<1>6. host' \in [UploadSlots -> Held]
  BY <1>1, <1>4 DEF Held
<1>7. KeptInv' /\ lastBlit' \in Nat /\ previous' = previous
  BY <1>1, <1>2, BlitKept
<1>8. uploadAt' \in 0 .. kUploadSlots - 1
  BY <1>1, NextSlot DEF IInv, TypeOK
<1>9. TypeOK'
  BY <1>1, <1>3, <1>6, <1>7, <1>8 DEF IInv, TypeOK, Held
<1> QED
  BY <1>3, <1>5, <1>7, <1>9 DEF IInv

\* The slot that is passed over held nothing that is still to be read.
LEMMA UploadLostKeeps ==
  ASSUME IInv, UploadLost
  PROVE  IInv'
<1> DEFINE s == <<"upload", uploadAt>>
<1>1. /\ SlotFree(s) /\ host' = [host EXCEPT ![s] = [holds |-> 0, done |-> 0]]
      /\ uploadAt' = SlotAfter(uploadAt) /\ UNCHANGED <<queue, flags, pc, kept>>
  BY DEF UploadLost
<1> HIDE DEF s
<1>2. uploadAt' \in 0 .. kUploadSlots - 1
  BY <1>1, NextSlot DEF IInv, TypeOK
<1>3. host \in [UploadSlots -> Held]
  BY DEF IInv, TypeOK, Held
<1>4. host' \in [UploadSlots -> Held]
  BY <1>1, <1>3 DEF Held
<1>5. TypeOK'
  BY <1>1, <1>2, <1>4 DEF IInv, TypeOK, QueuesTypeOK, Held, queue, flags, kept
<1>6. DataInv' /\ FlagsInv' /\ KeptInv'
  BY <1>1 DEF IInv, DataInv, Conflict, FlagsInv, KeptInv, queue, flags, kept
<1>7. ASSUME NEW o \in ops, o.from # NoSlot
      PROVE  o.from \in DOMAIN host' /\ host'[o.from] = [holds |-> o.num, done |-> o.num]
  <2>1. o.from \in DOMAIN host /\ host[o.from] = [holds |-> o.num, done |-> o.num]
    BY <1>7 DEF IInv, HostInv
  <2>2. host[o.from].done = o.num
    BY <2>1
  <2>3. o.from # s
    BY <1>1, <2>2 DEF SlotFree, Passed
  <2> QED
    BY <1>1, <1>3, <2>1, <2>3
<1>8. HostInv'
  BY <1>1, <1>7 DEF HostInv, queue
<1> QED
  BY <1>5, <1>6, <1>8 DEF IInv

LEMMA DispatchKeeps ==
  ASSUME IInv, NEW in \in SUBSET Buffers, NEW out \in SUBSET Buffers, dispatch(in, out)
  PROVE  IInv'
<1>1. /\ Enqueue("compute", in, out, NoSlot) /\ AwaitCopy /\ noteCompute /\ Keeps
      /\ pc = "idle" /\ pc' = pc /\ copyDone' = copyDone /\ host' = host
      /\ uploadAt' = uploadAt /\ lastBlit' = lastBlit
  BY DEF dispatch
<1>2. "compute" \in Queues
  BY DEF Queues
<1>3. QueuesTypeOK' /\ DataInv' /\ FlagsInv'
  BY <1>1, KernelKeeps DEF IInv, TypeOK
<1>4. HostInv'
  BY <1>1, <1>2, UnstagedKeepsHost DEF IInv
<1>5. KeptInv'
  BY <1>1, WorkKept
<1>6. TypeOK'
  BY <1>1, <1>3 DEF IInv, TypeOK, QueuesTypeOK, Keeps, Num
<1> QED
  BY <1>3, <1>4, <1>5, <1>6 DEF IInv

LEMMA FillKeepsAll ==
  ASSUME IInv, FillsAnytime = FALSE, NEW b \in Buffers, fill(b)
  PROVE  IInv'
<1>1. /\ Enqueue("compute", {}, {b}, NoSlot) /\ MayFill(b) /\ noteCompute /\ Keeps
      /\ UNCHANGED <<uploadPending, copyDone, behind>>
      /\ pc = "idle" /\ pc' = pc /\ host' = host
      /\ uploadAt' = uploadAt /\ lastBlit' = lastBlit
  BY DEF fill, MayFill
<1>2. "compute" \in Queues /\ {} \in SUBSET Buffers /\ {b} \in SUBSET Buffers
  BY DEF Queues
<1>3. QueuesTypeOK' /\ DataInv' /\ FlagsInv'
  BY <1>1, FillKeeps DEF IInv, TypeOK
<1>4. HostInv'
  BY <1>1, <1>2, UnstagedKeepsHost DEF IInv
<1>5. KeptInv'
  BY <1>1, <1>2, WorkKept
<1>6. TypeOK'
  BY <1>1, <1>3 DEF IInv, TypeOK, QueuesTypeOK, Keeps, Num
<1> QED
  BY <1>3, <1>4, <1>5, <1>6 DEF IInv

LEMMA DownloadKeepsAll ==
  ASSUME IInv, NEW b \in Buffers, download(b)
  PROVE  IInv'
<1>1. /\ Enqueue("compute", {b}, {}, NoSlot) /\ AwaitCopy
      /\ UNCHANGED <<copyDone, computePending, computeDone>>
      /\ pc = "idle" /\ pc' = "download" /\ host' = host
      /\ uploadAt' = uploadAt /\ lastBlit' = lastBlit /\ previous' = previous
  BY DEF download, kept
<1>2. "compute" \in Queues /\ {b} \in SUBSET Buffers /\ {} \in SUBSET Buffers
  BY DEF Queues
<1>3. QueuesTypeOK' /\ DataInv' /\ FlagsInv'
  BY <1>1, DownloadKeeps DEF IInv, TypeOK
<1>4. HostInv'
  BY <1>1, <1>2, UnstagedKeepsHost DEF IInv
<1>5. KeptInv'
  BY <1>1, <1>2, WorkKept
<1>6. TypeOK'
  BY <1>1, <1>3 DEF IInv, TypeOK
<1> QED
  BY <1>3, <1>4, <1>5, <1>6 DEF IInv

\* Its own command buffer done, nothing of its queue is left.
LEMMA DownloadReturnsKeeps ==
  ASSUME IInv, DownloadReturns
  PROVE  IInv'
<1>1. /\ pc = "download" /\ pc' = "idle" /\ \A o \in ops : o.num # issued
      /\ UNCHANGED <<queue, flags, host, uploadAt, kept>>
  BY DEF DownloadReturns
<1>2. \A o \in ops : o.on = "copy"
  BY <1>1 DEF IInv, KeptInv
<1>3. TypeOK'
  BY <1>1 DEF IInv, TypeOK, QueuesTypeOK, queue, flags, kept
<1>4. DataInv' /\ HostInv'
  BY <1>1 DEF IInv, DataInv, Conflict, HostInv, queue
<1>5. FlagsInv' /\ KeptInv'
  BY <1>1, <1>2 DEF IInv, FlagsInv, KeptInv, queue, flags, kept
<1> QED
  BY <1>3, <1>4, <1>5 DEF IInv

LEMMA SyncKeeps ==
  ASSUME IInv, sync \/ SyncReturns
  PROVE  IInv'
<1>1. /\ pc \in {"idle", "sync"} /\ pc' \in {"idle", "sync"}
      /\ UNCHANGED <<queue, flags, host, uploadAt, kept>>
  BY DEF sync, SyncReturns
<1>2. TypeOK'
  BY <1>1 DEF IInv, TypeOK, QueuesTypeOK, queue, flags, kept
<1>3. DataInv' /\ HostInv' /\ FlagsInv' /\ KeptInv'
  BY <1>1 DEF IInv, DataInv, Conflict, HostInv, FlagsInv, KeptInv, queue, flags, kept
<1> QED
  BY <1>2, <1>3 DEF IInv

LEMMA DeviceKeeps ==
  ASSUME IInv, Device
  PROVE  IInv'
<1>1. PICK o \in ops : Lands(o) /\ UNCHANGED <<uploadAt, kept>>
  BY DEF Device
<1>2. QueuesInv'
  BY <1>1, QueuesLand DEF IInv, TypeOK, QueuesInv
<1>3. KeptInv'
  BY <1>1, LandsKept
<1>4. pc' = pc /\ host' = host
  BY <1>1 DEF Lands
<1>5. TypeOK'
  BY <1>1, <1>2, <1>4 DEF IInv, TypeOK, QueuesInv, kept
<1> QED
  BY <1>2, <1>3, <1>5 DEF QueuesInv, IInv

LEMMA NextKeeps ==
  ASSUME IInv, FillsAnytime = FALSE, [Next]_vars
  PROVE  IInv'
<1>1. CASE UploadLost
  BY <1>1, UploadLostKeeps
<1>2. ASSUME NEW b \in Buffers, UploadDirect(b) PROVE IInv'
  BY <1>2, UploadDirectKeeps
<1>3. ASSUME NEW b \in Buffers, upload(b) PROVE IInv'
  BY <1>3, UploadKeeps
<1>4. ASSUME NEW i \in Buffers, NEW o \in Buffers, dispatch({i}, {o}) PROVE IInv'
  <2>1. {i} \in SUBSET Buffers /\ {o} \in SUBSET Buffers
    OBVIOUS
  <2> QED
    BY <1>4, <2>1, DispatchKeeps
<1>5. ASSUME NEW b \in Buffers, fill(b) PROVE IInv'
  BY <1>5, FillKeepsAll
<1>6. ASSUME NEW b \in Buffers, download(b) PROVE IInv'
  BY <1>6, DownloadKeepsAll
<1>7. CASE DownloadReturns
  BY <1>7, DownloadReturnsKeeps
<1>8. CASE sync \/ SyncReturns
  BY <1>8, SyncKeeps
<1>9. CASE Device
  BY <1>9, DeviceKeeps
<1>10. CASE UNCHANGED vars
  BY <1>10 DEF IInv, TypeOK, QueuesTypeOK, DataInv, Conflict, FlagsInv, HostInv, KeptInv,
               vars, queue, flags, kept
<1> QED
  BY <1>1, <1>2, <1>3, <1>4, <1>5, <1>6, <1>7, <1>8, <1>9, <1>10 DEF Next, Uploads

(***************************************************************************)
(* The inductive invariant of the Metal backend: conflicting commands of   *)
(* the two queues wait for each other, and the last command of each queue  *)
(* is one that sync, or the download itself, waits for.                    *)
(***************************************************************************)
THEOREM MetalInvariance ==
  ASSUME FillsAnytime = FALSE
  PROVE  Spec => []IInv
<1>1. IInv /\ [Next]_vars => IInv'
  BY NextKeeps
<1> QED
  BY Begins, <1>1, PTL DEF Spec

(***************************************************************************)
(* A kernel or a download reads what the calls before it wrote, however    *)
(* the transfer queue runs beside the other.                               *)
(***************************************************************************)
THEOREM MetalReadsKeepOrder ==
  ASSUME FillsAnytime = FALSE
  PROVE  Spec => []ReadsInOrder
<1>1. IInv => ReadsInOrder
  BY ReadsFromInv DEF IInv, TypeOK, QueuesInv
<1> QED
  BY <1>1, MetalInvariance, PTL

(***************************************************************************)
(* No memory is overwritten by what was called for before it was written.  *)
(***************************************************************************)
THEOREM MetalWritesKeepOrder ==
  ASSUME FillsAnytime = FALSE
  PROVE  Spec => WritesInOrder
<1>1. IInv /\ [Next]_vars => [\A b \in Buffers : mem'[b] >= mem[b]]_mem
  <2> SUFFICES ASSUME IInv, Next, mem' # mem
               PROVE  \A b \in Buffers : mem'[b] >= mem[b]
    BY DEF vars, queue
  <2>1. \E o \in ops : Lands(o)
    BY DEF Next, Uploads, UploadDirect, upload, UploadLost, dispatch, fill, download,
           DownloadReturns, sync, SyncReturns, Enqueue, Device, queue
  <2> QED
    BY <2>1, LandsKeepsData DEF IInv, TypeOK
<1> QED
  BY <1>1, MetalInvariance, PTL DEF Spec, WritesInOrder

(***************************************************************************)
(* The shared memory of an upload keeps what it was given until the blit   *)
(* has read it, though an upload that is lost passes over a slot.          *)
(***************************************************************************)
THEOREM MetalSlotsKeepBytes ==
  ASSUME FillsAnytime = FALSE
  PROVE  Spec => []BytesKept
<1>1. IInv => BytesKept
  BY BytesFromInv DEF IInv, TypeOK, QueuesInv
<1> QED
  BY <1>1, MetalInvariance, PTL

(***************************************************************************)
(* sync waits for the last blit and the last kernel or fill, and by then   *)
(* nothing at all is queued.                                               *)
(***************************************************************************)
THEOREM SyncIsComplete ==
  ASSUME FillsAnytime = FALSE
  PROVE  Spec => SyncLeavesNothing
<1>1. IInv /\ [Next]_vars => [pc = "sync" /\ pc' = "idle" => ops = {}]_vars
  <2> SUFFICES ASSUME IInv, Next, pc = "sync", pc' = "idle"
               PROVE  ops = {}
    OBVIOUS
  <2>1. SyncReturns
    BY DEF Next, Uploads, UploadDirect, upload, UploadLost, dispatch, fill, MayFill, download,
           DownloadReturns, sync, Device, Lands
  <2>2. \A o \in ops : o.num # lastBlit /\ o.num # previous
    BY <2>1 DEF SyncReturns
  <2> QED
    BY <2>2 DEF IInv, KeptInv
<1> QED
  BY <1>1, MetalInvariance, PTL DEF Spec, SyncLeavesNothing
=============================================================================

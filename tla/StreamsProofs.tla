--------------------------- MODULE StreamsProofs ----------------------------
(***************************************************************************)
(* The two streams do what the calls said, in the order they were made,    *)
(* and the pinned memory keeps what it was given until it is read: for any *)
(* number of buffers, calls and slots, where nobody fills a buffer that a  *)
(* copy is still on its way to.                                            *)
(***************************************************************************)
EXTENDS Streams, TwoQueuesProofs, TLAPS

Args == [in : SUBSET Buffers, out : SUBSET Buffers, size : Nat]

Held == [holds : Nat, done : Nat]

LEMMA NoArgsType == NoArgs \in Args
BY DEF NoArgs, Args

LEMMA NextSlot ==
  ASSUME NEW n \in Nat \ {0}, NEW i \in 0 .. n - 1
  PROVE  SlotAfter(i, n) \in 0 .. n - 1
BY DEF SlotAfter

LEMMA Begins == Init => IInv
<1> SUFFICES ASSUME Init PROVE IInv
  OBVIOUS
<1>1. QueuesInv
  BY QueuesBegin DEF Init
<1>2. TypeOK
  <2>1. host \in [UploadSlots \cup StagingSlots -> Held] /\ pc = "idle"
    BY DEF Init, QueuesInit, Held
  <2>2. uploadAt \in 0 .. kUploadSlots - 1 /\ stagingAt \in 0 .. kStagingSlots - 1
    BY StreamsAssumption DEF Init
  <2>3. args \in Args /\ bytes \in [UploadSlots -> Nat]
    BY NoArgsType DEF Init
  <2> QED
    BY <1>1, <2>1, <2>2, <2>3 DEF QueuesInv, TypeOK, Args, Held
<1>3. StageInv
  BY DEF Init, QueuesInit, StageInv
<1> QED
  BY <1>1, <1>2, <1>3 DEF QueuesInv, IInv

(***************************************************************************)
(* Step by step.                                                           *)
(***************************************************************************)
LEMMA UploadDirectKeeps ==
  ASSUME IInv, NEW b \in Buffers, UploadDirect(b)
  PROVE  IInv'
<1>1. /\ Enqueue("copy", {}, {b}, NoSlot) /\ awaitCompute /\ NoteCopy
      /\ pc = "idle" /\ pc' = pc /\ args' = args /\ computeDone' = computeDone /\ host' = host
      /\ uploadAt' = uploadAt /\ stagingAt' = stagingAt /\ bytes' = bytes
  BY DEF UploadDirect, rings
<1>2. "copy" \in Queues /\ {b} \in SUBSET Buffers /\ {} \in SUBSET Buffers /\ NoSlot \in Slots
  BY DEF Queues, NoSlot, Slots
<1>3. QueuesTypeOK' /\ DataInv' /\ FlagsInv'
  BY <1>1, <1>2, CopyKeeps DEF IInv, TypeOK
<1>4. HostInv'
  BY <1>1, <1>2, UnstagedKeepsHost DEF IInv
<1>5. TypeOK' /\ StageInv'
  BY <1>1, <1>3 DEF IInv, TypeOK, StageInv
<1> QED
  BY <1>3, <1>4, <1>5 DEF IInv

LEMMA UploadKeeps ==
  ASSUME IInv, NEW b \in Buffers, NEW size \in Sizes, upload(b, size)
  PROVE  IInv'
<1>1. /\ awaitCompute /\ pc = "idle" /\ pc' = "stage"
      /\ args' = [in |-> {}, out |-> {b}, size |-> size]
      /\ computeDone' = computeDone /\ host' = host /\ copyDone' = copyDone
      /\ uploadPending' = uploadPending
      /\ ops' = ops /\ mem' = mem /\ latest' = latest /\ issued' = issued
      /\ uploadAt' = uploadAt /\ stagingAt' = stagingAt /\ bytes' = bytes
  BY DEF upload, queue, rings
<1>2. /\ behind' \in [Queues -> Nat] /\ computePending' = FALSE
      /\ behind'["compute"] = behind["compute"] /\ behind'["copy"] <= computeDone
      /\ \A o \in ops : o.on # "copy" =>
           (o.reads = {} /\ o.writes = {}) \/ o.num <= behind'["copy"]
  BY <1>1, ComputeAwaited DEF IInv, TypeOK
<1>3. args' \in Args
  BY <1>1, StreamsAssumption DEF Args
<1>4. TypeOK'
  BY <1>1, <1>2, <1>3 DEF IInv, TypeOK, QueuesTypeOK, Args
<1>5. DataInv' /\ HostInv' /\ StageInv'
  BY <1>1, <1>2 DEF IInv, DataInv, Conflict, HostInv, StageInv
<1>6. FlagsInv'
  BY <1>1, <1>2 DEF IInv, FlagsInv
<1> QED
  BY <1>4, <1>5, <1>6 DEF IInv

\* The slot is free, and compute has been waited for since the call began.
LEMMA UploadStagingKeeps ==
  ASSUME IInv, uploadStaging
  PROVE  IInv'
<1> DEFINE s == <<"upload", uploadAt>>
<1>1. /\ Enqueue("copy", {}, args.out, s) /\ NoteCopy
      /\ pc = "stage" /\ pc' = "idle" /\ args' = NoArgs
      /\ SlotFree(s) /\ Grown(s) /\ Filled(s)
      /\ behind' = behind /\ computePending' = computePending /\ computeDone' = computeDone
      /\ uploadAt' = SlotAfter(uploadAt, kUploadSlots) /\ stagingAt' = stagingAt
  BY DEF uploadStaging, Returns
<1>2. "copy" \in Queues /\ {} \in SUBSET Buffers /\ args.out \in SUBSET Buffers
      /\ s \in UploadSlots /\ s \in UploadSlots \cup StagingSlots /\ s \in Slots
  BY StreamsAssumption DEF Queues, IInv, TypeOK, UploadSlots, Slots
<1> HIDE DEF s
<1>3. awaitCompute
  BY <1>1 DEF awaitCompute, IInv, StageInv, TypeOK, QueuesTypeOK
<1>4. QueuesTypeOK' /\ DataInv' /\ FlagsInv'
  BY <1>1, <1>2, <1>3, CopyKeeps DEF IInv, TypeOK
<1>5. host \in [UploadSlots \cup StagingSlots -> Held]
  BY DEF IInv, TypeOK, Held
<1>6. Passed(s) /\ host' = [host EXCEPT ![s] = [holds |-> Num, done |-> Num]] /\ Num \in Nat
  BY <1>1 DEF SlotFree, Filled, Num, IInv, TypeOK, QueuesTypeOK
<1>7. HostInv'
  BY <1>1, <1>2, <1>5, <1>6, FilledKeepsHost DEF IInv
<1>8. host' \in [UploadSlots \cup StagingSlots -> Held]
  BY <1>5, <1>6 DEF Held
<1>9. bytes' \in [UploadSlots -> Nat]
  BY <1>1, <1>2 DEF Grown, IInv, TypeOK
<1>10. uploadAt' \in 0 .. kUploadSlots - 1
  BY <1>1, NextSlot, StreamsAssumption DEF IInv, TypeOK
<1>11. TypeOK'
  BY <1>1, <1>4, <1>8, <1>9, <1>10, NoArgsType DEF IInv, TypeOK, Held, Args
<1>12. StageInv'
  BY <1>1 DEF StageInv
<1> QED
  BY <1>4, <1>7, <1>11, <1>12 DEF IInv

LEMMA DispatchKeeps ==
  ASSUME IInv, NEW in \in SUBSET Buffers, NEW out \in SUBSET Buffers,
         NEW uniforms \in BOOLEAN, dispatch(in, out, uniforms)
  PROVE  IInv'
<1>1. /\ pc = "idle" /\ pc' \in {"uniforms", "globals"}
      /\ args' = [in |-> in, out |-> out, size |-> 0]
      /\ UNCHANGED <<queue, flags, host, rings>>
  BY DEF dispatch
<1>2. args' \in Args
  BY <1>1 DEF Args
<1>3. TypeOK'
  BY <1>1, <1>2 DEF IInv, TypeOK, QueuesTypeOK, Args, queue, flags, rings
<1>4. DataInv' /\ HostInv' /\ FlagsInv' /\ StageInv'
  BY <1>1 DEF IInv, DataInv, Conflict, HostInv, FlagsInv, StageInv, queue, flags
<1> QED
  BY <1>3, <1>4 DEF IInv

\* What is staged touches no buffer.
LEMMA StagesKeeps ==
  ASSUME IInv, NEW at \in {"uniforms", "globals"}, NEW next \in {"globals", "launch"},
         Stages(at, next)
  PROVE  IInv'
<1> DEFINE s == <<"staging", stagingAt>>
<1>1. /\ Enqueue("compute", {}, {}, s) /\ pc = at /\ pc' = next /\ args' = args
      /\ SlotFree(s) /\ Filled(s) /\ UNCHANGED <<flags, uploadAt, bytes>>
      /\ Num = issued + 1 /\ issued' = Num
      /\ stagingAt' = SlotAfter(stagingAt, kStagingSlots)
  BY DEF Stages, Num, Enqueue, Goes
<1>2. "compute" \in Queues /\ {} \in SUBSET Buffers
      /\ s \in UploadSlots \cup StagingSlots /\ s \in Slots
  BY StreamsAssumption DEF Queues, IInv, TypeOK, StagingSlots, Slots
<1> HIDE DEF s
<1>3. PICK n : /\ ops' = ops \cup {n}
               /\ n.num = Num /\ n.on = "compute" /\ n.after = behind'["compute"] /\ n.from = s
               /\ n.writes = {} /\ n.reads = {}
               /\ n.sees = [x \in Buffers |-> IF x \in {} THEN latest[x] ELSE 0]
  BY <1>1, <1>2, Enqueued
<1>4. behind' \in [Queues -> Nat]
  BY <1>1 DEF IInv, TypeOK, QueuesTypeOK, flags
<1>5. /\ ops' \subseteq Op /\ mem' \in [Buffers -> Nat]
      /\ issued' \in Nat /\ latest' \in [Buffers -> Nat]
  BY <1>1, <1>2, <1>4, EnqueueTypes DEF IInv, TypeOK
<1>6. host \in [UploadSlots \cup StagingSlots -> Held]
  BY DEF IInv, TypeOK, Held
<1>7. Passed(s) /\ host' = [host EXCEPT ![s] = [holds |-> Num, done |-> Num]] /\ Num \in Nat
  BY <1>1 DEF SlotFree, Filled, Num, IInv, TypeOK, QueuesTypeOK
<1>8. HostInv'
  BY <1>1, <1>2, <1>6, <1>7, FilledKeepsHost DEF IInv
<1>9. host' \in [UploadSlots \cup StagingSlots -> Held]
  BY <1>6, <1>7 DEF Held
<1>10. stagingAt' \in 0 .. kStagingSlots - 1
  BY <1>1, NextSlot, StreamsAssumption DEF IInv, TypeOK
<1>11. TypeOK'
  BY <1>1, <1>5, <1>9, <1>10 DEF IInv, TypeOK, QueuesTypeOK, Held, flags
<1>12. DataInv'
  BY <1>1, <1>2, EnqueueKeepsData DEF IInv, TypeOK
<1>13. FlagsInv'
  <2>1. pc # "download"
    BY <1>1
  <2>2. copyDone \in Nat /\ computeDone \in Nat /\ issued \in Nat
    BY DEF IInv, TypeOK, QueuesTypeOK
  <2> QED
    BY <1>1, <1>3, <2>1, <2>2 DEF IInv, FlagsInv, flags
<1>14. StageInv'
  BY <1>1 DEF StageInv
<1> QED
  BY <1>8, <1>11, <1>12, <1>13, <1>14 DEF IInv

\* A call that returns with nothing queued, and nothing a download waits for.
LEMMA ReturnsKeeps ==
  ASSUME IInv, Returns, UNCHANGED <<queue, flags, host, rings>>,
         pc = "download" => \A o \in ops : o.on # "compute"
  PROVE  IInv'
<1>1. pc' = "idle" /\ args' = NoArgs
  BY DEF Returns
<1>2. TypeOK'
  BY <1>1, NoArgsType DEF IInv, TypeOK, QueuesTypeOK, Args, queue, flags, rings
<1>3. DataInv' /\ HostInv' /\ StageInv'
  BY <1>1 DEF IInv, DataInv, Conflict, HostInv, StageInv, queue
<1>4. \A o \in ops : o.on = "copy" \/ o.on = "compute"
  BY DEF IInv, TypeOK, QueuesTypeOK, Op, Queues
<1>5. FlagsInv'
  BY <1>1, <1>4 DEF IInv, FlagsInv, flags, queue
<1> QED
  BY <1>2, <1>3, <1>5 DEF IInv

LEMMA LaunchKeeps ==
  ASSUME IInv, Launch
  PROVE  IInv'
<1>1. /\ Enqueue("compute", args.in, args.out, NoSlot) /\ AwaitCopy /\ noteCompute
      /\ pc = "launch" /\ pc' = "idle" /\ args' = NoArgs
      /\ copyDone' = copyDone /\ host' = host
      /\ uploadAt' = uploadAt /\ stagingAt' = stagingAt /\ bytes' = bytes
  BY DEF Launch, rings, Returns
<1>2. "compute" \in Queues /\ args.in \in SUBSET Buffers /\ args.out \in SUBSET Buffers
  BY DEF Queues, IInv, TypeOK
<1>3. QueuesTypeOK' /\ DataInv' /\ FlagsInv'
  BY <1>1, <1>2, KernelKeeps DEF IInv, TypeOK
<1>4. HostInv'
  BY <1>1, <1>2, UnstagedKeepsHost DEF IInv
<1>5. TypeOK' /\ StageInv'
  BY <1>1, <1>3, NoArgsType DEF IInv, TypeOK, StageInv, Args
<1> QED
  BY <1>3, <1>4, <1>5 DEF IInv

LEMMA FillKeepsAll ==
  ASSUME IInv, FillsAnytime = FALSE, NEW b \in Buffers, fill(b)
  PROVE  IInv'
<1>1. /\ Enqueue("compute", {}, {b}, NoSlot) /\ MayFill(b) /\ noteCompute
      /\ UNCHANGED <<uploadPending, copyDone, behind>>
      /\ pc = "idle" /\ pc' = pc /\ args' = args /\ host' = host
      /\ uploadAt' = uploadAt /\ stagingAt' = stagingAt /\ bytes' = bytes
  BY DEF fill, rings, MayFill
<1>2. "compute" \in Queues /\ {} \in SUBSET Buffers /\ {b} \in SUBSET Buffers
  BY DEF Queues
<1>3. QueuesTypeOK' /\ DataInv' /\ FlagsInv'
  BY <1>1, FillKeeps DEF IInv, TypeOK
<1>4. HostInv'
  BY <1>1, <1>2, UnstagedKeepsHost DEF IInv
<1>5. TypeOK' /\ StageInv'
  BY <1>1, <1>3 DEF IInv, TypeOK, StageInv
<1> QED
  BY <1>3, <1>4, <1>5 DEF IInv

LEMMA DownloadKeepsAll ==
  ASSUME IInv, NEW b \in Buffers, download(b)
  PROVE  IInv'
<1>1. /\ Enqueue("compute", {b}, {}, NoSlot) /\ AwaitCopy
      /\ UNCHANGED <<copyDone, computePending, computeDone>>
      /\ pc = "idle" /\ pc' = "download" /\ args' = args /\ host' = host
      /\ uploadAt' = uploadAt /\ stagingAt' = stagingAt /\ bytes' = bytes
  BY DEF download, rings, Goes
<1>2. "compute" \in Queues /\ {b} \in SUBSET Buffers /\ {} \in SUBSET Buffers
  BY DEF Queues
<1>3. QueuesTypeOK' /\ DataInv' /\ FlagsInv'
  BY <1>1, DownloadKeeps DEF IInv, TypeOK
<1>4. HostInv'
  BY <1>1, <1>2, UnstagedKeepsHost DEF IInv
<1>5. TypeOK' /\ StageInv'
  BY <1>1, <1>3 DEF IInv, TypeOK, StageInv
<1> QED
  BY <1>3, <1>4, <1>5 DEF IInv

LEMMA DeviceKeeps ==
  ASSUME IInv, Device
  PROVE  IInv'
<1>1. PICK o \in ops : Lands(o) /\ UNCHANGED <<args, rings>>
  BY DEF Device
<1>2. QueuesInv'
  BY <1>1, QueuesLand DEF IInv, TypeOK, QueuesInv
<1>3. pc' = pc /\ host' = host /\ computePending' = computePending
  BY <1>1 DEF Lands, flags
<1>4. TypeOK' /\ StageInv'
  BY <1>1, <1>2, <1>3 DEF IInv, TypeOK, QueuesInv, StageInv, rings
<1> QED
  BY <1>2, <1>4 DEF QueuesInv, IInv

LEMMA NextKeeps ==
  ASSUME IInv, FillsAnytime = FALSE, [Next]_vars
  PROVE  IInv'
<1>1. ASSUME NEW b \in Buffers, UploadDirect(b) PROVE IInv'
  BY <1>1, UploadDirectKeeps
<1>2. ASSUME NEW b \in Buffers, NEW size \in Sizes, upload(b, size) PROVE IInv'
  BY <1>2, UploadKeeps
<1>3. CASE uploadStaging
  BY <1>3, UploadStagingKeeps
<1>4. ASSUME NEW i \in Buffers, NEW o \in Buffers, NEW uniforms \in BOOLEAN,
             dispatch({i}, {o}, uniforms)
      PROVE  IInv'
  <2>1. {i} \in SUBSET Buffers /\ {o} \in SUBSET Buffers
    OBVIOUS
  <2> QED
    BY <1>4, <2>1, DispatchKeeps
<1>5. CASE Uniforms
  BY <1>5, StagesKeeps DEF Uniforms
<1>6. CASE Globals
  BY <1>6, StagesKeeps DEF Globals
<1>7. CASE Refuses
  BY <1>7, ReturnsKeeps DEF Refuses
<1>8. CASE Launch
  BY <1>8, LaunchKeeps
<1>9. ASSUME NEW b \in Buffers, fill(b) PROVE IInv'
  BY <1>9, FillKeepsAll
<1>10. ASSUME NEW b \in Buffers, download(b) PROVE IInv'
  BY <1>10, DownloadKeepsAll
<1>11. CASE DownloadReturns
  BY <1>11, ReturnsKeeps DEF DownloadReturns
<1>12. CASE Device
  BY <1>12, DeviceKeeps
<1>13. CASE UNCHANGED vars
  BY <1>13 DEF IInv, TypeOK, QueuesTypeOK, DataInv, Conflict, FlagsInv, HostInv, StageInv,
               vars, queue, flags, rings
<1> QED
  BY <1>1, <1>2, <1>3, <1>4, <1>5, <1>6, <1>7, <1>8, <1>9, <1>10, <1>11, <1>12, <1>13
  DEF Next, Uploads, Dispatches

(***************************************************************************)
(* The inductive invariant of the backend: where nobody fills a buffer     *)
(* that a copy is on its way to, conflicting operations of the two streams *)
(* wait for each other, and the flags remember what is not waited for yet. *)
(***************************************************************************)
THEOREM StreamsInvariance ==
  ASSUME FillsAnytime = FALSE
  PROVE  Spec => []IInv
<1>1. IInv /\ [Next]_vars => IInv'
  BY NextKeeps
<1> QED
  BY Begins, <1>1, PTL DEF Spec

(***************************************************************************)
(* A kernel or a download reads what the calls before it wrote, however    *)
(* the copy stream runs beside the compute stream.                         *)
(***************************************************************************)
THEOREM ReadsKeepOrder ==
  ASSUME FillsAnytime = FALSE
  PROVE  Spec => []ReadsInOrder
<1>1. IInv => ReadsInOrder
  BY ReadsFromInv DEF IInv, TypeOK, QueuesInv
<1> QED
  BY <1>1, StreamsInvariance, PTL

(***************************************************************************)
(* No memory is overwritten by what was called for before it was written.  *)
(***************************************************************************)
THEOREM WritesKeepOrder ==
  ASSUME FillsAnytime = FALSE
  PROVE  Spec => WritesInOrder
<1>1. IInv /\ [Next]_vars => [\A b \in Buffers : mem'[b] >= mem[b]]_mem
  <2> SUFFICES ASSUME IInv, Next, mem' # mem
               PROVE  \A b \in Buffers : mem'[b] >= mem[b]
    BY DEF vars, queue
  <2>1. \E o \in ops : Lands(o)
    BY DEF Next, Uploads, UploadDirect, upload, uploadStaging, Dispatches, dispatch, Uniforms,
           Globals, Stages, Refuses, Launch, fill, download, DownloadReturns, Enqueue, Device, queue
  <2> QED
    BY <2>1, LandsKeepsData DEF IInv, TypeOK
<1> QED
  BY <1>1, StreamsInvariance, PTL DEF Spec, WritesInOrder

(***************************************************************************)
(* The pinned memory of an upload, of uniforms or of globals keeps what it *)
(* was given until the copy has read it, however often the ring has gone   *)
(* round.                                                                  *)
(***************************************************************************)
THEOREM SlotsKeepBytes ==
  ASSUME FillsAnytime = FALSE
  PROVE  Spec => []BytesKept
<1>1. IInv => BytesKept
  BY BytesFromInv DEF IInv, TypeOK, QueuesInv
<1> QED
  BY <1>1, StreamsInvariance, PTL
=============================================================================

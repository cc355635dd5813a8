------------------------------ MODULE Streams -------------------------------
(***************************************************************************)
(* The CUDA backend (src/cuda/device_cuda.cpp): two streams, and rings of  *)
(* pinned memory from which uploads, uniforms and globals are copied.      *)
(*                                                                         *)
(* sync changes nothing but by what it waits for, and the device may       *)
(* always be idle when the next call comes, so it is no action here.       *)
(***************************************************************************)
EXTENDS TwoQueues

CONSTANTS
  kUploadSlots,   \* 4 in the code
  kStagingSlots,  \* 12 in the code
  Sizes           \* of uploads, all within the buffers' bounds

ASSUME StreamsAssumption ==
  /\ kUploadSlots \in Nat \ {0} /\ kStagingSlots \in Nat \ {0}
  /\ Sizes \subseteq Nat \ {0}

VARIABLES
  args,            \* what the call was given
  uploadAt,        \* uploadAt_
  stagingAt,       \* stagingAt_
  bytes            \* by upload slot: how large its memory is

rings == <<uploadAt, stagingAt, bytes>>
vars  == <<queue, flags, host, pc, args, rings>>

UploadSlots == {"upload"} \X (0 .. kUploadSlots - 1)

StagingSlots == {"staging"} \X (0 .. kStagingSlots - 1)

NoArgs == [in |-> {}, out |-> {}, size |-> 0]

Init ==
  /\ QueuesInit(UploadSlots \cup StagingSlots)
  /\ args = NoArgs
  /\ uploadAt = 0 /\ stagingAt = 0
  /\ bytes = [s \in UploadSlots |-> 0]

Goes(to) == pc' = to /\ UNCHANGED args

Returns == pc' = "idle" /\ args' = NoArgs

Filled(s) == host' = [host EXCEPT ![s] = [holds |-> Num, done |-> Num]]
-----------------------------------------------------------------------------
(* upload *)

\* From memory of the decode ring: nothing to stage.
UploadDirect(b) ==
  /\ pc = "idle"
  /\ awaitCompute /\ NoteCopy
  /\ Enqueue("copy", {}, {b}, NoSlot)
  /\ UNCHANGED <<computeDone, host, pc, args, rings>>

upload(b, size) ==
  /\ pc = "idle"
  /\ awaitCompute
  /\ pc' = "stage" /\ args' = [in |-> {}, out |-> {b}, size |-> size]
  /\ UNCHANGED <<uploadPending, copyDone, computeDone, queue, host, rings>>

\* Mutant: the ring alone, without the event.
PassedOrNot(s) == TRUE

SlotFree(s) == Passed(s)

\* Memory that is too small is freed, with the copies done, and taken anew.
Grown(s) ==
  /\ bytes[s] \in 1 .. args.size - 1 => \A o \in ops : o.on # "copy"
  /\ bytes' = [bytes EXCEPT ![s] = IF @ < args.size THEN args.size ELSE @]

SlotAfter(i, n) == (i + 1) % n

uploadStaging ==
  LET s == <<"upload", uploadAt>>
  IN  /\ pc = "stage"
      /\ SlotFree(s) /\ Grown(s) /\ Filled(s)
      /\ uploadAt' = SlotAfter(uploadAt, kUploadSlots)
      /\ UNCHANGED <<behind, computePending, computeDone, stagingAt>>
      /\ NoteCopy
      /\ Enqueue("copy", {}, args.out, s)
      /\ Returns
-----------------------------------------------------------------------------
(* dispatch: the uniforms, if there are any, the globals, the kernel. *)

dispatch(in, out, uniforms) ==
  /\ pc = "idle"
  /\ pc' = IF uniforms THEN "uniforms" ELSE "globals"
  /\ args' = [in |-> in, out |-> out, size |-> 0]
  /\ UNCHANGED <<queue, flags, host, rings>>

Stages(at, next) ==
  LET s == <<"staging", stagingAt>>
  IN  /\ pc = at
      /\ SlotFree(s) /\ Filled(s)
      /\ stagingAt' = SlotAfter(stagingAt, kStagingSlots)
      /\ UNCHANGED <<flags, uploadAt, bytes>>
      /\ Enqueue("compute", {}, {}, s)
      /\ Goes(next)

Uniforms == Stages("uniforms", "globals")

Globals == Stages("globals", "launch")

\* The kernel's parameter block has another shape: the uniforms stay queued.
Refuses ==
  /\ pc = "globals"
  /\ Returns
  /\ UNCHANGED <<queue, flags, host, rings>>

Launch ==
  /\ pc = "launch"
  /\ AwaitCopy /\ noteCompute
  /\ UNCHANGED <<copyDone, host, rings>>
  /\ Enqueue("compute", args.in, args.out, NoSlot)
  /\ Returns
-----------------------------------------------------------------------------
(* fill and download *)

fill(b) ==
  /\ MayFill(b)
  /\ noteCompute
  /\ UNCHANGED <<uploadPending, copyDone, behind, host, pc, args, rings>>
  /\ Enqueue("compute", {}, {b}, NoSlot)

download(b) ==
  /\ pc = "idle"
  /\ AwaitCopy
  /\ UNCHANGED <<copyDone, computePending, computeDone, host, rings>>
  /\ Enqueue("compute", {b}, {}, NoSlot)
  /\ Goes("download")

\* cuStreamSynchronize.
DownloadReturns ==
  /\ pc = "download" /\ \A o \in ops : o.on # "compute"
  /\ Returns
  /\ UNCHANGED <<queue, flags, host, rings>>

Uploads ==
  \/ \E b \in Buffers : UploadDirect(b) \/ \E size \in Sizes : upload(b, size)
  \/ uploadStaging

Dispatches ==
  \/ \E i, o \in Buffers, uniforms \in BOOLEAN : dispatch({i}, {o}, uniforms)
  \/ Uniforms \/ Globals \/ Refuses \/ Launch

Device == \E o \in ops : Lands(o) /\ UNCHANGED <<args, rings>>

Next ==
  \/ Uploads \/ Dispatches
  \/ \E b \in Buffers : fill(b) \/ download(b)
  \/ DownloadReturns
  \/ Device

Spec == Init /\ [][Next]_vars
-----------------------------------------------------------------------------
TypeOK ==
  /\ QueuesTypeOK
  /\ uploadAt \in 0 .. kUploadSlots - 1 /\ stagingAt \in 0 .. kStagingSlots - 1
  /\ bytes \in [UploadSlots -> Nat]
  /\ host \in [UploadSlots \cup StagingSlots -> [holds : Nat, done : Nat]]
  /\ pc \in {"idle", "stage", "uniforms", "globals", "launch", "download"}
  /\ args \in [in : SUBSET Buffers, out : SUBSET Buffers, size : Nat]

\* While an upload waits for its slot, compute has been waited for.
StageInv == pc = "stage" => ~computePending

IInv == TypeOK /\ DataInv /\ FlagsInv /\ HostInv /\ StageInv
=============================================================================

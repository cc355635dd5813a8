---------------------------- MODULE MetalQueues -----------------------------
(***************************************************************************)
(* The Metal backend (src/metal/device_metal.mm): two command queues,      *)
(* events that carry a rising value, a ring of shared memory for uploads,  *)
(* and the last command buffer of each queue, which sync waits for.        *)
(*                                                                         *)
(* Uniforms are copied into the command buffer, so there is no ring for    *)
(* them; memory that is released stays until the commands that use it are  *)
(* done, so a slot may grow at any time.                                   *)
(***************************************************************************)
EXTENDS TwoQueues

CONSTANT kUploadSlots   \* 4 in the code

ASSUME MetalAssumption == kUploadSlots \in Nat \ {0}

VARIABLES
  uploadAt,        \* uploadAt_
  lastBlit,        \* lastBlit_: the command buffer, 0 for none
  previous         \* previous_

kept == <<lastBlit, previous>>
vars == <<queue, flags, host, pc, uploadAt, kept>>

UploadSlots == {"upload"} \X (0 .. kUploadSlots - 1)

Init ==
  /\ QueuesInit(UploadSlots)
  /\ uploadAt = 0 /\ lastBlit = 0 /\ previous = 0

Keeps == previous' = Num

KeepsBlit == lastBlit' = Num /\ UNCHANGED previous
-----------------------------------------------------------------------------
UploadDirect(b) ==
  /\ pc = "idle"
  /\ awaitCompute /\ NoteCopy /\ KeepsBlit
  /\ UNCHANGED <<computeDone, host, pc, uploadAt>>
  /\ Enqueue("copy", {}, {b}, NoSlot)

\* The blit that last read the slot has finished.
SlotFree(s) == Passed(s)

SlotAfter(i) == (i + 1) % kUploadSlots

upload(b) ==
  LET s == <<"upload", uploadAt>>
  IN  /\ pc = "idle"
      /\ SlotFree(s)
      /\ uploadAt' = SlotAfter(uploadAt)
      /\ host' = [host EXCEPT ![s] = [holds |-> Num, done |-> Num]]
      /\ awaitCompute /\ NoteCopy /\ KeepsBlit
      /\ UNCHANGED <<computeDone, pc>>
      /\ Enqueue("copy", {}, {b}, s)

\* No shared memory to be had: the slot is waited for and passed over, and the
\* upload is lost.
UploadLost ==
  LET s == <<"upload", uploadAt>>
  IN  /\ pc = "idle"
      /\ SlotFree(s)
      /\ uploadAt' = SlotAfter(uploadAt)
      /\ host' = [host EXCEPT ![s] = [holds |-> 0, done |-> 0]]
      /\ UNCHANGED <<queue, flags, pc, kept>>

dispatch(in, out) ==
  /\ pc = "idle"
  /\ AwaitCopy /\ noteCompute /\ Keeps
  /\ UNCHANGED <<copyDone, host, pc, uploadAt, lastBlit>>
  /\ Enqueue("compute", in, out, NoSlot)

\* Mutant: sync is left to wait for the last kernel.
fillNotKept(b) ==
  /\ MayFill(b)
  /\ noteCompute
  /\ UNCHANGED <<uploadPending, copyDone, behind, host, pc, uploadAt, kept>>
  /\ Enqueue("compute", {}, {b}, NoSlot)

fill(b) ==
  /\ MayFill(b)
  /\ noteCompute /\ Keeps
  /\ UNCHANGED <<uploadPending, copyDone, behind, host, pc, uploadAt, lastBlit>>
  /\ Enqueue("compute", {}, {b}, NoSlot)

download(b) ==
  /\ pc = "idle"
  /\ AwaitCopy
  /\ pc' = "download"
  /\ UNCHANGED <<copyDone, computePending, computeDone, host, uploadAt, kept>>
  /\ Enqueue("compute", {b}, {}, NoSlot)

\* Its own command buffer is done, and so is all before it on the queue.
DownloadReturns ==
  /\ pc = "download" /\ \A o \in ops : o.num # issued
  /\ pc' = "idle"
  /\ UNCHANGED <<queue, flags, host, uploadAt, kept>>

sync ==
  /\ pc = "idle"
  /\ pc' = "sync"
  /\ UNCHANGED <<queue, flags, host, uploadAt, kept>>

SyncReturns ==
  /\ pc = "sync" /\ \A o \in ops : o.num # lastBlit /\ o.num # previous
  /\ pc' = "idle"
  /\ UNCHANGED <<queue, flags, host, uploadAt, kept>>

Uploads == UploadLost \/ \E b \in Buffers : UploadDirect(b) \/ upload(b)

Device == \E o \in ops : Lands(o) /\ UNCHANGED <<uploadAt, kept>>

Next ==
  \/ Uploads
  \/ \E i, o \in Buffers : dispatch({i}, {o})
  \/ \E b \in Buffers : fill(b) \/ download(b)
  \/ DownloadReturns \/ sync \/ SyncReturns
  \/ Device

Spec == Init /\ [][Next]_vars
-----------------------------------------------------------------------------
TypeOK ==
  /\ QueuesTypeOK
  /\ uploadAt \in 0 .. kUploadSlots - 1
  /\ lastBlit \in Nat /\ previous \in Nat
  /\ host \in [UploadSlots -> [holds : Nat, done : Nat]]
  /\ pc \in {"idle", "download", "sync"}

\* "A caller asking for everything to be finished means the transfers as well as
\* the work": nothing is queued when sync returns, though it waits for two
\* command buffers only.
SyncLeavesNothing == [][pc = "sync" /\ pc' = "idle" => ops = {}]_vars
-----------------------------------------------------------------------------
\* What is queued is no later than the last command buffer of its queue that was
\* kept, or than the download's own, and that one is still queued.
KeptInv ==
  \A o \in ops :
    LET last == IF o.on = "copy" THEN lastBlit
                ELSE IF pc = "download" THEN issued ELSE previous
    IN  o.num <= last /\ \E p \in ops : p.num = last /\ p.on = o.on

IInv == TypeOK /\ DataInv /\ FlagsInv /\ HostInv /\ KeptInv
=============================================================================

------------------------------- MODULE Display -------------------------------
(***************************************************************************)
(* DisplayPass (src/display.cpp) over the presenter, with the kernels it   *)
(* may load and the blobs it dispatches.  All of it is one thread's.       *)
(*                                                                         *)
(* The pool is external: alloc gives a buffer nobody has, of the class of  *)
(* the size asked, or none (InFlightKept and HandlesExact of Pool).        *)
(*                                                                         *)
(* Pixels are counted, not kept.  A picture is its size, the frame it is   *)
(* for, whether all of it is of that frame, and whether the pass was       *)
(* prepared.                                                               *)
(***************************************************************************)
EXTENDS RhiPresenter, Kernels, Args

CONSTANTS
  Buffers,      \* of the device
  NoBuffer,     \* kInvalidBuffer
  Source,       \* the image presented, whatever it is
  Class(_),     \* the bytes of a buffer of so many bytes asked
  LutSizes,     \* sizes of a lattice
  MaxFrames     \* bound: the pictures presented

PixelBytes == 4      \* packed RGBA8

SampleBytes == 16    \* RGBA of floats, of a lattice as of a plate

TargetBytes(s) == s[1] * s[2] * PixelBytes

LatticeBytes(n) == n * n * n * SampleBytes

Asked ==
  {TargetBytes(s) : s \in Sizes} \cup {LatticeBytes(n) : n \in LutSizes} \cup {SampleBytes}

ASSUME DisplayAssumption ==
  /\ NoBuffer \notin Buffers /\ Source \notin Buffers
  /\ LutSizes \subseteq Nat \ {0, 1}
  /\ \A n \in Asked : Class(n) \in Nat /\ Class(n) >= n
  /\ MaxFrames \in Nat
  /\ "display" \in Compiled
  /\ WordMax > 4   \* a header counts the buffers of a dispatch of the pass

VARIABLES
  bytes,     \* external: the size of each buffer somebody has, or 0
  kernel,    \* kernel_
  targets,   \* targets_
  at,        \* at_
  max,       \* maxWidth_, maxHeight_
  host,      \* host_.size()
  lut,       \* lut_
  lutSize,   \* lutSize_
  prepared,  \* history: what prepare returned last
  frame,     \* history: the pictures presented
  handed     \* history: the last of them

passVars == <<bytes, kernel, targets, at, max, host, lut, lutSize, prepared, frame, handed>>
vars == <<presenterVars, kernelVars, passVars>>

Init ==
  /\ PresenterInit /\ KernelsInit
  /\ bytes = [b \in Buffers |-> 0]
  /\ kernel = 0 /\ targets = [i \in {0, 1} |-> NoBuffer]
  /\ at = 0 /\ max = <<0, 0>> /\ host = 0
  /\ lut = NoBuffer /\ lutSize = 0
  /\ prepared = FALSE /\ frame = 0 /\ handed = NoPicture

Live == {b \in Buffers : bytes[b] # 0}

\* What is held without b, and with b of the class of n bytes.
Released(held, b) == [c \in Buffers |-> IF c = b THEN 0 ELSE held[c]]

Alloced(held, b, n) == [held EXCEPT ![b] = Class(n)]

Free(held) == {b \in Buffers : held[b] = 0}

-----------------------------------------------------------------------------
(* setLut *)

\* Mutant: the size stays until there is another.
LutSizeKept == lutSize

NoLutSize == 0

\* No transform; or no memory for it.
SetLutLeavesNone ==
  /\ bytes' = Released(bytes, lut)
  /\ lut' = NoBuffer /\ lutSize' = NoLutSize
  /\ UNCHANGED <<kernel, targets, at, max, host, prepared, frame, handed>>

SetLut(n) ==
  LET held == Released(bytes, lut)
  IN  /\ \E b \in Free(held) : lut' = b /\ bytes' = Alloced(held, b, LatticeBytes(n))
      /\ lutSize' = n
      /\ UNCHANGED <<kernel, targets, at, max, host, prepared, frame, handed>>

-----------------------------------------------------------------------------
(* prepare *)

\* Mutant: the target there is stays held.
WithoutNone(held, i) == held

\* A target is released before another is asked for in its place.
Without(held, i) == Released(held, targets[i])

\* The first target had in b and the second released; the second had in c.
Half(s, b) == Without(Alloced(Without(bytes, 0), b, TargetBytes(s)), 1)

Whole(s, b, c) == Alloced(Half(s, b), c, TargetBytes(s))

CanHave(s, b, c) == b \in Free(Without(bytes, 0)) /\ c \in Free(Half(s, b))

Pair(b, c) == [i \in {0, 1} |-> IF i = 0 THEN b ELSE c]

\* A prepare of anything that is no size changes nothing.
Prepares == Loads("display", kernel') /\ UNCHANGED <<at, lutSize, frame, handed>>

PrepareFindsNoKernel ==
  /\ LoadFails("display")
  /\ kernel' = 0 /\ prepared' = FALSE
  /\ UNCHANGED <<bytes, targets, at, max, host, lut, lutSize, frame, handed>>

PrepareLacksFirst ==
  /\ Prepares /\ prepared' = FALSE
  /\ bytes' = Without(bytes, 0) /\ targets' = Pair(NoBuffer, targets[1])
  /\ UNCHANGED <<max, host, lut>>

PrepareLacksSecond(s) ==
  /\ Prepares /\ prepared' = FALSE
  /\ \E b \in Free(Without(bytes, 0)) :
       bytes' = Half(s, b) /\ targets' = Pair(b, NoBuffer)
  /\ UNCHANGED <<max, host, lut>>

\* There is no lattice, and no memory for the black sample.
PrepareLacksSample(s) ==
  /\ Prepares /\ prepared' = FALSE
  /\ lut = NoBuffer
  /\ \E b, c \in Buffers :
       CanHave(s, b, c) /\ bytes' = Whole(s, b, c) /\ targets' = Pair(b, c)
  /\ host' = TargetBytes(s)
  /\ UNCHANGED <<max, lut>>

Prepare(s) ==
  /\ Prepares /\ prepared' = TRUE
  /\ \E b, c \in Buffers :
       /\ CanHave(s, b, c) /\ targets' = Pair(b, c)
       /\ \/ lut # NoBuffer /\ bytes' = Whole(s, b, c) /\ UNCHANGED lut
          \/ /\ lut = NoBuffer /\ lut' \in Free(Whole(s, b, c))
             /\ bytes' = Alloced(Whole(s, b, c), lut', SampleBytes)
  /\ host' = TargetBytes(s) /\ max' = s

-----------------------------------------------------------------------------
(* presentWipe *)

Smaller(m, n) == IF m < n THEN m ELSE n

\* Mutant: a window larger than prepared for is drawn in full.
Unclamped == wanted

Clamped == <<Smaller(wanted[1], max[1]), Smaller(wanted[2], max[2])>>

\* Mutant: the target's elements are a plate's.
ArgsOfPlates(t, s) ==
  [buffers  |-> <<Source, Source, t, lut>>,
   elements |-> <<SampleBytes, SampleBytes, SampleBytes, SampleBytes>>,
   uniforms |-> s]

\* With no picture on the right the left one is bound again.
ArgsOf(t, s) ==
  [buffers  |-> <<Source, Source, t, lut>>,
   elements |-> <<SampleBytes, SampleBytes, PixelBytes, SampleBytes>>,
   uniforms |-> s]

\* The backend's handle of each, as the pool tells it.
Native == [b \in Buffers \cup {NoBuffer, Source} |->
             IF b \in Live \cup {Source} THEN <<b>> ELSE <<NoBuffer>>]

HeldIn(native) == IF native[1] \in Buffers THEN bytes[native[1]] ELSE 0

\* The pixels the kernel writes: it drops those past the count of elements the
\* backend gives it for the buffer.
Drawn(t, s) ==
  LET view == Read(Translated(Built(ArgsOf(t, s)), Native))
  IN  IF view.valid
      THEN Smaller(s[1] * s[2], HeldIn(view.buffers[3]) \div view.elements[3])
      ELSE 0

\* A download past the end of the buffer is refused.
Downloaded(t, s) == t \in Live /\ TargetBytes(s) <= bytes[t]

Picture(t, s) ==
  [frame |-> frame + 1, size |-> s, ready |-> prepared,
   whole |-> Drawn(t, s) = s[1] * s[2] /\ Downloaded(t, s) /\ TargetBytes(s) <= host]

PresentWipe ==
  /\ kernel # 0 /\ frame < MaxFrames
  /\ handed' = Picture(targets[at], Clamped)
  /\ frame' = frame + 1 /\ at' = (at + 1) % 2
  /\ Present(handed')
  /\ UNCHANGED <<kernelVars, bytes, kernel, targets, max, host, lut, lutSize, prepared>>

-----------------------------------------------------------------------------
Prepared ==
  \/ PrepareFindsNoKernel
  \/ PrepareLacksFirst
  \/ \E s \in Sizes : PrepareLacksSecond(s) \/ PrepareLacksSample(s) \/ Prepare(s)

SetsLut == SetLutLeavesNone \/ \E n \in LutSizes : SetLut(n)

Window == (\E s \in Sizes : setTargetSize(s)) \/ \E set \in BOOLEAN : setCommandBuffer(set)

Next ==
  \/ Prepared /\ UNCHANGED presenterVars
  \/ SetsLut /\ UNCHANGED <<presenterVars, kernelVars>>
  \/ PresentWipe
  \/ Window /\ UNCHANGED <<kernelVars, passVars>>
  \/ KernelsNext /\ UNCHANGED <<presenterVars, passVars>>

Spec == Init /\ [][Next]_vars
-----------------------------------------------------------------------------
Pictures ==
  [frame : Nat, size : Nat \X Nat, ready : BOOLEAN, whole : BOOLEAN] \cup {NoPicture}

PresenterTypes ==
  /\ textures \in [{0, 1} -> [of : Nat \X Nat, holds : Pictures]]
  /\ size \in Nat \X Nat /\ wanted \in Sizes /\ turn \in {0, 1}
  /\ commands \in BOOLEAN /\ uploaded \in BOOLEAN /\ torn \in BOOLEAN

PassTypes ==
  /\ bytes \in [Buffers -> Nat]
  /\ kernel \in 0 .. Len(kernels)
  /\ targets \in [{0, 1} -> Buffers \cup {NoBuffer}]
  /\ at \in {0, 1} /\ max \in Nat \X Nat /\ host \in Nat
  /\ lut \in Buffers \cup {NoBuffer} /\ lutSize \in Nat
  /\ prepared \in BOOLEAN /\ frame \in 0 .. MaxFrames /\ handed \in Pictures

DisplayTypeOK == KernelsTypeOK /\ PresenterTypes /\ PassTypes

\* However a prepare or a setLut fails half way, the pass holds the buffers it
\* names and no other: none is lost, none is used after its release, and no two of
\* them are one (display.cpp 46-115).
HoldsExactly ==
  /\ Live = {targets[0], targets[1], lut} \ {NoBuffer}
  /\ targets[0] # NoBuffer => targets[0] \notin {targets[1], lut}
  /\ targets[1] # NoBuffer => targets[1] # lut

\* When the last prepare succeeded, every picture handed over since is all of its
\* frame, whatever the window's size and however earlier prepares ended: it fits
\* the target, the count the kernel bounds its writes by, the download and the
\* host's memory (display.cpp 97-115 and 133-186, args.h 8-15).
PictureWhole == handed # NoPicture => (handed.ready => handed.whole)

\* A lattice the kernel is told of is there, with every sample of it: setLut and
\* prepare may fail or be called in any order (display.cpp 56-79 and 104-111).
LutMatches ==
  lutSize > 0 => lut \in Live /\ bytes[lut] >= LatticeBytes(lutSize)

\* The pass draws with the build's own kernel, whatever bundles register under its
\* name before or after it is loaded ("A plugin must not be able to shadow display",
\* kernel_registry.cpp:81).
DrawsOurs == kernel # 0 => kernels[kernel] = [name |-> "display", blob |-> Ours]

\* What the window draws is the last picture handed over, if that was uploaded, and
\* unless a resize failed both textures are of the size of the pictures: "one of
\* them a different size from the other would show as every second frame being
\* stretched" (rhi_presenter.cpp:22 and 73-77).
ShownIsLast ==
  /\ uploaded => current.holds = handed
  /\ torn \/ (textures[0].of = size /\ textures[1].of = size)
-----------------------------------------------------------------------------
\* Why these hold.

\* What a prepare that succeeded has left.
ReadyInv ==
  prepared =>
    /\ max \in Sizes /\ host = TargetBytes(max)
    /\ \A i \in {0, 1} : targets[i] \in Live /\ bytes[targets[i]] >= TargetBytes(max)

PassInv == HoldsExactly /\ LutMatches /\ ReadyInv /\ DrawsOurs

IInv == DisplayTypeOK /\ KernelsInv /\ PassInv /\ PictureWhole /\ ShownIsLast
=============================================================================

------------------------------- MODULE Arenas -------------------------------
(***************************************************************************)
(* FrameArenas (src/arena.cpp): kSlots sets of images, reserved at prepare *)
(* and handed out frame by frame.  end() notes the submission a slot has   *)
(* to outlive, and begin() waits for it before the slot is used again:     *)
(* nothing else keeps a frame from writing over images the device is still *)
(* working on.                                                             *)
(*                                                                         *)
(* The pool underneath is Watermark, which Pool implements, with other     *)
(* callers that dispatch, reclaim and sync as they like.  Of the memory of *)
(* an image the pool promises what Pool keeps (InFlightKept): alloc does   *)
(* not return what somebody holds or what queued work was handed.          *)
(*                                                                         *)
(* begin reads only index % kSlots of its index, so the callers may come   *)
(* to the slots in any order.  Between prepare and begin, and between end  *)
(* and begin, they ask for no images, as the header asks of them.          *)
(***************************************************************************)
EXTENDS Watermark, Sequences, FiniteSets

CONSTANTS
  kSlots,         \* 3 in the code
  Images,         \* the memory images are made of
  MaxCount,       \* bound: images asked for per slot
  MaxPrepares,    \* bound: prepares
  MaxSubmissions  \* bound: dispatches

ASSUME ArenasAssumption ==
  /\ kSlots \in Nat \ {0}
  /\ MaxCount \in Nat /\ MaxPrepares \in Nat /\ MaxSubmissions \in Nat

VARIABLES
  images,    \* by slot: slots_[s].images
  endedAt,   \* by slot: slots_[s].endedAt
  current,   \* current_
  handed,    \* handed_
  perSlot,   \* perSlot_
  phase,     \* where the thread that drives the frames is
  want,      \* prepare's count, while it runs
  prepares   \* bounded by MaxPrepares

VARIABLES    \* history: what this frame was given
  asked,     \* by image()
  framed     \* by context()

slots  == <<images, endedAt, perSlot, want, prepares>>
given  == <<handed, asked, framed>>
arenas == <<slots, current, given, phase>>
vars   == <<numbers, arenas>>

Slots == 0 .. kSlots - 1

\* "begun" has yet to look at the mark, "waiting" has looked in vain, and
\* "syncing" is inside the sync that waitFor falls back to, with the pool's lock.
Phases == {"shut", "preparing", "begun", "waiting", "syncing", "open"}

ImagesOf(s) == {images[s][i] : i \in DOMAIN images[s]}

Held == UNION {ImagesOf(s) : s \in Slots}

\* No queued work was handed any of S.
Unused(S) == \A w \in queued : w.uses \cap S = {}

ArenasInit ==
  /\ Init
  /\ images = [s \in Slots |-> <<>>]
  /\ endedAt = [s \in Slots |-> 0]
  /\ current = 0 /\ handed = 0 /\ perSlot = 0
  /\ phase = "shut" /\ want = 0 /\ prepares = 0
  /\ asked = {} /\ framed = {}
-----------------------------------------------------------------------------
(* prepare: alloc may wait, so others move between two of its images. *)

releaseAll ==
  /\ images' = [s \in Slots |-> <<>>]
  /\ endedAt' = [s \in Slots |-> 0]
  /\ perSlot' = 0

\* A width, a height or a count of zero is refused after the release.
prepare(count) ==
  /\ phase = "shut" /\ prepares < MaxPrepares
  /\ releaseAll
  /\ phase' = IF count = 0 THEN "shut" ELSE "preparing"
  /\ want' = count /\ prepares' = prepares + 1
  /\ UNCHANGED <<numbers, current, given>>

\* Slots are filled in order.
Filling(s) == Len(images[s]) < want /\ \A r \in Slots : r < s => Len(images[r]) = want

PrepareOne ==
  /\ phase = "preparing"
  /\ \E s \in Slots, b \in Images \ Held :
       /\ Filling(s) /\ Unused({b})
       /\ images' = [images EXCEPT ![s] = Append(@, b)]
  /\ UNCHANGED <<numbers, endedAt, perSlot, want, prepares, current, given, phase>>

\* Mutant: gives back nothing.
ReleasesNothing == UNCHANGED <<images, endedAt, perSlot>>

Undone == releaseAll

\* alloc had no room.
PrepareFails ==
  /\ phase = "preparing" /\ \E s \in Slots : Filling(s)
  /\ Undone
  /\ phase' = "shut"
  /\ UNCHANGED <<numbers, want, prepares, current, given>>

PrepareDone ==
  /\ phase = "preparing" /\ \A s \in Slots : ~Filling(s)
  /\ perSlot' = want
  /\ phase' = "shut"
  /\ UNCHANGED <<numbers, images, endedAt, want, prepares, current, given>>
-----------------------------------------------------------------------------
(* A frame. *)

begin(s) ==
  /\ phase = "shut"
  /\ current' = s
  /\ handed' = 0 /\ asked' = {} /\ framed' = {}
  /\ phase' = IF endedAt[s] = 0 THEN "open" ELSE "begun"
  /\ UNCHANGED <<numbers, slots>>

\* Mutant: lets the newest submission of the slot pass.
RetiredButOne == completed' + 1 >= endedAt[current]

Retired == completed' >= endedAt[current]

\* The reclaim of begin, or of a spin of waitFor, and the look at the mark.
BeginLooks ==
  /\ phase \in {"begun", "waiting"}
  /\ Reclaim
  /\ phase' = IF Retired THEN "open" ELSE "waiting"
  /\ UNCHANGED <<slots, current, given>>

\* The spins are over: sync, which holds the pool's lock.
BeginSyncs ==
  /\ phase = "waiting"
  /\ phase' = "syncing"
  /\ UNCHANGED <<numbers, slots, current, given>>

\* Mutant: sync as it was, the reporter's lower number last (pool.h:205).
MarksReported == queued = {} /\ Reclaim

Marks == Mark

BeginMarks ==
  /\ phase = "syncing"
  /\ Marks
  /\ phase' = IF Retired THEN "open" ELSE "waiting"
  /\ UNCHANGED <<slots, current, given>>

image ==
  /\ phase = "open" /\ handed < Len(images[current])
  /\ handed' = handed + 1
  /\ asked' = asked \cup {images[current][handed']}
  /\ UNCHANGED <<numbers, slots, current, framed, phase>>

\* images[0] is the input, images[1] the output, the rest is scratch.
context ==
  /\ phase = "open"
  /\ framed' = ImagesOf(current)
  /\ handed' = Len(images[current])
  /\ UNCHANGED <<numbers, slots, current, asked, phase>>

Ends == submitted

end ==
  /\ phase = "open"
  /\ endedAt' = [endedAt EXCEPT ![current] = Ends]
  /\ phase' = "shut"
  /\ UNCHANGED <<numbers, images, perSlot, want, prepares, current, given>>
-----------------------------------------------------------------------------
(* The pool. sync keeps its lock, so nobody dispatches meanwhile. *)

CanDispatch == phase # "syncing" /\ submitted < MaxSubmissions

\* A dispatch of the frame, over images it was given.
Renders ==
  /\ phase = "open" /\ CanDispatch
  /\ \E U \in SUBSET (asked \cup framed) : U # {} /\ Accept(U)

\* Another caller's dispatch, or the frame's over memory that is not the arenas'.
Others == CanDispatch /\ Accept({})

Pooling ==
  \/ CanDispatch /\ Refuse
  \/ Finish
  \/ \E k \in 1 .. finished : Report(k)
  \/ phase # "syncing" /\ (Reclaim \/ Mark)

PoolStep == (Renders \/ Others \/ Pooling) /\ UNCHANGED arenas

Prepares ==
  \/ \E count \in 0 .. MaxCount : prepare(count)
  \/ PrepareOne \/ PrepareFails \/ PrepareDone

Frames ==
  \/ \E s \in Slots : begin(s)
  \/ BeginLooks \/ BeginSyncs \/ BeginMarks
  \/ image \/ context \/ end

ArenasNext == Prepares \/ Frames \/ PoolStep

ArenasSpec == ArenasInit /\ [][ArenasNext]_vars
-----------------------------------------------------------------------------
TypeOK ==
  /\ images \in [Slots -> Seq(Images)]
  /\ endedAt \in [Slots -> Nat]
  /\ current \in Slots /\ handed \in Nat /\ perSlot \in Nat /\ want \in Nat
  /\ prepares \in Nat /\ phase \in Phases
  /\ asked \subseteq Images /\ framed \subseteq Images

\* A frame that begins is given images the device is done with, whatever was
\* refused, reported late or never, prepared again or dispatched by others
\* (arena.h: "before a slot is used again, the work it ended on must have
\* retired").
BeginFindsIdle == [][phase # "open" /\ phase' = "open" => Unused(ImagesOf(current))']_vars

\* Outside prepare, every slot has the images that were agreed on, each its
\* own, or none has any ("Everything or nothing").
AllOrNothing ==
  phase # "preparing" =>
    \A s \in Slots :
      /\ Len(images[s]) = perSlot /\ Cardinality(ImagesOf(s)) = perSlot
      /\ \A r \in Slots \ {s} : ImagesOf(r) \cap ImagesOf(s) = {}
-----------------------------------------------------------------------------
\* Why BeginFindsIdle holds: what is queued over a slot's images is no later than
\* the end of the slot's last frame, and only the open slot has later work.
SlotsInv ==
  /\ \A s \in Slots : endedAt[s] <= submitted
  /\ \A r, s \in Slots : r # s => ImagesOf(r) \cap ImagesOf(s) = {}
  /\ phase = "open" => asked \cup framed \subseteq ImagesOf(current)
  /\ phase \in {"begun", "waiting", "syncing"} => asked \cup framed = {}
  /\ \A s \in Slots, w \in queued :
       w.uses \cap ImagesOf(s) # {} =>
         w.at <= endedAt[s] \/ (phase = "open" /\ s = current)

IInv == TypeOK /\ NumbersInv /\ SlotsInv

\* Why AllOrNothing holds: prepare appends only memory nobody holds, never past
\* what was asked for, and is done only when the last slot is full.
FillInv ==
  /\ \A s \in Slots : \A i, j \in DOMAIN images[s] : images[s][i] = images[s][j] => i = j
  /\ phase = "preparing" => \A s \in Slots : Len(images[s]) <= want
  /\ phase # "preparing" => \A s \in Slots : Len(images[s]) = perSlot
=============================================================================

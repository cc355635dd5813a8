---------------------------- MODULE PlayerProofs ----------------------------
(***************************************************************************)
(* First the arenas: the numbers of the pool, and from them that a frame   *)
(* which begins is given images the device is done with; and that every    *)
(* slot has its images or none has.  Then the player over them: it keeps   *)
(* its plates, its pictures, its count of frames and its clock.  All of it *)
(* for any number of slots, images, frames and submissions.                *)
(***************************************************************************)
EXTENDS Player, SequenceTheorems, FiniteSetTheorems, WellFoundedInduction, TLAPS

(***************************************************************************)
(* The numbers, by steps of the pool.                                      *)
(***************************************************************************)

LEMMA NumbersInit == Init => NumbersInv
  BY DEF Init, NumbersInv

LEMMA AcceptNumbers ==
  ASSUME NumbersInv, NEW U, Accept(U)
  PROVE  NumbersInv'
<1> DEFINE new == [num |-> accepted + 1, at |-> submitted + 1, uses |-> U]
<1>1. /\ submitted' = submitted + 1 /\ accepted' = accepted + 1
      /\ queued' = queued \cup {new}
      /\ completed' = completed /\ finished' = finished /\ reported' = reported
  BY DEF Accept
<1>2. new.num = accepted + 1 /\ new.at = submitted + 1
  OBVIOUS
<1> HIDE DEF new
<1>3. QED
  BY <1>1, <1>2 DEF NumbersInv

LEMMA RefuseNumbers ==
  ASSUME NumbersInv, Refuse
  PROVE  NumbersInv'
BY DEF NumbersInv, Refuse

LEMMA FinishNumbers ==
  ASSUME NumbersInv, Finish
  PROVE  NumbersInv' /\ queued' \subseteq queued
<1>1. PICK w \in queued : /\ \A v \in queued : w.num <= v.num
                          /\ queued' = queued \ {w} /\ finished' = w.num
  BY DEF Finish, Oldest
<1>2. \A v \in queued' : w.num < v.num
  BY <1>1 DEF NumbersInv
<1>3. QED
  BY <1>1, <1>2 DEF NumbersInv, Finish

LEMMA ReportNumbers ==
  ASSUME NumbersInv, NEW k \in 1 .. finished, Report(k)
  PROVE  NumbersInv'
BY DEF NumbersInv, Report

LEMMA ReclaimNumbers ==
  ASSUME NumbersInv, Reclaim
  PROVE  NumbersInv'
BY DEF NumbersInv, Reclaim, Published, Later

LEMMA MarkNumbers ==
  ASSUME NumbersInv, Mark
  PROVE  NumbersInv'
BY DEF NumbersInv, Mark, Later

LEMMA StillNumbers ==
  ASSUME NumbersInv, UNCHANGED numbers
  PROVE  NumbersInv'
BY DEF NumbersInv, numbers

(***************************************************************************)
(* The promise of the pool, as Watermark states it, is one it can keep: no *)
(* work at or below the mark is queued (completed < w.at), although the    *)
(* pool numbers what the backend refuses and the backend reports late.     *)
(***************************************************************************)
THEOREM NumbersHold == Spec => []NumbersInv
<1>1. NumbersInv /\ [Next]_numbers => NumbersInv'
  BY AcceptNumbers, RefuseNumbers, FinishNumbers, ReportNumbers, ReclaimNumbers,
     MarkNumbers, StillNumbers DEF Next
<1> QED
  BY NumbersInit, <1>1, PTL DEF Spec

-----------------------------------------------------------------------------
(* The slots. *)

\* What a frame was given, as SlotsInv has it.
GivenOK ==
  /\ phase = "open" => asked \cup framed \subseteq ImagesOf(current)
  /\ phase \in {"begun", "waiting", "syncing"} => asked \cup framed = {}

LEMMA SlotsInit == ArenasInit => IInv
<1> SUFFICES ASSUME ArenasInit PROVE IInv
  OBVIOUS
<1>0. Init
  BY DEF ArenasInit
<1>1. 0 \in Slots
  BY ArenasAssumption DEF Slots
<1>2. <<>> \in Seq(Images)
  OBVIOUS
<1>3. TypeOK
  BY <1>1, <1>2 DEF ArenasInit, TypeOK, Phases
<1>4. \A s \in Slots : ImagesOf(s) = {}
  BY DEF ArenasInit, ImagesOf
<1>5. SlotsInv
  BY <1>4 DEF ArenasInit, Init, SlotsInv
<1> QED
  BY <1>0, <1>3, <1>5, NumbersInit DEF IInv

\* releaseAll leaves nothing that queued work could touch.
LEMMA ReleasesKeeps ==
  ASSUME TypeOK, SlotsInv, releaseAll, UNCHANGED <<numbers, given>>,
         phase' \in {"shut", "preparing"}, NumbersInv
  PROVE  SlotsInv'
<1>1. \A s \in Slots : ImagesOf(s)' = {}
  BY DEF releaseAll, ImagesOf
<1>2. \A s \in Slots : endedAt'[s] <= submitted'
  BY DEF releaseAll, NumbersInv, numbers
<1>3. phase' \notin {"open", "begun", "waiting", "syncing"}
  OBVIOUS
<1> QED
  BY <1>1, <1>2, <1>3 DEF SlotsInv

\* The image that alloc returned is nobody's, and no queued work was handed it.
LEMMA PrepareOneKeeps ==
  ASSUME TypeOK, SlotsInv, PrepareOne
  PROVE  TypeOK' /\ SlotsInv'
<1>1. PICK s \in Slots, b \in Images \ Held :
        Unused({b}) /\ images' = [images EXCEPT ![s] = Append(@, b)]
  BY DEF PrepareOne
<1>2. images[s] \in Seq(Images) /\ images \in [Slots -> Seq(Images)]
  BY DEF TypeOK
<1>3. images'[s] = Append(images[s], b) /\ \A r \in Slots \ {s} : images'[r] = images[r]
  BY <1>1, <1>2
<1>4. ImagesOf(s)' = ImagesOf(s) \cup {b}
  <2>1. DOMAIN images'[s] = 1 .. Len(images[s]) + 1 /\ DOMAIN images[s] = 1 .. Len(images[s])
    BY <1>2, <1>3
  <2>2. /\ images'[s][Len(images[s]) + 1] = b
        /\ \A i \in DOMAIN images[s] : images'[s][i] = images[s][i]
    BY <1>2, <1>3
  <2>3. Len(images[s]) \in Nat
    BY <1>2
  <2> QED
    BY <2>1, <2>2, <2>3 DEF ImagesOf
<1>5. \A r \in Slots \ {s} : ImagesOf(r)' = ImagesOf(r)
  BY <1>3 DEF ImagesOf
<1>6. \A r \in Slots : b \notin ImagesOf(r)
  BY <1>1 DEF Held
<1>7. \A w \in queued : b \notin w.uses
  BY <1>1 DEF Unused
<1>8. /\ queued' = queued /\ submitted' = submitted /\ endedAt' = endedAt
      /\ phase' = phase /\ current' = current /\ asked' = asked /\ framed' = framed
      /\ handed' = handed /\ perSlot' = perSlot /\ want' = want /\ prepares' = prepares
      /\ phase = "preparing"
  BY DEF PrepareOne, numbers, given
<1>9. TypeOK'
  <2>1. images' \in [Slots -> Seq(Images)]
    BY <1>1, <1>2
  <2> QED
    BY <2>1, <1>8 DEF TypeOK
<1>10. \A r, q \in Slots : r # q => ImagesOf(r)' \cap ImagesOf(q)' = {}
  BY <1>4, <1>5, <1>6 DEF SlotsInv
<1>11. \A r \in Slots, w \in queued : w.uses \cap ImagesOf(r)' # {} => w.uses \cap ImagesOf(r) # {}
  BY <1>4, <1>5, <1>7
<1> QED
  BY <1>8, <1>9, <1>10, <1>11 DEF SlotsInv

\* What is given to a frame is the slot's.
LEMMA GivenKeeps ==
  ASSUME TypeOK, SlotsInv, image \/ context
  PROVE  TypeOK' /\ SlotsInv'
<1>1. /\ phase = "open" /\ phase' = phase /\ current' = current
      /\ images' = images /\ endedAt' = endedAt /\ perSlot' = perSlot /\ want' = want
      /\ prepares' = prepares /\ queued' = queued /\ submitted' = submitted
  BY DEF image, context, numbers, slots
<1>2. current \in Slots /\ images[current] \in Seq(Images) /\ handed \in Nat
  BY DEF TypeOK
<1>3. ImagesOf(current) \subseteq Images
  BY <1>2 DEF ImagesOf
<1>4. asked \cup framed \subseteq ImagesOf(current)
  BY <1>1 DEF SlotsInv
<1>5. handed' \in Nat /\ (asked \cup framed)' \subseteq ImagesOf(current)
  <2>1. CASE image
    <3>1. handed + 1 \in DOMAIN images[current]
      BY <2>1, <1>2 DEF image
    <3> QED
      BY <2>1, <3>1, <1>2, <1>4 DEF image, ImagesOf
  <2>2. CASE context
    BY <2>2, <1>2, <1>4 DEF context
  <2> QED
    BY <2>1, <2>2
<1>6. \A s \in Slots : ImagesOf(s)' = ImagesOf(s)
  BY <1>1 DEF ImagesOf
<1>7. TypeOK'
  BY <1>1, <1>3, <1>5 DEF TypeOK
<1>8. ImagesOf(current)' = ImagesOf(current)
  BY <1>1 DEF ImagesOf
<1>9. GivenOK'
  BY <1>1, <1>5, <1>8 DEF GivenOK
<1>10. \A s \in Slots : endedAt'[s] <= submitted'
  BY <1>1 DEF SlotsInv
<1>11. \A r, s \in Slots : r # s => ImagesOf(r)' \cap ImagesOf(s)' = {}
  BY <1>6 DEF SlotsInv
<1>12. \A s \in Slots, w \in queued' :
         w.uses \cap ImagesOf(s)' # {} =>
           w.at <= endedAt'[s] \/ (phase' = "open" /\ s = current')
  BY <1>1, <1>6 DEF SlotsInv
<1> QED
  BY <1>7, <1>9, <1>10, <1>11, <1>12 DEF SlotsInv, GivenOK

\* A dispatch of the open frame is over the open slot's images only.
LEMMA AcceptKeeps ==
  ASSUME TypeOK, SlotsInv, NumbersInv, NEW U, Accept(U), UNCHANGED arenas,
         U = {} \/ (phase = "open" /\ U \subseteq asked \cup framed)
  PROVE  SlotsInv'
<1>1. /\ queued' = queued \cup {[num |-> accepted', at |-> submitted', uses |-> U]}
      /\ submitted' = submitted + 1
  BY DEF Accept
<1>2. /\ images' = images /\ endedAt' = endedAt /\ phase' = phase /\ current' = current
      /\ asked' = asked /\ framed' = framed
  BY DEF arenas, slots, given
<1>3. \A s \in Slots : ImagesOf(s)' = ImagesOf(s)
  BY <1>2 DEF ImagesOf
<1>4. \A s \in Slots : endedAt'[s] <= submitted'
  BY <1>1, <1>2 DEF TypeOK, SlotsInv, NumbersInv
<1>5. \A s \in Slots : U \cap ImagesOf(s) # {} => phase = "open" /\ s = current
  BY DEF SlotsInv, TypeOK
<1>6. ImagesOf(current)' = ImagesOf(current)
  BY <1>2 DEF ImagesOf
<1>7. GivenOK'
  BY <1>2, <1>6 DEF SlotsInv, GivenOK
<1>8. \A r, s \in Slots : r # s => ImagesOf(r)' \cap ImagesOf(s)' = {}
  BY <1>3 DEF SlotsInv
<1>9. ASSUME NEW s \in Slots, NEW w \in queued', w.uses \cap ImagesOf(s)' # {}
      PROVE  w.at <= endedAt'[s] \/ (phase' = "open" /\ s = current')
  <2>1. CASE w \in queued
    BY <2>1, <1>2, <1>3, <1>9 DEF SlotsInv
  <2>2. CASE w.uses = U
    BY <2>2, <1>2, <1>3, <1>5, <1>9
  <2> QED
    BY <2>1, <2>2, <1>1
<1> QED
  BY <1>4, <1>7, <1>8, <1>9 DEF SlotsInv, GivenOK

\* The other steps that leave slots, images and what is given alone.
LEMMA StillKeeps ==
  ASSUME TypeOK, SlotsInv, UNCHANGED <<images, endedAt, current, asked, framed>>,
         queued' \subseteq queued, submitted' = submitted \/ submitted' = submitted + 1,
         submitted \in Nat,
         phase' = phase \/ (phase # "open" /\ phase' \in {"shut", "preparing"})
  PROVE  SlotsInv'
<1>1. \A s \in Slots : ImagesOf(s)' = ImagesOf(s)
  BY DEF ImagesOf
<1>2. \A s \in Slots : endedAt'[s] <= submitted'
  BY DEF TypeOK, SlotsInv
<1>3. ImagesOf(current)' = ImagesOf(current)
  BY DEF ImagesOf
<1>4. GivenOK'
  BY <1>3 DEF SlotsInv, GivenOK
<1>5. \A r, s \in Slots : r # s => ImagesOf(r)' \cap ImagesOf(s)' = {}
  BY <1>1 DEF SlotsInv
<1>6. \A s \in Slots, w \in queued' :
        w.uses \cap ImagesOf(s)' # {} =>
          w.at <= endedAt'[s] \/ (phase' = "open" /\ s = current')
  BY <1>1 DEF SlotsInv
<1> QED
  BY <1>2, <1>4, <1>5, <1>6 DEF SlotsInv, GivenOK
\* begin takes a slot that is not open; a slot that never ended a frame opens.
LEMMA BeginKeeps ==
  ASSUME TypeOK, SlotsInv, NEW s \in Slots, begin(s)
  PROVE  TypeOK' /\ SlotsInv'
<1>1. /\ phase = "shut" /\ phase' \in {"open", "begun"} /\ current' = s
      /\ handed' = 0 /\ asked' = {} /\ framed' = {} /\ images' = images
      /\ endedAt' = endedAt /\ perSlot' = perSlot /\ want' = want /\ prepares' = prepares
      /\ queued' = queued /\ submitted' = submitted
  BY DEF begin, numbers, slots
<1>2. \A r \in Slots : ImagesOf(r)' = ImagesOf(r)
  BY <1>1 DEF ImagesOf
<1>3. TypeOK'
  BY <1>1 DEF TypeOK, Phases
<1>4. \A r \in Slots, w \in queued : w.uses \cap ImagesOf(r) # {} => w.at <= endedAt[r]
  BY <1>1 DEF SlotsInv
<1>5. (asked \cup framed)' = {}
  BY <1>1
<1>6. \A r, q \in Slots : r # q => ImagesOf(r)' \cap ImagesOf(q)' = {}
  BY <1>2 DEF SlotsInv
<1>7. \A r \in Slots : endedAt'[r] <= submitted'
  BY <1>1 DEF SlotsInv
<1>8. \A r \in Slots, w \in queued' : w.uses \cap ImagesOf(r)' # {} => w.at <= endedAt'[r]
  BY <1>1, <1>2, <1>4
<1> QED
  BY <1>3, <1>5, <1>6, <1>7, <1>8 DEF SlotsInv

\* The mark has reached the end of the slot's last frame.
LEMMA LooksKeeps ==
  ASSUME TypeOK, SlotsInv, BeginLooks \/ BeginSyncs \/ BeginMarks
  PROVE  TypeOK' /\ SlotsInv'
<1>1. /\ phase \in {"begun", "waiting", "syncing"} /\ phase' \in {"open", "waiting", "syncing"}
      /\ current' = current /\ handed' = handed /\ asked' = asked /\ framed' = framed
      /\ images' = images /\ endedAt' = endedAt /\ perSlot' = perSlot /\ want' = want
      /\ prepares' = prepares /\ queued' = queued /\ submitted' = submitted
  BY DEF BeginLooks, BeginSyncs, BeginMarks, Reclaim, Marks, Mark, numbers, slots, given
<1>2. asked \cup framed = {}
  BY <1>1 DEF SlotsInv
<1>3. \A s \in Slots : ImagesOf(s)' = ImagesOf(s)
  BY <1>1 DEF ImagesOf
<1>4. \A s \in Slots, w \in queued : w.uses \cap ImagesOf(s) # {} => w.at <= endedAt[s]
  BY <1>1 DEF SlotsInv
<1>5. \A r, s \in Slots : r # s => ImagesOf(r)' \cap ImagesOf(s)' = {}
  BY <1>3 DEF SlotsInv
<1>6. \A s \in Slots, w \in queued' : w.uses \cap ImagesOf(s)' # {} => w.at <= endedAt'[s]
  BY <1>1, <1>3, <1>4
<1>7. \A s \in Slots : endedAt'[s] <= submitted'
  BY <1>1 DEF SlotsInv
<1>8. (asked \cup framed)' = {}
  BY <1>1, <1>2
<1>9. TypeOK'
  BY <1>1 DEF TypeOK, Phases
<1> QED
  BY <1>5, <1>6, <1>7, <1>8, <1>9 DEF SlotsInv

\* What is queued over a slot that is not open is no later than the slot's end.
LEMMA EndKeeps ==
  ASSUME TypeOK, SlotsInv, NumbersInv, end
  PROVE  TypeOK' /\ SlotsInv'
<1>1. /\ phase = "open" /\ phase' = "shut" /\ current' = current /\ handed' = handed
      /\ asked' = asked /\ framed' = framed /\ images' = images /\ perSlot' = perSlot
      /\ want' = want /\ prepares' = prepares /\ queued' = queued /\ submitted' = submitted
      /\ endedAt' = [endedAt EXCEPT ![current] = submitted]
  BY DEF end, Ends, numbers, given
<1>2. submitted \in Nat /\ \A w \in queued : w.at <= submitted
  BY DEF NumbersInv
<1>3. endedAt'[current] = submitted /\ \A s \in Slots \ {current} : endedAt'[s] = endedAt[s]
  BY <1>1 DEF TypeOK
<1>4. TypeOK'
  <2>1. endedAt' \in [Slots -> Nat]
    BY <1>1, <1>2 DEF TypeOK
  <2> QED
    BY <2>1, <1>1 DEF TypeOK, Phases
<1>5. \A s \in Slots : ImagesOf(s)' = ImagesOf(s)
  BY <1>1 DEF ImagesOf
<1>6. \A r, s \in Slots : r # s => ImagesOf(r)' \cap ImagesOf(s)' = {}
  BY <1>5 DEF SlotsInv
<1>7. \A s \in Slots : endedAt'[s] <= submitted'
  BY <1>1, <1>2, <1>3 DEF SlotsInv
<1>8. ASSUME NEW s \in Slots, NEW w \in queued', w.uses \cap ImagesOf(s)' # {}
      PROVE  w.at <= endedAt'[s]
  BY <1>1, <1>2, <1>3, <1>5, <1>8 DEF SlotsInv
<1> QED
  BY <1>1, <1>4, <1>6, <1>7, <1>8 DEF SlotsInv

(***************************************************************************)
(* Every step keeps the invariant.                                         *)
(***************************************************************************)
LEMMA PreparesKeep ==
  ASSUME IInv, Prepares
  PROVE  IInv'
<1> USE DEF IInv
<1>1. NumbersInv'
  BY StillNumbers DEF Prepares, prepare, PrepareOne, PrepareFails, PrepareDone
<1>2. ASSUME NEW n \in 0 .. MaxCount, prepare(n)
      PROVE  TypeOK' /\ SlotsInv'
  <2>1. phase' \in {"shut", "preparing"} /\ releaseAll /\ UNCHANGED <<numbers, given>>
    BY <1>2 DEF prepare
  <2>2. n \in Nat /\ prepares + 1 \in Nat /\ <<>> \in Seq(Images)
    BY ArenasAssumption DEF TypeOK
  <2>3. TypeOK'
    BY <1>2, <2>1, <2>2 DEF prepare, releaseAll, given, TypeOK, Phases
  <2> QED
    BY <2>1, <2>3, ReleasesKeeps
<1>3. PrepareOne => TypeOK' /\ SlotsInv'
  BY PrepareOneKeeps
<1>4. ASSUME PrepareFails PROVE TypeOK' /\ SlotsInv'
  <2>1. phase' = "shut" /\ releaseAll /\ UNCHANGED <<numbers, given>>
    BY <1>4 DEF PrepareFails, Undone
  <2>2. <<>> \in Seq(Images)
    OBVIOUS
  <2>3. TypeOK'
    BY <1>4, <2>1, <2>2 DEF PrepareFails, releaseAll, given, TypeOK, Phases
  <2> QED
    BY <2>1, <2>3, ReleasesKeeps
<1>5. ASSUME PrepareDone PROVE TypeOK' /\ SlotsInv'
  <2>1. /\ phase # "open" /\ phase' = "shut" /\ perSlot' = want /\ UNCHANGED <<images, endedAt, current, asked, framed>>
        /\ handed' = handed /\ want' = want /\ prepares' = prepares
        /\ queued' = queued /\ submitted' = submitted
    BY <1>5 DEF PrepareDone, numbers, given
  <2>2. SlotsInv'
    BY <2>1, StillKeeps DEF NumbersInv
  <2> QED
    BY <2>1, <2>2 DEF TypeOK, Phases
<1> QED
  BY <1>1, <1>2, <1>3, <1>4, <1>5 DEF Prepares

LEMMA FramesKeep ==
  ASSUME IInv, Frames
  PROVE  IInv'
<1> USE DEF IInv
<1>1. NumbersInv'
  <2>1. CASE BeginLooks
    BY <2>1, ReclaimNumbers DEF BeginLooks
  <2>2. CASE BeginMarks
    BY <2>2, MarkNumbers DEF BeginMarks, Marks
  <2>3. CASE UNCHANGED numbers
    BY <2>3, StillNumbers
  <2> QED
    BY <2>1, <2>2, <2>3 DEF Frames, begin, BeginSyncs, image, context, end
<1>2. TypeOK' /\ SlotsInv'
  BY BeginKeeps, LooksKeeps, GivenKeeps, EndKeeps DEF Frames
<1> QED
  BY <1>1, <1>2

LEMMA PoolStepKeeps ==
  ASSUME IInv, PoolStep
  PROVE  IInv'
<1> USE DEF IInv
<1>1. TypeOK'
  BY DEF PoolStep, arenas, slots, given, TypeOK
<1>2. UNCHANGED arenas
  BY DEF PoolStep
<1>3. CASE Renders
  <2>1. PICK U \in SUBSET (asked \cup framed) : Accept(U)
    BY <1>3 DEF Renders
  <2>2. phase = "open"
    BY <1>3 DEF Renders
  <2> QED
    BY <1>1, <1>2, <2>1, <2>2, AcceptKeeps, AcceptNumbers
<1>4. CASE Others
  BY <1>1, <1>2, <1>4, AcceptKeeps, AcceptNumbers DEF Others
<1>5. CASE Pooling
  <2>1. NumbersInv'
    BY <1>5, RefuseNumbers, FinishNumbers, ReportNumbers, ReclaimNumbers, MarkNumbers DEF Pooling
  <2>2. queued' \subseteq queued /\ (submitted' = submitted \/ submitted' = submitted + 1)
    BY <1>5, FinishNumbers DEF Pooling, Refuse, Finish, Report, Reclaim, Mark
  <2>3. UNCHANGED <<images, endedAt, current, asked, framed>> /\ phase' = phase
    BY <1>2 DEF arenas, slots, given
  <2>4. SlotsInv'
    BY <2>2, <2>3, StillKeeps DEF NumbersInv
  <2> QED
    BY <1>1, <2>1, <2>4
<1> QED
  BY <1>3, <1>4, <1>5 DEF PoolStep

LEMMA NextKeeps ==
  ASSUME IInv, [ArenasNext]_vars
  PROVE  IInv'
<1>1. CASE UNCHANGED vars
  <2>1. UNCHANGED <<numbers, images, endedAt, current, asked, framed>> /\ phase' = phase
    BY <1>1 DEF vars, arenas, slots, given
  <2>2. TypeOK'
    BY <1>1 DEF IInv, TypeOK, vars, arenas, slots, given
  <2>3. NumbersInv'
    BY <2>1, StillNumbers DEF IInv
  <2>4. queued' \subseteq queued /\ submitted' = submitted
    BY <2>1 DEF numbers
  <2>5. SlotsInv'
    BY <2>1, <2>4, StillKeeps DEF IInv, NumbersInv
  <2> QED
    BY <2>2, <2>3, <2>5 DEF IInv
<1> QED
  BY <1>1, PreparesKeep, FramesKeep, PoolStepKeeps DEF ArenasNext

(***************************************************************************)
(* The inductive invariant of the arenas: the numbers, and that what is    *)
(* queued over a slot is no later than the end of the slot's last frame.   *)
(***************************************************************************)
THEOREM ArenasInvariance == ArenasSpec => []IInv
  BY SlotsInit, NextKeeps, PTL DEF ArenasSpec

(***************************************************************************)
(* begin opens a slot only when the device is done with its images: for    *)
(* any number of slots, with refused dispatches, reports that are late or  *)
(* never come, other callers, and prepares in between.                     *)
(***************************************************************************)
THEOREM FramesAreIdle == ArenasSpec => BeginFindsIdle
<1>1. ASSUME IInv, IInv', [ArenasNext]_vars, phase # "open", phase' = "open"
      PROVE  Unused(ImagesOf(current))'
  <2>1. endedAt'[current'] <= completed' /\ current' \in Slots
    <3>1. ~UNCHANGED vars /\ ~Prepares /\ ~PoolStep
      BY <1>1 DEF vars, arenas, PoolStep, Prepares, prepare, PrepareOne, PrepareFails, PrepareDone
    <3>2. Frames
      BY <1>1, <3>1 DEF ArenasNext
    <3>3. ASSUME NEW s \in Slots, begin(s)
          PROVE  endedAt'[current'] <= completed'
      <4>1. endedAt[s] = 0 /\ endedAt' = endedAt /\ current' = s
        BY <1>1, <3>3 DEF begin, slots
      <4> QED
        BY <1>1, <4>1 DEF IInv, NumbersInv
    <3>4. ASSUME BeginLooks \/ BeginMarks
          PROVE  endedAt'[current'] <= completed'
      <4>1. Retired /\ endedAt' = endedAt /\ current' = current
        BY <1>1, <3>4 DEF BeginLooks, BeginMarks, slots
      <4>2. endedAt[current] \in Nat /\ completed' \in Nat
        BY <1>1 DEF IInv, TypeOK, NumbersInv
      <4> QED
        BY <4>1, <4>2 DEF Retired
    <3>5. ~BeginSyncs /\ ~image /\ ~context /\ ~end
      BY <1>1 DEF BeginSyncs, image, context, end
    <3>6. current' \in Slots
      BY <1>1 DEF IInv, TypeOK
    <3> QED
      BY <3>2, <3>3, <3>4, <3>5, <3>6 DEF Frames
  <2>2. \A s \in Slots, w \in queued : w.uses \cap ImagesOf(s) # {} => w.at <= endedAt[s]
    BY <1>1 DEF IInv, SlotsInv
  <2>3. ASSUME NEW w \in queued', w.uses \cap ImagesOf(current)' # {}
        PROVE  FALSE
    <3>1. queued' = queued /\ images' = images /\ endedAt' = endedAt
      BY <1>1 DEF vars, arenas, ArenasNext, PoolStep, Prepares, prepare, PrepareOne, PrepareFails,
         PrepareDone, Frames, begin, BeginLooks, BeginSyncs, BeginMarks, image, context, end,
         Reclaim, Marks, Mark, numbers, slots
    <3>2. ImagesOf(current)' = ImagesOf(current') 
      BY <3>1 DEF ImagesOf
    <3>3. w.at <= endedAt'[current']
      BY <2>1, <2>2, <2>3, <3>1, <3>2
    <3>4. completed' < w.at /\ completed' \in Nat /\ w.at \in Nat
      BY <1>1 DEF IInv, NumbersInv
    <3>5. endedAt'[current'] \in Nat
      BY <1>1 DEF IInv, TypeOK
    <3> QED
      BY <2>1, <3>3, <3>4, <3>5
  <2> QED
    BY <2>3 DEF Unused
<1>2. IInv /\ IInv' /\ [ArenasNext]_vars
      => [phase # "open" /\ phase' = "open" => Unused(ImagesOf(current))']_vars
  BY <1>1
<1> QED
  BY ArenasInvariance, <1>2, PTL DEF ArenasSpec, BeginFindsIdle

-----------------------------------------------------------------------------
(* The images of the slots. *)

LEMMA LeastOfMany ==
  ASSUME NEW T \in SUBSET Nat, T # {}
  PROVE  \E x \in T : \A y \in T : x <= y
<1>1. PICK R : R = OpToRel(<, Nat)
  BY Zenon
<1>2. IsWellFoundedOn(R, Nat)
  BY <1>1, NatLessThanWellFounded, Zenon
<1>3. ASSUME NEW x \in Nat, NEW y \in Nat, x < y PROVE <<x, y>> \in R
  BY <1>1, <1>3, Zenon DEF OpToRel
<1>4. PICK x \in T : \A y \in T : ~ (<<y, x>> \in R)
  BY <1>2, WFMin, Zenon
<1>5. \A y \in T : ~ (y < x)
  BY <1>3, <1>4
<1> QED
  BY <1>4, <1>5

\* A slot that is not full is filled, or one before it is.
LEMMA FilledWhenDone ==
  ASSUME TypeOK, FillInv, phase = "preparing", \A s \in Slots : ~Filling(s)
  PROVE  \A s \in Slots : Len(images[s]) = want
<1> DEFINE short == {s \in Slots : Len(images[s]) # want}
<1>1. short \in SUBSET Nat
  BY ArenasAssumption DEF Slots
<1>2. ASSUME short # {} PROVE FALSE
  <2>1. PICK s \in short : \A r \in short : s <= r
    BY <1>1, <1>2, LeastOfMany
  <2>2. s \in Nat /\ \A r \in Slots : r \in Nat
    BY <1>1, ArenasAssumption DEF Slots
  <2>3. \A r \in Slots : r < s => Len(images[r]) = want
    BY <2>1, <2>2
  <2>4. Len(images[s]) \in Nat /\ want \in Nat /\ Len(images[s]) <= want
    BY <2>1 DEF TypeOK, FillInv
  <2>5. Len(images[s]) < want
    BY <2>1, <2>4
  <2> QED
    BY <2>1, <2>3, <2>5 DEF Filling
<1> QED
  BY <1>2

LEMMA FillInit == ArenasInit => FillInv
<1> SUFFICES ASSUME ArenasInit PROVE FillInv
  OBVIOUS
<1>1. phase = "shut" /\ perSlot = 0 /\ \A s \in Slots : images[s] = <<>>
  BY DEF ArenasInit
<1> QED
  BY <1>1 DEF FillInv

\* Given back, the slots are all empty.
LEMMA ReleasedFill ==
  ASSUME releaseAll, want' \in Nat
  PROVE  FillInv'
<1>1. perSlot' = 0 /\ \A s \in Slots : images'[s] = <<>>
  BY DEF releaseAll
<1> QED
  BY <1>1 DEF FillInv

LEMMA PrepareOneFills ==
  ASSUME TypeOK, FillInv, PrepareOne
  PROVE  FillInv'
<1>1. PICK s \in Slots, b \in Images \ Held :
        Filling(s) /\ images' = [images EXCEPT ![s] = Append(@, b)]
  BY DEF PrepareOne
<1>2. images[s] \in Seq(Images) /\ images \in [Slots -> Seq(Images)]
  BY DEF TypeOK
<1>3. images'[s] = Append(images[s], b) /\ \A r \in Slots \ {s} : images'[r] = images[r]
  BY <1>1, <1>2
<1>4. phase = "preparing" /\ phase' = "preparing" /\ want' = want /\ want \in Nat
  BY DEF PrepareOne, TypeOK
<1>5. Len(images[s]) \in Nat /\ Len(images[s]) < want /\ Len(images'[s]) = Len(images[s]) + 1
  BY <1>1, <1>2, <1>3 DEF Filling
<1>6. \A r \in Slots : Len(images'[r]) <= want
  BY <1>3, <1>4, <1>5 DEF FillInv
<1>7. b \notin ImagesOf(s)
  BY <1>1 DEF Held
<1>8. \A i \in DOMAIN images[s] : images[s][i] # b
  BY <1>7 DEF ImagesOf
<1>9. ASSUME NEW i \in DOMAIN images'[s], NEW j \in DOMAIN images'[s],
             images'[s][i] = images'[s][j]
      PROVE  i = j
  <2> DEFINE n == Len(images[s])
  <2>1. DOMAIN images'[s] = 1 .. n + 1 /\ DOMAIN images[s] = 1 .. n
    BY <1>2, <1>3
  <2>2. images'[s][n + 1] = b /\ \A k \in 1 .. n : images'[s][k] = images[s][k]
    BY <1>2, <1>3
  <2>3. \A k \in 1 .. n : images[s][k] # b
    BY <1>8, <2>1
  <2>4. \A k, m \in 1 .. n : images[s][k] = images[s][m] => k = m
    BY <2>1, <1>5 DEF FillInv
  <2> HIDE DEF n
  <2>5. n \in Nat
    BY <1>5 DEF n
  <2>6. i \in 1 .. n + 1 /\ j \in 1 .. n + 1
    BY <2>1
  <2>7. (i \in 1 .. n \/ i = n + 1) /\ (j \in 1 .. n \/ j = n + 1)
    BY <2>5, <2>6
  <2>8. CASE i \in 1 .. n /\ j \in 1 .. n
    BY <1>9, <2>2, <2>4, <2>8
  <2>9. CASE i = n + 1 \/ j = n + 1
    BY <1>9, <2>2, <2>3, <2>7, <2>9
  <2> QED
    BY <2>7, <2>8, <2>9
<1>10. \A r \in Slots : \A i, j \in DOMAIN images'[r] : images'[r][i] = images'[r][j] => i = j
  BY <1>3, <1>9 DEF FillInv
<1> QED
  BY <1>4, <1>6, <1>10 DEF FillInv

(***************************************************************************)
(* Every step keeps the slots filled as FillInv has them: outside prepare  *)
(* nothing touches the images.                                             *)
(***************************************************************************)
LEMMA NextFills ==
  ASSUME IInv, IInv', FillInv, [ArenasNext]_vars
  PROVE  FillInv'
<1>1. want' \in Nat
  BY DEF IInv, TypeOK
<1>2. ASSUME NEW n \in 0 .. MaxCount, prepare(n) PROVE FillInv'
  BY <1>1, <1>2, ReleasedFill DEF prepare
<1>3. CASE PrepareOne
  BY <1>3, PrepareOneFills DEF IInv
<1>4. CASE PrepareFails
  BY <1>1, <1>4, ReleasedFill DEF PrepareFails, Undone
<1>5. CASE PrepareDone
  <2>1. /\ phase = "preparing" /\ phase' = "shut" /\ perSlot' = want /\ images' = images
        /\ \A s \in Slots : ~Filling(s)
    BY <1>5 DEF PrepareDone
  <2>2. \A s \in Slots : Len(images[s]) = want
    BY <2>1, FilledWhenDone DEF IInv
  <2> QED
    BY <2>1, <2>2 DEF FillInv
<1>6. CASE Frames \/ PoolStep \/ UNCHANGED vars
  <2>1. images' = images /\ perSlot' = perSlot /\ want' = want
    BY <1>6 DEF Frames, begin, BeginLooks, BeginSyncs, BeginMarks, image, context, end,
       PoolStep, vars, arenas, slots
  <2>2. phase = "preparing" <=> phase' = "preparing"
    BY <1>6 DEF Frames, begin, BeginLooks, BeginSyncs, BeginMarks, image, context, end,
       PoolStep, vars, arenas
  <2> QED
    BY <2>1, <2>2 DEF FillInv
<1> QED
  BY <1>2, <1>3, <1>4, <1>5, <1>6 DEF ArenasNext, Prepares

\* A slot whose images are all different has as many as it is long.
LEMMA CountedByLength ==
  ASSUME TypeOK, FillInv, NEW s \in Slots
  PROVE  Cardinality(ImagesOf(s)) = Len(images[s])
<1> DEFINE n == Len(images[s])
           D == 1 .. n
<1>1. images[s] \in Seq(Images) /\ n \in Nat /\ D = DOMAIN images[s]
  BY DEF TypeOK
<1>2. IsFiniteSet(D) /\ Cardinality(D) = n
  BY <1>1, FS_Interval
<1>3. images[s] \in [D -> ImagesOf(s)]
  BY <1>1 DEF ImagesOf
<1>4. \A i, j \in D : images[s][i] = images[s][j] => i = j
  BY <1>1 DEF FillInv
<1>5. \A b \in ImagesOf(s) : \E i \in D : images[s][i] = b
  BY <1>1 DEF ImagesOf
<1> HIDE DEF D, n
<1>6. images[s] \in Bijection(D, ImagesOf(s))
  BY <1>3, <1>4, <1>5 DEF Bijection, Injection, Surjection, IsInjective
<1>7. ExistsBijection(D, ImagesOf(s))
  BY <1>6 DEF ExistsBijection
<1>8. Cardinality(ImagesOf(s)) = Cardinality(D)
  BY <1>2, <1>7, FS_Bijection
<1> QED
  BY <1>2, <1>8 DEF n

(***************************************************************************)
(* Outside prepare every slot has the images that were agreed on, each its *)
(* own, or none has any: for any number of slots and images, with prepares *)
(* that run out of room half way.                                          *)
(***************************************************************************)
THEOREM SlotsAreWhole == ArenasSpec => []AllOrNothing
<1>1. ArenasSpec => []FillInv
  BY ArenasInvariance, FillInit, NextFills, PTL DEF ArenasSpec
<1>2. ASSUME IInv, FillInv PROVE AllOrNothing
  BY <1>2, CountedByLength DEF IInv, SlotsInv, FillInv, AllOrNothing
<1> QED
  BY <1>1, <1>2, ArenasInvariance, PTL
-----------------------------------------------------------------------------
(***************************************************************************)
(* The player                                                              *)
(***************************************************************************)

LEMMA LateExact ==
  ASSUME NEW due \in Nat, frame \in Nat, frame < frames, due > frame
  PROVE  Late(due) \in Nat /\ Least(frame, frames) + Late(due) = Least(due, frames)
<1>1. frames \in Nat
  BY PlayerAssumption
<1> QED
  BY <1>1 DEF Late, Least

LEMMA Products ==
  ASSUME NEW a \in Nat, NEW b \in Nat
  PROVE  a * b \in Nat /\ b * a = a * b /\ (b + 1) * a = a * b + a
  OBVIOUS

\* A conversion to a whole number falls short of what it converts by one at most,
\* and never goes past it.
LEMMA TruncationIs ==
  ASSUME NEW x \in Nat, NEW d \in Nat \ {0}, NEW n \in Truncations(x, d)
  PROVE  n \in Nat /\ n * d <= x /\ x <= (n + 1) * d
<1>1. PICK q \in Nat : q = x \div d
  OBVIOUS
<1>2. PICK r \in 0 .. d - 1 : r = x % d /\ x = d * q + r
  BY <1>1
<1>3. PICK m \in Nat : m = d * q /\ q * d = m /\ (q + 1) * d = m + d
  BY Products
<1>4. x = m + r /\ r \in Nat /\ r < d
  BY <1>2, <1>3
<1>5. CASE n = q
  BY <1>3, <1>4, <1>5
<1>6. CASE x > 0 /\ r = 0 /\ n = q - 1
  <2>1. q # 0
    <3>1. q = 0 => d * q = 0
      OBVIOUS
    <3> QED
      BY <1>3, <1>4, <1>6, <3>1
  <2>2. n \in Nat /\ n + 1 = q
    BY <1>6, <2>1
  <2>3. (n + 1) * d = d * n + d /\ n * d = d * n /\ d * n \in Nat
    BY <2>2, Products
  <2>4. (n + 1) * d = m
    BY <1>3, <2>2
  <2> QED
    BY <1>4, <1>6, <2>2, <2>3, <2>4
<1> QED
  BY <1>1, <1>2, <1>5, <1>6 DEF Truncations

\* The loop wakes up a tick before the frame's moment, or later.
LEMMA SleptFor ==
  ASSUME NEW f \in Nat, NEW tick \in Moments(f), NEW t \in Nat, t >= tick
  PROVE  f * Span <= (t + 1) * Periods
<1>1. f * Span \in Nat /\ Periods \in Nat \ {0}
  BY PlayerAssumption
<1>2. tick \in Nat /\ f * Span <= (tick + 1) * Periods
  BY <1>1, TruncationIs DEF Moments
<1>3. (tick + 1) * Periods <= (t + 1) * Periods
  <2>1. PICK k \in Nat : t + 1 = tick + 1 + k
    BY <1>2
  <2>2. (t + 1) * Periods = (tick + 1) * Periods + k * Periods /\ k * Periods \in Nat
    BY <1>1, <1>2, <2>1
  <2> QED
    BY <1>1, <1>2, <2>2
<1> QED
  BY <1>1, <1>2, <1>3

\* The frame that is due has come, and the one after the next has not.
LEMMA DueIs ==
  ASSUME NEW t \in Nat, NEW due \in Dues(t)
  PROVE  due \in Nat /\ due * Span <= t * Periods /\ t * Periods <= (due + 1) * Span
<1>1. t * Periods \in Nat /\ Span \in Nat \ {0}
  BY PlayerAssumption
<1> QED
  BY <1>1, TruncationIs DEF Dues

\* Time only adds to what the loop may be ahead.
LEMMA TimeHelps ==
  ASSUME NEW t \in Nat
  PROVE  /\ t * Periods \in Nat /\ (t + 1) * Periods = t * Periods + Periods
         /\ Periods \in Nat
  BY PlayerAssumption

LEMMA PlayerStarts == PlayerInit => PlayerInv
<1> SUFFICES ASSUME PlayerInit PROVE PlayerInv
  OBVIOUS
<1>1. 0 \in Slots /\ 0 \in Plates
  BY ArenasAssumption DEF Slots, Plates
<1>2. \A s \in Slots : images[s] = <<s>> /\ <<s>> \in Seq(Images) /\ ImagesOf(s) = {s}
  <2> SUFFICES ASSUME NEW s \in Slots
               PROVE  images[s] = <<s>> /\ <<s>> \in Seq(Images) /\ ImagesOf(s) = {s}
    OBVIOUS
  <2>1. images[s] = <<s>> /\ s \in Images
    BY PlayerAssumption DEF PlayerInit
  <2>2. DOMAIN <<s>> = {1} /\ <<s>>[1] = s /\ <<s>> \in Seq(Images)
    BY <2>1
  <2> QED
    BY <2>1, <2>2 DEF ImagesOf
<1>3. TypeOK
  BY <1>1, <1>2, ArenasAssumption DEF PlayerInit, TypeOK, Phases
<1>4. SlotsInv
  BY <1>2 DEF PlayerInit, Init, SlotsInv
<1>5. IInv
  BY <1>3, <1>4, NumbersInit DEF IInv, PlayerInit
<1>6. copies = <<>> /\ Len(copies) = 0 /\ copies \in Seq([plate : Plates, slot : Slots, behind : Nat])
  BY DEF PlayerInit
<1>7. PlayerTypeOK
  BY <1>1, <1>3, <1>6 DEF PlayerInit, PlayerTypeOK, Nothing
<1>8. LoopInv /\ TickAhead /\ CopiesInv
  <2>1. frame = 0 /\ now = 0 /\ 0 * Span = 0 /\ (0 + 1) * Periods >= 0 /\ frames > 0
    BY PlayerAssumption DEF PlayerInit
  <2>2. TickAhead
    BY <2>1 DEF TickAhead
  <2>3. LoopInv
    BY <2>1, PlayerAssumption DEF PlayerInit, LoopInv, Nothing
  <2>4. CopiesInv
    <3>1. 1 .. Len(copies) = {}
      BY <1>6
    <3> QED
      BY <3>1 DEF CopiesInv
  <2> QED
    BY <2>2, <2>3, <2>4
<1>9. EveryFrameOnce
  BY PlayerAssumption DEF PlayerInit, EveryFrameOnce, Least, Nothing
<1> QED
  BY <1>5, <1>7, <1>8, <1>9 DEF PlayerInv

(***************************************************************************)
(* What the player does to the arenas is what their callers may do, so     *)
(* their invariant goes on holding here.                                   *)
(***************************************************************************)
LEMMA StepsOfArenas ==
  ASSUME PlayerTypeOK, LoopInv, PlayerNext
  PROVE  [ArenasNext]_vars
<1>1. CASE Begin
  <2>1. frame % kSlots \in Slots
    BY ArenasAssumption DEF PlayerTypeOK, Slots
  <2> QED
    BY <1>1, <2>1 DEF Begin, ArenasNext, Frames
<1>2. CASE Waits
  BY <1>2 DEF Waits, ArenasNext, Frames
<1>3. CASE Acquire \/ Starves \/ Ended
  BY <1>3 DEF Acquire, Starves, Ended, ArenasNext, Frames
<1>4. CASE Dispatches
  <2>1. phase = "open" /\ CanDispatch /\ Accept(framed) /\ UNCHANGED arenas
    BY <1>4 DEF Dispatches, LoopInv
  <2>2. CASE framed = {}
    BY <2>1, <2>2 DEF ArenasNext, PoolStep, Others
  <2>3. CASE framed # {}
    BY <2>1, <2>3 DEF ArenasNext, PoolStep, Renders
  <2> QED
    BY <2>2, <2>3
<1>5. CASE Finishes
  BY <1>5 DEF Finishes, ArenasNext, PoolStep, Pooling
<1>6. CASE OtherCallers
  BY <1>6 DEF OtherCallers, ArenasNext, PoolStep, Pooling, Others
<1>7. CASE Top \/ Done \/ Decode \/ Upload \/ Commit \/ Sleeps \/ Tick \/ Copies
  BY <1>7 DEF Top, Done, Decode, Upload, Commit, Sleeps, Tick, Copies
<1> QED
  BY <1>1, <1>2, <1>3, <1>4, <1>5, <1>6, <1>7 DEF PlayerNext, Loop

(***************************************************************************)
(* The loop and its counts.                                                *)
(***************************************************************************)

LoopTypes ==
  /\ now \in Nat /\ frame \in Nat /\ shown \in Nat \cup {Nothing}
  /\ pc \in {"top", "begin", "acquire", "decode", "upload", "commit", "render", "sleep", "done"}
  /\ count \in [presented : Nat, dropped : Nat, starved : Nat]
  /\ policy \in [frames : Nat, drops : Nat, repeatRun : Nat]

Counts == LoopTypes /\ LoopInv /\ EveryFrameOnce /\ TickAhead

LEMMA TopCounts ==
  ASSUME Counts, Top
  PROVE  Counts'
<1>1. pc = "top" /\ frame < frames /\ phase' = phase /\ now' = now /\ shown' = shown
  BY DEF Top, vars, arenas
<1>2. now \in Nat /\ frame \in Nat /\ shown < frame /\ shown < frames
  BY <1>1 DEF Counts, LoopTypes, LoopInv
<1>3. pc' \in {"begin", "done"} /\ (pc' = "begin" => frame' < frames)
  BY DEF Top, Goes
<1>4. PICK due \in Dues(now) : Drops(due) \/ OnTime(due)
  BY DEF Top
<1>5. due \in Nat /\ due * Span <= now * Periods
  BY <1>2, DueIs
<1>6. PICK late : late = Late(due)
  OBVIOUS
<1>7. CASE Drops(due)
  <2>1. /\ frame' = due /\ late \in Nat /\ Least(frame, frames) + late = Least(due, frames)
        /\ due > frame
    BY <1>1, <1>2, <1>7, <1>5, <1>6, LateExact DEF Drops
  <2>2. /\ count' = [count EXCEPT !.dropped = @ + late]
        /\ policy' = [policy EXCEPT !.drops = @ + late, !.repeatRun = @ + late]
    BY <1>7, <1>6 DEF Drops, onDrop
  <2>3. /\ count'.presented = count.presented /\ count'.dropped = count.dropped + late
        /\ policy'.frames = policy.frames /\ policy'.drops = policy.drops + late
        /\ policy'.repeatRun = policy.repeatRun + late
    BY <2>2 DEF Counts, LoopTypes
  <2>4. LoopTypes'
    <3>1. count' \in [presented : Nat, dropped : Nat, starved : Nat]
      BY <2>1, <2>2 DEF Counts, LoopTypes
    <3>2. policy' \in [frames : Nat, drops : Nat, repeatRun : Nat]
      <4>1. policy.drops + late \in Nat /\ policy.repeatRun + late \in Nat
        BY <2>1 DEF Counts, LoopTypes
      <4>2. policy' = [frames |-> policy.frames, drops |-> policy.drops + late,
                       repeatRun |-> policy.repeatRun + late]
        BY <2>2 DEF Counts, LoopTypes
      <4> QED
        BY <4>1, <4>2 DEF Counts, LoopTypes
    <3> QED
      BY <1>1, <1>2, <1>3, <1>5, <2>1, <3>1, <3>2 DEF Counts, LoopTypes
  <2>5. LoopInv' /\ TickAhead'
    <3>1. LoopInv'
      BY <1>1, <1>2, <1>3, <1>5, <2>1 DEF Counts, LoopInv, LoopTypes, Nothing
    <3>2. due * Span <= (now + 1) * Periods
      <4>1. due * Span \in Int
        BY <1>5, PlayerAssumption
      <4> QED
        BY <1>2, <1>5, <4>1, TimeHelps
    <3> QED
      BY <1>1, <2>1, <3>1, <3>2 DEF TickAhead
  <2>6. Least(frame, frames) \in Nat /\ Least(due, frames) \in Nat
    BY <1>2, <1>5, PlayerAssumption DEF Least
  <2>7. /\ count.presented \in Nat /\ count.dropped \in Nat /\ policy.repeatRun \in Nat
        /\ shown \in Int
    BY DEF Counts, LoopTypes, Nothing
  <2>8. EveryFrameOnce'
    BY <1>1, <2>1, <2>3, <2>6, <2>7 DEF Counts, EveryFrameOnce, Least
  <2> QED
    BY <2>4, <2>5, <2>8 DEF Counts
<1>8. CASE OnTime(due)
  <2>1. UNCHANGED <<now, frame, shown, count, policy>>
    BY <1>1, <1>8 DEF OnTime
  <2>2. LoopTypes'
    BY <1>3, <2>1 DEF Counts, LoopTypes
  <2>3. LoopInv' /\ TickAhead'
    BY <1>1, <1>2, <1>3, <2>1 DEF Counts, LoopInv, TickAhead
  <2>4. EveryFrameOnce'
    BY <2>1 DEF Counts, EveryFrameOnce, Least
  <2> QED
    BY <2>2, <2>3, <2>4 DEF Counts
<1> QED
  BY <1>7, <1>8, <1>4

LEMMA EndedCounts ==
  ASSUME Counts, Ended
  PROVE  Counts'
<1>1. /\ pc = "render" /\ pc' = "sleep" /\ now' = now /\ shown' = frame /\ frame' = frame + 1
      /\ count' = [count EXCEPT !.presented = @ + 1]
      /\ policy' = [policy EXCEPT !.frames = @ + 1, !.repeatRun = 0]
  BY DEF Ended, Goes, onFrame
<1>2. frame \in Nat /\ frame < frames /\ frames \in Nat
  BY <1>1, PlayerAssumption DEF Counts, LoopTypes, LoopInv
<1>3. LoopTypes'
  <2>1. count' \in [presented : Nat, dropped : Nat, starved : Nat]
    BY <1>1 DEF Counts, LoopTypes
  <2>2. policy' = [frames |-> policy.frames + 1, drops |-> policy.drops, repeatRun |-> 0]
    BY <1>1 DEF Counts, LoopTypes
  <2>3. policy' \in [frames : Nat, drops : Nat, repeatRun : Nat]
    BY <2>2 DEF Counts, LoopTypes
  <2> QED
    BY <1>1, <1>2, <2>1, <2>3 DEF Counts, LoopTypes
<1>4. LoopInv' /\ TickAhead'
  BY <1>1, <1>2 DEF LoopInv, TickAhead
<1>5. /\ count'.presented = count.presented + 1 /\ count'.dropped = count.dropped
      /\ policy'.frames = policy.frames + 1 /\ policy'.drops = policy.drops
      /\ policy'.repeatRun = 0
  BY <1>1 DEF Counts, LoopTypes
<1>6. Least(frame, frames) = frame /\ Least(frame + 1, frames) = frame + 1
  BY <1>2 DEF Least
<1>7. count.presented \in Nat /\ count.dropped \in Nat
  BY DEF Counts, LoopTypes
<1>8. Least(frame, frames)' = Least(frame + 1, frames)
  BY <1>1 DEF Least
<1>9. EveryFrameOnce'
  BY <1>1, <1>2, <1>5, <1>6, <1>7, <1>8 DEF Counts, EveryFrameOnce
<1> QED
  BY <1>3, <1>4, <1>9 DEF Counts

\* The other steps move on inside a frame, or outside the loop.
LEMMA MovesCount ==
  ASSUME Counts, UNCHANGED <<frame, policy, shown>>,
         now' = now \/ now' = now + 1,
         count' = count \/ count' = [count EXCEPT !.starved = @ + 1],
         \/ pc' = pc /\ (pc \in {"decode", "upload", "commit", "render"} => phase' = phase)
         \/ pc = "top" /\ frame >= frames /\ pc' = "done"
         \/ pc = "begin" /\ pc' = "acquire"
         \/ /\ pc \in {"acquire", "decode", "upload", "commit"}
            /\ pc' \in {"decode", "upload", "commit", "render"} /\ phase' = "open"
         \/ pc = "sleep" /\ now' = now /\ pc' = "top" /\ \E tick \in Moments(frame) : now >= tick
  PROVE  Counts'
<1>1. now \in Nat /\ frame \in Nat
  BY DEF Counts, LoopTypes
<1>2. LoopTypes'
  BY DEF Counts, LoopTypes
<1>3. LoopInv'
  BY DEF Counts, LoopInv
<1>4. TickAhead'
  <2>1. /\ now * Periods \in Nat /\ (now + 1) * Periods = now * Periods + Periods
        /\ (now + 1 + 1) * Periods = (now + 1) * Periods + Periods
        /\ Periods \in Nat /\ frame * Span \in Nat
    BY <1>1, TimeHelps, PlayerAssumption
  <2>2. CASE pc = "sleep" /\ pc' = "top"
    BY <1>1, <2>2, SleptFor DEF TickAhead
  <2>3. CASE pc # "sleep" \/ pc' = "sleep"
    <3>1. pc' # "sleep" => frame * Span <= (now + 1) * Periods
      BY <2>3 DEF Counts, TickAhead
    <3>2. CASE now' = now
      BY <3>1, <3>2 DEF TickAhead
    <3>3. CASE now' = now + 1
      <4>1. pc' # "sleep" => frame * Span <= (now + 1 + 1) * Periods
        BY <1>1, <2>1, <3>1
      <4> QED
        BY <3>3, <4>1 DEF TickAhead
    <3> QED
      BY <3>2, <3>3
  <2> QED
    BY <2>2, <2>3
<1>5. count'.presented = count.presented /\ count'.dropped = count.dropped
  BY DEF Counts, LoopTypes
<1>6. EveryFrameOnce'
  BY <1>5 DEF Counts, EveryFrameOnce, Least
<1> QED
  BY <1>2, <1>3, <1>4, <1>6 DEF Counts

LEMMA CountsKept ==
  ASSUME Counts, PlayerNext
  PROVE  Counts'
<1>1. CASE Top
  BY <1>1, TopCounts
<1>2. CASE Ended
  BY <1>2, EndedCounts
<1>3. CASE Done \/ Sleeps
  BY <1>3, MovesCount DEF Done, Sleeps, Goes, loop, vars, arenas
<1>4. CASE Begin
  BY <1>4, MovesCount DEF Begin, Goes, loop
<1>5. CASE Waits
  <2>1. phase \in {"begun", "waiting", "syncing"} /\ UNCHANGED player
    BY <1>5 DEF Waits, BeginLooks, BeginSyncs, BeginMarks
  <2>2. pc \notin {"decode", "upload", "commit", "render"}
    BY <2>1 DEF Counts, LoopInv
  <2> QED
    BY <2>1, <2>2, MovesCount DEF player, loop
<1>6. CASE Acquire \/ Starves
  BY <1>6, MovesCount DEF Acquire, Starves, context, Goes, loop
<1>7. CASE Decode \/ Upload \/ Commit
  <2>1. phase = "open" /\ phase' = phase
    BY <1>7 DEF Decode, Upload, Commit, Counts, LoopInv, vars, arenas
  <2> QED
    BY <1>7, <2>1, MovesCount DEF Decode, Upload, Commit, Goes, loop
<1>8. CASE Dispatches \/ Finishes \/ OtherCallers
  BY <1>8, MovesCount DEF Dispatches, Finishes, OtherCallers, arenas, loop, player
<1>9. CASE Tick \/ Copies
  BY <1>9, MovesCount DEF Tick, Copies, vars, arenas, loop
<1> QED
  BY <1>1, <1>2, <1>3, <1>4, <1>5, <1>6, <1>7, <1>8, <1>9 DEF PlayerNext, Loop

(***************************************************************************)
(* The plates and the copies.                                              *)
(***************************************************************************)

RingTypes ==
  /\ plates \in [Plates -> [inFlight : BOOLEAN, submission : Nat]] /\ at \in Plates
  /\ copies \in Seq([plate : Plates, slot : Slots, behind : Nat])
  /\ written \in [Plates -> Nat \cup {Nothing}]
  /\ content \in [Slots -> Nat \cup {Nothing}]
  /\ jobs \subseteq [num : Nat, slot : Slots, frame : Nat]

LEMMA CopyTyped ==
  ASSUME RingTypes, NEW i \in 1 .. Len(copies)
  PROVE  copies[i].plate \in Plates /\ copies[i].behind \in Nat
<1> DEFINE Kind == [plate : Plates, slot : Slots, behind : Nat]
<1>1. copies \in Seq(Kind)
  BY DEF RingTypes
<1> HIDE DEF Kind
<1>2. copies[i] \in Kind
  BY <1>1, ElementOfSeq
<1> QED
  BY <1>2 DEF Kind

LEMMA RingTypesKept ==
  ASSUME RingTypes, TypeOK, NumbersInv, frame \in Nat, PlayerNext
  PROVE  RingTypes'
<1> USE DEF RingTypes
<1>1. CASE Acquire
  BY <1>1 DEF Acquire, copied
<1>2. CASE Decode
  BY <1>2 DEF Decode, copied
<1>3. CASE Upload
  <2>1. [plate |-> at, slot |-> current, behind |-> accepted] \in [plate : Plates, slot : Slots, behind : Nat]
    BY DEF TypeOK, NumbersInv
  <2> QED
    BY <1>3, <2>1 DEF Upload, ring
<1>4. CASE Commit
  <2>1. PlateAfter(at) \in Plates /\ Committed \in Nat
    BY ArenasAssumption DEF Plates, PlateAfter, Committed, NumbersInv
  <2> QED
    BY <1>4, <2>1 DEF Commit, copied
<1>5. CASE Dispatches
  <2>1. accepted' \in Nat /\ current \in Slots
    BY <1>5 DEF Dispatches, Accept, NumbersInv, TypeOK
  <2>2. UNCHANGED <<ring, copied>>
    BY <1>5 DEF Dispatches
  <2>3. jobs' \subseteq jobs \cup {[num |-> accepted', slot |-> current, frame |-> frame]}
    BY <1>5 DEF Dispatches
  <2> QED
    BY <2>1, <2>2, <2>3 DEF ring, copied
<1>6. CASE Copies
  <2>1. Head(copies) \in [plate : Plates, slot : Slots, behind : Nat]
        /\ Tail(copies) \in Seq([plate : Plates, slot : Slots, behind : Nat])
    <3> DEFINE Kind == [plate : Plates, slot : Slots, behind : Nat]
    <3>1. copies \in Seq(Kind) /\ copies # <<>>
      BY <1>6 DEF Copies
    <3> HIDE DEF Kind
    <3>2. Head(copies) \in Kind /\ Tail(copies) \in Seq(Kind)
      BY <3>1, HeadTailProperties
    <3> QED
      BY <3>2 DEF Kind
  <2> QED
    BY <1>6, <2>1 DEF Copies, ring
<1>7. CASE Finishes
  BY <1>7 DEF Finishes, ring, copied
<1>8. CASE UNCHANGED <<ring, copied, jobs>>
  BY <1>8 DEF ring, copied
<1> QED
  BY <1>1, <1>2, <1>3, <1>4, <1>5, <1>6, <1>7, <1>8
     DEF PlayerNext, Loop, Top, Done, Begin, Waits, Starves, Ended, Sleeps, Tick, OtherCallers, player

\* A copy as CopiesInv has it.
CopyOK(c) ==
  /\ finished <= c.behind /\ c.behind <= accepted
  /\ \/ plates[c.plate].inFlight /\ c.behind < plates[c.plate].submission
     \/ pc = "commit" /\ c.plate = at
  /\ pc \in {"decode", "upload"} => c.plate # at

LEMMA CopiesAre == CopiesInv <=> \A i \in 1 .. Len(copies) : CopyOK(copies[i])
  BY DEF CopiesInv, CopyOK

\* Steps that leave plates and copies alone.
LEMMA CopiesStill ==
  ASSUME CopiesInv, RingTypes, NumbersInv, UNCHANGED <<plates, at, copies>>,
         finished' = finished \/ CopiedBefore(finished'), accepted' = accepted \/ accepted' = accepted + 1,
         pc' = pc \/ (pc # "commit" /\ (pc' \in {"decode", "upload"} => pc \in {"decode", "upload"}))
  PROVE  CopiesInv'
<1>1. ASSUME NEW i \in 1 .. Len(copies) PROVE CopyOK(copies[i])'
  <2>1. CopyOK(copies[i])
    BY CopiesAre
  <2>2. copies[i].behind \in Nat
    BY CopyTyped
  <2>3. finished' <= copies[i].behind
    BY <2>1 DEF CopyOK, CopiedBefore
  <2>4. copies[i].behind <= accepted'
    BY <2>1, <2>2 DEF CopyOK, NumbersInv
  <2> QED
    BY <2>1, <2>3, <2>4 DEF CopyOK
<1> QED
  BY <1>1 DEF CopiesInv, CopyOK

LEMMA AcquireCopies ==
  ASSUME CopiesInv, RingTypes, NumbersInv, Acquire
  PROVE  CopiesInv'
<1>1. /\ pc = "acquire" /\ pc' = "decode" /\ ~Busy /\ UNCHANGED <<at, copies, finished, accepted>>
      /\ plates' = [plates EXCEPT ![at].inFlight = FALSE]
  BY DEF Acquire, context, numbers, copied, Goes
<1>2. ASSUME NEW i \in 1 .. Len(copies) PROVE CopyOK(copies[i])'
  <2>1. CopyOK(copies[i]) /\ copies[i].plate \in Plates /\ copies[i].behind \in Nat
    BY CopiesAre, CopyTyped
  <2>2. plates[copies[i].plate].inFlight /\ copies[i].behind < plates[copies[i].plate].submission
    BY <1>1, <2>1 DEF CopyOK
  <2>3. reported <= copies[i].behind /\ reported \in Nat
    BY <2>1 DEF CopyOK, NumbersInv
  <2>4. copies[i].plate # at
    <3>1. plates[copies[i].plate].submission \in Nat
      BY <2>1 DEF RingTypes
    <3>2. reported < plates[copies[i].plate].submission
      BY <2>1, <2>2, <2>3, <3>1
    <3> QED
      BY <1>1, <2>2, <3>2, <2>3, <3>1 DEF Busy
  <2>5. plates'[copies[i].plate] = plates[copies[i].plate]
    BY <1>1, <2>1, <2>4 DEF RingTypes
  <2> QED
    BY <1>1, <2>1, <2>2, <2>4, <2>5 DEF CopyOK
<1> QED
  BY <1>1, <1>2 DEF CopiesInv, CopyOK

LEMMA UploadCopies ==
  ASSUME CopiesInv, RingTypes, NumbersInv, Upload
  PROVE  CopiesInv'
<1> DEFINE new == [plate |-> at, slot |-> current, behind |-> accepted]
<1>1. /\ pc = "upload" /\ pc' = "commit" /\ UNCHANGED <<plates, at, finished, accepted>>
      /\ copies' = Append(copies, new)
  BY DEF Upload, vars, numbers, ring, Goes
<1>2. new.plate = at /\ new.behind = accepted
  OBVIOUS
<1> HIDE DEF new
<1>3. copies \in Seq([plate : Plates, slot : Slots, behind : Nat]) /\ Len(copies) \in Nat
  BY DEF RingTypes
<1>4. /\ Len(copies') = Len(copies) + 1 /\ copies'[Len(copies) + 1] = new
      /\ \A i \in 1 .. Len(copies) : copies'[i] = copies[i]
  BY <1>1, <1>3
<1>5. ASSUME NEW i \in 1 .. Len(copies) PROVE CopyOK(copies[i])'
  <2>1. CopyOK(copies[i]) /\ copies'[i] = copies[i]
    BY <1>4, CopiesAre
  <2> QED
    BY <1>1, <2>1 DEF CopyOK
<1>6. ASSUME NEW i \in 1 .. Len(copies'), i = Len(copies) + 1 PROVE CopyOK(copies[i])'
  BY <1>6, <1>1, <1>2, <1>4 DEF CopyOK, NumbersInv
<1>7. \A i \in 1 .. Len(copies') : i \in 1 .. Len(copies) \/ i = Len(copies) + 1
  BY <1>3, <1>4
<1>8. \A i \in 1 .. Len(copies') : CopyOK(copies[i])'
  BY <1>5, <1>6, <1>7
<1> QED
  BY <1>8 DEF CopiesInv, CopyOK

LEMMA CommitCopies ==
  ASSUME CopiesInv, RingTypes, NumbersInv, Commit
  PROVE  CopiesInv'
<1>1. /\ pc = "commit" /\ pc' = "render" /\ UNCHANGED <<copies, finished, accepted>>
      /\ plates' = [plates EXCEPT ![at] = [inFlight |-> TRUE, submission |-> submitted + 1]]
  BY DEF Commit, vars, numbers, copied, Committed, Goes
<1>2. ASSUME NEW i \in 1 .. Len(copies) PROVE CopyOK(copies[i])'
  <2>1. CopyOK(copies[i]) /\ copies[i].plate \in Plates /\ copies[i].behind \in Nat
    BY CopiesAre, CopyTyped
  <2>2. CASE copies[i].plate = at
    <3>1. plates'[at] = [inFlight |-> TRUE, submission |-> submitted + 1]
      BY <1>1 DEF RingTypes
    <3>2. copies[i].behind < submitted + 1
      BY <2>1 DEF CopyOK, NumbersInv
    <3> QED
      BY <1>1, <2>1, <2>2, <3>1, <3>2 DEF CopyOK
  <2>3. CASE copies[i].plate # at
    <3>1. plates'[copies[i].plate] = plates[copies[i].plate]
      BY <1>1, <2>1, <2>3 DEF RingTypes
    <3> QED
      BY <1>1, <2>1, <2>3, <3>1 DEF CopyOK
  <2> QED
    BY <2>2, <2>3
<1> QED
  BY <1>1, <1>2 DEF CopiesInv, CopyOK

LEMMA CopyCopies ==
  ASSUME CopiesInv, RingTypes, Copies
  PROVE  CopiesInv'
<1>1. /\ UNCHANGED <<plates, at, finished, accepted>> /\ pc' = pc
      /\ copies # <<>> /\ copies' = Tail(copies)
  BY DEF Copies, vars, numbers, ring
<1>2. copies \in Seq([plate : Plates, slot : Slots, behind : Nat])
  BY DEF RingTypes
<1>3. ASSUME NEW i \in 1 .. Len(copies')
      PROVE  i + 1 \in 1 .. Len(copies) /\ copies'[i] = copies[i + 1]
  BY <1>1, <1>2, <1>3
<1>4. ASSUME NEW i \in 1 .. Len(copies') PROVE CopyOK(copies[i])'
  <2>1. CopyOK(copies[i + 1]) /\ copies'[i] = copies[i + 1]
    BY <1>3, CopiesAre
  <2> QED
    BY <1>1, <2>1 DEF CopyOK
<1> QED
  BY <1>4 DEF CopiesInv, CopyOK

LEMMA CopiesKept ==
  ASSUME CopiesInv, RingTypes, NumbersInv, PlayerNext
  PROVE  CopiesInv'
<1>1. CASE Acquire
  BY <1>1, AcquireCopies
<1>2. CASE Upload
  BY <1>2, UploadCopies
<1>3. CASE Commit
  BY <1>3, CommitCopies
<1>4. CASE Copies
  BY <1>4, CopyCopies
<1>5. CASE Top \/ Done \/ Decode \/ Sleeps \/ Tick
  BY <1>5, CopiesStill DEF Top, Done, Decode, Sleeps, Tick, Goes, vars, numbers, ring, copied
<1>6. CASE Begin \/ Starves \/ Ended
  BY <1>6, CopiesStill DEF Begin, begin, Starves, context, Ended, end, Goes, numbers, ring, copied
<1>7. CASE Waits
  BY <1>7, CopiesStill DEF Waits, BeginLooks, BeginSyncs, BeginMarks, Reclaim, Marks, Mark, numbers,
     player, ring, copied
<1>8. CASE Dispatches
  BY <1>8, CopiesStill DEF Dispatches, Accept, ring, copied
<1>9. CASE Finishes
  BY <1>9, CopiesStill DEF Finishes, Finish, ring, copied
<1>10. CASE OtherCallers
  BY <1>10, CopiesStill DEF OtherCallers, Accept, Refuse, Report, Reclaim, Mark, player, ring, copied
<1> QED
  BY <1>1, <1>2, <1>3, <1>4, <1>5, <1>6, <1>7, <1>8, <1>9, <1>10 DEF PlayerNext, Loop

-----------------------------------------------------------------------------
LEMMA PlayerKeeps ==
  ASSUME PlayerInv, [PlayerNext]_pvars
  PROVE  PlayerInv'
<1>1. IInv /\ TypeOK /\ NumbersInv /\ Counts /\ RingTypes /\ CopiesInv /\ LoopInv /\ frame \in Nat
  BY DEF PlayerInv, IInv, PlayerTypeOK, Counts, LoopTypes, RingTypes
<1>2. CASE PlayerNext
  <2>1. IInv'
    BY <1>1, <1>2, StepsOfArenas, NextKeeps DEF PlayerInv
  <2>2. Counts' /\ RingTypes' /\ CopiesInv'
    BY <1>1, <1>2, CountsKept, RingTypesKept, CopiesKept
  <2> QED
    BY <2>1, <2>2 DEF PlayerInv, IInv, PlayerTypeOK, Counts, LoopTypes, RingTypes
<1>3. CASE UNCHANGED pvars
  <2>1. UNCHANGED vars /\ UNCHANGED <<now, frame, count, policy, shown, pc, plates, at, written, copies, content, jobs>>
    BY <1>3 DEF pvars, player, loop, ring, copied
  <2>2. IInv'
    BY <1>1, <2>1, NextKeeps
  <2>3. UNCHANGED <<phase, finished, accepted>>
    BY <2>1 DEF vars, arenas, numbers
  <2>4. Counts' /\ RingTypes'
    BY <1>1, <2>1, <2>3 DEF Counts, LoopTypes, LoopInv, EveryFrameOnce, TickAhead, Least, RingTypes
  <2>5. CopiesInv'
    BY <1>1, <2>1, <2>3, CopiesStill
  <2> QED
    BY <2>2, <2>4, <2>5 DEF PlayerInv, IInv, PlayerTypeOK, Counts, LoopTypes, RingTypes
<1> QED
  BY <1>2, <1>3

(***************************************************************************)
(* The inductive invariant of the player over arenas and pool.             *)
(***************************************************************************)
THEOREM PlayerInvariance == PlayerSpec => []PlayerInv
  BY PlayerStarts, PlayerKeeps, PTL DEF PlayerSpec

(***************************************************************************)
(* A plate is not decoded into while an upload is yet to read it, although *)
(* it is committed to the pool's count and comes back by the backend's.    *)
(***************************************************************************)
THEOREM PlatesAreKept == PlayerSpec => []PlateKept
<1>1. PlayerInv => PlateKept
  BY DEF PlayerInv, CopiesInv, PlateKept
<1> QED
  BY PlayerInvariance, <1>1, PTL

(***************************************************************************)
(* Every frame up to the loop's is presented or dropped, once.             *)
(***************************************************************************)
THEOREM FramesAreCounted == PlayerSpec => []EveryFrameOnce
<1>1. PlayerInv => EveryFrameOnce
  BY DEF PlayerInv
<1> QED
  BY PlayerInvariance, <1>1, PTL

(***************************************************************************)
(* The loop keeps to the clock, for any rate and however long it runs: a   *)
(* frame is begun at most a tick before its moment and not after the next  *)
(* one's, although the sleep and the drop are rounded apart.               *)
(***************************************************************************)
THEOREM LoopKeepsTime == PlayerSpec => OnTheClock
<1>1. ASSUME PlayerInv, PlayerInv', [PlayerNext]_pvars, pc = "top", pc' # "top"
      PROVE  /\ frame' * Span <= (now + 1) * Periods
             /\ pc' = "begin" => now * Periods <= (frame' + 1) * Span
  <2>1. Top \/ Done
    BY <1>1 DEF PlayerNext, Loop, Begin, Waits, Acquire, Starves, Decode, Upload, Commit, Dispatches,
       Ended, Sleeps, Tick, Copies, Finishes, OtherCallers, Goes, pvars, player
  <2>2. now' = now /\ now \in Nat /\ frame \in Nat /\ frame' \in Nat /\ pc' # "sleep"
    BY <1>1, <2>1 DEF Top, Done, Goes, loop, PlayerInv, PlayerTypeOK
  <2>3. frame' * Span <= (now + 1) * Periods
    BY <1>1, <2>2 DEF PlayerInv, TickAhead
  <2>4. ASSUME pc' = "begin" PROVE now * Periods <= (frame' + 1) * Span
    <3>1. PICK due \in Dues(now) : Drops(due) \/ OnTime(due)
      BY <2>1, <2>4 DEF Top, Done, Goes
    <3>2. due \in Nat /\ now * Periods <= (due + 1) * Span
      BY <2>2, <3>1, DueIs
    <3>3. due <= frame'
      BY <2>2, <3>1, <3>2 DEF Drops, OnTime
    <3>4. PICK k \in Nat : frame' = due + k
      BY <2>2, <3>2, <3>3
    <3>5. /\ (frame' + 1) * Span = (due + 1) * Span + k * Span
          /\ k * Span \in Nat /\ (due + 1) * Span \in Nat /\ now * Periods \in Nat
      BY <2>2, <3>2, <3>4, PlayerAssumption
    <3> QED
      BY <3>2, <3>5
  <2> QED
    BY <2>3, <2>4
<1>2. PlayerInv /\ PlayerInv' /\ [PlayerNext]_pvars
        => [pc = "top" /\ pc' # "top" =>
              /\ frame' * Span <= (now + 1) * Periods
              /\ pc' = "begin" => now * Periods <= (frame' + 1) * Span]_pvars
  BY <1>1
<1> QED
  BY PlayerInvariance, <1>2, PTL DEF PlayerSpec, OnTheClock

-----------------------------------------------------------------------------
(* The picture on its way. *)

Copy == [plate : Plates, slot : Slots, behind : Nat]

\* A later copy is none of the dispatch's concern.
LEMMA LaterCopy ==
  ASSUME NEW queue \in Seq(Copy), NEW from, NEW there, NEW s, NEW f, NEW num \in Nat,
         NEW new \in Copy, num <= new.behind, OnItsWay(queue, from, there, s, f, num)
  PROVE  OnItsWay(Append(queue, new), from, there, s, f, num)
<1> DEFINE after == Append(queue, new)
           n == Len(queue)
           mine == {i \in 1 .. n : queue[i].slot = s /\ queue[i].behind < num}
           more == {i \in 1 .. Len(after) : after[i].slot = s /\ after[i].behind < num}
<1>1. n \in Nat /\ Len(after) = n + 1 /\ after[n + 1] = new /\ \A i \in 1 .. n : after[i] = queue[i]
  OBVIOUS
<1>2. ~(new.behind < num)
  BY DEF Copy
<1> HIDE DEF after, n
<1>3. more = mine
  BY <1>1, <1>2
<1>4. \A i \in mine : after[i] = queue[i]
  BY <1>1
<1>5. /\ mine = {} => there[s] = f
      /\ \A i \in mine : (\A k \in mine : k <= i) => from[queue[i].plate] = f
  BY DEF OnItsWay, n
<1> HIDE DEF mine, more
<1>6. /\ more = {} => there[s] = f
      /\ \A i \in more : (\A k \in more : k <= i) => from[after[i].plate] = f
  BY <1>3, <1>4, <1>5
<1> QED
  BY <1>6 DEF OnItsWay, more, after

\* The copy that was just queued brings it.
LEMMA LatestCopy ==
  ASSUME NEW queue \in Seq(Copy), NEW from, NEW there, NEW f, NEW num \in Nat,
         NEW new \in Copy, new.behind < num, from[new.plate] = f
  PROVE  OnItsWay(Append(queue, new), from, there, new.slot, f, num)
<1> DEFINE after == Append(queue, new)
           n == Len(queue)
           more == {i \in 1 .. Len(after) : after[i].slot = new.slot /\ after[i].behind < num}
<1>1. n \in Nat /\ Len(after) = n + 1 /\ after[n + 1] = new
  OBVIOUS
<1> HIDE DEF after, n
<1>2. n + 1 \in more /\ \A i \in more : i \in 1 .. n + 1
  BY <1>1
<1> HIDE DEF more
<1>3. \A i \in more : (\A k \in more : k <= i) => i = n + 1
  BY <1>1, <1>2
<1>4. /\ more = {} => there[new.slot] = f
      /\ \A i \in more : (\A k \in more : k <= i) => from[after[i].plate] = f
  BY <1>1, <1>2, <1>3
<1> QED
  BY <1>4 DEF OnItsWay, more, after

\* The oldest copy is done: it was another's, or not the last, or it brought it.
LEMMA CopyDone ==
  ASSUME NEW queue \in Seq(Copy), queue # <<>>, NEW from, NEW there \in [Slots -> Nat \cup {Nothing}],
         NEW s \in Slots, NEW f, NEW num \in Nat, queue[1].behind < num,
         OnItsWay(queue, from, there, s, f, num)
  PROVE  OnItsWay(Tail(queue), from, [there EXCEPT ![queue[1].slot] = from[queue[1].plate]], s, f, num)
<1> DEFINE after == Tail(queue)
           n == Len(queue)
           then == [there EXCEPT ![queue[1].slot] = from[queue[1].plate]]
           mine == {i \in 1 .. n : queue[i].slot = s /\ queue[i].behind < num}
           left == {i \in 1 .. Len(after) : after[i].slot = s /\ after[i].behind < num}
<1>1. /\ n \in Nat /\ n >= 1 /\ Len(after) = n - 1
      /\ \A i \in 1 .. n - 1 : after[i] = queue[i + 1]
  OBVIOUS
<1>2. queue[1].slot \in Slots
  <2>1. \A c \in Copy : c.slot \in Slots
    BY DEF Copy
  <2>2. queue[1] \in Copy
    BY <1>1, ElementOfSeq
  <2> QED
    BY <2>1, <2>2
<1>3. /\ queue[1].slot = s => then[s] = from[queue[1].plate]
      /\ queue[1].slot # s => then[s] = there[s]
  BY <1>2
<1>4. /\ mine = {} => there[s] = f
      /\ \A i \in mine : (\A k \in mine : k <= i) => from[queue[i].plate] = f
  BY DEF OnItsWay
<1> HIDE DEF after, n, then
<1>5. \A i \in Nat : i \in left <=> i + 1 \in mine /\ i >= 1
  BY <1>1
<1>6. left \subseteq Nat /\ mine \subseteq Nat /\ \A i \in mine : i >= 1
  BY <1>1
<1>7. 1 \in mine <=> queue[1].slot = s
  BY <1>1
<1>8. \A i \in left : after[i] = queue[i + 1]
  BY <1>1
<1> HIDE DEF mine, left
<1>9. ASSUME left = {} PROVE then[s] = f
  <2>1. \A k \in mine : k = 1
    <3> SUFFICES ASSUME NEW k \in mine, k # 1 PROVE FALSE
      OBVIOUS
    <3>1. k - 1 \in Nat /\ k - 1 >= 1 /\ (k - 1) + 1 = k
      BY <1>6
    <3> QED
      BY <3>1, <1>5, <1>9
  <2>2. CASE 1 \in mine
    BY <2>1, <2>2, <1>3, <1>4, <1>7
  <2>3. CASE 1 \notin mine
    BY <2>1, <2>3, <1>3, <1>4, <1>7
  <2> QED
    BY <2>2, <2>3
<1>10. ASSUME NEW i \in left, \A k \in left : k <= i PROVE from[after[i].plate] = f
  <2>1. i + 1 \in mine /\ i \in Nat
    BY <1>5, <1>6
  <2>2. ASSUME NEW k \in mine PROVE k <= i + 1
    <3>1. CASE k = 1
      BY <3>1, <1>6
    <3>2. CASE k # 1
      <4>1. k - 1 \in Nat /\ k - 1 >= 1 /\ (k - 1) + 1 = k
        BY <3>2, <1>6
      <4>2. k - 1 \in left
        BY <4>1, <1>5
      <4> QED
        BY <4>1, <4>2, <1>10, <2>1
    <3> QED
      BY <3>1, <3>2
  <2> QED
    BY <2>1, <2>2, <1>4, <1>8
<1> QED
  BY <1>9, <1>10 DEF OnItsWay, left, after, then

\* A plate that no queued copy reads may be written.
LEMMA OtherPlate ==
  ASSUME NEW queue, NEW from \in [Plates -> Nat \cup {Nothing}], NEW there, NEW s, NEW f, NEW num,
         NEW p, NEW g, \A i \in 1 .. Len(queue) : queue[i].plate # p /\ queue[i].plate \in Plates,
         OnItsWay(queue, from, there, s, f, num)
  PROVE  OnItsWay(queue, [from EXCEPT ![p] = g], there, s, f, num)
<1>1. \A i \in 1 .. Len(queue) : [from EXCEPT ![p] = g][queue[i].plate] = from[queue[i].plate]
  OBVIOUS
<1> QED
  BY <1>1 DEF OnItsWay

\* When every copy was queued before both, two dispatches wait for the same.
LEMMA SameWait ==
  ASSUME NEW queue \in Seq(Copy), NEW from, NEW there, NEW s, NEW f, NEW num \in Nat, NEW next \in Nat,
         \A i \in 1 .. Len(queue) : queue[i].behind < num /\ queue[i].behind < next,
         OnItsWay(queue, from, there, s, f, num)
  PROVE  OnItsWay(queue, from, there, s, f, next)
<1>1. {i \in 1 .. Len(queue) : queue[i].slot = s /\ queue[i].behind < next}
        = {i \in 1 .. Len(queue) : queue[i].slot = s /\ queue[i].behind < num}
  OBVIOUS
<1> QED
  BY <1>1 DEF OnItsWay

\* The parts of PictureInv.
JobsFind ==
  \A j \in jobs : /\ \E w \in queued : w.num = j.num
                  /\ OnItsWay(copies, written, content, j.slot, j.frame, j.num)

Decoded ==
  /\ \A p \in Plates : written[p] <= frame
  /\ pc \notin {"upload", "commit", "render"} => \A p \in Plates : written[p] < frame
  /\ pc = "upload" => written[at] = frame

FrameFinds ==
  pc = "commit" \/ (pc = "render" /\ Uploaded)
    => OnItsWay(copies, written, content, current, frame, accepted + 1)

LEMMA PictureParts == PictureInv <=> JobsFind /\ Decoded /\ FrameFinds
  BY DEF PictureInv, JobsFind, Decoded, FrameFinds

\* What the types and the numbers say, at one place.
LEMMA PictureTypes ==
  ASSUME PlayerInv
  PROVE  /\ copies \in Seq(Copy) /\ RingTypes /\ TypeOK /\ NumbersInv /\ CopiesInv
         /\ written \in [Plates -> Nat \cup {Nothing}] /\ content \in [Slots -> Nat \cup {Nothing}]
         /\ frame \in Nat /\ now \in Nat /\ accepted \in Nat /\ finished \in Nat /\ current \in Slots
         /\ at \in Plates
         /\ \A j \in jobs : j.num \in Nat /\ j.slot \in Slots
         /\ \A w \in queued : finished < w.num /\ w.num <= accepted
         /\ \A i \in 1 .. Len(copies) : /\ copies[i].behind \in Nat /\ copies[i].behind <= accepted
                                        /\ copies[i].plate \in Plates
                                        /\ pc = "decode" => copies[i].plate # at
<1>1. RingTypes /\ NumbersInv /\ TypeOK /\ CopiesInv /\ frame \in Nat /\ now \in Nat
  BY DEF PlayerInv, IInv, PlayerTypeOK, RingTypes
<1>2. \A i \in 1 .. Len(copies) : copies[i].plate \in Plates /\ copies[i].behind \in Nat
  BY <1>1, CopyTyped
<1> QED
  BY <1>1, <1>2 DEF RingTypes, Copy, NumbersInv, TypeOK, CopiesInv

\* Steps that leave the pictures where they are.
LEMMA PicturesStill ==
  ASSUME PlayerInv, PlayerInv', PictureInv, UNCHANGED <<copies, written, content, jobs>>,
         queued \subseteq queued', accepted <= accepted'
  PROVE  /\ JobsFind'
         /\ (frame' = frame /\ current' = current /\ FrameFinds
               /\ (pc' \in {"commit", "render"} => pc' = pc \/ pc = "commit"))
              => FrameFinds'
<1>1. JobsFind'
  BY DEF PictureInv, JobsFind
<1>2. ASSUME frame' = frame, current' = current, FrameFinds,
             pc' \in {"commit", "render"} => pc' = pc \/ pc = "commit"
      PROVE  FrameFinds'
  <2> SUFFICES ASSUME (pc = "commit" \/ (pc = "render" /\ Uploaded))'
               PROVE  OnItsWay(copies', written', content', current', frame', accepted' + 1)
    BY DEF FrameFinds
  <2>1. Uploaded' <=> Uploaded
    BY <1>2 DEF Uploaded
  <2>2. OnItsWay(copies, written, content, current, frame, accepted + 1)
    BY <1>2, <2>1 DEF FrameFinds
  <2>3. accepted + 1 \in Nat /\ accepted' + 1 \in Nat /\ copies \in Seq(Copy)
        /\ \A i \in 1 .. Len(copies) : copies[i].behind < accepted + 1 /\ copies[i].behind < accepted' + 1
    <3>1. accepted \in Nat /\ accepted' \in Nat
      BY DEF PlayerInv, IInv, NumbersInv
    <3>2. accepted + 1 \in Nat /\ (accepted') + 1 \in Nat
      <4>1. accepted + 1 \in Nat
        BY <3>1
      <4>2. accepted' + 1 \in Nat
        <5>1. \A n \in Nat : n + 1 \in Nat
          OBVIOUS
        <5> QED
          BY <3>1, <5>1
      <4> QED
        BY <4>1, <4>2
    <3>3. copies \in Seq(Copy)
          /\ \A i \in 1 .. Len(copies) : copies[i].behind \in Nat /\ copies[i].behind <= accepted
      BY PictureTypes
    <3>4. ASSUME NEW i \in 1 .. Len(copies)
          PROVE  copies[i].behind < accepted + 1 /\ copies[i].behind < accepted' + 1
      BY <3>1, <3>3
    <3> QED
      BY <3>2, <3>3, <3>4
  <2>4. OnItsWay(copies, written, content, current, frame, accepted' + 1)
    BY <2>2, <2>3, SameWait
  <2> QED
    BY <2>4, <1>2
<1> QED
  BY <1>1, <1>2

LEMMA DecodePictures ==
  ASSUME PlayerInv, PictureInv, Decode
  PROVE  PictureInv'
<1>1. /\ pc = "decode" /\ pc' = "upload" /\ written' = [written EXCEPT ![at] = frame]
      /\ UNCHANGED <<copies, content, jobs, queued, frame, at>>
  BY DEF Decode, vars, numbers, loop, copied, Goes
<1>2. JobsFind'
  <2> SUFFICES ASSUME NEW j \in jobs
               PROVE  /\ \E w \in queued : w.num = j.num
                      /\ OnItsWay(copies, written', content, j.slot, j.frame, j.num)
    BY <1>1 DEF JobsFind
  <2>1. OnItsWay(copies, written, content, j.slot, j.frame, j.num) /\ \E w \in queued : w.num = j.num
    BY DEF PictureInv
  <2>2. \A i \in 1 .. Len(copies) : copies[i].plate # at /\ copies[i].plate \in Plates
    BY <1>1, PictureTypes
  <2>3. written \in [Plates -> Nat \cup {Nothing}]
    BY PictureTypes
  <2> QED
    BY <1>1, <2>1, <2>2, <2>3, OtherPlate
<1>3. Decoded'
  BY <1>1, PictureTypes DEF PictureInv, Decoded
<1>4. FrameFinds'
  BY <1>1 DEF FrameFinds
<1> QED
  BY <1>2, <1>3, <1>4 DEF PictureInv, JobsFind, Decoded, FrameFinds

LEMMA UploadPictures ==
  ASSUME PlayerInv, PictureInv, Upload
  PROVE  PictureInv'
<1> DEFINE new == [plate |-> at, slot |-> current, behind |-> accepted]
<1>1. /\ pc = "upload" /\ pc' = "commit" /\ copies' = Append(copies, new)
      /\ UNCHANGED <<written, content, jobs, queued, accepted, frame, at, current>>
  BY DEF Upload, vars, arenas, numbers, loop, ring, Goes
<1>2. new \in Copy /\ new.slot = current /\ new.behind = accepted /\ new.plate = at
  BY PictureTypes DEF Copy
<1>3. copies \in Seq(Copy) /\ accepted \in Nat /\ accepted + 1 \in Nat
  BY PictureTypes
<1> HIDE DEF new
<1>4. JobsFind'
  <2> SUFFICES ASSUME NEW j \in jobs
               PROVE  /\ \E w \in queued : w.num = j.num
                      /\ OnItsWay(copies', written, content, j.slot, j.frame, j.num)
    BY <1>1 DEF JobsFind
  <2>1. OnItsWay(copies, written, content, j.slot, j.frame, j.num) /\ \E w \in queued : w.num = j.num
    BY DEF PictureInv
  <2>2. j.num \in Nat /\ j.num <= new.behind
    BY <2>1, <1>2, PictureTypes
  <2> QED
    BY <1>1, <1>2, <1>3, <2>1, <2>2, LaterCopy
<1>5. Decoded'
  BY <1>1 DEF PictureInv, Decoded
<1>6. FrameFinds'
  <2>1. written[new.plate] = frame /\ new.behind < accepted + 1
    BY <1>1, <1>2, <1>3 DEF PictureInv
  <2>2. OnItsWay(copies', written, content, current, frame, accepted + 1)
    BY <1>1, <1>2, <1>3, <2>1, LatestCopy
  <2> QED
    BY <1>1, <2>2 DEF FrameFinds
<1> QED
  BY <1>4, <1>5, <1>6 DEF PictureInv, JobsFind, Decoded, FrameFinds

LEMMA DispatchPictures ==
  ASSUME PlayerInv, PlayerInv', PictureInv, Dispatches
  PROVE  PictureInv'
<1>1. /\ pc = "render" /\ pc' = pc /\ accepted' = accepted + 1
      /\ UNCHANGED <<copies, written, content, frame, at, current>>
      /\ queued \subseteq queued' /\ \E w \in queued' : w.num = accepted'
      /\ jobs' \subseteq jobs \cup {[num |-> accepted', slot |-> current, frame |-> frame]}
      /\ ~Uploaded => jobs' = jobs
  <2>1. Accept(framed) /\ pc = "render" /\ UNCHANGED <<arenas, loop, pc, ring, copied>>
    BY DEF Dispatches
  <2>2. accepted' = accepted + 1 /\ queued' = queued \cup {[num |-> accepted', at |-> submitted', uses |-> framed]}
    BY <2>1 DEF Accept
  <2>3. [num |-> accepted', at |-> submitted', uses |-> framed].num = accepted'
    OBVIOUS
  <2>4. \E w \in queued' : w.num = accepted'
    BY <2>2, <2>3
  <2>5. jobs' \subseteq jobs \cup {[num |-> accepted', slot |-> current, frame |-> frame]}
        /\ (~Uploaded => jobs' = jobs)
    BY DEF Dispatches
  <2> QED
    BY <2>1, <2>2, <2>4, <2>5 DEF arenas, loop, ring, copied
<1>2. accepted \in Nat /\ copies \in Seq(Copy) /\ accepted + 1 \in Nat /\ accepted' + 1 \in Nat
      /\ \A i \in 1 .. Len(copies) : copies[i].behind < accepted + 1 /\ copies[i].behind < accepted' + 1
  BY <1>1, PictureTypes
<1>3. JobsFind'
  <2> SUFFICES ASSUME NEW j \in jobs'
               PROVE  /\ \E w \in queued' : w.num = j.num
                      /\ OnItsWay(copies, written, content, j.slot, j.frame, j.num)
    BY <1>1 DEF JobsFind
  <2>1. CASE j \in jobs
    BY <1>1, <2>1 DEF PictureInv
  <2>2. CASE j \notin jobs
    BY <1>1, <2>2 DEF PictureInv
  <2> QED
    BY <2>1, <2>2
<1>4. Decoded'
  BY <1>1 DEF PictureInv, Decoded
<1>5. FrameFinds'
  <2> SUFFICES ASSUME Uploaded'
               PROVE  OnItsWay(copies', written', content', current', frame', accepted' + 1)
    BY <1>1 DEF FrameFinds
  <2>1. Uploaded
    BY <1>1 DEF Uploaded
  <2>2. OnItsWay(copies, written, content, current, frame, accepted + 1)
    BY <1>1, <2>1 DEF PictureInv
  <2>3. OnItsWay(copies, written, content, current, frame, accepted' + 1)
    BY <2>2, <1>2, SameWait
  <2> QED
    BY <2>3, <1>1
<1> QED
  BY <1>3, <1>4, <1>5 DEF PictureInv, JobsFind, Decoded, FrameFinds

LEMMA CopyPictures ==
  ASSUME PlayerInv, PictureInv, Copies
  PROVE  PictureInv'
<1>1. /\ copies # <<>> /\ copies' = Tail(copies)
      /\ content' = [content EXCEPT ![copies[1].slot] = written[copies[1].plate]]
      /\ copies[1].behind <= finished
      /\ UNCHANGED <<written, jobs, queued, accepted, frame, pc, at, current>>
  <2>1. copies # <<>> /\ Head(copies) = copies[1]
    BY PictureTypes DEF Copies
  <2> QED
    BY <2>1 DEF Copies, vars, arenas, numbers, loop, ring
<1>2. copies \in Seq(Copy) /\ copies[1].behind \in Nat /\ accepted + 1 \in Nat /\ finished <= accepted
  BY <1>1, PictureTypes, ElementOfSeq DEF Copy, NumbersInv
<1>3. ASSUME NEW s \in Slots, NEW f, NEW num \in Nat, finished < num,
             OnItsWay(copies, written, content, s, f, num)
      PROVE  OnItsWay(copies', written, content', s, f, num)
  <2>1. copies[1].behind < num /\ content \in [Slots -> Nat \cup {Nothing}]
    BY <1>1, <1>2, <1>3, PictureTypes
  <2> QED
    BY <1>1, <1>2, <1>3, <2>1, CopyDone
<1>4. JobsFind'
  <2> SUFFICES ASSUME NEW j \in jobs
               PROVE  /\ \E w \in queued : w.num = j.num
                      /\ OnItsWay(copies', written, content', j.slot, j.frame, j.num)
    BY <1>1 DEF JobsFind
  <2>1. OnItsWay(copies, written, content, j.slot, j.frame, j.num) /\ \E w \in queued : w.num = j.num
    BY DEF PictureInv
  <2>2. j.num \in Nat /\ j.slot \in Slots /\ finished < j.num
    BY <2>1, PictureTypes
  <2> QED
    BY <2>1, <2>2, <1>3
<1>5. Decoded'
  BY <1>1 DEF PictureInv, Decoded
<1>6. FrameFinds'
  <2> SUFFICES ASSUME pc = "commit" \/ (pc = "render" /\ Uploaded)
               PROVE  OnItsWay(copies', written, content', current, frame, accepted + 1)
    BY <1>1 DEF FrameFinds, Uploaded
  <2>1. OnItsWay(copies, written, content, current, frame, accepted + 1)
    BY DEF PictureInv
  <2>2. current \in Slots /\ finished < accepted + 1
    BY <1>2, PictureTypes
  <2> QED
    BY <2>1, <2>2, <1>2, <1>3
<1> QED
  BY <1>4, <1>5, <1>6 DEF PictureInv, JobsFind, Decoded, FrameFinds

LEMMA FinishPictures ==
  ASSUME PlayerInv, PictureInv, Finishes
  PROVE  PictureInv'
<1>1. /\ UNCHANGED <<copies, written, content, accepted, frame, pc, at, current>>
      /\ jobs' = {j \in jobs : j.num # finished'}
      /\ \E w \in queued : queued' = queued \ {w} /\ finished' = w.num
  BY DEF Finishes, Finish, Oldest, arenas, loop, ring, copied
<1>2. JobsFind'
  BY <1>1 DEF PictureInv, JobsFind
<1>3. Decoded'
  BY <1>1 DEF PictureInv, Decoded
<1>4. FrameFinds'
  BY <1>1 DEF PictureInv, FrameFinds, Uploaded
<1> QED
  BY <1>2, <1>3, <1>4 DEF PictureInv, JobsFind, Decoded, FrameFinds

LEMMA NextPictures ==
  ASSUME PlayerInv, PlayerInv', PictureInv, [PlayerNext]_pvars
  PROVE  PictureInv'
<1>1. FrameFinds /\ Decoded
  BY PictureParts
<1>2. CASE Decode
  BY <1>2, DecodePictures
<1>3. CASE Upload
  BY <1>3, UploadPictures
<1>4. CASE Dispatches
  BY <1>4, DispatchPictures
<1>5. CASE Copies
  BY <1>5, CopyPictures
<1>6. CASE Finishes
  BY <1>6, FinishPictures
<1>7. CASE Top \/ Ended
  <2>1. /\ pc \in {"top", "render"} /\ pc' \notin {"decode", "upload", "commit", "render"}
        /\ UNCHANGED <<copies, written, content, jobs, queued, accepted>>
    BY <1>7 DEF Top, Ended, end, Goes, vars, numbers, ring, copied
  <2>2. /\ pc = "top" => frame' >= frame /\ frame' \in Nat
        /\ pc = "render" => frame' = frame + 1
    <3>1. CASE Top
      <4>1. PICK due \in Dues(now) : Drops(due) \/ OnTime(due)
        BY <3>1 DEF Top
      <4>2. due \in Nat
        BY <4>1, DueIs, PictureTypes
      <4> QED
        BY <3>1, <4>1, <4>2, PictureTypes DEF Top, Drops, OnTime
    <3>2. CASE Ended
      BY <3>2, PictureTypes DEF Ended
    <3> QED
      BY <1>7, <3>1, <3>2
  <2>3. JobsFind'
    BY <2>1, PicturesStill, PictureTypes
  <2>4. written \in [Plates -> Nat \cup {Nothing}] /\ frame \in Nat
    BY PictureTypes
  <2>5. \A p \in Plates : written'[p] < frame'
    BY <1>1, <2>1, <2>2, <2>4 DEF Decoded, Nothing
  <2>6. \A p \in Plates : written'[p] <= frame'
    BY <2>1, <2>2, <2>4, <2>5 DEF Nothing
  <2>7. Decoded' /\ FrameFinds'
    BY <2>1, <2>5, <2>6 DEF Decoded, FrameFinds
  <2> QED
    BY <2>3, <2>7, PictureParts DEF PictureInv, JobsFind, Decoded, FrameFinds
<1>8. CASE Starves
  <2>1. /\ pc = "acquire" /\ pc' = "render"
        /\ UNCHANGED <<copies, written, content, jobs, queued, accepted, frame>>
    BY <1>8 DEF Starves, context, Goes, numbers, ring, copied
  <2>2. JobsFind'
    BY <2>1, PicturesStill, PictureTypes
  <2>3. Decoded'
    BY <1>1, <2>1 DEF Decoded
  <2>4. ~Uploaded'
    BY <1>1, <2>1, PictureTypes DEF Decoded, Uploaded, Nothing
  <2>5. FrameFinds'
    BY <2>1, <2>4 DEF FrameFinds
  <2> QED
    BY <2>2, <2>3, <2>5 DEF PictureInv, JobsFind, Decoded, FrameFinds
<1>9. CASE Begin \/ Acquire \/ Commit
  <2>1. /\ pc \in {"begin", "acquire", "commit"}
        /\ pc = "begin" => pc' = "acquire"
        /\ pc = "acquire" => pc' = "decode"
        /\ pc = "commit" => pc' = "render" /\ current' = current
        /\ UNCHANGED <<copies, written, content, jobs, queued, accepted, frame>>
    BY <1>9 DEF Begin, begin, Acquire, context, Commit, Goes, vars, arenas, numbers, loop, ring, copied
  <2>2. JobsFind' /\ FrameFinds'
    BY <1>1, <2>1, PicturesStill, PictureTypes DEF FrameFinds
  <2>3. Decoded'
    BY <1>1, <2>1 DEF Decoded
  <2> QED
    BY <2>2, <2>3 DEF PictureInv, JobsFind, Decoded, FrameFinds
<1>10. CASE Done \/ Waits \/ Sleeps \/ Tick \/ OtherCallers \/ UNCHANGED pvars
  <2>1. /\ UNCHANGED <<copies, written, content, jobs, frame, at, current>>
        /\ queued \subseteq queued' /\ (accepted' = accepted \/ accepted' = accepted + 1)
        /\ pc' = pc \/ (pc \in {"top", "sleep"} /\ pc' \in {"done", "top"})
    BY <1>10 DEF Done, Waits, BeginLooks, BeginSyncs, BeginMarks, Reclaim, Marks, Mark, Sleeps, Tick,
       OtherCallers, Accept, Refuse, Report, Goes, pvars, player, vars, arenas, slots, given, numbers,
       loop, ring, copied
  <2>2. accepted <= accepted'
    BY <2>1, PictureTypes
  <2>3. JobsFind' /\ FrameFinds'
    BY <1>1, <2>1, <2>2, PicturesStill
  <2>4. Decoded'
    BY <1>1, <2>1 DEF Decoded
  <2> QED
    BY <2>3, <2>4 DEF PictureInv, JobsFind, Decoded, FrameFinds
<1> QED
  BY <1>2, <1>3, <1>4, <1>5, <1>6, <1>7, <1>8, <1>9, <1>10 DEF PlayerNext, Loop

LEMMA InitPictures == PlayerInit => PictureInv
<1> SUFFICES ASSUME PlayerInit PROVE PictureInv
  OBVIOUS
<1>1. /\ jobs = {} /\ frame = 0 /\ pc = "top" /\ \A p \in Plates : written[p] = Nothing
  BY DEF PlayerInit
<1> QED
  BY <1>1 DEF PictureInv, Nothing

(***************************************************************************)
(* A dispatch of a frame reads the picture that was decoded for it: for    *)
(* any number of slots and frames, with refused dispatches and a backend   *)
(* that does not report.                                                   *)
(***************************************************************************)
THEOREM PicturesAreKept == PlayerSpec => []PictureKept
<1>1. ASSUME PlayerInv, PictureInv PROVE PictureKept
  <2> SUFFICES ASSUME NEW j \in jobs, CopiedBefore(j.num) PROVE content[j.slot] = j.frame
    BY DEF PictureKept
  <2>1. OnItsWay(copies, written, content, j.slot, j.frame, j.num)
    BY <1>1 DEF PictureInv
  <2>2. \A i \in 1 .. Len(copies) : copies[i].behind \in Nat /\ copies[i].behind >= j.num /\ j.num \in Nat
    BY <1>1, PictureTypes DEF CopiedBefore
  <2>3. \A i \in 1 .. Len(copies) : ~(copies[i].behind < j.num)
    BY <2>2
  <2> QED
    BY <2>1, <2>3 DEF OnItsWay
<1> QED
  BY <1>1, PlayerInvariance, InitPictures, NextPictures, PTL DEF PlayerSpec
=============================================================================

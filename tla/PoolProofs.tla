----------------------------- MODULE PoolProofs -----------------------------
(***************************************************************************)
(* That the pool keeps memory from being reused under queued work, for any *)
(* number of slots, buffers, submissions and any size classes: the         *)
(* invariant IInv of Pool is inductive, and implies the properties.        *)
(* First that every variable keeps its type; then that the table loses no  *)
(* slot and no memory of the driver's; at the end, that the counters are   *)
(* the sums they claim to be, and the budget is kept.                      *)
(***************************************************************************)
EXTENDS Pool, SequenceTheorems, FiniteSetTheorems, WellFoundedInduction, TLAPS

LEMMA DropsFront ==
  ASSUME NEW S, NEW q \in Seq(S), NEW n \in 0 .. Len(q)
  PROVE  /\ SubSeq(q, n + 1, Len(q)) \in Seq(S)
         /\ Len(SubSeq(q, n + 1, Len(q))) = Len(q) - n
         /\ \A i \in 1 .. Len(q) - n : SubSeq(q, n + 1, Len(q))[i] = q[i + n]
  OBVIOUS

LEMMA MarkIsNat == TypeOK => Published \in Nat /\ Marked \in Nat
  BY DEF TypeOK, Published, Marked, Later

LEMMA DrainedAreSlots ==
  ASSUME retiring \in Seq(RetiringRecord), NEW n \in 0 .. Len(retiring)
  PROVE  Drained(n) \subseteq Slots
<1>1. \A i \in 1 .. n : retiring[i] \in RetiringRecord
  BY ElementOfSeq
<1> QED BY <1>1 DEF Drained, RetiringRecord

\* Setting one field of a slot record to a value of its type gives another.
LEMMA FieldUpdates ==
  ASSUME NEW slot \in SlotRecord
  PROVE  /\ \A n \in Natives \cup {NoBuffer} : [slot EXCEPT !.native = n] \in SlotRecord
         /\ \A r \in Nat : [slot EXCEPT !.bytes = r] \in SlotRecord
         /\ \A r \in Nat : [slot EXCEPT !.asked = r] \in SlotRecord
         /\ [slot EXCEPT !.gen = @ + 1] \in SlotRecord
         /\ [slot EXCEPT !.live = FALSE] \in SlotRecord
         /\ [slot EXCEPT !.live = TRUE] \in SlotRecord
         /\ [slot EXCEPT !.shared = FALSE] \in SlotRecord
         /\ [slot EXCEPT !.shared = TRUE] \in SlotRecord
         /\ [slot EXCEPT !.borrowed = FALSE] \in SlotRecord
         /\ [slot EXCEPT !.borrowed = TRUE] \in SlotRecord
<1>1. \A n \in Natives \cup {NoBuffer} : [slot EXCEPT !.native = n] \in SlotRecord
  BY DEF SlotRecord
<1>2. \A r \in Nat : [slot EXCEPT !.bytes = r] \in SlotRecord
  BY DEF SlotRecord
<1>3. \A r \in Nat : [slot EXCEPT !.asked = r] \in SlotRecord
  BY DEF SlotRecord
<1>4. [slot EXCEPT !.gen = @ + 1] \in SlotRecord
  BY DEF SlotRecord
<1>5. /\ [slot EXCEPT !.live = FALSE] \in SlotRecord
      /\ [slot EXCEPT !.live = TRUE] \in SlotRecord
  BY DEF SlotRecord
<1>6. /\ [slot EXCEPT !.shared = FALSE] \in SlotRecord
      /\ [slot EXCEPT !.shared = TRUE] \in SlotRecord
  BY DEF SlotRecord
<1>7. /\ [slot EXCEPT !.borrowed = FALSE] \in SlotRecord
      /\ [slot EXCEPT !.borrowed = TRUE] \in SlotRecord
  BY DEF SlotRecord
<1> QED BY <1>1, <1>2, <1>3, <1>4, <1>5, <1>6, <1>7

\* What the fields of a slot read once a call has emptied it or let it go.
LEMMA SlotFields ==
  ASSUME NEW slot \in SlotRecord
  PROVE  /\ Emptied(slot).native = NoBuffer
         /\ Unshared(slot).native = NoBuffer
         /\ [Emptied(slot) EXCEPT !.live = FALSE, !.borrowed = FALSE, !.gen = @ + 1].native
              = NoBuffer
         /\ [Emptied(slot) EXCEPT !.live = FALSE, !.borrowed = FALSE, !.gen = @ + 1].bytes = 0
         /\ ~ [Emptied(slot) EXCEPT !.live = FALSE, !.borrowed = FALSE, !.gen = @ + 1].live
         /\ ~ [Emptied(slot) EXCEPT !.live = FALSE, !.borrowed = FALSE, !.gen = @ + 1].borrowed
         /\ [Emptied(slot) EXCEPT !.live = FALSE, !.borrowed = FALSE, !.gen = @ + 1].shared
              = slot.shared
         /\ [slot EXCEPT !.live = FALSE].native = slot.native
         /\ [slot EXCEPT !.live = FALSE].bytes = slot.bytes
         /\ [slot EXCEPT !.live = FALSE].shared = slot.shared
         /\ [slot EXCEPT !.live = FALSE].borrowed = slot.borrowed
         /\ ~ [slot EXCEPT !.live = FALSE].live
<1> DEFINE names == {"native", "bytes", "asked", "gen", "live", "shared", "borrowed"}
<1>1. DOMAIN slot = names /\ slot = [f \in names |-> slot[f]]
  BY DEF SlotRecord
<1>2. /\ Emptied(slot).native = NoBuffer
      /\ [Emptied(slot) EXCEPT !.live = FALSE, !.borrowed = FALSE, !.gen = @ + 1].native
           = NoBuffer
      /\ [Emptied(slot) EXCEPT !.live = FALSE, !.borrowed = FALSE, !.gen = @ + 1].bytes = 0
      /\ ~ [Emptied(slot) EXCEPT !.live = FALSE, !.borrowed = FALSE, !.gen = @ + 1].live
      /\ ~ [Emptied(slot) EXCEPT !.live = FALSE, !.borrowed = FALSE, !.gen = @ + 1].borrowed
      /\ [Emptied(slot) EXCEPT !.live = FALSE, !.borrowed = FALSE, !.gen = @ + 1].shared
           = slot.shared
  BY <1>1, Zenon DEF Emptied
<1>3. Unshared(slot).native = NoBuffer
  BY <1>1, Zenon DEF Emptied, Unshared
<1>4. /\ [slot EXCEPT !.live = FALSE].native = slot.native
      /\ [slot EXCEPT !.live = FALSE].bytes = slot.bytes
      /\ [slot EXCEPT !.live = FALSE].shared = slot.shared
      /\ [slot EXCEPT !.live = FALSE].borrowed = slot.borrowed
      /\ ~ [slot EXCEPT !.live = FALSE].live
  BY <1>1, Zenon
<1> QED
  BY <1>2, <1>3, <1>4, Zenon

\* What the calls make of a slot is a slot.
LEMMA SlotOperations ==
  ASSUME NEW slot \in SlotRecord
  PROVE  /\ Emptied(slot) \in SlotRecord
         /\ Unshared(slot) \in SlotRecord
         /\ [Emptied(slot) EXCEPT !.live = FALSE, !.borrowed = FALSE, !.gen = @ + 1]
              \in SlotRecord
         /\ [slot EXCEPT !.live = FALSE] \in SlotRecord
         /\ call.want \in Nat => Handed(slot) \in SlotRecord
         /\ \A n \in Natives, r \in Nat :
              /\ [slot EXCEPT !.native = n, !.bytes = r] \in SlotRecord
              /\ [Filled(slot, n, r) EXCEPT !.shared = TRUE] \in SlotRecord
              /\ [Filled(slot, n, r) EXCEPT !.borrowed = TRUE] \in SlotRecord
<1>1. ASSUME NEW n \in Natives \cup {NoBuffer}, NEW r \in Nat
      PROVE  [slot EXCEPT !.native = n, !.bytes = r] \in SlotRecord
  <2>1. [slot EXCEPT !.native = n] \in SlotRecord
    BY FieldUpdates
  <2> QED BY <2>1, FieldUpdates
<1>2. Emptied(slot) \in SlotRecord
  BY <1>1 DEF Emptied
<1>3. [Emptied(slot) EXCEPT !.live = FALSE] \in SlotRecord
  BY <1>2, FieldUpdates
<1>4. Unshared(slot) \in SlotRecord
  BY <1>3, FieldUpdates DEF Unshared
<1>5. [Emptied(slot) EXCEPT !.live = FALSE, !.borrowed = FALSE, !.gen = @ + 1]
        \in SlotRecord
  <2>1. [Emptied(slot) EXCEPT !.live = FALSE, !.borrowed = FALSE] \in SlotRecord
    BY <1>3, FieldUpdates
  <2>2. [Emptied(slot) EXCEPT !.live = FALSE, !.borrowed = FALSE].gen = Emptied(slot).gen
    BY <1>2 DEF SlotRecord
  <2> QED BY <2>1, <2>2, FieldUpdates
<1>6. ASSUME call.want \in Nat PROVE Handed(slot) \in SlotRecord
  <2>1. [slot EXCEPT !.gen = @ + 1, !.live = TRUE] \in SlotRecord
    BY FieldUpdates
  <2> QED BY <1>6, <2>1, FieldUpdates DEF Handed
<1>7. ASSUME NEW n \in Natives, NEW r \in Nat
      PROVE  /\ [Filled(slot, n, r) EXCEPT !.shared = TRUE] \in SlotRecord
             /\ [Filled(slot, n, r) EXCEPT !.borrowed = TRUE] \in SlotRecord
  <2>1. [slot EXCEPT !.native = n, !.bytes = r] \in SlotRecord
    BY <1>1
  <2>2. [slot EXCEPT !.native = n, !.bytes = r, !.live = TRUE] \in SlotRecord
    BY <2>1, FieldUpdates
  <2>3. [slot EXCEPT !.native = n, !.bytes = r, !.live = TRUE].gen = slot.gen
    BY DEF SlotRecord
  <2>4. Filled(slot, n, r) \in SlotRecord
    BY <2>2, <2>3, FieldUpdates DEF Filled
  <2> QED BY <2>4, FieldUpdates
<1> QED BY <1>1, <1>2, <1>4, <1>5, <1>6, <1>7, FieldUpdates

LEMMA ReclaimType ==
  ASSUME TypeOK, NEW done \in Nat, reclaimLocked(done)
  PROVE  /\ retiring' \in Seq(RetiringRecord)
         /\ completed' = done
         /\ free' \subseteq Slots
         /\ UNCHANGED <<slots, used, recycled, submitted, granted>>
<1>1. PICK n \in 0 .. Len(retiring) :
        /\ Drains(done, n)
        /\ free' = free \cup Drained(n)
        /\ UNCHANGED <<slots, used, recycled, submitted, granted>>
  BY DEF reclaimLocked
<1>2. retiring \in Seq(RetiringRecord)
  BY DEF TypeOK
<1>3. retiring' \in Seq(RetiringRecord)
  BY <1>1, <1>2, DropsFront DEF Drains
<1>4. Drained(n) \subseteq Slots
  BY <1>2, DrainedAreSlots
<1>5. free \subseteq Slots /\ recycled \subseteq Slots /\ granted \subseteq Natives
  BY DEF TypeOK
<1> QED BY <1>1, <1>3, <1>4, <1>5 DEF Drains

LEMMA TrimType ==
  ASSUME TypeOK, trimLocked
  PROVE  /\ slots' \in [Slots -> SlotRecord]
         /\ retiring' \in Seq(RetiringRecord)
         /\ completed' = Published
         /\ free' = {} /\ recycled' \subseteq Slots /\ granted' \subseteq Natives
         /\ UNCHANGED <<used, submitted>>
<1>1. PICK n \in 0 .. Len(retiring) :
        LET back == free \cup Drained(n)
        IN  /\ Drains(Published, n)
            /\ free' = {}
            /\ recycled' = recycled \cup back
            /\ slots' = [s \in Slots |->
                          IF s \in back THEN Emptied(slots[s]) ELSE slots[s]]
            /\ NativeReleases(back)
            /\ UNCHANGED <<used, submitted>>
  BY DEF trimLocked
<1>2. retiring \in Seq(RetiringRecord)
  BY DEF TypeOK
<1>3. retiring' \in Seq(RetiringRecord)
  BY <1>1, <1>2, DropsFront DEF Drains
<1>4. Drained(n) \subseteq Slots
  BY <1>2, DrainedAreSlots
<1>5. free \subseteq Slots /\ recycled \subseteq Slots /\ granted \subseteq Natives
  BY DEF TypeOK
<1>6. \A s \in Slots : slots[s] \in SlotRecord
  BY DEF TypeOK
<1>7. slots' \in [Slots -> SlotRecord]
  BY <1>1, <1>6, SlotOperations
<1> QED BY <1>1, <1>3, <1>4, <1>5, <1>7 DEF Drains, NativeReleases

\* The table after one of its slots was replaced by a slot record.
LEMMA SlotReplaced ==
  ASSUME TypeOK, NEW s, NEW slot \in SlotRecord, slots' = [slots EXCEPT ![s] = slot]
  PROVE  slots' \in [Slots -> SlotRecord]
  BY DEF TypeOK

\* A slot that is taken for a new buffer.
LEMMA TakenType ==
  ASSUME TypeOK, NEW s \in Slots, TakesSlot(s)
  PROVE  /\ used' \in 0 .. MaxHandles /\ recycled' \subseteq Slots
         /\ slots[s] \in SlotRecord
<1>1. MaxHandles \in Nat
  BY PoolAssumption
<1>2. used \in 0 .. MaxHandles /\ recycled \subseteq Slots /\ slots \in [Slots -> SlotRecord]
  BY DEF TypeOK
<1>3. used' \in 0 .. MaxHandles
  BY <1>1, <1>2 DEF TakesSlot, Slots
<1>4. recycled' \subseteq Slots
  BY <1>2 DEF TakesSlot
<1> QED BY <1>2, <1>3, <1>4

\* The handle of a slot that is handed out.
LEMMA HandleType ==
  ASSUME TypeOK, NEW s \in Slots, slots' \in [Slots -> SlotRecord], HandsOut(s)
  PROVE  owned' \subseteq Handles /\ dead' \subseteq Handles
<1>1. slots'[s].gen \in Nat
  BY DEF SlotRecord
<1>2. <<s, slots'[s].gen>> \in Handles
  BY <1>1 DEF Handles
<1> QED BY <1>2 DEF TypeOK, HandsOut

LEMMA InitType == Init => TypeOK
<1> SUFFICES ASSUME Init PROVE TypeOK
  OBVIOUS
<1>1. FreshSlot \in SlotRecord
  BY DEF FreshSlot, SlotRecord
<1>2. slots \in [Slots -> SlotRecord]
  BY <1>1 DEF Init
<1>3. retiring \in Seq(RetiringRecord)
  BY EmptySeq DEF Init
<1>4. used \in 0 .. MaxHandles
  BY PoolAssumption DEF Init
<1> QED BY <1>2, <1>3, <1>4 DEF Init, TypeOK, Idle, Off, PCs

LEMMA NextType == TypeOK /\ [Next]_vars => TypeOK'
<1> SUFFICES ASSUME TypeOK, [Next]_vars PROVE TypeOK'
  OBVIOUS
<1> USE DEF At, Goes, Idle, Off, PCs
<1>1. ASSUME NEW r \in Requests, alloc(r) PROVE TypeOK'
  BY <1>1, ReclaimType, MarkIsNat DEF alloc, TypeOK
<1>2. ASSUME NEW s \in free, Hit(s) PROVE TypeOK'
  <2>1. s \in Slots /\ slots[s] \in SlotRecord /\ call.want \in Requests
    BY <1>2 DEF Hit, TypeOK
  <2>2. slots' \in [Slots -> SlotRecord]
    BY <1>2, <2>1, SlotOperations, SlotReplaced, PoolAssumption DEF Hit
  <2>3. owned' \subseteq Handles /\ dead' \subseteq Handles
    BY <1>2, <2>1, <2>2, HandleType DEF Hit
  <2> QED BY <1>2, <2>2, <2>3 DEF Hit, TypeOK, device
<1>3. CASE Miss
  BY <1>3 DEF Miss, TypeOK, pool, device
<1>4. CASE RoomReclaim
  BY <1>4, ReclaimType, MarkIsNat DEF RoomReclaim, TypeOK
<1>5. CASE RoomSync
  BY <1>5 DEF RoomSync, TypeOK, pool, device
<1>6. CASE RoomMark
  BY <1>6, ReclaimType, MarkIsNat DEF RoomMark, TypeOK
<1>7. CASE RoomTrim
  BY <1>7, TrimType, MarkIsNat DEF RoomTrim, TypeOK
<1>8. ASSUME NEW gave \in BOOLEAN, PressureAnswers(gave) PROVE TypeOK'
  BY <1>8 DEF PressureAnswers, TypeOK, pool, device
<1>9. CASE Relieved
  BY <1>9, TrimType, MarkIsNat, SMTT(30) DEF Relieved, TypeOK, NoRoom
<1>10. ASSUME NEW s \in Slots, NEW n \in Natives, NativeAlloc(s, n) PROVE TypeOK'
  <2>1. slots[s] \in SlotRecord /\ used' \in 0 .. MaxHandles /\ recycled' \subseteq Slots
    BY <1>10, TakenType DEF NativeAlloc
  <2>2. call.want \in Requests
    BY <1>10 DEF NativeAlloc, TypeOK
  <2>3. Size \in Nat
    BY <2>2, PoolAssumption DEF Size
  <2>4. Handed([slots[s] EXCEPT !.native = n, !.bytes = Size]) \in SlotRecord
    BY <2>1, <2>2, <2>3, SlotOperations, PoolAssumption
  <2>5. slots' \in [Slots -> SlotRecord]
    BY <1>10, <2>4, SlotReplaced DEF NativeAlloc
  <2>6. owned' \subseteq Handles /\ dead' \subseteq Handles
    BY <1>10, <2>5, HandleType DEF NativeAlloc
  <2> QED BY <1>10, <2>1, <2>5, <2>6 DEF NativeAlloc, TypeOK
<1>11. CASE NativeRefuses
  BY <1>11 DEF NativeRefuses, TypeOK, pool, device
<1>12. CASE SyncWaits
  BY <1>12 DEF SyncWaits, TypeOK, pool, device
<1>13. CASE SyncMarks
  BY <1>13, ReclaimType, MarkIsNat DEF SyncMarks, TypeOK
<1>14. ASSUME NEW s \in Slots, NEW n \in Natives, NEW r \in Requests,
              allocShared(s, n, r)
       PROVE  TypeOK'
  <2>1. slots[s] \in SlotRecord /\ used' \in 0 .. MaxHandles /\ recycled' \subseteq Slots
    BY <1>14, TakenType DEF allocShared
  <2>2. [Filled(slots[s], n, r) EXCEPT !.shared = TRUE] \in SlotRecord
    BY <2>1, SlotOperations, PoolAssumption
  <2>3. slots' \in [Slots -> SlotRecord]
    BY <1>14, <2>2, SlotReplaced DEF allocShared
  <2>4. owned' \subseteq Handles /\ dead' \subseteq Handles
    BY <1>14, <2>3, HandleType DEF allocShared
  <2> QED BY <1>14, <2>1, <2>3, <2>4 DEF allocShared, TypeOK
<1>15. ASSUME NEW s \in Slots, NEW n \in Natives, NEW r \in Requests, adopt(s, n, r)
       PROVE  TypeOK'
  <2>1. slots[s] \in SlotRecord /\ used' \in 0 .. MaxHandles /\ recycled' \subseteq Slots
    BY <1>15, TakenType DEF adopt
  <2>2. [Filled(slots[s], n, r) EXCEPT !.borrowed = TRUE] \in SlotRecord
    BY <2>1, SlotOperations, PoolAssumption
  <2>3. slots' \in [Slots -> SlotRecord]
    BY <1>15, <2>2, SlotReplaced DEF adopt
  <2>4. owned' \subseteq Handles /\ dead' \subseteq Handles
    BY <1>15, <2>3, HandleType DEF adopt
  <2> QED BY <1>15, <2>1, <2>3, <2>4 DEF adopt, TypeOK
<1>16. ASSUME NEW h \in owned \cup dead, release(h) PROVE TypeOK'
  <2>1. h \in Handles /\ h[1] \in Slots /\ slots[h[1]] \in SlotRecord
    BY DEF TypeOK, Handles
  <2>2. owned' \subseteq Handles /\ dead' \subseteq Handles
    BY <1>16, <2>1 DEF release, TypeOK
  <2>3. CASE ReleaseBorrowed(h[1])
    <3>1. slots' \in [Slots -> SlotRecord]
      BY <2>1, <2>3, SlotOperations, SlotReplaced DEF ReleaseBorrowed
    <3> QED BY <1>16, <2>1, <2>2, <2>3, <3>1
            DEF release, ReleaseBorrowed, TypeOK, NativeReleases
  <2>4. CASE ReleaseShared(h[1])
    <3>1. slots' \in [Slots -> SlotRecord]
      BY <2>1, <2>4, SlotOperations, SlotReplaced DEF ReleaseShared
    <3> QED BY <1>16, <2>1, <2>2, <2>4, <3>1
            DEF release, ReleaseShared, TypeOK, NativeReleases
  <2>5. CASE ReleasePooled(h[1])
    <3>1. slots' \in [Slots -> SlotRecord]
      BY <2>1, <2>5, SlotOperations, SlotReplaced DEF ReleasePooled
    <3>2. [slot |-> h[1], at |-> submitted] \in RetiringRecord
      BY <2>1 DEF TypeOK, RetiringRecord
    <3>3. retiring' \in Seq(RetiringRecord)
      BY <2>5, <3>2, AppendProperties DEF ReleasePooled, Queued, TypeOK
    <3> QED BY <1>16, <2>2, <2>5, <3>1, <3>3 DEF release, ReleasePooled, TypeOK
  <2> QED BY <1>16, <2>3, <2>4, <2>5 DEF release
<1>17. CASE trim
  BY <1>17, TrimType, MarkIsNat DEF trim, TypeOK
<1>18. ASSUME NEW H \in SUBSET owned, dispatch(H) PROVE TypeOK'
  BY <1>18 DEF dispatch, TypeOK
<1>19. CASE dispatchRefused
  BY <1>19 DEF dispatchRefused, TypeOK, device
<1>20. CASE sync
  BY <1>20 DEF sync, TypeOK, pool, device
<1>21. ASSUME NEW at \in 1 .. submitted, waitFor(at) PROVE TypeOK'
  BY <1>21, ReclaimType, MarkIsNat, PoolAssumption DEF waitFor, TypeOK
<1>22. CASE Spin
  BY <1>22, MarkIsNat, SMTT(30) DEF Spin, TypeOK, Spun, device
<1>23. CASE WaitSyncs
  BY <1>23 DEF WaitSyncs, TypeOK, pool, device
<1>24. CASE Finish
  BY <1>24 DEF Finish, TypeOK, pool
<1>25. ASSUME NEW k \in 1 .. finished, Report(k) PROVE TypeOK'
  BY <1>25 DEF Report, TypeOK, pool
<1>26. CASE UNCHANGED vars
  BY <1>26 DEF vars, TypeOK, pool, device
<1> QED
  BY <1>1, <1>2, <1>3, <1>4, <1>5, <1>6, <1>7, <1>8, <1>9, <1>10, <1>11, <1>12, <1>13,
     <1>14, <1>15, <1>16, <1>17, <1>18, <1>19, <1>20, <1>21, <1>22, <1>23, <1>24,
     <1>25, <1>26 DEF Next, Body

\* Every state the pool reaches is well typed: the table, the lists and the
\* retiring queue hold slots, the marks are numbers, a call knows its place.
THEOREM TypeCorrect == Spec => []TypeOK
<1>1. Init => TypeOK
  BY InitType
<1>2. TypeOK /\ [Next]_vars => TypeOK'
  BY NextType
<1> QED BY <1>1, <1>2, PTL DEF Spec
-----------------------------------------------------------------------------
\* What the proof uses of the types.
LEMMA TypeFacts ==
  ASSUME TypeOK
  PROVE  /\ slots \in [Slots -> SlotRecord]
         /\ \A s \in Slots : slots[s].gen \in Nat /\ slots[s].live \in BOOLEAN
         /\ used \in 0 .. MaxHandles /\ free \subseteq Slots /\ recycled \subseteq Slots
         /\ Len(retiring) \in Nat
         /\ \A i \in 1 .. Len(retiring) : retiring[i].slot \in Slots /\ retiring[i].at \in Nat
         /\ submitted \in Nat /\ completed \in Nat
         /\ accepted \in Nat /\ finished \in Nat /\ reported \in Nat
         /\ \A w \in inflight : /\ w.num \in Nat /\ w.at \in Nat
                                /\ \A h \in w.uses : h \in Handles
         /\ owned \subseteq Handles /\ dead \subseteq Handles
<1>1. \A r \in SlotRecord : r.gen \in Nat /\ r.live \in BOOLEAN
  BY DEF SlotRecord
<1>2. \A i \in 1 .. Len(retiring) : retiring[i] \in RetiringRecord
  BY ElementOfSeq DEF TypeOK
<1>3. \A i \in 1 .. Len(retiring) : retiring[i].slot \in Slots /\ retiring[i].at \in Nat
  BY <1>2 DEF RetiringRecord
<1>4. Len(retiring) \in Nat
  BY LenProperties DEF TypeOK
<1> QED BY <1>1, <1>3, <1>4 DEF TypeOK

LEMMA HandleFields == \A h \in Handles : h[1] \in Slots /\ h[2] \in Nat /\ h = <<h[1], h[2]>>
  BY DEF Handles

\* Draining the front of the queue, up to a mark below all queued work: the
\* drained slots hold nothing that queued work may touch.
LEMMA DrainKeeps ==
  ASSUME IInv, NEW done \in Nat, NEW n \in 0 .. Len(retiring), Drains(done, n),
         \A w \in inflight : done < w.at
  PROVE  /\ Len(retiring') \in Nat
         /\ \A i \in 1 .. Len(retiring') :
              /\ i + n \in 1 .. Len(retiring) /\ retiring'[i] = retiring[i + n]
              /\ retiring[i + n].slot \notin Drained(n)
         /\ \A s \in Drained(n) : /\ s \in 1 .. used /\ s \in Slots /\ ~slots[s].live
                                  /\ s \notin free \cup recycled
         /\ \A w \in inflight : \A h \in w.uses :
              /\ h[1] \notin Drained(n)
              /\ \/ slots[h[1]].live
                 \/ \E i \in 1 .. Len(retiring') :
                      retiring'[i].slot = h[1] /\ w.at <= retiring'[i].at
<1> USE DEF IInv
<1>1. retiring \in Seq(RetiringRecord)
  BY DEF TypeOK
<1>2. /\ Len(retiring') = Len(retiring) - n
      /\ \A i \in 1 .. Len(retiring) - n : retiring'[i] = retiring[i + n]
  BY <1>1, DropsFront DEF Drains
<1>3. Len(retiring) \in Nat
  BY TypeFacts
<1>4. \A i \in 1 .. Len(retiring') :
        i + n \in 1 .. Len(retiring) /\ retiring'[i] = retiring[i + n]
  BY <1>2, <1>3
<1>5. \A i \in 1 .. Len(retiring') : retiring[i + n].slot \notin Drained(n)
  BY <1>2, <1>3, <1>4 DEF Drained, PlacesInv
<1>6. \A s \in Drained(n) : /\ s \in 1 .. used /\ s \in Slots /\ ~slots[s].live
                            /\ s \notin free \cup recycled
  BY <1>3, TypeFacts DEF Drained, PlacesInv, Slots
<1>7. ASSUME NEW w \in inflight, NEW h \in w.uses
      PROVE  /\ h[1] \notin Drained(n)
             /\ \/ slots[h[1]].live
                \/ \E i \in 1 .. Len(retiring') :
                     retiring'[i].slot = h[1] /\ w.at <= retiring'[i].at
  <2>1. CASE slots[h[1]].live
    BY <2>1, <1>6
  <2>2. CASE ~slots[h[1]].live
    <3>1. PICK i \in 1 .. Len(retiring) : retiring[i].slot = h[1] /\ w.at <= retiring[i].at
      BY <2>2 DEF KeptInv
    <3>2. \A j \in 1 .. n : retiring[j].at <= done
      BY DEF Drains
    <3>3. done < w.at /\ w.at \in Nat /\ retiring[i].at \in Nat
      BY <1>7, TypeFacts
    <3>4. ~(i <= n)
      BY <3>1, <3>2, <3>3, <1>3
    <3>5. i - n \in 1 .. Len(retiring') /\ retiring'[i - n] = retiring[i]
      BY <3>4, <1>2, <1>3
    <3>6. h[1] \notin Drained(n)
      BY <3>1, <3>4, <1>3 DEF Drained, PlacesInv
    <3> QED BY <3>1, <3>5, <3>6
  <2> QED BY <2>1, <2>2
<1>8. Len(retiring') \in Nat
  BY <1>2, <1>3
<1> QED BY ONLY <1>4, <1>5, <1>6, <1>7, <1>8

LEMMA ReclaimKeeps ==
  ASSUME IInv, NEW done \in Nat, reclaimLocked(done), \A w \in inflight : done < w.at,
         UNCHANGED <<inflight, owned, dead>>
  PROVE  PlacesInv' /\ KeptInv' /\ HandlesInv'
<1>1. PICK n \in 0 .. Len(retiring) :
        /\ Drains(done, n)
        /\ free' = free \cup Drained(n)
        /\ UNCHANGED <<slots, used, recycled, submitted, granted>>
  BY DEF reclaimLocked
<1>2. /\ Len(retiring') \in Nat
      /\ \A i \in 1 .. Len(retiring') :
           /\ i + n \in 1 .. Len(retiring) /\ retiring'[i] = retiring[i + n]
           /\ retiring[i + n].slot \notin Drained(n)
      /\ \A s \in Drained(n) : /\ s \in 1 .. used /\ s \in Slots /\ ~slots[s].live
                               /\ s \notin free \cup recycled
      /\ \A w \in inflight : \A h \in w.uses :
           \/ slots[h[1]].live
           \/ \E i \in 1 .. Len(retiring') :
                retiring'[i].slot = h[1] /\ w.at <= retiring'[i].at
  BY <1>1, DrainKeeps
<1>3. /\ free' \subseteq 1 .. used' /\ recycled' \subseteq 1 .. used'
      /\ free' \cap recycled' = {}
  BY <1>1, <1>2 DEF IInv, PlacesInv
<1>4. \A s \in Live' : s <= used' /\ s \notin free' \cup recycled'
  BY <1>1, <1>2 DEF IInv, PlacesInv, Live
<1>5. \A i \in 1 .. Len(retiring') :
        /\ retiring'[i].slot <= used' /\ ~slots'[retiring'[i].slot].live
        /\ retiring'[i].slot \notin free' \cup recycled'
  BY <1>1, <1>2 DEF IInv, PlacesInv
<1>6. \A i, j \in 1 .. Len(retiring') : retiring'[i].slot = retiring'[j].slot => i = j
  <2>1. SUFFICES ASSUME NEW i \in 1 .. Len(retiring'), NEW j \in 1 .. Len(retiring'),
                        retiring'[i].slot = retiring'[j].slot
                 PROVE  i = j
    OBVIOUS
  <2>2. i + n = j + n
    BY <1>2, <2>1, SMTT(30) DEF IInv, PlacesInv
  <2> QED BY <2>2, <1>2
<1>7. /\ \A s \in (1 .. used') \ recycled' : slots'[s].native # NoBuffer
      /\ \A s \in Slots \ Live' : Pooled(s)'
      /\ \A s \in Slots : ~(slots'[s].shared /\ slots'[s].borrowed)
  BY <1>1 DEF IInv, PlacesInv, Live, Pooled
<1>8. PlacesInv'
  BY <1>3, <1>4, <1>5, <1>6, <1>7 DEF PlacesInv
<1>9. KeptInv'
  BY <1>1, <1>2 DEF IInv, KeptInv, Pooled
<1>10. HandlesInv'
  BY <1>1 DEF IInv, HandlesInv, Live
<1> QED BY <1>8, <1>9, <1>10

LEMMA TrimKeeps ==
  ASSUME IInv, trimLocked, \A w \in inflight : Published < w.at,
         UNCHANGED <<inflight, owned, dead>>
  PROVE  PlacesInv' /\ KeptInv' /\ HandlesInv'
<1>1. PICK n \in 0 .. Len(retiring) :
        LET back == free \cup Drained(n)
        IN  /\ Drains(Published, n)
            /\ free' = {}
            /\ recycled' = recycled \cup back
            /\ slots' = [s \in Slots |->
                          IF s \in back THEN Emptied(slots[s]) ELSE slots[s]]
            /\ UNCHANGED <<used, submitted>>
  BY DEF trimLocked
<1> DEFINE back == free \cup Drained(n)
<1>2. Published \in Nat
  BY MarkIsNat DEF IInv
<1>3. /\ Len(retiring') \in Nat
      /\ \A i \in 1 .. Len(retiring') :
           /\ i + n \in 1 .. Len(retiring) /\ retiring'[i] = retiring[i + n]
           /\ retiring[i + n].slot \notin Drained(n)
      /\ \A s \in Drained(n) : /\ s \in 1 .. used /\ s \in Slots /\ ~slots[s].live
                               /\ s \notin free \cup recycled
      /\ \A w \in inflight : \A h \in w.uses :
           /\ h[1] \notin Drained(n)
           /\ \/ slots[h[1]].live
              \/ \E i \in 1 .. Len(retiring') :
                   retiring'[i].slot = h[1] /\ w.at <= retiring'[i].at
  BY <1>1, <1>2, DrainKeeps
<1>4. \A s \in Slots : /\ slots'[s].live = slots[s].live /\ slots'[s].gen = slots[s].gen
                       /\ slots'[s].shared = slots[s].shared
                       /\ slots'[s].borrowed = slots[s].borrowed
                       /\ s \notin back => slots'[s] = slots[s]
  <2>1. \A s \in Slots : slots[s] \in SlotRecord
    BY DEF IInv, TypeOK
  <2> QED BY <1>1, <2>1 DEF SlotRecord, Emptied
<1>5. Live' = Live
  BY <1>4 DEF Live
<1>6. back \subseteq 1 .. used /\ back \cap recycled = {} /\ back \cap Live = {}
  BY <1>3 DEF IInv, PlacesInv, Live
<1>7. \A i \in 1 .. Len(retiring) : retiring[i].slot \in Slots
  BY TypeFacts DEF IInv
<1>8. free' = {} /\ recycled' = recycled \cup back /\ used' = used
  BY <1>1
<1>9. recycled' \subseteq 1 .. used'
  BY <1>6, <1>8 DEF IInv, PlacesInv
<1>10. \A s \in Live' : s <= used' /\ s \notin free' \cup recycled'
  BY <1>5, <1>6, <1>8 DEF IInv, PlacesInv
<1>11. \A i \in 1 .. Len(retiring') :
        /\ retiring'[i].slot <= used' /\ ~slots'[retiring'[i].slot].live
        /\ retiring'[i].slot \notin free' \cup recycled'
  <2>1. SUFFICES ASSUME NEW i \in 1 .. Len(retiring')
                 PROVE  /\ retiring'[i].slot <= used' /\ ~slots'[retiring'[i].slot].live
                        /\ retiring'[i].slot \notin free' \cup recycled'
    OBVIOUS
  <2>2. /\ i + n \in 1 .. Len(retiring) /\ retiring'[i] = retiring[i + n]
        /\ retiring[i + n].slot \notin Drained(n)
    BY <1>3
  <2>3. /\ retiring[i + n].slot <= used /\ ~slots[retiring[i + n].slot].live
        /\ retiring[i + n].slot \notin free \cup recycled
    BY <2>2 DEF IInv, PlacesInv
  <2>4. retiring[i + n].slot \in Slots
    BY <2>2, <1>7
  <2> QED BY <2>2, <2>3, <2>4, <1>4, <1>8
<1>12. \A i, j \in 1 .. Len(retiring') : retiring'[i].slot = retiring'[j].slot => i = j
  <2>1. SUFFICES ASSUME NEW i \in 1 .. Len(retiring'), NEW j \in 1 .. Len(retiring'),
                        retiring'[i].slot = retiring'[j].slot
                 PROVE  i = j
    OBVIOUS
  <2>2. i + n = j + n
    BY <1>3, <2>1, ZenonT(30) DEF IInv, PlacesInv
  <2> QED BY <2>2, <1>3
<1>13. \A s \in (1 .. used') \ recycled' : slots'[s].native # NoBuffer
  <2>1. used \in 0 .. MaxHandles /\ MaxHandles \in Nat
    BY PoolAssumption, TypeFacts DEF IInv
  <2> QED BY <2>1, <1>4, <1>8 DEF IInv, PlacesInv, Slots
<1>14. /\ \A s \in Slots \ Live' : Pooled(s)'
       /\ \A s \in Slots : ~(slots'[s].shared /\ slots'[s].borrowed)
  BY <1>4, <1>5 DEF IInv, PlacesInv, Pooled
<1>15. PlacesInv'
  BY <1>8, <1>9, <1>10, <1>11, <1>12, <1>13, <1>14 DEF PlacesInv
<1>16. KeptInv'
  <2>1. \A w \in inflight : \A h \in w.uses : h[1] \in Slots
    BY TypeFacts, HandleFields DEF IInv
  <2> QED BY <1>3, <1>4, <2>1, SMTT(30) DEF IInv, KeptInv, Pooled
<1>17. HandlesInv'
  <2>1. \A h \in dead : h[1] \in Slots
    BY TypeFacts, HandleFields DEF IInv
  <2>2. {<<s, slots'[s].gen>> : s \in Live'} = {<<s, slots[s].gen>> : s \in Live}
    BY <1>4, <1>5 DEF Live
  <2> QED BY <1>4, <2>1, <2>2 DEF IInv, HandlesInv
<1> QED BY <1>15, <1>16, <1>17

\* A slot that is nobody's, on no queue, is handed out with the next generation.
LEMMA HandOutKeeps ==
  ASSUME IInv, NEW s \in Slots, ~slots[s].live, \A i \in 1 .. Len(retiring) : retiring[i].slot # s,
         NEW slot \in SlotRecord, slots' = [slots EXCEPT ![s] = slot],
         slot.live, slot.gen = slots[s].gen + 1, slot.native # NoBuffer,
         ~(slot.shared /\ slot.borrowed),
         used' \in Nat, used <= used', s <= used',
         free' \subseteq free \ {s}, recycled' \subseteq recycled \ {s},
         (1 .. used') \ recycled' \subseteq ((1 .. used) \ recycled) \cup {s},
         HandsOut(s), UNCHANGED <<retiring, inflight>>
  PROVE  PlacesInv' /\ KeptInv' /\ HandlesInv'
<1>1. /\ slots'[s] = slot /\ \A t \in Slots \ {s} : slots'[t] = slots[t]
  BY DEF IInv, TypeOK
<1>2. Live' = Live \cup {s}
  BY <1>1 DEF Live
<1>3. used \in Nat /\ MaxHandles \in Nat
  BY PoolAssumption, TypeFacts DEF IInv
<1>4. /\ free' \subseteq 1 .. used' /\ recycled' \subseteq 1 .. used'
      /\ free' \cap recycled' = {}
  BY <1>3 DEF IInv, PlacesInv
<1>5. \A t \in Live' : t <= used' /\ t \notin free' \cup recycled'
  <2>1. \A t \in Live : t \in Slots
    BY DEF Live
  <2> QED BY <1>2, <1>3, <2>1 DEF IInv, PlacesInv, Slots
<1>6. \A i \in 1 .. Len(retiring') :
        /\ retiring'[i].slot <= used' /\ ~slots'[retiring'[i].slot].live
        /\ retiring'[i].slot \notin free' \cup recycled'
  <2>1. \A i \in 1 .. Len(retiring) : retiring[i].slot \in Slots
    BY TypeFacts DEF IInv
  <2> QED BY <1>1, <1>3, <2>1 DEF IInv, PlacesInv, Slots
<1>7. \A i, j \in 1 .. Len(retiring') : retiring'[i].slot = retiring'[j].slot => i = j
  BY DEF IInv, PlacesInv
<1>8. \A t \in (1 .. used') \ recycled' : slots'[t].native # NoBuffer
  <2>1. \A t \in 1 .. used : t \in Slots
    BY <1>3, TypeFacts DEF IInv, Slots
  <2> QED BY <1>1, <2>1 DEF IInv, PlacesInv
<1>9. /\ \A t \in Slots \ Live' : Pooled(t)'
      /\ \A t \in Slots : ~(slots'[t].shared /\ slots'[t].borrowed)
  BY <1>1, <1>2 DEF IInv, PlacesInv, Pooled
<1>10. PlacesInv'
  BY <1>4, <1>5, <1>6, <1>7, <1>8, <1>9 DEF PlacesInv
<1>11. \A w \in inflight : \A h \in w.uses : h[1] \in Slots \ {s}
  BY TypeFacts, HandleFields, SMTT(30) DEF IInv, KeptInv
<1>12. KeptInv'
  BY <1>1, <1>11 DEF IInv, KeptInv, Pooled
<1>13. HandlesInv'
  <2>1. {<<t, slots'[t].gen>> : t \in Live'}
          = {<<t, slots[t].gen>> : t \in Live} \cup {<<s, slots'[s].gen>>}
    BY <1>1, <1>2 DEF Live
  <2>2. owned' = {<<t, slots'[t].gen>> : t \in Live'}
    BY <2>1 DEF IInv, HandlesInv, HandsOut
  <2>3. ASSUME NEW h \in dead
        PROVE  /\ h[2] <= slots'[h[1]].gen
               /\ h[2] = slots'[h[1]].gen => ~slots'[h[1]].live
    <3>1. h[1] \in Slots /\ h[2] \in Nat /\ slots[s].gen \in Nat
      BY TypeFacts, HandleFields DEF IInv
    <3>2. /\ h[2] <= slots[h[1]].gen
          /\ h[2] = slots[h[1]].gen => ~slots[h[1]].live
      BY DEF IInv, HandlesInv
    <3>3. slots'[s].gen = slots[s].gen + 1
      BY <1>1
    <3>4. CASE h[1] = s
      BY <3>1, <3>2, <3>3, <3>4
    <3>5. CASE h[1] # s
      BY <1>1, <3>1, <3>2, <3>5
    <3> QED BY <3>4, <3>5
  <2>4. dead' = dead
    BY DEF HandsOut
  <2> QED BY <2>2, <2>3, <2>4 DEF HandlesInv
<1> QED BY <1>10, <1>12, <1>13

\* What taking a slot for a new buffer gives the lemma above.
LEMMA TakenSlot ==
  ASSUME IInv, NEW s \in Slots, TakesSlot(s)
  PROVE  /\ ~slots[s].live /\ \A i \in 1 .. Len(retiring) : retiring[i].slot # s
         /\ used' \in Nat /\ used <= used' /\ s <= used'
         /\ free \subseteq free \ {s} /\ recycled' \subseteq recycled \ {s}
         /\ (1 .. used') \ recycled' \subseteq ((1 .. used) \ recycled) \cup {s}
<1>1. /\ used \in Nat /\ MaxHandles \in Nat
      /\ \A t \in Slots : slots[t].live \in BOOLEAN
      /\ \A i \in 1 .. Len(retiring) : retiring[i].slot \in Slots
  BY PoolAssumption, TypeFacts DEF IInv
<1>2. CASE s \in recycled /\ recycled' = recycled \ {s} /\ UNCHANGED used
  BY <1>1, <1>2 DEF IInv, PlacesInv, Live
<1>3. CASE recycled = {} /\ s = used + 1 /\ used' = s /\ UNCHANGED recycled
  <2>1. ~slots[s].live
    BY <1>1, <1>3 DEF IInv, PlacesInv, Live
  <2>2. \A i \in 1 .. Len(retiring) : retiring[i].slot # s
    BY <1>1, <1>3 DEF IInv, PlacesInv
  <2>3. free \subseteq free \ {s}
    BY <1>1, <1>3 DEF IInv, PlacesInv
  <2> QED BY <1>1, <1>3, <2>1, <2>2, <2>3
<1> QED BY <1>2, <1>3 DEF TakesSlot

\* A live slot whose handle resolves is a handle somebody holds.
LEMMA ResolvedIsOwned ==
  ASSUME IInv, NEW h \in owned \cup dead, resolve(h)
  PROVE  /\ h[1] \in Slots /\ h[1] \in Live /\ h = <<h[1], slots[h[1]].gen>> /\ h \in Handles
         /\ h[1] \in 1 .. used /\ slots[h[1]] \in SlotRecord
         /\ slots[h[1]].gen \in Nat
<1>1. h \in Handles
  BY TypeFacts DEF IInv
<1>2. h[1] \in Slots /\ h[2] \in Nat /\ h = <<h[1], h[2]>>
  BY <1>1, HandleFields
<1>3. used \in Nat /\ slots[h[1]].gen \in Nat /\ slots[h[1]] \in SlotRecord
  BY <1>2, TypeFacts DEF IInv
<1> QED BY <1>1, <1>2, <1>3 DEF resolve, Live, Slots

\* What holds of the handles once s, held under the handle h, is nobody's.
LEMMA ReleasedHandles ==
  ASSUME IInv, NEW h \in owned \cup dead, resolve(h), NEW slot \in SlotRecord,
         slots' = [slots EXCEPT ![h[1]] = slot], ~slot.live, slots[h[1]].gen <= slot.gen,
         owned' = owned \ {h}, dead' = dead \cup {h}
  PROVE  HandlesInv' /\ Live' = Live \ {h[1]}
<1> DEFINE s == h[1]
<1>1. s \in Live /\ s \in Slots /\ h = <<s, slots[s].gen>> /\ slots[s].gen \in Nat
  BY ResolvedIsOwned
<1>2. slots'[s] = slot /\ \A t \in Slots \ {s} : slots'[t] = slots[t]
  BY <1>1 DEF IInv, TypeOK
<1>3. Live' = Live \ {s}
  BY <1>2 DEF Live
<1>4. owned' = {<<t, slots'[t].gen>> : t \in Live'}
  <2>1. owned = {<<t, slots[t].gen>> : t \in Live}
    BY DEF IInv, HandlesInv
  <2>2. {<<t, slots'[t].gen>> : t \in Live'} = {<<t, slots[t].gen>> : t \in Live \ {s}}
    BY <1>2, <1>3 DEF Live
  <2>3. {<<t, slots[t].gen>> : t \in Live \ {s}}
          = {<<t, slots[t].gen>> : t \in Live} \ {<<s, slots[s].gen>>}
    OBVIOUS
  <2> QED BY <1>1, <2>1, <2>2, <2>3
<1>5. ASSUME NEW g \in dead'
      PROVE  /\ g[2] <= slots'[g[1]].gen
             /\ g[2] = slots'[g[1]].gen => ~slots'[g[1]].live
  <2>1. CASE g = h
    <3>1. g[1] = s /\ g[2] = slots[s].gen
      BY <1>1, <2>1
    <3> QED BY <1>2, <3>1
  <2>2. CASE g \in dead
    <3>1. g[1] \in Slots /\ g[2] \in Nat
      BY <2>2, TypeFacts, HandleFields DEF IInv
    <3>2. /\ g[2] <= slots[g[1]].gen
          /\ g[2] = slots[g[1]].gen => ~slots[g[1]].live
      BY <2>2 DEF IInv, HandlesInv
    <3>3. CASE g[1] = s
      <4>1. slot.gen \in Nat
        BY DEF SlotRecord
      <4> QED BY <1>1, <1>2, <3>1, <3>2, <3>3, <4>1
    <3>4. CASE g[1] # s
      BY <1>2, <3>1, <3>2, <3>4
    <3> QED BY <3>3, <3>4
  <2> QED BY <2>1, <2>2
<1> QED BY <1>3, <1>4, <1>5 DEF HandlesInv

\* A buffer that goes back to the backend at once: no queued work was handed it.
LEMMA GivenBackKeeps ==
  ASSUME IInv, NEW h \in owned \cup dead, resolve(h), ~Pooled(h[1]),
         NEW slot \in SlotRecord, slots' = [slots EXCEPT ![h[1]] = slot],
         ~slot.live, ~slot.shared, ~slot.borrowed, slots[h[1]].gen <= slot.gen,
         owned' = owned \ {h}, dead' = dead \cup {h},
         recycled' = recycled \cup {h[1]}, UNCHANGED <<used, free, retiring, inflight>>
  PROVE  PlacesInv' /\ KeptInv' /\ HandlesInv'
<1> DEFINE s == h[1]
<1>1. s \in Live /\ s \in Slots /\ s \in 1 .. used
  BY ResolvedIsOwned
<1>2. slots'[s] = slot /\ \A t \in Slots \ {s} : slots'[t] = slots[t]
  BY <1>1 DEF IInv, TypeOK
<1>3. HandlesInv' /\ Live' = Live \ {s}
  BY ReleasedHandles
<1>4. \A i \in 1 .. Len(retiring) : retiring[i].slot \in Slots \ {s}
  BY <1>1, TypeFacts DEF IInv, PlacesInv, Live
<1>5. used \in Nat /\ MaxHandles \in Nat /\ used <= MaxHandles
  BY PoolAssumption, TypeFacts DEF IInv
<1>6. /\ free' \subseteq 1 .. used' /\ recycled' \subseteq 1 .. used'
      /\ free' \cap recycled' = {}
  BY <1>1 DEF IInv, PlacesInv
<1>7. \A t \in Live' : t <= used' /\ t \notin free' \cup recycled'
  BY <1>3 DEF IInv, PlacesInv
<1>8. \A i \in 1 .. Len(retiring') :
        /\ retiring'[i].slot <= used' /\ ~slots'[retiring'[i].slot].live
        /\ retiring'[i].slot \notin free' \cup recycled'
  BY <1>2, <1>4 DEF IInv, PlacesInv
<1>9. \A i, j \in 1 .. Len(retiring') : retiring'[i].slot = retiring'[j].slot => i = j
  BY DEF IInv, PlacesInv
<1>10. \A t \in (1 .. used') \ recycled' : slots'[t].native # NoBuffer
  BY <1>2, <1>5 DEF IInv, PlacesInv, Slots
<1>11. /\ \A t \in Slots \ Live' : Pooled(t)'
       /\ \A t \in Slots : ~(slots'[t].shared /\ slots'[t].borrowed)
  BY <1>2, <1>3 DEF IInv, PlacesInv, Pooled
<1>12. PlacesInv'
  BY <1>6, <1>7, <1>8, <1>9, <1>10, <1>11 DEF PlacesInv
<1>13. \A w \in inflight : \A g \in w.uses : g[1] \in Slots \ {s}
  BY TypeFacts, HandleFields DEF IInv, KeptInv
<1>14. KeptInv'
  BY <1>2, <1>13 DEF IInv, KeptInv, Pooled
<1> QED BY <1>3, <1>12, <1>14

\* A buffer that joins the queue: its entry waits for everything submitted.
LEMMA QueuedKeeps ==
  ASSUME IInv, NEW h \in owned \cup dead, resolve(h), ReleasePooled(h[1]),
         owned' = owned \ {h}, dead' = dead \cup {h},
         UNCHANGED <<used, free, inflight>>
  PROVE  PlacesInv' /\ KeptInv' /\ HandlesInv'
<1> DEFINE s == h[1]
<1>1. s \in Live /\ s \in Slots /\ s \in 1 .. used /\ slots[s] \in SlotRecord
  BY ResolvedIsOwned
<1> DEFINE slot == [slots[s] EXCEPT !.live = FALSE]
<1>2. /\ slot \in SlotRecord /\ ~slot.live /\ slots[s].gen <= slot.gen
      /\ slots' = [slots EXCEPT ![s] = slot]
  <2>1. slot \in SlotRecord
    BY <1>1, FieldUpdates
  <2>2. ~slot.live /\ slot.gen = slots[s].gen /\ slots[s].gen \in Nat
    BY <1>1 DEF SlotRecord
  <2>3. slots' = [slots EXCEPT ![s] = slot]
    BY DEF ReleasePooled
  <2> QED BY <2>1, <2>2, <2>3
<1>3. HandlesInv' /\ Live' = Live \ {s}
  <2> HIDE DEF slot
  <2> QED BY <1>2, ReleasedHandles
<1>4. /\ \A t \in Slots \ {s} : slots'[t] = slots[t]
      /\ ~slots'[s].live /\ slots'[s].gen = slots[s].gen
      /\ slots'[s].native = slots[s].native /\ slots'[s].shared = slots[s].shared
      /\ slots'[s].borrowed = slots[s].borrowed
  BY <1>1, <1>2 DEF IInv, TypeOK, SlotRecord
<1>5. [slot |-> s, at |-> submitted] \in RetiringRecord
  BY <1>1 DEF IInv, TypeOK, RetiringRecord
<1>6. /\ Len(retiring) \in Nat /\ Len(retiring') = Len(retiring) + 1
      /\ retiring'[Len(retiring')] = [slot |-> s, at |-> submitted]
      /\ \A i \in 1 .. Len(retiring) : retiring'[i] = retiring[i]
  <2>1. retiring \in Seq(RetiringRecord)
    BY DEF IInv, TypeOK
  <2>2. retiring' = Append(retiring, [slot |-> s, at |-> submitted])
    BY DEF ReleasePooled, Queued
  <2> QED BY <1>5, <2>1, <2>2, AppendProperties, LenProperties
<1>7. \A i \in 1 .. Len(retiring) :
        /\ retiring[i].slot \in Slots \ {s} /\ retiring[i].slot <= used
        /\ ~slots[retiring[i].slot].live /\ retiring[i].slot \notin free \cup recycled
  BY <1>1, TypeFacts DEF IInv, PlacesInv, Live
<1>8. s \notin free \cup recycled /\ Pooled(s) /\ recycled' = recycled
  BY <1>1 DEF IInv, PlacesInv, ReleasePooled
<1>9. \A i \in 1 .. Len(retiring') :
        /\ retiring'[i].slot <= used' /\ ~slots'[retiring'[i].slot].live
        /\ retiring'[i].slot \notin free' \cup recycled'
  <2>1. SUFFICES ASSUME NEW i \in 1 .. Len(retiring')
                 PROVE  /\ retiring'[i].slot <= used' /\ ~slots'[retiring'[i].slot].live
                        /\ retiring'[i].slot \notin free' \cup recycled'
    OBVIOUS
  <2>2. CASE i \in 1 .. Len(retiring)
    BY <2>2, <1>4, <1>6, <1>7, <1>8
  <2>3. CASE i = Len(retiring')
    BY <2>3, <1>1, <1>4, <1>6, <1>8
  <2> QED BY <2>2, <2>3, <1>6
<1>10. \A i, j \in 1 .. Len(retiring') : retiring'[i].slot = retiring'[j].slot => i = j
  <2>1. SUFFICES ASSUME NEW i \in 1 .. Len(retiring'), NEW j \in 1 .. Len(retiring'),
                        retiring'[i].slot = retiring'[j].slot
                 PROVE  i = j
    OBVIOUS
  <2>2. \A k \in 1 .. Len(retiring') : k \notin 1 .. Len(retiring) => k = Len(retiring')
    BY <1>6
  <2>3. CASE i \in 1 .. Len(retiring) /\ j \in 1 .. Len(retiring)
    BY <2>1, <2>3, <1>6 DEF IInv, PlacesInv
  <2>4. CASE i \in 1 .. Len(retiring) /\ j = Len(retiring')
    BY <2>1, <2>4, <1>6, <1>7
  <2>5. CASE j \in 1 .. Len(retiring) /\ i = Len(retiring')
    BY <2>1, <2>5, <1>6, <1>7
  <2> QED BY <2>2, <2>3, <2>4, <2>5
<1>11. PlacesInv'
  <2>1. /\ free' \subseteq 1 .. used' /\ recycled' \subseteq 1 .. used'
        /\ free' \cap recycled' = {}
        /\ \A t \in Live' : t <= used' /\ t \notin free' \cup recycled'
    BY <1>3, <1>8 DEF IInv, PlacesInv
  <2>2. used \in Nat /\ MaxHandles \in Nat /\ used <= MaxHandles
    BY PoolAssumption, TypeFacts DEF IInv
  <2>3. \A t \in (1 .. used') \ recycled' : slots'[t].native # NoBuffer
    BY <1>1, <1>4, <1>8, <2>2 DEF IInv, PlacesInv, Slots
  <2>4. /\ \A t \in Slots \ Live' : Pooled(t)'
        /\ \A t \in Slots : ~(slots'[t].shared /\ slots'[t].borrowed)
    BY <1>3, <1>4, <1>8 DEF IInv, PlacesInv, Pooled
  <2> QED BY <2>1, <2>3, <2>4, <1>9, <1>10 DEF PlacesInv
<1>12. KeptInv'
  <2>1. SUFFICES ASSUME NEW w \in inflight, NEW g \in w.uses
                 PROVE  /\ slots'[g[1]].gen = g[2] /\ Pooled(g[1])'
                        /\ \/ slots'[g[1]].live
                           \/ \E i \in 1 .. Len(retiring') :
                                retiring'[i].slot = g[1] /\ w.at <= retiring'[i].at
    BY DEF KeptInv
  <2>2. /\ g[1] \in Slots /\ slots[g[1]].gen = g[2] /\ Pooled(g[1])
        /\ \/ slots[g[1]].live
           \/ \E i \in 1 .. Len(retiring) : retiring[i].slot = g[1] /\ w.at <= retiring[i].at
    BY TypeFacts, HandleFields DEF IInv, KeptInv
  <2>3. slots'[g[1]].gen = g[2] /\ Pooled(g[1])'
    BY <1>4, <2>2 DEF Pooled
  <2>4. w.at <= submitted
    BY DEF IInv, QueueInv
  <2>5. CASE g[1] = s
    <3>1. /\ Len(retiring') \in 1 .. Len(retiring')
          /\ retiring'[Len(retiring')].slot = g[1] /\ w.at <= retiring'[Len(retiring')].at
      BY <1>6, <2>4, <2>5
    <3> QED BY <2>3, <3>1
  <2>6. CASE g[1] # s /\ slots[g[1]].live
    BY <1>4, <2>2, <2>3, <2>6
  <2>7. CASE g[1] # s /\ ~slots[g[1]].live
    <3>1. PICK i \in 1 .. Len(retiring) : retiring[i].slot = g[1] /\ w.at <= retiring[i].at
      BY <2>2, <2>7
    <3>2. i \in 1 .. Len(retiring') /\ retiring'[i] = retiring[i]
      BY <1>6
    <3> QED BY <2>3, <3>1, <3>2
  <2> QED BY <2>5, <2>6, <2>7
<1> QED BY <1>3, <1>11, <1>12

LEMMA ReleaseKeeps ==
  ASSUME IInv, NEW h \in owned \cup dead, release(h)
  PROVE  PlacesInv' /\ KeptInv' /\ HandlesInv'
<1> DEFINE s == h[1]
<1>1. /\ resolve(h) /\ owned' = owned \ {h} /\ dead' = dead \cup {h}
      /\ UNCHANGED <<used, free, inflight>>
  BY DEF release
<1>2. s \in Slots /\ slots[s] \in SlotRecord /\ slots[s].gen \in Nat /\ s \in Live
  BY <1>1, ResolvedIsOwned
<1>3. ~(slots[s].shared /\ slots[s].borrowed)
  BY <1>2 DEF IInv, PlacesInv
<1>4. CASE ReleaseBorrowed(s)
  <2> DEFINE slot == [Emptied(slots[s]) EXCEPT !.live = FALSE, !.borrowed = FALSE, !.gen = @ + 1]
  <2>1. slot \in SlotRecord
    BY <1>2, SlotOperations
  <2>2. /\ ~slot.live /\ ~slot.shared /\ ~slot.borrowed /\ slots[s].gen <= slot.gen
    BY <1>2, <1>3, <1>4 DEF SlotRecord, Emptied, ReleaseBorrowed
  <2>3. /\ ~Pooled(s) /\ slots' = [slots EXCEPT ![s] = slot]
        /\ recycled' = recycled \cup {s} /\ UNCHANGED retiring
    BY <1>4 DEF ReleaseBorrowed, Pooled
  <2> HIDE DEF slot
  <2> QED BY <1>1, <2>1, <2>2, <2>3, GivenBackKeeps
<1>5. CASE ReleaseShared(s)
  <2>1. Unshared(slots[s]) \in SlotRecord
    BY <1>2, SlotOperations
  <2>2. /\ ~Unshared(slots[s]).live /\ ~Unshared(slots[s]).shared
        /\ ~Unshared(slots[s]).borrowed /\ slots[s].gen <= Unshared(slots[s]).gen
    BY <1>2, <1>5 DEF SlotRecord, Emptied, Unshared, ReleaseShared
  <2>3. /\ ~Pooled(s) /\ slots' = [slots EXCEPT ![s] = Unshared(slots[s])]
        /\ recycled' = recycled \cup {s} /\ UNCHANGED retiring
    BY <1>5 DEF ReleaseShared, Pooled
  <2> QED BY <1>1, <2>1, <2>2, <2>3, GivenBackKeeps
<1>6. CASE ReleasePooled(s)
  BY <1>1, <1>6, QueuedKeeps
<1> QED BY <1>4, <1>5, <1>6 DEF release

-----------------------------------------------------------------------------
\* No number the pool adopts as its mark reaches queued work: the backend
\* counts only what it accepted, so its numbers lag behind the pool's own.
LEMMA MarksBelow ==
  ASSUME IInv
  PROVE  /\ Published \in Nat /\ Marked \in Nat
         /\ Published <= submitted /\ completed <= Published
         /\ \A w \in inflight : Published < w.at
         /\ Marked <= submitted /\ completed <= Marked
<1>1. Published \in Nat /\ Marked \in Nat
  BY MarkIsNat DEF IInv
<1>2. /\ submitted \in Nat /\ completed \in Nat /\ accepted \in Nat
      /\ finished \in Nat /\ reported \in Nat
      /\ \A w \in inflight : w.num \in Nat /\ w.at \in Nat
  BY TypeFacts DEF IInv
<1>3. Published <= submitted /\ completed <= Published
  BY <1>2 DEF IInv, QueueInv, Published, Later
<1>4. \A w \in inflight : Published < w.at
  BY <1>2 DEF IInv, QueueInv, Published, Later
<1>5. Marked <= submitted /\ completed <= Marked
  BY <1>2 DEF IInv, QueueInv, Marked, Later
<1> QED BY <1>1, <1>3, <1>4, <1>5

\* Steps that may move the mark and nothing else of the numbers.
LEMMA QueueKeeps ==
  ASSUME IInv, completed' <= submitted, \A w \in inflight : completed' < w.at,
         UNCHANGED <<submitted, inflight, accepted, finished, reported>>,
         call'.pc \in {"roomMark", "mark"} => inflight = {}
  PROVE  QueueInv'
  BY DEF IInv, QueueInv

\* Steps that leave the table and the queued work alone, or finish some of it.
LEMMA TableKeeps ==
  ASSUME IInv, UNCHANGED <<slots, used, free, recycled, retiring, owned, dead>>,
         inflight' \subseteq inflight
  PROVE  PlacesInv' /\ KeptInv' /\ HandlesInv'
<1>1. PlacesInv'
  BY DEF IInv, PlacesInv, Live, Pooled
<1>2. KeptInv'
  BY DEF IInv, KeptInv, Pooled
<1>3. HandlesInv'
  BY DEF IInv, HandlesInv, Live
<1> QED BY <1>1, <1>2, <1>3

LEMMA InitInv == Init => IInv
<1> SUFFICES ASSUME Init PROVE IInv
  OBVIOUS
<1>1. TypeOK
  BY InitType
<1>2. QueueInv
  BY DEF Init, QueueInv, Idle
<1>3. PlacesInv
  BY EmptySeq DEF Init, PlacesInv, Live, Pooled, FreshSlot, Slots
<1>4. KeptInv
  BY DEF Init, KeptInv
<1>5. HandlesInv
  BY DEF Init, HandlesInv, Live, FreshSlot
<1> QED BY <1>1, <1>2, <1>3, <1>4, <1>5 DEF IInv

LEMMA NextInv == IInv /\ [Next]_vars => IInv'
<1> SUFFICES ASSUME IInv, [Next]_vars PROVE IInv'
  OBVIOUS
<1> USE DEF At, Goes, Idle, Off
<1>0. TypeOK'
  BY NextType DEF IInv
<1> SUFFICES QueueInv' /\ PlacesInv' /\ KeptInv' /\ HandlesInv'
  BY <1>0 DEF IInv
<1>a. /\ Published \in Nat /\ Marked \in Nat
      /\ Published <= submitted /\ completed <= Published
      /\ \A w \in inflight : Published < w.at
      /\ Marked <= submitted /\ completed <= Marked
  BY MarksBelow
<1>b. completed <= submitted /\ \A w \in inflight : completed < w.at
  BY DEF IInv, QueueInv
<1>c. call.pc \in {"roomMark", "mark"} => inflight = {}
  BY DEF IInv, QueueInv
<1>d. call \in [pc : PCs, want : Requests \cup {0}]
  BY DEF IInv, TypeOK
<1>1. ASSUME NEW r \in Requests, alloc(r)
      PROVE  QueueInv' /\ PlacesInv' /\ KeptInv' /\ HandlesInv'
  <2>1. completed' = Published /\ UNCHANGED submitted
    BY <1>1, <1>a, ReclaimType DEF alloc, IInv
  <2>2. QueueInv'
    BY <1>1, <1>a, <2>1, QueueKeeps DEF alloc
  <2>3. PlacesInv' /\ KeptInv' /\ HandlesInv'
    BY <1>1, <1>a, ReclaimKeeps DEF alloc
  <2> QED BY <2>2, <2>3
<1>2. ASSUME NEW s \in free, Hit(s)
      PROVE  QueueInv' /\ PlacesInv' /\ KeptInv' /\ HandlesInv'
  <2> DEFINE slot == Handed(slots[s])
  <2>1. s \in Slots /\ slots[s] \in SlotRecord /\ call.want \in Requests
    BY <1>2 DEF Hit, IInv, TypeOK
  <2>2. slot \in SlotRecord
    BY <2>1, SlotOperations, PoolAssumption
  <2>3. slot.live /\ slot.gen = slots[s].gen + 1 /\ slot.native = slots[s].native
        /\ slot.shared = slots[s].shared /\ slot.borrowed = slots[s].borrowed
    BY <2>1 DEF Handed, SlotRecord
  <2>4. used \in Nat /\ s \in 1 .. used /\ s \notin recycled
    BY TypeFacts DEF IInv, PlacesInv
  <2>5. /\ ~slots[s].live /\ slots[s].native # NoBuffer
        /\ \A i \in 1 .. Len(retiring) : retiring[i].slot # s
        /\ ~(slots[s].shared /\ slots[s].borrowed)
    BY <2>1, <2>4 DEF IInv, PlacesInv, Live
  <2>6. /\ slots' = [slots EXCEPT ![s] = slot] /\ free' \subseteq free \ {s}
        /\ HandsOut(s) /\ UNCHANGED <<used, recycled, retiring, inflight>>
    BY <1>2 DEF Hit, device
  <2>7. PlacesInv' /\ KeptInv' /\ HandlesInv'
    <3>1. /\ used' \in Nat /\ used <= used' /\ s <= used' /\ recycled' \subseteq recycled \ {s}
          /\ (1 .. used') \ recycled' \subseteq ((1 .. used) \ recycled) \cup {s}
      BY <2>4, <2>6
    <3>2. slot.live /\ slot.gen = slots[s].gen + 1 /\ slot.native # NoBuffer
          /\ ~(slot.shared /\ slot.borrowed)
      BY <2>3, <2>5
    <3> HIDE DEF slot
    <3> QED BY <2>1, <2>2, <2>5, <2>6, <3>1, <3>2, HandOutKeeps
  <2>8. QueueInv'
    BY <1>2, <1>b, QueueKeeps DEF Hit, device
  <2> QED BY <2>7, <2>8
<1>3. CASE Miss
  BY <1>3, <1>b, <1>d, QueueKeeps, TableKeeps DEF Miss, pool, device
<1>4. CASE RoomReclaim
  <2>1. completed' = Published /\ UNCHANGED submitted
    BY <1>4, <1>a, ReclaimType DEF RoomReclaim, IInv
  <2>2. QueueInv'
    BY <1>4, <1>a, <1>d, <2>1, QueueKeeps DEF RoomReclaim
  <2>3. PlacesInv' /\ KeptInv' /\ HandlesInv'
    BY <1>4, <1>a, ReclaimKeeps DEF RoomReclaim
  <2> QED BY <2>2, <2>3
<1>5. CASE RoomSync
  BY <1>5, <1>b, QueueKeeps, TableKeeps DEF RoomSync, pool, device
<1>6. CASE RoomMark
  <2>1. completed' = Marked /\ UNCHANGED submitted /\ inflight = {}
    BY <1>6, <1>a, <1>c, ReclaimType DEF RoomMark, IInv
  <2>2. QueueInv'
    BY <1>6, <1>a, <1>d, <2>1, QueueKeeps DEF RoomMark
  <2>3. PlacesInv' /\ KeptInv' /\ HandlesInv'
    BY <1>6, <1>a, <2>1, ReclaimKeeps DEF RoomMark
  <2> QED BY <2>2, <2>3
<1>7. CASE RoomTrim
  <2>1. completed' = Published /\ UNCHANGED submitted
    BY <1>7, TrimType DEF RoomTrim, IInv
  <2>2. QueueInv'
    BY <1>7, <1>a, <1>d, <2>1, QueueKeeps DEF RoomTrim
  <2>3. PlacesInv' /\ KeptInv' /\ HandlesInv'
    BY <1>7, <1>a, TrimKeeps DEF RoomTrim
  <2> QED BY <2>2, <2>3
<1>8. ASSUME NEW gave \in BOOLEAN, PressureAnswers(gave)
      PROVE  QueueInv' /\ PlacesInv' /\ KeptInv' /\ HandlesInv'
  BY <1>8, <1>b, <1>d, QueueKeeps, TableKeeps DEF PressureAnswers, pool, device
<1>9. CASE Relieved
  <2>1. completed' = Published /\ UNCHANGED submitted
    BY <1>9, TrimType DEF Relieved, IInv
  <2>2. QueueInv'
    BY <1>9, <1>a, <1>d, <2>1, QueueKeeps DEF Relieved, NoRoom
  <2>3. PlacesInv' /\ KeptInv' /\ HandlesInv'
    BY <1>9, <1>a, TrimKeeps DEF Relieved
  <2> QED BY <2>2, <2>3
<1>10. ASSUME NEW s \in Slots, NEW n \in Natives, NativeAlloc(s, n)
       PROVE  QueueInv' /\ PlacesInv' /\ KeptInv' /\ HandlesInv'
  <2> DEFINE bought == [slots[s] EXCEPT !.native = n, !.bytes = Size]
             slot == Handed(bought)
  <2>1. slots[s] \in SlotRecord /\ call.want \in Requests
    BY <1>10 DEF NativeAlloc, IInv, TypeOK
  <2>2. Size \in Nat
    BY <2>1, PoolAssumption DEF Size
  <2>3. slot \in SlotRecord
    BY <2>1, <2>2, SlotOperations, PoolAssumption
  <2>4. bought \in SlotRecord
    BY <2>1, <2>2, SlotOperations
  <2>5. /\ bought.native = n /\ bought.gen = slots[s].gen
        /\ bought.shared = slots[s].shared /\ bought.borrowed = slots[s].borrowed
    BY <2>1 DEF SlotRecord
  <2>6. /\ slot.live /\ slot.gen = bought.gen + 1 /\ slot.native = bought.native
        /\ slot.shared = bought.shared /\ slot.borrowed = bought.borrowed
    <3> HIDE DEF bought
    <3> QED BY <2>4 DEF Handed, SlotRecord
  <2>7. ~(slot.shared /\ slot.borrowed) /\ slot.native # NoBuffer
    BY <2>5, <2>6, PoolAssumption DEF IInv, PlacesInv
  <2>8. /\ slots' = [slots EXCEPT ![s] = slot] /\ TakesSlot(s)
        /\ HandsOut(s) /\ UNCHANGED <<free, retiring, inflight>>
    BY <1>10 DEF NativeAlloc
  <2>9. slot.gen = slots[s].gen + 1
    BY <2>5, <2>6
  <2>10. PlacesInv' /\ KeptInv' /\ HandlesInv'
    <3> HIDE DEF slot
    <3> QED BY <2>3, <2>6, <2>7, <2>8, <2>9, TakenSlot, HandOutKeeps
  <2>11. QueueInv'
    BY <1>10, <1>b, QueueKeeps DEF NativeAlloc
  <2> QED BY <2>10, <2>11
<1>11. CASE NativeRefuses
  BY <1>11, <1>b, QueueKeeps, TableKeeps DEF NativeRefuses, pool, device
<1>12. CASE SyncWaits
  BY <1>12, <1>b, QueueKeeps, TableKeeps DEF SyncWaits, pool, device
<1>13. CASE SyncMarks
  <2>1. completed' = Marked /\ UNCHANGED submitted /\ inflight = {}
    BY <1>13, <1>a, <1>c, ReclaimType DEF SyncMarks, IInv
  <2>2. QueueInv'
    BY <1>13, <1>a, <2>1, QueueKeeps DEF SyncMarks
  <2>3. PlacesInv' /\ KeptInv' /\ HandlesInv'
    BY <1>13, <1>a, <2>1, ReclaimKeeps DEF SyncMarks
  <2> QED BY <2>2, <2>3
<1>14. ASSUME NEW s \in Slots, NEW n \in Natives, NEW r \in Requests,
              allocShared(s, n, r)
       PROVE  QueueInv' /\ PlacesInv' /\ KeptInv' /\ HandlesInv'
  <2> DEFINE slot == [Filled(slots[s], n, r) EXCEPT !.shared = TRUE]
  <2>1. /\ slots' = [slots EXCEPT ![s] = slot] /\ TakesSlot(s)
        /\ HandsOut(s) /\ UNCHANGED <<free, retiring, inflight>>
    BY <1>14 DEF allocShared
  <2>2. slots[s] \in SlotRecord /\ slot \in SlotRecord
    BY <2>1, TakenType, SlotOperations, PoolAssumption DEF IInv
  <2>3. ~slots[s].borrowed
    BY <2>1, TakenSlot DEF IInv, PlacesInv, Live, Pooled
  <2>4. slot.live /\ slot.gen = slots[s].gen + 1 /\ slot.native # NoBuffer
        /\ ~(slot.shared /\ slot.borrowed)
    BY <2>2, <2>3, PoolAssumption DEF Filled, SlotRecord
  <2>5. PlacesInv' /\ KeptInv' /\ HandlesInv'
    <3> HIDE DEF slot
    <3> QED BY <2>1, <2>2, <2>4, TakenSlot, HandOutKeeps
  <2>6. QueueInv'
    BY <1>14, <1>b, QueueKeeps DEF allocShared
  <2> QED BY <2>5, <2>6
<1>15. ASSUME NEW s \in Slots, NEW n \in Natives, NEW r \in Requests, adopt(s, n, r)
       PROVE  QueueInv' /\ PlacesInv' /\ KeptInv' /\ HandlesInv'
  <2> DEFINE slot == [Filled(slots[s], n, r) EXCEPT !.borrowed = TRUE]
  <2>1. /\ slots' = [slots EXCEPT ![s] = slot] /\ TakesSlot(s)
        /\ HandsOut(s) /\ UNCHANGED <<free, retiring, inflight>>
    BY <1>15 DEF adopt
  <2>2. slots[s] \in SlotRecord /\ slot \in SlotRecord
    BY <2>1, TakenType, SlotOperations, PoolAssumption DEF IInv
  <2>3. ~slots[s].shared
    BY <2>1, TakenSlot DEF IInv, PlacesInv, Live, Pooled
  <2>4. slot.live /\ slot.gen = slots[s].gen + 1 /\ slot.native # NoBuffer
        /\ ~(slot.shared /\ slot.borrowed)
    BY <2>2, <2>3, PoolAssumption DEF Filled, SlotRecord
  <2>5. PlacesInv' /\ KeptInv' /\ HandlesInv'
    <3> HIDE DEF slot
    <3> QED BY <2>1, <2>2, <2>4, TakenSlot, HandOutKeeps
  <2>6. QueueInv'
    BY <1>15, <1>b, QueueKeeps DEF adopt
  <2> QED BY <2>5, <2>6
<1>16. ASSUME NEW h \in owned \cup dead, release(h)
       PROVE  QueueInv' /\ PlacesInv' /\ KeptInv' /\ HandlesInv'
  <2>1. QueueInv'
    BY <1>16, <1>b, <1>c, QueueKeeps DEF release
  <2> QED BY <1>16, <2>1, ReleaseKeeps
<1>17. CASE trim
  <2>1. completed' = Published /\ UNCHANGED submitted
    BY <1>17, TrimType DEF trim, IInv
  <2>2. QueueInv'
    BY <1>17, <1>a, <1>c, <2>1, QueueKeeps DEF trim
  <2>3. PlacesInv' /\ KeptInv' /\ HandlesInv'
    BY <1>17, <1>a, TrimKeeps DEF trim
  <2> QED BY <2>2, <2>3
<1>18. ASSUME NEW H \in SUBSET owned, dispatch(H)
       PROVE  QueueInv' /\ PlacesInv' /\ KeptInv' /\ HandlesInv'
  <2> DEFINE work == [num |-> accepted + 1, at |-> submitted + 1,
                      uses |-> {h \in H : Pooled(h[1])}]
  <2>1. /\ submitted' = submitted + 1 /\ accepted' = accepted + 1
        /\ inflight' = inflight \cup {work}
        /\ UNCHANGED <<slots, used, free, recycled, retiring, completed, finished,
                       reported, owned, dead, call>>
        /\ call.pc = "idle"
    BY <1>18 DEF dispatch, MayDispatch
  <2>2. /\ submitted \in Nat /\ completed \in Nat /\ accepted \in Nat
        /\ finished \in Nat /\ reported \in Nat
        /\ \A w \in inflight : w.num \in Nat /\ w.at \in Nat
    BY TypeFacts DEF IInv
  <2>3. /\ reported' <= finished' /\ finished' <= accepted'
        /\ accepted' <= submitted' /\ completed' <= submitted'
    BY <2>1, <2>2 DEF IInv, QueueInv
  <2>4. \A w \in inflight' : /\ finished' < w.num /\ w.num <= accepted' /\ w.num <= w.at
                             /\ w.at <= submitted' /\ completed' < w.at
    BY <2>1, <2>2 DEF IInv, QueueInv
  <2>5. \A v, w \in inflight' : v.num = w.num => v = w
    <3>1. \A w \in inflight : w.num # work.num
      BY <2>2 DEF IInv, QueueInv
    <3> QED BY <2>1, <3>1 DEF IInv, QueueInv
  <2>6. QueueInv'
    BY <2>1, <2>3, <2>4, <2>5 DEF QueueInv
  <2>7. PlacesInv' /\ HandlesInv'
    BY <2>1 DEF IInv, PlacesInv, HandlesInv, Live, Pooled
  <2>8. \A h \in work.uses : slots[h[1]].gen = h[2] /\ Pooled(h[1]) /\ slots[h[1]].live
    BY DEF IInv, HandlesInv, Live
  <2>9. KeptInv'
    BY <2>1, <2>8 DEF IInv, KeptInv, Pooled
  <2> QED BY <2>6, <2>7, <2>9
<1>19. CASE dispatchRefused
  <2>1. /\ submitted' = submitted + 1 /\ submitted \in Nat /\ completed \in Nat
        /\ accepted \in Nat /\ \A w \in inflight : w.at \in Nat
        /\ UNCHANGED <<slots, used, free, recycled, retiring, completed, call, device,
                       owned, dead>>
    BY <1>19, TypeFacts DEF dispatchRefused, IInv
  <2>2. QueueInv'
    BY <2>1 DEF IInv, QueueInv, device
  <2>3. PlacesInv' /\ KeptInv' /\ HandlesInv'
    BY <2>1, TableKeeps DEF device
  <2> QED BY <2>2, <2>3
<1>20. CASE sync
  BY <1>20, <1>b, <1>d, QueueKeeps, TableKeeps DEF sync, pool, device
<1>21. ASSUME NEW at \in 1 .. submitted, waitFor(at)
       PROVE  QueueInv' /\ PlacesInv' /\ KeptInv' /\ HandlesInv'
  <2>1. completed' = Published /\ UNCHANGED submitted
    BY <1>21, <1>a, ReclaimType DEF waitFor, IInv
  <2>2. QueueInv'
    BY <1>21, <1>a, <1>c, <2>1, QueueKeeps DEF waitFor
  <2>3. PlacesInv' /\ KeptInv' /\ HandlesInv'
    BY <1>21, <1>a, ReclaimKeeps DEF waitFor
  <2> QED BY <2>2, <2>3
<1>22. CASE Spin
  <2>1. QueueInv'
    BY <1>22, <1>a, <1>c, QueueKeeps DEF Spin, device
  <2> QED BY <1>22, <2>1, TableKeeps DEF Spin, device
<1>23. CASE WaitSyncs
  BY <1>23, <1>b, <1>d, QueueKeeps, TableKeeps DEF WaitSyncs, pool, device
<1>24. CASE Finish
  <2>1. PICK w \in inflight :
          /\ \A v \in inflight : w.num <= v.num
          /\ inflight' = inflight \ {w} /\ finished' = w.num
          /\ UNCHANGED <<pool, call, accepted, reported, owned, dead>>
    BY <1>24 DEF Finish
  <2>2. /\ finished \in Nat /\ reported \in Nat /\ w.num \in Nat
        /\ \A v \in inflight : v.num \in Nat
    BY TypeFacts DEF IInv
  <2>3. \A v \in inflight' : finished' < v.num
    BY <2>1, <2>2 DEF IInv, QueueInv
  <2>4. reported' <= finished' /\ finished' <= accepted'
    BY <2>1, <2>2, TypeFacts DEF IInv, QueueInv
  <2>5. QueueInv'
    BY <2>1, <2>3, <2>4 DEF IInv, QueueInv, pool
  <2>6. PlacesInv' /\ KeptInv' /\ HandlesInv'
    BY <2>1, TableKeeps DEF pool
  <2> QED BY <2>5, <2>6
<1>25. ASSUME NEW k \in 1 .. finished, Report(k)
       PROVE  QueueInv' /\ PlacesInv' /\ KeptInv' /\ HandlesInv'
  <2>1. QueueInv'
    BY <1>25 DEF Report, IInv, QueueInv, pool
  <2> QED BY <1>25, <2>1, TableKeeps DEF Report, pool
<1>26. CASE UNCHANGED vars
  BY <1>26, <1>b, <1>c, QueueKeeps, TableKeeps DEF vars, pool, device
<1> QED
  BY <1>1, <1>2, <1>3, <1>4, <1>5, <1>6, <1>7, <1>8, <1>9, <1>10, <1>11, <1>12, <1>13,
     <1>14, <1>15, <1>16, <1>17, <1>18, <1>19, <1>20, <1>21, <1>22, <1>23, <1>24,
     <1>25, <1>26 DEF Next, Body

-----------------------------------------------------------------------------
THEOREM Invariance == Spec => []IInv
<1>1. Init => IInv
  BY InitInv
<1>2. IInv /\ [Next]_vars => IInv'
  BY NextInv
<1> QED BY <1>1, <1>2, PTL DEF Spec

\* retired(at) tells the truth (pool.h:222): the mark is below every piece of
\* queued work, however the backend's count lags and whoever moves the mark.
THEOREM WatermarkTold == Spec => []WatermarkSound
<1>1. IInv => WatermarkSound
  BY DEF IInv, QueueInv, WatermarkSound
<1> QED BY <1>1, Invariance, PTL

\* No buffer is reused, recycled or returned to the driver while work that was
\* handed it is still queued (release and reclaimLocked, pool.cpp:163, 280).
THEOREM MemoryKept == Spec => []InFlightKept
<1>1. IInv => InFlightKept
  <2> SUFFICES ASSUME IInv, NEW w \in inflight, NEW h \in w.uses
               PROVE  /\ slots[h[1]].gen = h[2] /\ slots[h[1]].native # NoBuffer
                      /\ h[1] \notin free \cup recycled
    BY DEF InFlightKept
  <2>1. h[1] \in Slots /\ used \in Nat
    BY TypeFacts, HandleFields DEF IInv
  <2>2. /\ slots[h[1]].gen = h[2]
        /\ \/ slots[h[1]].live
           \/ \E i \in 1 .. Len(retiring) : retiring[i].slot = h[1]
    BY DEF IInv, KeptInv
  <2>3. h[1] <= used /\ h[1] \notin free \cup recycled
    BY <2>1, <2>2 DEF IInv, PlacesInv, Live
  <2>4. slots[h[1]].native # NoBuffer
    BY <2>1, <2>3 DEF IInv, PlacesInv, Slots
  <2> QED BY <2>2, <2>3, <2>4
<1> QED BY <1>1, Invariance, PTL

\* Generations (pool.cpp:135): a handle that is held resolves to its slot, and
\* one that was released is never anybody's handle again.
THEOREM HandlesKept == Spec => []HandlesExact
<1>1. IInv => HandlesExact
  <2> SUFFICES ASSUME IInv PROVE HandlesExact
    OBVIOUS
  <2>1. owned = {<<s, slots[s].gen>> : s \in Live}
    BY DEF IInv, HandlesInv
  <2>2. ASSUME NEW h \in owned, h \in dead PROVE FALSE
    <3>1. PICK s \in Live : h = <<s, slots[s].gen>>
      BY <2>1
    <3>2. h[1] = s /\ h[2] = slots[s].gen /\ slots[s].live
      BY <3>1 DEF Live
    <3>3. h[2] = slots[h[1]].gen => ~slots[h[1]].live
      BY <2>2 DEF IInv, HandlesInv
    <3> QED BY <3>2, <3>3
  <2> QED BY <2>1, <2>2 DEF HandlesExact
<1> QED BY <1>1, Invariance, PTL

\* The mark never falls back: a sync's store is not undone by the late number
\* of a handler (notifyCompleted's compare-and-swap, pool.h:212).
THEOREM MarkNeverFalls == Spec => MarkClimbs
<1>1. IInv /\ [Next]_vars => [completed' >= completed]_completed
  <2> SUFFICES ASSUME IInv, [Next]_vars, completed' # completed
               PROVE  completed' >= completed
    OBVIOUS
  <2>1. /\ Published \in Nat /\ Marked \in Nat
        /\ completed <= Published /\ completed <= Marked
    BY MarksBelow
  <2>2. completed \in Nat
    BY TypeFacts DEF IInv
  <2>3. \A done \in Nat : reclaimLocked(done) => completed' = done
    BY ReclaimType DEF IInv
  <2>4. trimLocked => completed' = Published
    BY TrimType DEF IInv
  <2>5. completed' \in {Published, Marked}
    BY <2>1, <2>3, <2>4
       DEF Next, Body, alloc, Hit, Miss, RoomReclaim, RoomSync, RoomMark, RoomTrim,
           PressureAnswers, Relieved, NativeAlloc, NativeRefuses, SyncWaits, SyncMarks,
           allocShared, adopt, release, trim, dispatch, dispatchRefused, sync, waitFor,
           Spin, WaitSyncs, Finish, Report, vars, pool
  <2> QED BY <2>1, <2>2, <2>5
<1> QED BY <1>1, Invariance, PTL DEF Spec, MarkClimbs
-----------------------------------------------------------------------------
(***************************************************************************)
(* That draining the retiring queue from its front leaves nothing behind,  *)
(* and that a wait ends only when what it waited for has retired.          *)
(***************************************************************************)

LEMMA DrainOrder ==
  ASSUME TypeOK, OrderInv, NEW done \in Nat, NEW n \in 0 .. Len(retiring),
         Drains(done, n), submitted' = submitted
  PROVE  /\ \A i \in 1 .. Len(retiring') : retiring'[i].at <= submitted'
         /\ \A i, j \in 1 .. Len(retiring') : i <= j => retiring'[i].at <= retiring'[j].at
         /\ \A i \in 1 .. Len(retiring') : retiring'[i].at > completed'
<1>1. retiring \in Seq(RetiringRecord) /\ Len(retiring) \in Nat
  BY LenProperties DEF TypeOK
<1>2. /\ Len(retiring') = Len(retiring) - n /\ completed' = done
      /\ \A i \in 1 .. Len(retiring) - n : retiring'[i] = retiring[i + n]
      /\ n < Len(retiring) => retiring[n + 1].at > done
  BY <1>1, DropsFront DEF Drains
<1>3. \A i \in 1 .. Len(retiring') :
        i + n \in 1 .. Len(retiring) /\ retiring'[i] = retiring[i + n]
  BY <1>1, <1>2
<1>4. \A i \in 1 .. Len(retiring') : retiring'[i].at <= submitted'
  BY <1>3 DEF OrderInv
<1>5. \A i, j \in 1 .. Len(retiring') : i <= j => retiring'[i].at <= retiring'[j].at
  <2>1. SUFFICES ASSUME NEW i \in 1 .. Len(retiring'), NEW j \in 1 .. Len(retiring'),
                        i <= j
                 PROVE  retiring'[i].at <= retiring'[j].at
    OBVIOUS
  <2>2. i + n <= j + n
    BY <2>1, <1>1, <1>2
  <2> QED BY <2>2, <1>3 DEF OrderInv
<1>6. \A i \in 1 .. Len(retiring') : retiring'[i].at > completed'
  <2>1. SUFFICES ASSUME NEW i \in 1 .. Len(retiring') PROVE retiring'[i].at > completed'
    OBVIOUS
  <2>2. n + 1 \in 1 .. Len(retiring) /\ n + 1 <= i + n /\ n < Len(retiring)
    BY <1>1, <1>2
  <2>3. retiring[n + 1].at <= retiring[i + n].at
    BY <2>2, <1>3 DEF OrderInv
  <2>4. retiring[n + 1].at \in Nat /\ retiring[i + n].at \in Nat
    BY <2>2, <1>3, TypeFacts
  <2> QED BY <2>2, <2>3, <2>4, <1>2, <1>3
<1> QED BY <1>4, <1>5, <1>6

\* reclaimLocked and trimLocked, for the order: what they leave is not retired.
LEMMA ReclaimOrder ==
  ASSUME TypeOK, OrderInv, waiter'.at <= submitted,
         \/ \E done \in Nat : reclaimLocked(done)
         \/ trimLocked
  PROVE  OrderInv' /\ \A i \in 1 .. Len(retiring') : retiring'[i].at > completed'
<1>1. PICK done \in Nat, n \in 0 .. Len(retiring) :
        Drains(done, n) /\ submitted' = submitted
  BY MarkIsNat DEF reclaimLocked, trimLocked
<1> QED BY <1>1, DrainOrder DEF OrderInv

LEMMA OrderKept ==
  ASSUME OrderInv, UNCHANGED retiring, submitted <= submitted', submitted \in Nat,
         submitted' \in Nat, TypeOK, waiter'.at = waiter.at \/ waiter'.at = 0
  PROVE  OrderInv'
<1>1. waiter.at \in Nat
  BY DEF TypeOK
<1>2. \A i \in 1 .. Len(retiring) : retiring[i].at \in Nat
  BY TypeFacts
<1> QED BY <1>1, <1>2 DEF OrderInv

\* A step keeps the order; one that shortens the queue leaves nothing behind
\* that is retired; one that ends a wait has reached what was waited for.
LEMMA NextOrder ==
  ASSUME IInv, OrderInv, [Next]_vars
  PROVE  /\ OrderInv'
         /\ Len(retiring') < Len(retiring) \/ (call' # call /\ call'.pc = "lookup")
              => \A i \in 1 .. Len(retiring') : retiring'[i].at > completed'
         /\ waiter.phase # "off" /\ waiter'.phase = "off" => completed' >= waiter.at
<1> DEFINE Reached == waiter.phase # "off" /\ waiter'.phase = "off" => completed' >= waiter.at
           Cleared == \A i \in 1 .. Len(retiring') : retiring'[i].at > completed'
           Looks == call' # call /\ call'.pc = "lookup"
           Shorter == Len(retiring') < Len(retiring) \/ Looks
<1> USE DEF At, Goes, Idle, Off
<1>0. TypeOK
  BY DEF IInv
<1>a. Published \in Nat /\ Marked \in Nat /\ submitted \in Nat /\ completed \in Nat
  BY MarksBelow, TypeFacts, <1>0
<1>b. waiter.at \in Nat /\ waiter.at <= submitted
  BY <1>0 DEF TypeOK, OrderInv
<1>c. waiter \in [phase : {"off", "spin", "sync"}, at : Nat, spins : Nat]
  BY <1>0 DEF TypeOK
<1>d. call \in [pc : PCs, want : Requests \cup {0}]
  BY <1>0 DEF TypeOK
<1>1. ASSUME UNCHANGED waiter, \E done \in Nat : reclaimLocked(done) \/ trimLocked
      PROVE  OrderInv' /\ (Shorter => Cleared) /\ Reached
  BY <1>1, <1>0, <1>b, ReclaimOrder
<1>2. ASSUME UNCHANGED <<waiter, retiring, submitted>>, ~Looks
      PROVE  OrderInv' /\ (Shorter => Cleared) /\ Reached
  <2>1. OrderInv'
    BY <1>2 DEF OrderInv
  <2>2. ~Shorter
    BY <1>2, <1>0, TypeFacts
  <2> QED BY <1>2, <2>1, <2>2
<1>3. \/ \E r \in Requests : alloc(r)
      \/ RoomReclaim \/ RoomMark \/ RoomTrim \/ Relieved \/ trim
      => /\ UNCHANGED waiter
         /\ \E done \in Nat : reclaimLocked(done) \/ trimLocked
  BY <1>a DEF alloc, RoomReclaim, RoomMark, RoomTrim, Relieved, trim
<1>4. ASSUME \/ \E s \in free : Hit(s)
             \/ Miss \/ RoomSync \/ NativeRefuses \/ SyncWaits \/ sync
             \/ \E gave \in BOOLEAN : PressureAnswers(gave)
             \/ \E s \in Slots, n \in Natives : NativeAlloc(s, n)
             \/ \E s \in Slots, n \in Natives, r \in Requests :
                  allocShared(s, n, r) \/ adopt(s, n, r)
             \/ Finish
             \/ \E k \in 1 .. finished : Report(k)
             \/ UNCHANGED vars
      PROVE  OrderInv' /\ (Shorter => Cleared) /\ Reached
  <2>1. UNCHANGED <<waiter, retiring, submitted>>
    BY <1>4 DEF Hit, Miss, RoomSync, NativeRefuses, SyncWaits, sync, PressureAnswers,
                NativeAlloc, allocShared, adopt, Finish, Report, vars, pool
  <2>2. UNCHANGED call \/ call' = Idle
        \/ \E pc \in {"room", "native", "roomMark", "mark", "sync", "relieved"} : Goes(pc)
    BY <1>4 DEF Hit, Miss, RoomSync, NativeRefuses, SyncWaits, sync, PressureAnswers,
                NativeAlloc, allocShared, adopt, Finish, Report, vars, pool
  <2>3. ~Looks
    BY <1>d, <2>2
  <2> QED BY <1>2, <2>1, <2>3
<1>5. CASE SyncMarks
  <2>1. completed' = Marked
    BY <1>5, <1>0, <1>a, ReclaimType DEF SyncMarks
  <2>2. Marked >= submitted
    BY <1>a, <1>0, TypeFacts DEF Marked, Later
  <2>3. waiter'.at <= submitted
    BY <1>5, <1>a, <1>b DEF SyncMarks
  <2>4. OrderInv' /\ Cleared
    BY <1>5, <1>0, <1>a, <2>3, ReclaimOrder DEF SyncMarks
  <2> QED BY <2>1, <2>2, <2>4, <1>a, <1>b
<1>6. ASSUME NEW h \in owned \cup dead, release(h)
      PROVE  OrderInv' /\ (Shorter => Cleared) /\ Reached
  <2>1. CASE ReleaseBorrowed(h[1]) \/ ReleaseShared(h[1])
    <3>1. UNCHANGED <<waiter, retiring, submitted, call>>
      BY <1>6, <2>1 DEF release, ReleaseBorrowed, ReleaseShared
    <3> QED BY <1>2, <3>1
  <2>2. CASE ReleasePooled(h[1])
    <3>1. retiring' = Append(retiring, [slot |-> h[1], at |-> submitted])
      BY <2>2 DEF ReleasePooled, Queued
    <3>2. h[1] \in Slots
      BY <1>6, ResolvedIsOwned DEF release
    <3>3. [slot |-> h[1], at |-> submitted] \in RetiringRecord
      BY <3>2, <1>a DEF RetiringRecord
    <3>4. retiring \in Seq(RetiringRecord)
      BY <1>0 DEF TypeOK
    <3>5. /\ Len(retiring) \in Nat /\ Len(retiring') = Len(retiring) + 1
          /\ retiring'[Len(retiring')].at = submitted
          /\ \A i \in 1 .. Len(retiring) : retiring'[i] = retiring[i]
      BY <3>1, <3>3, <3>4, AppendProperties, LenProperties
    <3>6. submitted' = submitted /\ waiter' = waiter /\ call' = call
      BY <1>6 DEF release
    <3>7. \A i \in 1 .. Len(retiring') : retiring'[i].at <= submitted'
      BY <3>5, <3>6, <1>a DEF OrderInv
    <3>8. \A i, j \in 1 .. Len(retiring') : i <= j => retiring'[i].at <= retiring'[j].at
      <4>1. SUFFICES ASSUME NEW i \in 1 .. Len(retiring'), NEW j \in 1 .. Len(retiring'),
                            i <= j
                     PROVE  retiring'[i].at <= retiring'[j].at
        OBVIOUS
      <4>2. CASE j = Len(retiring')
        BY <4>2, <3>5, <3>6, <3>7
      <4>3. CASE j # Len(retiring')
        <5>1. i \in 1 .. Len(retiring) /\ j \in 1 .. Len(retiring)
          BY <4>1, <4>3, <3>5
        <5> QED BY <4>1, <5>1, <3>5 DEF OrderInv
      <4> QED BY <4>2, <4>3
    <3>9. OrderInv'
      BY <3>6, <3>7, <3>8, <1>b DEF OrderInv
    <3> QED BY <3>5, <3>6, <3>9
  <2> QED BY <1>6, <2>1, <2>2 DEF release
<1>7. ASSUME \/ \E H \in SUBSET owned : dispatch(H)
             \/ dispatchRefused
      PROVE  OrderInv' /\ (Shorter => Cleared) /\ Reached
  <2>1. UNCHANGED <<retiring, waiter, call>> /\ submitted' = submitted + 1
    BY <1>7 DEF dispatch, dispatchRefused
  <2>2. ~Shorter
    BY <2>1, <1>0, TypeFacts
  <2> QED BY <2>1, <2>2, <1>0, <1>a, OrderKept
<1>8. ASSUME NEW at \in 1 .. submitted, waitFor(at)
      PROVE  OrderInv' /\ (Shorter => Cleared) /\ Reached
  <2>1. waiter'.at <= submitted
    BY <1>8, <1>a DEF waitFor
  <2>2. OrderInv' /\ Cleared
    BY <1>8, <2>1, <1>0, <1>a, ReclaimOrder DEF waitFor
  <2> QED BY <1>8, <2>2 DEF waitFor
<1>9. CASE Spin
  <2>1. UNCHANGED <<retiring, submitted, call>> /\ completed' = Published
    BY <1>9 DEF Spin
  <2>2. \/ waiter' = Off /\ completed' >= waiter.at
        \/ waiter' = Spun
    BY <1>9 DEF Spin
  <2>3. Spun.at = waiter.at /\ Spun.phase = waiter.phase
    BY <1>c DEF Spun
  <2>4. OrderInv'
    BY <2>1, <2>2, <2>3, <1>0, <1>a, OrderKept
  <2>5. ~Shorter
    BY <2>1, <1>0, TypeFacts
  <2> QED BY <2>2, <2>3, <2>4, <2>5
<1>10. CASE WaitSyncs
  <2>1. UNCHANGED <<retiring, submitted>> /\ waiter' = [waiter EXCEPT !.phase = "sync"]
    BY <1>10 DEF WaitSyncs, pool
  <2>2. waiter'.at = waiter.at /\ waiter'.phase # "off"
    BY <2>1, <1>c
  <2>3. OrderInv'
    BY <2>1, <2>2, <1>0, <1>a, OrderKept
  <2>4. ~Looks
    BY <1>10, <1>d DEF WaitSyncs
  <2>5. ~Shorter
    BY <2>1, <2>4, <1>0, TypeFacts
  <2> QED BY <2>2, <2>3, <2>5
<1> QED BY <1>1, <1>2, <1>3, <1>4, <1>5, <1>6, <1>7, <1>8, <1>9, <1>10 DEF Next, Body

LEMMA OrderAlways == Spec => [](IInv /\ OrderInv)
<1>1. Init => OrderInv
  BY DEF Init, OrderInv, Off
<1>2. IInv /\ OrderInv /\ [Next]_vars => OrderInv'
  BY NextOrder
<1> QED BY <1>1, <1>2, Invariance, PTL DEF Spec

\* reclaimLocked stops at the first entry that is not retired (pool.cpp:172),
\* and nothing behind that entry is retired either.
THEOREM ReclaimIsComplete == Spec => ReclaimLeavesNothingReady
<1>1. IInv /\ OrderInv /\ [Next]_vars =>
        /\ [call'.pc = "lookup" => NothingReady']_call
        /\ [Len(retiring') < Len(retiring) => NothingReady']_retiring
  <2> SUFFICES ASSUME IInv, OrderInv, [Next]_vars,
                      \/ Len(retiring') < Len(retiring)
                      \/ call' # call /\ call'.pc = "lookup"
               PROVE  NothingReady'
    OBVIOUS
  <2>1. retiring' \in Seq(RetiringRecord)
    BY NextType DEF IInv, TypeOK
  <2>2. DOMAIN retiring' = 1 .. Len(retiring')
    BY <2>1, LenProperties
  <2> QED BY <2>2, NextOrder DEF NothingReady
<1> QED BY <1>1, OrderAlways, PTL DEF Spec, ReclaimLeavesNothingReady

\* waitFor(at) returns only when retired(at) is true (pool.cpp:417), also for
\* a submission the backend refused and for a backend that never reports.
THEOREM WaitIsExact == Spec => WaitDelivers
<1>1. IInv /\ OrderInv /\ [Next]_vars =>
        [waiter.phase # "off" /\ waiter'.phase = "off" => completed' >= waiter.at]_waiter
  BY NextOrder
<1> QED BY <1>1, OrderAlways, PTL DEF Spec, WaitDelivers

-----------------------------------------------------------------------------
(* The pool implements Watermark. *)

\* A step that touches neither the numbers nor the queue.
LEMMA NumbersStill ==
  ASSUME UNCHANGED <<submitted, completed, inflight, accepted, finished, reported>>
  PROVE  [Numbers!Next]_(Numbers!numbers)
BY DEF Numbers!numbers

LEMMA NumbersReclaimed ==
  ASSUME completed' = Published,
         UNCHANGED <<submitted, inflight, accepted, finished, reported>>
  PROVE  Numbers!Next
BY DEF Numbers!Next, Numbers!Reclaim, Numbers!Published, Numbers!Later, Published, Later

LEMMA NumbersMarked ==
  ASSUME IInv, call.pc \in {"roomMark", "mark"}, completed' = Marked,
         UNCHANGED <<submitted, inflight, accepted, finished, reported>>
  PROVE  Numbers!Next
BY DEF Numbers!Next, Numbers!Mark, Numbers!Later, Marked, Later, IInv, QueueInv

LEMMA NumbersStep ==
  ASSUME IInv, [Next]_vars
  PROVE  [Numbers!Next]_(Numbers!numbers)
<1>1. CASE \/ \E r \in Requests : alloc(r)
           \/ RoomReclaim \/ RoomTrim \/ Relieved \/ trim \/ Spin
           \/ \E at \in 1 .. submitted : waitFor(at)
  <2>1. completed' = Published /\ UNCHANGED <<submitted, inflight, accepted, finished, reported>>
    BY <1>1 DEF alloc, RoomReclaim, RoomTrim, Relieved, trim, Spin, waitFor, reclaimLocked,
       trimLocked, Drains, device
  <2> QED BY <2>1, NumbersReclaimed
<1>2. CASE RoomMark \/ SyncMarks
  <2>1. /\ call.pc \in {"roomMark", "mark"} /\ completed' = Marked
        /\ UNCHANGED <<submitted, inflight, accepted, finished, reported>>
    BY <1>2 DEF RoomMark, SyncMarks, At, reclaimLocked, Drains
  <2> QED BY <2>1, NumbersMarked
<1>3. ASSUME NEW H \in SUBSET owned, dispatch(H)
      PROVE  Numbers!Next
  <2> DEFINE w == [num |-> accepted', at |-> submitted', uses |-> {h \in H : Pooled(h[1])}]
  <2>1. /\ submitted' = submitted + 1 /\ accepted' = accepted + 1
        /\ inflight' = inflight \cup {w}
        /\ UNCHANGED <<completed, finished, reported>>
    BY <1>3 DEF dispatch
  <2>2. Numbers!Accept(w.uses)
    BY <2>1 DEF Numbers!Accept
  <2>3. w \in inflight'
    BY <2>1
  <2> QED BY <2>2, <2>3 DEF Numbers!Next
<1>4. CASE dispatchRefused
  BY <1>4 DEF dispatchRefused, device, Numbers!Next, Numbers!Refuse
<1>5. CASE Finish
  BY <1>5 DEF Finish, pool, Numbers!Next, Numbers!Finish, Numbers!Oldest
<1>6. ASSUME NEW k \in 1 .. finished, Report(k)
      PROVE  Numbers!Next
  <2>1. Numbers!Report(k)
    BY <1>6 DEF Report, pool, Numbers!Report, IInv, TypeOK
  <2> QED BY <2>1 DEF Numbers!Next
<1>7. CASE \/ \E s \in free : Hit(s)
           \/ Miss \/ RoomSync \/ NativeRefuses \/ SyncWaits \/ sync \/ WaitSyncs
           \/ \E gave \in BOOLEAN : PressureAnswers(gave)
           \/ \E s \in Slots, n \in Natives : NativeAlloc(s, n)
           \/ \E s \in Slots, n \in Natives, r \in Requests : allocShared(s, n, r) \/ adopt(s, n, r)
           \/ \E h \in owned \cup dead : release(h)
           \/ UNCHANGED vars
  BY <1>7, NumbersStill DEF Hit, Miss, RoomSync, NativeRefuses, SyncWaits, sync, WaitSyncs,
     PressureAnswers, NativeAlloc, allocShared, adopt, release, vars, pool, device
<1> QED BY <1>1, <1>2, <1>3, <1>4, <1>5, <1>6, <1>7 DEF Next, Body

\* Whatever else the pool does, its numbers are those of Watermark, on which
\* the arenas and the player are built.
THEOREM PoolKeepsNumbers == Spec => KeepsNumbers
<1>1. Init => Numbers!Init
  BY DEF Init, Numbers!Init
<1> QED BY <1>1, NumbersStep, Invariance, PTL DEF Spec, KeepsNumbers, Numbers!Spec

-----------------------------------------------------------------------------
(* The table: nothing is lost. *)

LEMMA RetiringFacts ==
  ASSUME TypeOK
  PROVE  /\ DOMAIN retiring = 1 .. Len(retiring) /\ Len(retiring) \in Nat
         /\ Retiring \subseteq Slots
         /\ \A i \in 1 .. Len(retiring) : retiring[i].slot \in Retiring
<1>1. retiring \in Seq(RetiringRecord)
  BY DEF TypeOK
<1>2. \A i \in 1 .. Len(retiring) : retiring[i] \in RetiringRecord
  BY <1>1, ElementOfSeq
<1> QED
  BY <1>1, <1>2 DEF Retiring, RetiringRecord

\* What leaves the queue is drained; the rest stays in it.
LEMMA DrainedOrRetiring ==
  ASSUME IInv, NEW done, NEW n \in 0 .. Len(retiring), Drains(done, n)
  PROVE  Retiring \subseteq Drained(n) \cup Retiring'
<1>1. retiring \in Seq(RetiringRecord) /\ Len(retiring) \in Nat /\ n \in Nat
  BY RetiringFacts DEF IInv, TypeOK
<1>2. /\ Len(retiring') = Len(retiring) - n
      /\ \A i \in 1 .. Len(retiring) - n : retiring'[i] = retiring[i + n]
      /\ DOMAIN retiring' = 1 .. Len(retiring')
  BY <1>1, DropsFront DEF Drains
<1>3. ASSUME NEW i \in 1 .. Len(retiring)
      PROVE  retiring[i].slot \in Drained(n) \cup Retiring'
  <2>1. CASE i <= n
    BY <2>1, <1>1 DEF Drained
  <2>2. CASE ~(i <= n)
    <3>1. i - n \in 1 .. Len(retiring') /\ retiring'[i - n] = retiring[i]
      BY <2>2, <1>1, <1>2
    <3> QED
      BY <3>1, <1>2 DEF Retiring
  <2> QED
    BY <2>1, <2>2
<1> QED
  BY <1>1, <1>3 DEF Retiring

LEMMA ReclaimTable ==
  ASSUME IInv, TableInv, NEW done, reclaimLocked(done)
  PROVE  TableInv'
<1>1. PICK n \in 0 .. Len(retiring) :
        Drains(done, n) /\ free' = free \cup Drained(n) /\ UNCHANGED <<slots, used, recycled, granted>>
  BY DEF reclaimLocked
<1>2. Retiring \subseteq Drained(n) \cup Retiring'
  BY <1>1, DrainedOrRetiring
<1>3. \A s \in 1 .. used' : slots'[s].live \/ s \in free' \cup recycled' \cup Retiring'
  BY <1>1, <1>2 DEF TableInv
<1> QED
  BY <1>1, <1>3 DEF TableInv

LEMMA TrimTable ==
  ASSUME IInv, TableInv, trimLocked
  PROVE  TableInv'
<1>1. PICK n \in 0 .. Len(retiring) :
        /\ Drains(Published, n)
        /\ free' = {} /\ recycled' = recycled \cup (free \cup Drained(n))
        /\ slots' = [s \in Slots |-> IF s \in free \cup Drained(n) THEN Emptied(slots[s]) ELSE slots[s]]
        /\ NativeReleases(free \cup Drained(n)) /\ used' = used
  BY DEF trimLocked
<1> DEFINE back == free \cup Drained(n)
<1>2. Retiring \subseteq Drained(n) \cup Retiring'
  BY <1>1, DrainedOrRetiring
<1>3. back \subseteq Slots /\ \A s \in Slots : slots[s] \in SlotRecord
  BY DrainedAreSlots DEF IInv, TypeOK
<1>4. \A s \in Slots : /\ s \in back => slots'[s].native = NoBuffer /\ slots'[s].live = slots[s].live
                       /\ s \notin back => slots'[s] = slots[s]
  BY <1>1, <1>3 DEF Emptied, SlotRecord
<1>5. granted' = granted \ {slots[s].native : s \in back}
  BY <1>1 DEF NativeReleases
<1>6. used \in Nat /\ 1 .. used \subseteq Slots
  BY PoolAssumption, TypeFacts DEF IInv, Slots
<1>7. recycled' = recycled \cup back /\ free' = {} /\ used' = used
  BY <1>1
<1>8. Drained(n) \subseteq back /\ free \subseteq back
  OBVIOUS
<1> HIDE DEF back
<1>9. \A s \in 1 .. used' : slots'[s].live \/ s \in free' \cup recycled' \cup Retiring'
  <2> SUFFICES ASSUME NEW s \in 1 .. used PROVE slots'[s].live \/ s \in recycled' \cup Retiring'
    BY <1>7
  <2>1. slots[s].live \/ s \in free \cup recycled \cup Retiring
    BY DEF TableInv
  <2>2. s \in Slots
    BY <1>6
  <2> QED
    BY <2>1, <2>2, <1>2, <1>4, <1>7, <1>8
<1>10. granted' = {slots'[s].native : s \in Slots} \ {NoBuffer}
  <2>1. ASSUME NEW b, b \in granted' PROVE b \in {slots'[s].native : s \in Slots} \ {NoBuffer}
    <3>1. b \in granted /\ \A s \in back : slots[s].native # b
      BY <2>1, <1>5
    <3>2. b # NoBuffer /\ \E s \in Slots : slots[s].native = b
      BY <3>1 DEF TableInv
    <3>3. PICK s \in Slots : slots[s].native = b
      BY <3>2
    <3>4. slots'[s] = slots[s]
      BY <3>1, <3>3, <1>4
    <3> QED
      BY <3>2, <3>3, <3>4
  <2>2. ASSUME NEW s \in Slots, slots'[s].native # NoBuffer PROVE slots'[s].native \in granted'
    <3>1. s \notin back /\ slots'[s] = slots[s]
      BY <2>2, <1>4
    <3>2. slots[s].native \in granted
      BY <2>2, <3>1 DEF TableInv
    <3>3. \A r \in back : slots[r].native # slots[s].native
      BY <2>2, <3>1, <1>3 DEF TableInv
    <3> QED
      BY <3>1, <3>2, <3>3, <1>5
  <2> QED
    BY <2>1, <2>2
<1>11. \A r, s \in Slots : slots'[r].native = slots'[s].native /\ slots'[s].native # NoBuffer => r = s
  <2> SUFFICES ASSUME NEW r \in Slots, NEW s \in Slots,
                      slots'[r].native = slots'[s].native, slots'[s].native # NoBuffer
               PROVE  r = s
    OBVIOUS
  <2>1. slots'[r] = slots[r] /\ slots'[s] = slots[s]
    BY <1>4
  <2> QED
    BY <2>1 DEF TableInv
<1>12. \A s \in Slots : s > used' \/ s \in recycled' => slots'[s].native = NoBuffer
  <2> SUFFICES ASSUME NEW s \in Slots, s \notin back, s > used \/ s \in recycled
               PROVE  slots'[s].native = NoBuffer
    BY <1>4, <1>7
  <2> QED
    BY <1>4 DEF TableInv
<1> QED
  BY <1>9, <1>10, <1>11, <1>12 DEF TableInv

\* A slot is given a buffer the driver had not given out, and somebody holds it.
LEMMA GrantTable ==
  ASSUME IInv, TableInv, NEW s \in Slots, TakesSlot(s), NEW n \in Natives \ granted,
         NEW slot \in SlotRecord, slots' = [slots EXCEPT ![s] = slot],
         slot.live, slot.native = n, granted' = granted \cup {n},
         UNCHANGED <<free, retiring>>
  PROVE  TableInv'
<1>1. slots \in [Slots -> SlotRecord] /\ used \in Nat
  BY TypeFacts DEF IInv
<1>2. slots'[s] = slot /\ \A r \in Slots \ {s} : slots'[r] = slots[r]
  BY <1>1
<1>3. n # NoBuffer
  BY PoolAssumption
<1>4. slots[s].native = NoBuffer /\ used' \in Nat /\ used <= used'
  BY <1>1 DEF TakesSlot, TableInv
<1>5. \A r \in Slots : r > used' => r > used /\ r # s
  BY <1>1, PoolAssumption DEF TakesSlot, Slots, IInv, PlacesInv
<1>6. recycled' \subseteq recycled \ {s} /\ recycled \subseteq recycled' \cup {s}
  BY <1>1, TakenSlot DEF TakesSlot
<1>7. 1 .. used' \subseteq (1 .. used) \cup {s} /\ 1 .. used \subseteq Slots
  BY <1>1, PoolAssumption, TypeFacts DEF IInv, TakesSlot, Slots
<1>8. Retiring' = Retiring
  BY DEF Retiring
<1>9. \A r \in 1 .. used' : slots'[r].live \/ r \in free' \cup recycled' \cup Retiring'
  <2> SUFFICES ASSUME NEW r \in 1 .. used, r # s
               PROVE  slots'[r].live \/ r \in free' \cup recycled' \cup Retiring'
    BY <1>2, <1>7
  <2> QED
    BY <1>2, <1>6, <1>7, <1>8 DEF TableInv
<1>10. granted' = {slots'[r].native : r \in Slots} \ {NoBuffer}
  <2>1. ASSUME NEW b \in granted' PROVE b # NoBuffer /\ \E r \in Slots : slots'[r].native = b
    <3>1. CASE b = n
      BY <3>1, <1>2, <1>3
    <3>2. CASE b \in granted
      <4>1. b # NoBuffer /\ \E r \in Slots : slots[r].native = b
        BY <3>2 DEF TableInv
      <4>2. PICK r \in Slots : slots[r].native = b
        BY <4>1
      <4>3. r # s
        BY <4>1, <4>2, <1>4
      <4> QED
        BY <4>1, <4>2, <4>3, <1>2
    <3> QED
      BY <3>1, <3>2
  <2>2. ASSUME NEW r \in Slots, slots'[r].native # NoBuffer PROVE slots'[r].native \in granted'
    BY <2>2, <1>2 DEF TableInv
  <2> QED
    BY <2>1, <2>2
<1>11. \A r \in Slots \ {s} : slots[r].native # n
  BY <1>3 DEF TableInv
<1>12. \A r, q \in Slots : slots'[r].native = slots'[q].native /\ slots'[q].native # NoBuffer => r = q
  BY <1>2, <1>11 DEF TableInv
<1>13. \A r \in Slots : r > used' \/ r \in recycled' => slots'[r].native = NoBuffer
  BY <1>2, <1>5, <1>6 DEF TableInv
<1> QED
  BY <1>9, <1>10, <1>12, <1>13 DEF TableInv

\* A slot keeps its buffer and goes from one place to another.
LEMMA MovedTable ==
  ASSUME IInv, TableInv, NEW s \in Slots, NEW slot \in SlotRecord,
         slots' = [slots EXCEPT ![s] = slot], slot.native = slots[s].native,
         slot.live \/ s \in Retiring', free \subseteq free' \cup {s}, Retiring \subseteq Retiring',
         UNCHANGED <<used, recycled, granted>>
  PROVE  TableInv'
<1>1. slots \in [Slots -> SlotRecord] /\ 1 .. used \subseteq Slots
  BY PoolAssumption, TypeFacts DEF IInv, Slots
<1>2. slots'[s] = slot /\ \A r \in Slots \ {s} : slots'[r] = slots[r]
  BY <1>1
<1>3. \A r \in Slots : slots'[r].native = slots[r].native
  BY <1>2
<1>4. \A r \in 1 .. used' : slots'[r].live \/ r \in free' \cup recycled' \cup Retiring'
  BY <1>1, <1>2 DEF TableInv
<1>5. {slots'[r].native : r \in Slots} = {slots[r].native : r \in Slots}
  BY <1>3
<1> QED
  BY <1>3, <1>4, <1>5 DEF TableInv

\* A slot's buffer goes back to the driver, and the slot is recycled.
LEMMA GivenBackTable ==
  ASSUME IInv, TableInv, NEW s \in Live, NEW slot \in SlotRecord,
         slots' = [slots EXCEPT ![s] = slot], slot.native = NoBuffer,
         recycled' = recycled \cup {s}, granted' = granted \ {slots[s].native},
         UNCHANGED <<used, free, retiring>>
  PROVE  TableInv'
<1>1. slots \in [Slots -> SlotRecord] /\ 1 .. used \subseteq Slots /\ s \in Slots
  BY PoolAssumption, TypeFacts DEF IInv, Slots, Live
<1>2. slots'[s] = slot /\ \A r \in Slots \ {s} : slots'[r] = slots[r]
  BY <1>1
<1>3. Retiring' = Retiring
  BY DEF Retiring
<1>4. slots[s].native # NoBuffer
  <2>1. s \in (1 .. used) \ recycled
    BY <1>1, TypeFacts DEF IInv, PlacesInv, Slots
  <2> QED
    BY <2>1 DEF IInv, PlacesInv
<1>5. \A r \in 1 .. used' : slots'[r].live \/ r \in free' \cup recycled' \cup Retiring'
  BY <1>1, <1>2, <1>3 DEF TableInv
<1>6. \A r \in Slots \ {s} : slots[r].native # slots[s].native
  BY <1>1, <1>4 DEF TableInv
<1>7. granted' = {slots'[r].native : r \in Slots} \ {NoBuffer}
  <2>1. ASSUME NEW b \in granted' PROVE b # NoBuffer /\ \E r \in Slots : slots'[r].native = b
    <3>1. b # NoBuffer /\ \E r \in Slots : slots[r].native = b
      BY <2>1 DEF TableInv
    <3>2. PICK r \in Slots : slots[r].native = b
      BY <3>1
    <3> QED
      BY <2>1, <3>1, <3>2, <1>2
  <2>2. ASSUME NEW r \in Slots, slots'[r].native # NoBuffer PROVE slots'[r].native \in granted'
    <3>1. r # s
      BY <2>2, <1>2
    <3> QED
      BY <2>2, <3>1, <1>2, <1>6 DEF TableInv
  <2> QED
    BY <2>1, <2>2
<1>8. \A r, q \in Slots : slots'[r].native = slots'[q].native /\ slots'[q].native # NoBuffer => r = q
  BY <1>2 DEF TableInv
<1>9. \A r \in Slots : r > used' \/ r \in recycled' => slots'[r].native = NoBuffer
  BY <1>2 DEF TableInv
<1> QED
  BY <1>5, <1>7, <1>8, <1>9 DEF TableInv

LEMMA ReleaseTable ==
  ASSUME IInv, TableInv, NEW h \in owned \cup dead, release(h)
  PROVE  TableInv'
<1> DEFINE s == h[1]
<1>1. resolve(h) /\ UNCHANGED <<used, free>>
  BY DEF release
<1>2. s \in Slots /\ s \in Live /\ slots[s] \in SlotRecord
  BY <1>1, ResolvedIsOwned
<1>3. CASE ReleaseBorrowed(s)
  <2> DEFINE slot == [Emptied(slots[s]) EXCEPT !.live = FALSE, !.borrowed = FALSE, !.gen = @ + 1]
  <2>1. slot \in SlotRecord /\ slot.native = NoBuffer
    <3>1. slot \in SlotRecord
      BY <1>2, SlotOperations
    <3>2. slot.native = NoBuffer
      BY <1>2, SlotFields, Zenon
    <3> QED
      BY <3>1, <3>2, Zenon
  <2>2. /\ slots' = [slots EXCEPT ![s] = slot] /\ recycled' = recycled \cup {s}
        /\ granted' = granted \ {slots[s].native} /\ UNCHANGED retiring
    BY <1>3 DEF ReleaseBorrowed, NativeReleases
  <2> HIDE DEF slot
  <2> QED
    BY <1>1, <1>2, <2>1, <2>2, GivenBackTable
<1>4. CASE ReleaseShared(s)
  <2>1. Unshared(slots[s]) \in SlotRecord /\ Unshared(slots[s]).native = NoBuffer
    <3>1. Unshared(slots[s]).native = NoBuffer
      BY <1>2, SlotFields, Zenon
    <3> QED
      BY <1>2, <3>1, SlotOperations
  <2>2. /\ slots' = [slots EXCEPT ![s] = Unshared(slots[s])] /\ recycled' = recycled \cup {s}
        /\ granted' = granted \ {slots[s].native} /\ UNCHANGED retiring
    BY <1>4 DEF ReleaseShared, NativeReleases
  <2> QED
    BY <1>1, <1>2, <2>1, <2>2, GivenBackTable
<1>5. CASE ReleasePooled(s)
  <2>1. /\ slots' = [slots EXCEPT ![s] = [slots[s] EXCEPT !.live = FALSE]]
        /\ UNCHANGED <<granted, recycled>>
        /\ retiring' = Append(retiring, [slot |-> s, at |-> submitted])
    BY <1>5 DEF ReleasePooled, Queued
  <2>2. /\ [slots[s] EXCEPT !.live = FALSE] \in SlotRecord
        /\ [slots[s] EXCEPT !.live = FALSE].native = slots[s].native
    <3>1. [slots[s] EXCEPT !.live = FALSE] \in SlotRecord
      BY <1>2, SlotOperations
    <3>2. [slots[s] EXCEPT !.live = FALSE].native = slots[s].native
      BY <1>2, SlotFields, Zenon
    <3> QED
      BY <3>1, <3>2, Zenon
  <2>3. retiring \in Seq(RetiringRecord) /\ [slot |-> s, at |-> submitted] \in RetiringRecord
    BY <1>2 DEF IInv, TypeOK, RetiringRecord
  <2>4. /\ DOMAIN retiring' = 1 .. Len(retiring) + 1 /\ DOMAIN retiring = 1 .. Len(retiring)
        /\ Len(retiring) \in Nat /\ retiring'[Len(retiring) + 1] = [slot |-> s, at |-> submitted]
        /\ \A i \in 1 .. Len(retiring) : retiring'[i] = retiring[i]
    BY <2>1, <2>3
  <2>5. s \in Retiring' /\ Retiring \subseteq Retiring'
    BY <2>4 DEF Retiring
  <2> QED
    BY <1>1, <1>2, <2>1, <2>2, <2>5, MovedTable
<1> QED
  BY <1>3, <1>4, <1>5 DEF release

LEMMA InitTable == Init => TableInv
  BY PoolAssumption DEF Init, TableInv, FreshSlot

LEMMA NextTable == IInv /\ TableInv /\ [Next]_vars => TableInv'
<1> SUFFICES ASSUME IInv, TableInv, [Next]_vars PROVE TableInv'
  OBVIOUS
<1>1. CASE \E done : reclaimLocked(done)
  BY <1>1, ReclaimTable
<1>2. CASE trimLocked
  BY <1>2, TrimTable
<1>3. CASE UNCHANGED <<slots, used, free, recycled, retiring, granted>>
  BY <1>3 DEF TableInv, Retiring
<1>4. ASSUME NEW s \in free, Hit(s) PROVE TableInv'
  <2>1. s \in Slots /\ slots[s] \in SlotRecord /\ call.want \in Requests
    BY <1>4 DEF Hit, IInv, TypeOK, At, PCs
  <2>2. Handed(slots[s]) \in SlotRecord
    BY <2>1, SlotOperations, PoolAssumption
  <2>3. Handed(slots[s]).live /\ Handed(slots[s]).native = slots[s].native
    BY <2>1 DEF Handed, SlotRecord
  <2>4. /\ slots' = [slots EXCEPT ![s] = Handed(slots[s])] /\ free' = free \ {s}
        /\ UNCHANGED <<used, recycled, retiring, granted>>
    BY <1>4 DEF Hit, device
  <2>5. Retiring' = Retiring
    BY <2>4 DEF Retiring
  <2> QED
    BY <2>1, <2>2, <2>3, <2>4, <2>5, MovedTable
<1>5. ASSUME NEW s \in Slots, NEW n \in Natives, NativeAlloc(s, n) PROVE TableInv'
  <2> DEFINE slot == Handed([slots[s] EXCEPT !.native = n, !.bytes = Size])
  <2>1. /\ TakesSlot(s) /\ n \notin granted /\ slots' = [slots EXCEPT ![s] = slot]
        /\ granted' = granted \cup {n} /\ UNCHANGED <<free, retiring>>
    BY <1>5 DEF NativeAlloc
  <2>2. slots[s] \in SlotRecord /\ call.want \in Requests
    BY <1>5, TypeFacts DEF NativeAlloc, IInv, TypeOK, At, PCs
  <2>3. Size \in Nat
    BY <2>2, PoolAssumption DEF Size
  <2>4. slot \in SlotRecord
    BY <2>2, <2>3, SlotOperations, PoolAssumption
  <2>5. slot.live /\ slot.native = n
    BY <2>2 DEF Handed, SlotRecord
  <2> HIDE DEF slot
  <2> QED
    BY <2>1, <2>4, <2>5, GrantTable
<1>6. ASSUME NEW s \in Slots, NEW n \in Natives, NEW r \in Requests, allocShared(s, n, r)
      PROVE  TableInv'
  <2> DEFINE slot == [Filled(slots[s], n, r) EXCEPT !.shared = TRUE]
  <2>1. /\ TakesSlot(s) /\ n \notin granted /\ slots' = [slots EXCEPT ![s] = slot]
        /\ granted' = granted \cup {n} /\ UNCHANGED <<free, retiring>>
    BY <1>6 DEF allocShared
  <2>2. slots[s] \in SlotRecord /\ slot \in SlotRecord
    BY <2>1, TakenType, SlotOperations, PoolAssumption DEF IInv
  <2>3. slot.live /\ slot.native = n
    BY <2>2 DEF Filled, SlotRecord
  <2> HIDE DEF slot
  <2> QED
    BY <2>1, <2>2, <2>3, GrantTable
<1>7. ASSUME NEW s \in Slots, NEW n \in Natives, NEW r \in Requests, adopt(s, n, r)
      PROVE  TableInv'
  <2> DEFINE slot == [Filled(slots[s], n, r) EXCEPT !.borrowed = TRUE]
  <2>1. /\ TakesSlot(s) /\ n \notin granted /\ slots' = [slots EXCEPT ![s] = slot]
        /\ granted' = granted \cup {n} /\ UNCHANGED <<free, retiring>>
    BY <1>7 DEF adopt
  <2>2. slots[s] \in SlotRecord /\ slot \in SlotRecord
    BY <2>1, TakenType, SlotOperations, PoolAssumption DEF IInv
  <2>3. slot.live /\ slot.native = n
    BY <2>2 DEF Filled, SlotRecord
  <2> HIDE DEF slot
  <2> QED
    BY <2>1, <2>2, <2>3, GrantTable
<1>8. ASSUME NEW h \in owned \cup dead, release(h) PROVE TableInv'
  BY <1>8, ReleaseTable
<1>9. CASE \/ \E r \in Requests : alloc(r)
           \/ RoomReclaim \/ RoomMark \/ SyncMarks
           \/ \E at \in 1 .. submitted : waitFor(at)
  BY <1>9, <1>1 DEF alloc, RoomReclaim, RoomMark, SyncMarks, waitFor
<1>10. CASE RoomTrim \/ Relieved \/ trim
  BY <1>10, <1>2 DEF RoomTrim, Relieved, trim
<1>11. CASE \/ Miss \/ RoomSync \/ (\E gave \in BOOLEAN : PressureAnswers(gave))
            \/ NativeRefuses \/ SyncWaits \/ sync \/ WaitSyncs \/ UNCHANGED vars
  BY <1>11, <1>3 DEF Miss, RoomSync, PressureAnswers, NativeRefuses, SyncWaits, sync, WaitSyncs,
     vars, pool, device
<1>12. CASE \/ (\E H \in SUBSET owned : dispatch(H)) \/ dispatchRefused \/ Spin \/ Finish
            \/ \E k \in 1 .. finished : Report(k)
  BY <1>12, <1>3 DEF dispatch, dispatchRefused, Spin, Finish, Report, pool, device
<1> QED
  BY <1>4, <1>5, <1>6, <1>7, <1>8, <1>9, <1>10, <1>11, <1>12 DEF Next, Body

LEMMA TableAlways == Spec => [](IInv /\ TableInv)
<1>1. Init => TableInv
  BY InitTable
<1>2. IInv /\ TableInv /\ [Next]_vars => TableInv'
  BY NextTable
<1> QED
  BY <1>1, <1>2, Invariance, PTL DEF Spec

(***************************************************************************)
(* No slot is lost and none is in two places: for any number of slots.     *)
(***************************************************************************)
THEOREM SlotsAccounted == Spec => []EverySlotAccounted
<1>1. ASSUME IInv, TableInv PROVE EverySlotAccounted
  <2> SUFFICES ASSUME NEW s \in Slots
               PROVE  Count(slots[s].live) + Count(s \in free) + Count(s \in recycled)
                        + Cardinality({i \in DOMAIN retiring : retiring[i].slot = s})
                        = Count(s <= used)
    BY DEF EverySlotAccounted
  <2> DEFINE at == {i \in DOMAIN retiring : retiring[i].slot = s}
  <2>1. /\ DOMAIN retiring = 1 .. Len(retiring) /\ s \in Nat /\ s >= 1 /\ used \in Nat
        /\ slots[s].live \in BOOLEAN
    BY <1>1, RetiringFacts, TypeFacts, PoolAssumption DEF IInv, Slots
  <2>2. CASE s \notin Retiring
    <3>1. at = {}
      BY <2>2 DEF Retiring
    <3>2. Cardinality(at) = 0
      BY <3>1, FS_EmptySet
    <3>3. s <= used <=> slots[s].live \/ s \in free \/ s \in recycled
      BY <1>1, <2>1, <2>2 DEF IInv, PlacesInv, TableInv, Live
    <3>4. ~(s \in free /\ s \in recycled) /\ (slots[s].live => s \notin free \cup recycled)
      BY <1>1 DEF IInv, PlacesInv, Live
    <3> HIDE DEF at
    <3>5. Count(slots[s].live) + Count(s \in free) + Count(s \in recycled) = Count(s <= used)
      BY <3>3, <3>4, <2>1 DEF Count
    <3>6. Count(s <= used) \in Nat
      BY DEF Count
    <3> QED
      BY <3>2, <3>5, <3>6 DEF at
  <2>3. CASE s \in Retiring
    <3>1. PICK i \in 1 .. Len(retiring) : retiring[i].slot = s
      BY <2>1, <2>3 DEF Retiring
    <3>2. at = {i}
      BY <1>1, <2>1, <3>1 DEF IInv, PlacesInv
    <3>3. Cardinality(at) = 1
      BY <3>2, FS_Singleton
    <3>4. s <= used /\ ~slots[s].live /\ s \notin free /\ s \notin recycled
      BY <1>1, <3>1 DEF IInv, PlacesInv
    <3> HIDE DEF at
    <3>5. /\ Count(slots[s].live) = 0 /\ Count(s \in free) = 0 /\ Count(s \in recycled) = 0
          /\ Count(s <= used) = 1
      BY <3>4 DEF Count
    <3> QED
      BY <3>3, <3>5 DEF at
  <2> QED
    BY <2>2, <2>3
<1> QED
  BY <1>1, TableAlways, PTL

(***************************************************************************)
(* The driver's memory and the table agree: for any buffers and slots.     *)
(***************************************************************************)
THEOREM MemoryAccounted == Spec => []DriverMemoryAccounted
<1>1. ASSUME IInv, TableInv PROVE DriverMemoryAccounted
  <2> DEFINE holding == {s \in Slots : slots[s].native # NoBuffer}
  <2>1. granted = {slots[s].native : s \in holding}
    BY <1>1 DEF TableInv
  <2>2. Cardinality(granted) = Cardinality(holding)
    <3> DEFINE f == [s \in holding |-> slots[s].native]
    <3>1. IsFiniteSet(holding)
      <4>1. IsFiniteSet(Slots) /\ holding \subseteq Slots
        BY PoolAssumption, FS_Interval DEF Slots
      <4> QED
        BY <4>1, FS_Subset
    <3>2. f \in [holding -> granted] /\ \A b \in granted : \E s \in holding : f[s] = b
      BY <2>1
    <3>3. \A r, s \in holding : f[r] = f[s] => r = s
      BY <1>1 DEF TableInv
    <3> HIDE DEF f, holding
    <3>4. ExistsBijection(holding, granted)
      BY <3>2, <3>3 DEF ExistsBijection, Bijection, Injection, Surjection, IsInjective
    <3> QED
      BY <3>1, <3>4, FS_Bijection
  <2>3. holding = (1 .. used) \ recycled
    BY <1>1, PoolAssumption, TypeFacts DEF IInv, PlacesInv, TableInv, Slots
  <2>4. \A s \in Slots \ Live : Pooled(s)
    BY <1>1 DEF IInv, PlacesInv
  <2> QED
    BY <2>1, <2>2, <2>3, <2>4 DEF DriverMemoryAccounted
<1> QED
  BY <1>1, TableAlways, PTL

(***************************************************************************)
(* Sums over finite sets, by the folds of the community modules.  A fold   *)
(* is a choice of a function that satisfies its recursion; that there is   *)
(* one, and that what it sums is what one expects, is shown by the         *)
(* smallest set for which it were not so.                                  *)
(***************************************************************************)

\* Of the parts of a finite set that are bad, one has no smaller one.
LEMMA SmallestPart ==
  ASSUME NEW S, IsFiniteSet(S), NEW B \in SUBSET SUBSET S, B # {}
  PROVE  \E T \in B : \A U \in B : U \subseteq T => U = T
<1>1. PICK R : R = StrictSubsetOrdering(S)
  OBVIOUS
<1>2. IsWellFoundedOn(R, FiniteSubsetsOf(S))
  BY <1>1, FS_StrictSubsetOrderingWellFounded
<1>3. B \subseteq FiniteSubsetsOf(S)
  BY FS_Subset DEF FiniteSubsetsOf
<1>4. PICK T \in B : \A U \in B : ~ (<<U, T>> \in R)
  BY <1>2, <1>3, WFMin, Zenon
<1>5. ASSUME NEW U \in B, U \subseteq T PROVE U = T
  <2>1. U \in SUBSET S /\ T \in SUBSET S
    OBVIOUS
  <2>2. U # T => <<U, T>> \in R
    BY <1>1, <1>5, <2>1 DEF StrictSubsetOrdering
  <2> QED
    BY <1>4, <2>2
<1> QED
  BY <1>5

\* The element the fold of MapThenSumSet takes first.
Any(T) == CHOOSE x \in T : TRUE

LEMMA AnyIsIn == \A T : T # {} => Any(T) \in T
  BY DEF Any

\* What that fold asks of the function it is defined by.
Sums(f, S, g) ==
  g = [T \in SUBSET S |-> IF T = {} THEN 0 ELSE f[Any(T)] + g[T \ {Any(T)}]]

SumOf(f, S) == (CHOOSE g : Sums(f, S, g))[S]

LEMMA FoldsAt ==
  ASSUME NEW S, NEW f, NEW g, Sums(f, S, g), NEW T \in SUBSET S
  PROVE  g[T] = IF T = {} THEN 0 ELSE f[Any(T)] + g[T \ {Any(T)}]
<1> DEFINE G(h) == [U \in SUBSET S |-> IF U = {} THEN 0 ELSE f[Any(U)] + h[U \ {Any(U)}]]
<1>1. G(g)[T] = IF T = {} THEN 0 ELSE f[Any(T)] + g[T \ {Any(T)}]
  OBVIOUS
<1>2. g = G(g)
  BY DEF Sums
<1> QED
  BY <1>1, <1>2

LEMMA FoldsAgree ==
  ASSUME NEW S, IsFiniteSet(S), NEW f, NEW g, Sums(f, S, g),
         NEW U \in SUBSET S, NEW h, Sums(f, U, h), NEW T \in SUBSET U
  PROVE  g[T] = h[T]
<1> DEFINE bad == {V \in SUBSET U : g[V] # h[V]}
<1>1. ASSUME bad # {} PROVE FALSE
  <2>1. bad \in SUBSET SUBSET S
    OBVIOUS
  <2>2. PICK V \in bad : \A W \in bad : W \subseteq V => W = V
    <3> HIDE DEF bad
    <3> QED BY <1>1, <2>1, SmallestPart
  <2>3. V \in SUBSET S /\ V \in SUBSET U /\ g[V] # h[V]
    OBVIOUS
  <2>4. /\ g[V] = IF V = {} THEN 0 ELSE f[Any(V)] + g[V \ {Any(V)}]
        /\ h[V] = IF V = {} THEN 0 ELSE f[Any(V)] + h[V \ {Any(V)}]
    BY <2>3, FoldsAt
  <2>5. V # {}
    BY <2>3, <2>4
  <2>6. Any(V) \in V
    BY <2>5, AnyIsIn
  <2>7. V \ {Any(V)} \subseteq V /\ V \ {Any(V)} # V /\ V \ {Any(V)} \in SUBSET U
    BY <2>3, <2>6
  <2>8. V \ {Any(V)} \notin bad
    BY <2>2, <2>7
  <2>9. g[V \ {Any(V)}] = h[V \ {Any(V)}]
    BY <2>7, <2>8
  <2> QED
    BY <2>3, <2>4, <2>5, <2>9
<1> QED
  BY <1>1

LEMMA FoldsExist ==
  ASSUME NEW S, IsFiniteSet(S), NEW f
  PROVE  \E g : Sums(f, S, g)
<1> DEFINE bad == {T \in SUBSET S : ~ \E g : Sums(f, T, g)}
<1>1. ASSUME bad # {} PROVE FALSE
  <2>2. PICK T \in bad : \A U \in bad : U \subseteq T => U = T
    <3>1. bad \in SUBSET SUBSET S
      OBVIOUS
    <3> HIDE DEF bad
    <3> QED
      BY <1>1, <3>1, SmallestPart
  <2> DEFINE G(U) == CHOOSE g : Sums(f, U, g)
             h == [U \in SUBSET T |-> IF U = {} THEN 0
                                      ELSE f[Any(U)] + G(U \ {Any(U)})[U \ {Any(U)}]]
  <2>3. ASSUME NEW U \in SUBSET T, U # T PROVE Sums(f, U, G(U))
    <3>1. U \notin bad /\ U \in SUBSET S
      BY <2>2, <2>3
    <3>2. \E g : Sums(f, U, g)
      BY <3>1
    <3> QED
      BY <3>2
  <2>4. ASSUME NEW U \in SUBSET T, U # {}
        PROVE  h[U \ {Any(U)}] = G(U \ {Any(U)})[U \ {Any(U)}]
    <3> DEFINE V == U \ {Any(U)}
               W == V \ {Any(V)}
    <3>1. V \in SUBSET T /\ V # T
      BY <2>4, AnyIsIn
    <3>2. Sums(f, V, G(V))
      BY <2>3, <3>1
    <3>3. G(V)[V] = IF V = {} THEN 0 ELSE f[Any(V)] + G(V)[W]
      <4> V \in SUBSET V
        OBVIOUS
      <4> HIDE DEF V, G
      <4> QED
        BY <3>2, FoldsAt
    <3>4. V # {} => G(V)[W] = G(W)[W]
      <4> SUFFICES ASSUME V # {} PROVE G(V)[W] = G(W)[W]
        OBVIOUS
      <4>1. W \in SUBSET V /\ W \in SUBSET T /\ W # T
        BY <3>1, AnyIsIn
      <4>2. Sums(f, W, G(W))
        BY <2>3, <4>1
      <4>3. IsFiniteSet(V)
        <5>1. V \in SUBSET S
          BY <3>1
        <5> QED
          BY <5>1, FS_Subset
      <4>4. W \in SUBSET W
        OBVIOUS
      <4> HIDE DEF V, W, G
      <4> QED
        BY <3>2, <4>1, <4>2, <4>3, <4>4, FoldsAgree
    <3>5. h[V] = IF V = {} THEN 0 ELSE f[Any(V)] + G(W)[W]
      BY <3>1
    <3> HIDE DEF V, W, G, h
    <3>6. h[V] = G(V)[V]
      BY <3>3, <3>4, <3>5
    <3> QED
      BY <3>6 DEF V
  <2>5. h = [U \in SUBSET T |-> IF U = {} THEN 0 ELSE f[Any(U)] + h[U \ {Any(U)}]]
    <3> DEFINE k == [U \in SUBSET T |-> IF U = {} THEN 0 ELSE f[Any(U)] + h[U \ {Any(U)}]]
    <3>1. ASSUME NEW U \in SUBSET T PROVE h[U] = k[U]
      <4> DEFINE v == h[U \ {Any(U)}]
      <4>1. k[U] = IF U = {} THEN 0 ELSE f[Any(U)] + v
        OBVIOUS
      <4>2. h[U] = IF U = {} THEN 0 ELSE f[Any(U)] + G(U \ {Any(U)})[U \ {Any(U)}]
        OBVIOUS
      <4>3. U # {} => v = G(U \ {Any(U)})[U \ {Any(U)}]
        BY <2>4
      <4> HIDE DEF v, h, k, G
      <4> QED
        BY <4>1, <4>2, <4>3
    <3>2. h = k
      <4>1. /\ h = [U \in SUBSET T |-> h[U]]
            /\ k = [U \in SUBSET T |-> k[U]]
        OBVIOUS
      <4> HIDE DEF h, k
      <4> QED
        BY <3>1, <4>1
    <3> QED
      BY <3>2
  <2>6. Sums(f, T, h)
    BY <2>5 DEF Sums
  <2> QED
    BY <2>6
<1> QED
  BY <1>1
LEMMA SumStep ==
  ASSUME NEW S, IsFiniteSet(S), NEW f
  PROVE  SumOf(f, S) = IF S = {} THEN 0 ELSE f[Any(S)] + SumOf(f, S \ {Any(S)})
<1> DEFINE g == CHOOSE g : Sums(f, S, g)
           U == S \ {Any(S)}
           h == CHOOSE h : Sums(f, U, h)
<1>1. Sums(f, S, g)
  BY FoldsExist
<1>2. IsFiniteSet(U) /\ U \in SUBSET S
  BY FS_Subset
<1>3. Sums(f, U, h)
  <2> HIDE DEF U
  <2> QED BY <1>2, FoldsExist
<1>4. SumOf(f, S) = g[S] /\ SumOf(f, U) = h[U]
  BY DEF SumOf
<1>5. g[S] = IF S = {} THEN 0 ELSE f[Any(S)] + g[U]
  <2> HIDE DEF g
  <2>1. S \in SUBSET S
    OBVIOUS
  <2> QED
    BY <1>1, <2>1, FoldsAt
<1>6. g[U] = h[U]
  <2>1. U \in SUBSET U
    OBVIOUS
  <2> HIDE DEF g, h, U
  <2> QED
    BY <1>1, <1>2, <1>3, <2>1, FoldsAgree
<1> HIDE DEF g, h
<1> QED
  BY <1>4, <1>5, <1>6

LEMMA SumEmpty == \A f : SumOf(f, {}) = 0
  BY SumStep, FS_EmptySet

\* A part of S that is not empty, and the same without its first element.
LEMMA PartStep ==
  ASSUME NEW S, IsFiniteSet(S), NEW T \in SUBSET S, T # {}, NEW f
  PROVE  /\ Any(T) \in T
         /\ T \ {Any(T)} \in SUBSET S /\ T \ {Any(T)} # T
         /\ SumOf(f, T) = f[Any(T)] + SumOf(f, T \ {Any(T)})
<1>1. IsFiniteSet(T)
  BY FS_Subset
<1>2. Any(T) \in T
  BY AnyIsIn
<1>3. SumOf(f, T) = f[Any(T)] + SumOf(f, T \ {Any(T)})
  BY <1>1, SumStep
<1> QED
  BY <1>2, <1>3

LEMMA SumType ==
  ASSUME NEW S, IsFiniteSet(S), NEW f, \A s \in S : f[s] \in Nat
  PROVE  SumOf(f, S) \in Nat
<1> DEFINE bad == {T \in SUBSET S : SumOf(f, T) \notin Nat}
<1>1. ASSUME bad # {} PROVE FALSE
  <2>1. PICK T \in bad : \A U \in bad : U \subseteq T => U = T
    <3>1. bad \in SUBSET SUBSET S
      OBVIOUS
    <3> HIDE DEF bad
    <3> QED
      BY <1>1, <3>1, SmallestPart
  <2>2. T \in SUBSET S /\ SumOf(f, T) \notin Nat
    OBVIOUS
  <2>3. T # {}
    BY <2>2, SumEmpty
  <2>4. /\ Any(T) \in T
        /\ T \ {Any(T)} \in SUBSET S /\ T \ {Any(T)} # T
        /\ SumOf(f, T) = f[Any(T)] + SumOf(f, T \ {Any(T)})
    BY <2>2, <2>3, PartStep
  <2>5. SumOf(f, T \ {Any(T)}) \in Nat
    BY <2>1, <2>4
  <2>6. f[Any(T)] \in Nat
    BY <2>2, <2>4
  <2> QED
    BY <2>2, <2>4, <2>5, <2>6
<1> QED
  BY <1>1

LEMMA SumTake ==
  ASSUME NEW S, IsFiniteSet(S), NEW f, \A s \in S : f[s] \in Nat, NEW x \in S
  PROVE  SumOf(f, S) = f[x] + SumOf(f, S \ {x})
<1> DEFINE bad == {T \in SUBSET S : \E y \in T : SumOf(f, T) # f[y] + SumOf(f, T \ {y})}
<1>1. ASSUME bad # {} PROVE FALSE
  <2>1. PICK T \in bad : \A U \in bad : U \subseteq T => U = T
    <3>1. bad \in SUBSET SUBSET S
      OBVIOUS
    <3> HIDE DEF bad
    <3> QED
      BY <1>1, <3>1, SmallestPart
  <2>2. PICK y \in T : SumOf(f, T) # f[y] + SumOf(f, T \ {y})
    OBVIOUS
  <2> DEFINE a == Any(T)
             U == T \ {a}
             V == T \ {y}
             W == T \ {a, y}
  <2>3. T \in SUBSET S
    OBVIOUS
  <2>4. a \in T /\ U \in SUBSET S /\ U # T /\ SumOf(f, T) = f[a] + SumOf(f, U)
    BY <2>2, <2>3, PartStep
  <2>5. a # y
    BY <2>2, <2>4
  <2>6. /\ y \in U /\ U \subseteq T /\ U \notin bad
        /\ a \in V /\ V \in SUBSET S /\ V \subseteq T /\ V # T /\ V \notin bad
    BY <2>1, <2>2, <2>3, <2>4, <2>5
  <2>7. U \ {y} = W /\ V \ {a} = W
    OBVIOUS
  <2>8. /\ SumOf(f, U) = f[y] + SumOf(f, W)
        /\ SumOf(f, V) = f[a] + SumOf(f, W)
    <3>1. SumOf(f, U) = f[y] + SumOf(f, U \ {y})
      BY <2>4, <2>6
    <3>2. SumOf(f, V) = f[a] + SumOf(f, V \ {a})
      BY <2>6
    <3> QED
      BY <2>7, <3>1, <3>2
  <2>9. SumOf(f, W) \in Nat /\ f[y] \in Nat /\ f[a] \in Nat
    <3>1. (\A s \in W : f[s] \in Nat) /\ W \in SUBSET S /\ f[y] \in Nat /\ f[a] \in Nat
      BY <2>2, <2>3, <2>4
    <3>2. IsFiniteSet(W)
      BY <3>1, FS_Subset
    <3> HIDE DEF W
    <3> QED
      BY <3>1, <3>2, SumType
  <2> HIDE DEF U, V, W, a
  <2>10. f[a] + (f[y] + SumOf(f, W)) = f[y] + (f[a] + SumOf(f, W))
    BY <2>9
  <2> QED
    BY <2>2, <2>4, <2>8, <2>10 DEF V
<1> QED
  BY <1>1

LEMMA SumSame ==
  ASSUME NEW S, IsFiniteSet(S), NEW f, NEW g, \A s \in S : f[s] = g[s]
  PROVE  SumOf(f, S) = SumOf(g, S)
<1> DEFINE bad == {T \in SUBSET S : SumOf(f, T) # SumOf(g, T)}
<1>1. ASSUME bad # {} PROVE FALSE
  <2>1. PICK T \in bad : \A U \in bad : U \subseteq T => U = T
    <3>1. bad \in SUBSET SUBSET S
      OBVIOUS
    <3> HIDE DEF bad
    <3> QED
      BY <1>1, <3>1, SmallestPart
  <2>2. T \in SUBSET S /\ SumOf(f, T) # SumOf(g, T)
    OBVIOUS
  <2>3. T # {}
    BY <2>2, SumEmpty
  <2>4. /\ Any(T) \in T
        /\ T \ {Any(T)} \in SUBSET S /\ T \ {Any(T)} # T
        /\ SumOf(f, T) = f[Any(T)] + SumOf(f, T \ {Any(T)})
        /\ SumOf(g, T) = g[Any(T)] + SumOf(g, T \ {Any(T)})
    BY <2>2, <2>3, PartStep
  <2>5. SumOf(f, T \ {Any(T)}) = SumOf(g, T \ {Any(T)})
    BY <2>1, <2>4
  <2>6. f[Any(T)] = g[Any(T)]
    BY <2>2, <2>4
  <2> QED
    BY <2>2, <2>4, <2>5, <2>6
<1> QED
  BY <1>1

LEMMA SumApart ==
  ASSUME NEW S, IsFiniteSet(S), NEW f, \A s \in S : f[s] \in Nat, NEW T \in SUBSET S
  PROVE  SumOf(f, S) = SumOf(f, T) + SumOf(f, S \ T)
<1> DEFINE bad == {U \in SUBSET S : SumOf(f, S) # SumOf(f, U) + SumOf(f, S \ U)}
<1>1. ASSUME bad # {} PROVE FALSE
  <2>1. PICK U \in bad : \A V \in bad : V \subseteq U => V = U
    <3>1. bad \in SUBSET SUBSET S
      OBVIOUS
    <3> HIDE DEF bad
    <3> QED
      BY <1>1, <3>1, SmallestPart
  <2>2. U \in SUBSET S /\ SumOf(f, S) # SumOf(f, U) + SumOf(f, S \ U)
    OBVIOUS
  <2>3. U # {}
    <3>1. SumOf(f, S) \in Nat /\ S \ {} = S
      BY SumType
    <3> QED
      BY <2>2, <3>1, SumEmpty
  <2> DEFINE a == Any(U)
             V == U \ {a}
             W == S \ U
  <2>4. a \in U /\ V \in SUBSET S /\ V # U /\ SumOf(f, U) = f[a] + SumOf(f, V)
    BY <2>2, <2>3, PartStep
  <2>5. SumOf(f, S) = SumOf(f, V) + SumOf(f, S \ V)
    BY <2>1, <2>4
  <2>6. a \in S \ V /\ (S \ V) \ {a} = W
    BY <2>2, <2>4
  <2>7. /\ IsFiniteSet(V) /\ IsFiniteSet(W) /\ IsFiniteSet(S \ V)
        /\ \A s \in V : f[s] \in Nat
        /\ \A s \in W : f[s] \in Nat
        /\ \A s \in S \ V : f[s] \in Nat
        /\ f[a] \in Nat
    BY <2>2, <2>4, FS_Subset
  <2>8. SumOf(f, S \ V) = f[a] + SumOf(f, W)
    <3>1. SumOf(f, S \ V) = f[a] + SumOf(f, (S \ V) \ {a})
      <4> HIDE DEF V, W, a
      <4> QED BY <2>6, <2>7, SumTake
    <3> QED
      BY <2>6, <3>1
  <2>9. SumOf(f, V) \in Nat /\ SumOf(f, W) \in Nat
    <3> HIDE DEF V, W, a
    <3> QED BY <2>7, SumType
  <2> HIDE DEF V, a
  <2>10. SumOf(f, S) = SumOf(f, U) + SumOf(f, W)
    <3> HIDE DEF W
    <3> QED BY <2>4, <2>5, <2>7, <2>8, <2>9
  <2> QED
    BY <2>2, <2>10
<1> QED
  BY <1>1

LEMMA BytesAreSum ==
  ASSUME NEW S, IsFiniteSet(S), NEW f, \A s \in S : f[s] = slots[s].bytes
  PROVE  Bytes(S) = SumOf(f, S)
<1> DEFINE F(g) == [T \in SUBSET S |-> IF T = {} THEN 0
                                       ELSE f[Any(T)] + g[T \ {Any(T)}]]
           B(g) == [T \in SUBSET S |-> IF T = {} THEN 0
                                       ELSE slots[Any(T)].bytes + g[T \ {Any(T)}]]
<1>1. Bytes(S) = (CHOOSE g : g = B(g))[S]
  BY DEF Bytes, MapThenSumSet, MapThenFoldSet, Any
<1>2. ASSUME NEW g PROVE B(g) = F(g)
  <2>1. ASSUME NEW T \in SUBSET S, T # {} PROVE slots[Any(T)].bytes = f[Any(T)]
    BY <2>1, AnyIsIn
  <2> QED
    BY <2>1
<1>3. PICK g : g = CHOOSE h : h = B(h)
  OBVIOUS
<1>4. g = B(g)
  <2>1. \E h : Sums(f, S, h)
    BY FoldsExist
  <2>2. PICK h : h = F(h)
    BY <2>1 DEF Sums
  <2>3. h = B(h)
    <3> HIDE DEF F, B
    <3> QED BY <2>2, <1>2
  <2> HIDE DEF B
  <2> QED
    BY <1>3, <2>3
<1>5. Sums(f, S, g)
  <2>1. g = F(g)
    <3> HIDE DEF F, B
    <3> QED BY <1>4, <1>2
  <2> QED
    BY <2>1 DEF Sums
<1>6. Sums(f, S, CHOOSE h : Sums(f, S, h))
  BY FoldsExist
<1>7. g[S] = (CHOOSE h : Sums(f, S, h))[S]
  <2> DEFINE h == CHOOSE h : Sums(f, S, h)
  <2>1. S \in SUBSET S
    OBVIOUS
  <2>2. Sums(f, S, h)
    BY <1>6
  <2> HIDE DEF h
  <2>3. g[S] = h[S]
    BY <1>5, <2>1, <2>2, FoldsAgree
  <2> QED
    BY <2>3 DEF h
<1> QED
  <2> HIDE DEF B
  <2> QED BY <1>1, <1>3, <1>7 DEF SumOf
LEMMA SlotsAreFinite == IsFiniteSet(Slots)
  BY PoolAssumption, FS_Interval DEF Slots

\* Where a function is one everywhere its sum counts.
LEMMA SumOnes ==
  ASSUME NEW S, IsFiniteSet(S), NEW f, \A s \in S : f[s] = 1
  PROVE  SumOf(f, S) = Cardinality(S)
<1> DEFINE bad == {T \in SUBSET S : SumOf(f, T) # Cardinality(T)}
<1>1. ASSUME bad # {} PROVE FALSE
  <2>1. PICK T \in bad : \A U \in bad : U \subseteq T => U = T
    <3>1. bad \in SUBSET SUBSET S
      OBVIOUS
    <3> HIDE DEF bad
    <3> QED
      BY <1>1, <3>1, SmallestPart
  <2>2. T \in SUBSET S /\ SumOf(f, T) # Cardinality(T)
    OBVIOUS
  <2>3. T # {}
    BY <2>2, SumEmpty, FS_EmptySet
  <2> DEFINE U == T \ {Any(T)}
  <2>4. Any(T) \in T /\ U \in SUBSET S /\ U # T /\ SumOf(f, T) = f[Any(T)] + SumOf(f, U)
    BY <2>2, <2>3, PartStep
  <2>5. SumOf(f, U) = Cardinality(U)
    BY <2>1, <2>4
  <2>6. IsFiniteSet(T) /\ Cardinality(T) \in Nat
    BY <2>2, FS_Subset, FS_CardinalityType
  <2>7. Cardinality(U) = Cardinality(T) - 1
    BY <2>4, <2>6, FS_RemoveElement
  <2>8. f[Any(T)] = 1
    BY <2>2, <2>4
  <2> QED
    BY <2>2, <2>4, <2>5, <2>6, <2>7, <2>8
<1> QED
  BY <1>1

\* A sum in which only the elements of T count, and what they count for there.
LEMMA SumOnly ==
  ASSUME NEW S, IsFiniteSet(S), NEW f, \A s \in S : f[s] \in Nat,
         NEW T \in SUBSET S, \A s \in S \ T : f[s] = 0
  PROVE  SumOf(f, S) = SumOf(f, T)
<1>1. SumOf(f, S) = SumOf(f, T) + SumOf(f, S \ T)
  BY SumApart
<1>2. IsFiniteSet(T) /\ IsFiniteSet(S \ T)
  BY FS_Subset
<1>3. SumOf(f, S \ T) = 0
  <2> DEFINE bad == {U \in SUBSET (S \ T) : SumOf(f, U) # 0}
  <2>1. ASSUME bad # {} PROVE FALSE
    <3>1. PICK U \in bad : \A V \in bad : V \subseteq U => V = U
      <4>1. bad \in SUBSET SUBSET (S \ T)
        OBVIOUS
      <4> HIDE DEF bad
      <4> QED
        BY <1>2, <2>1, <4>1, SmallestPart
    <3>2. U \in SUBSET (S \ T) /\ SumOf(f, U) # 0
      OBVIOUS
    <3>3. U # {}
      BY <3>2, SumEmpty
    <3>4. /\ Any(U) \in U
          /\ U \ {Any(U)} \in SUBSET (S \ T) /\ U \ {Any(U)} # U
          /\ SumOf(f, U) = f[Any(U)] + SumOf(f, U \ {Any(U)})
      BY <1>2, <3>2, <3>3, PartStep
    <3>5. SumOf(f, U \ {Any(U)}) = 0
      BY <3>1, <3>4
    <3>6. f[Any(U)] = 0
      BY <3>2, <3>4
    <3> QED
      BY <3>2, <3>4, <3>5, <3>6
  <2> QED
    BY <2>1
<1>4. SumOf(f, T) \in Nat
  BY <1>2, SumType
<1> QED
  BY <1>1, <1>3, <1>4

\* Two functions that differ at one element only, or on a part only.
LEMMA SumChanged ==
  ASSUME NEW S, IsFiniteSet(S), NEW f, \A s \in S : f[s] \in Nat,
         NEW g, \A s \in S : g[s] \in Nat, NEW x \in S, \A s \in S \ {x} : f[s] = g[s]
  PROVE  SumOf(g, S) = SumOf(f, S) - f[x] + g[x] /\ SumOf(f, S) \in Nat /\ SumOf(g, S) \in Nat
<1>1. IsFiniteSet(S \ {x})
  BY FS_RemoveElement
<1>2. SumOf(f, S \ {x}) = SumOf(g, S \ {x})
  BY <1>1, SumSame
<1>3. SumOf(f, S) = f[x] + SumOf(f, S \ {x}) /\ SumOf(g, S) = g[x] + SumOf(g, S \ {x})
  BY SumTake
<1>4. SumOf(f, S \ {x}) \in Nat
  BY <1>1, SumType
<1> QED
  BY <1>2, <1>3, <1>4

LEMMA SumDropped ==
  ASSUME NEW S, IsFiniteSet(S), NEW f, \A s \in S : f[s] \in Nat,
         NEW T \in SUBSET S, NEW g, \A s \in S : g[s] = IF s \in T THEN 0 ELSE f[s]
  PROVE  SumOf(g, S) = SumOf(f, S) - SumOf(f, T) /\ SumOf(f, T) \in Nat /\ SumOf(f, S) \in Nat
<1>1. IsFiniteSet(T) /\ IsFiniteSet(S \ T)
  BY FS_Subset
<1>2. SumOf(f, S) = SumOf(f, T) + SumOf(f, S \ T)
  BY SumApart
<1>3. SumOf(g, S) = SumOf(g, S \ T)
  <2>1. S \ T \in SUBSET S /\ (\A s \in S : g[s] \in Nat) /\ \A s \in S \ (S \ T) : g[s] = 0
    OBVIOUS
  <2> QED
    BY <2>1, SumOnly
<1>4. SumOf(g, S \ T) = SumOf(f, S \ T)
  BY <1>1, SumSame
<1>5. SumOf(f, T) \in Nat /\ SumOf(f, S \ T) \in Nat
  BY <1>1, SumType
<1> QED
  BY <1>2, <1>3, <1>4, <1>5

(***************************************************************************)
(* What the counters count, slot by slot: each is a sum over all slots.    *)
(***************************************************************************)
HeldBy(slot) == IF slot.borrowed THEN 0 ELSE slot.bytes
InUseBy(slot) == IF slot.live /\ ~slot.borrowed THEN slot.bytes ELSE 0
PendingBy(slot, s, R) == IF s \in R THEN slot.bytes ELSE 0
LiveBy(slot) == IF slot.live THEN 1 ELSE 0
PooledBy(slot) == IF slot.shared \/ slot.borrowed THEN 0 ELSE slot.bytes

HeldOf(sl) == [s \in Slots |-> HeldBy(sl[s])]
InUseOf(sl) == [s \in Slots |-> InUseBy(sl[s])]
PendingOf(sl, R) == [s \in Slots |-> PendingBy(sl[s], s, R)]
LiveOf(sl) == [s \in Slots |-> LiveBy(sl[s])]
PooledOf(sl) == [s \in Slots |-> PooledBy(sl[s])]

\* The books: what is checked of the counters, written as these sums; that a slot
\* without a buffer has no bytes; and that between the answer of makeRoom and the
\* driver's there is room for what was asked.
BooksInv ==
  /\ stats \in [held : Int, inUse : Int, asked : Int, pending : Int, live : Int]
  /\ \A s \in Slots : slots[s].native = NoBuffer => slots[s].bytes = 0
  /\ stats.held = SumOf(HeldOf(slots), Slots)
  /\ stats.inUse = SumOf(InUseOf(slots), Slots)
  /\ stats.pending = SumOf(PendingOf(slots, Retiring), Slots)
  /\ stats.live = SumOf(LiveOf(slots), Slots)
  /\ SumOf(PooledOf(slots), Slots) <= Budget
  /\ call.pc = "native" => stats.held + Size <= Budget

LEMMA CountsAreNat ==
  ASSUME NEW sl \in [Slots -> SlotRecord], NEW R, NEW s \in Slots
  PROVE  /\ HeldOf(sl)[s] \in Nat /\ InUseOf(sl)[s] \in Nat /\ PendingOf(sl, R)[s] \in Nat
         /\ LiveOf(sl)[s] \in Nat /\ PooledOf(sl)[s] \in Nat
<1>1. sl[s].bytes \in Nat
  BY DEF SlotRecord
<1> QED
  BY <1>1 DEF HeldOf, InUseOf, PendingOf, LiveOf, PooledOf,
     HeldBy, InUseBy, PendingBy, LiveBy, PooledBy

\* A counter of the bytes of some slots is such a sum.
LEMMA BytesOfSome ==
  ASSUME slots \in [Slots -> SlotRecord], NEW T \in SUBSET Slots,
         NEW f, \A s \in Slots : f[s] = IF s \in T THEN slots[s].bytes ELSE 0
  PROVE  Bytes(T) = SumOf(f, Slots)
<1>1. IsFiniteSet(T)
  BY SlotsAreFinite, FS_Subset
<1>2. \A s \in Slots : f[s] \in Nat
  BY DEF SlotRecord
<1>3. Bytes(T) = SumOf(f, T)
  BY <1>1, BytesAreSum
<1>4. SumOf(f, Slots) = SumOf(f, T)
  BY <1>2, SlotsAreFinite, SumOnly
<1> QED
  BY <1>3, <1>4

LEMMA CountersAreSums ==
  ASSUME TypeOK
  PROVE  /\ Bytes({s \in Slots : ~slots[s].borrowed}) = SumOf(HeldOf(slots), Slots)
         /\ Bytes({s \in Live : ~slots[s].borrowed}) = SumOf(InUseOf(slots), Slots)
         /\ Bytes(Retiring) = SumOf(PendingOf(slots, Retiring), Slots)
         /\ Cardinality(Live) = SumOf(LiveOf(slots), Slots)
         /\ Bytes({s \in Slots : Pooled(s)}) = SumOf(PooledOf(slots), Slots)
<1>1. slots \in [Slots -> SlotRecord] /\ Retiring \subseteq Slots
  BY RetiringFacts, TypeFacts
<1>2. Bytes({s \in Slots : ~slots[s].borrowed}) = SumOf(HeldOf(slots), Slots)
  <2>1. \A s \in Slots : HeldOf(slots)[s]
                           = IF s \in {r \in Slots : ~slots[r].borrowed} THEN slots[s].bytes ELSE 0
    BY DEF HeldOf, HeldBy
  <2> QED
    BY <1>1, <2>1, BytesOfSome
<1>3. Bytes({s \in Live : ~slots[s].borrowed}) = SumOf(InUseOf(slots), Slots)
  <2>1. \A s \in Slots : InUseOf(slots)[s]
                           = IF s \in {r \in Live : ~slots[r].borrowed} THEN slots[s].bytes ELSE 0
    BY DEF InUseOf, InUseBy, Live
  <2>2. {r \in Live : ~slots[r].borrowed} \in SUBSET Slots
    BY DEF Live
  <2> QED
    BY <1>1, <2>1, <2>2, BytesOfSome
<1>4. Bytes(Retiring) = SumOf(PendingOf(slots, Retiring), Slots)
  <2>1. \A s \in Slots : PendingOf(slots, Retiring)[s]
                           = IF s \in Retiring THEN slots[s].bytes ELSE 0
    BY DEF PendingOf, PendingBy
  <2> QED
    BY <1>1, <2>1, BytesOfSome
<1>5. Bytes({s \in Slots : Pooled(s)}) = SumOf(PooledOf(slots), Slots)
  <2>1. \A s \in Slots : PooledOf(slots)[s]
                           = IF s \in {r \in Slots : Pooled(r)} THEN slots[s].bytes ELSE 0
    BY DEF PooledOf, PooledBy, Pooled
  <2> QED
    BY <1>1, <2>1, BytesOfSome
<1>6. Cardinality(Live) = SumOf(LiveOf(slots), Slots)
  <2>1. Live \in SUBSET Slots /\ IsFiniteSet(Live)
    BY SlotsAreFinite, FS_Subset DEF Live
  <2>2. /\ \A s \in Slots : LiveOf(slots)[s] \in Nat
        /\ \A s \in Slots \ Live : LiveOf(slots)[s] = 0
        /\ \A s \in Live : LiveOf(slots)[s] = 1
    BY DEF LiveOf, LiveBy, Live
  <2> QED
    BY <2>1, <2>2, SlotsAreFinite, SumOnly, SumOnes
<1> QED
  BY <1>2, <1>3, <1>4, <1>5, <1>6

\* What slot s adds to each counter once it is `slot', in place of what it added.
Moved(sl, sm, s, slot, R, Q) ==
  /\ SumOf(HeldOf(sm), Slots) = SumOf(HeldOf(sl), Slots) - HeldBy(sl[s]) + HeldBy(slot)
  /\ SumOf(InUseOf(sm), Slots) = SumOf(InUseOf(sl), Slots) - InUseBy(sl[s]) + InUseBy(slot)
  /\ SumOf(PendingOf(sm, Q), Slots)
       = SumOf(PendingOf(sl, R), Slots) - PendingBy(sl[s], s, R) + PendingBy(slot, s, Q)
  /\ SumOf(LiveOf(sm), Slots) = SumOf(LiveOf(sl), Slots) - LiveBy(sl[s]) + LiveBy(slot)
  /\ SumOf(PooledOf(sm), Slots) = SumOf(PooledOf(sl), Slots) - PooledBy(sl[s]) + PooledBy(slot)

LEMMA SlotChanged ==
  ASSUME NEW sl \in [Slots -> SlotRecord], NEW s \in Slots, NEW slot \in SlotRecord,
         NEW sm, sm = [sl EXCEPT ![s] = slot],
         NEW R, NEW Q, \A r \in Slots \ {s} : r \in R <=> r \in Q
  PROVE  Moved(sl, sm, s, slot, R, Q)
<1>1. sm \in [Slots -> SlotRecord] /\ sm[s] = slot /\ \A r \in Slots \ {s} : sm[r] = sl[r]
  OBVIOUS
<1>2. SumOf(HeldOf(sm), Slots) = SumOf(HeldOf(sl), Slots) - HeldBy(sl[s]) + HeldBy(slot)
  <2> DEFINE f == HeldOf(sl)
             g == HeldOf(sm)
  <2>1. \A r \in Slots : f[r] \in Nat /\ g[r] \in Nat
    BY <1>1, CountsAreNat
  <2>2. (\A r \in Slots \ {s} : f[r] = g[r]) /\ f[s] = HeldBy(sl[s]) /\ g[s] = HeldBy(slot)
    BY <1>1 DEF HeldOf
  <2> HIDE DEF f, g
  <2>3. SumOf(g, Slots) = SumOf(f, Slots) - f[s] + g[s]
    BY <2>1, <2>2, SlotsAreFinite, SumChanged
  <2> QED
    BY <2>2, <2>3 DEF f, g
<1>3. SumOf(InUseOf(sm), Slots) = SumOf(InUseOf(sl), Slots) - InUseBy(sl[s]) + InUseBy(slot)
  <2> DEFINE f == InUseOf(sl)
             g == InUseOf(sm)
  <2>1. \A r \in Slots : f[r] \in Nat /\ g[r] \in Nat
    BY <1>1, CountsAreNat
  <2>2. (\A r \in Slots \ {s} : f[r] = g[r]) /\ f[s] = InUseBy(sl[s]) /\ g[s] = InUseBy(slot)
    BY <1>1 DEF InUseOf
  <2> HIDE DEF f, g
  <2>3. SumOf(g, Slots) = SumOf(f, Slots) - f[s] + g[s]
    BY <2>1, <2>2, SlotsAreFinite, SumChanged
  <2> QED
    BY <2>2, <2>3 DEF f, g
<1>4. SumOf(PendingOf(sm, Q), Slots)
        = SumOf(PendingOf(sl, R), Slots) - PendingBy(sl[s], s, R) + PendingBy(slot, s, Q)
  <2> DEFINE f == PendingOf(sl, R)
             g == PendingOf(sm, Q)
  <2>1. \A r \in Slots : f[r] \in Nat /\ g[r] \in Nat
    BY <1>1, CountsAreNat
  <2>2. \A r \in Slots \ {s} : f[r] = g[r]
    BY <1>1 DEF PendingOf, PendingBy
  <2>3. f[s] = PendingBy(sl[s], s, R) /\ g[s] = PendingBy(slot, s, Q)
    BY <1>1 DEF PendingOf
  <2> HIDE DEF f, g
  <2>4. SumOf(g, Slots) = SumOf(f, Slots) - f[s] + g[s]
    BY <2>1, <2>2, SlotsAreFinite, SumChanged
  <2> QED
    BY <2>3, <2>4 DEF f, g
<1>5. SumOf(LiveOf(sm), Slots) = SumOf(LiveOf(sl), Slots) - LiveBy(sl[s]) + LiveBy(slot)
  <2> DEFINE f == LiveOf(sl)
             g == LiveOf(sm)
  <2>1. \A r \in Slots : f[r] \in Nat /\ g[r] \in Nat
    BY <1>1, CountsAreNat
  <2>2. (\A r \in Slots \ {s} : f[r] = g[r]) /\ f[s] = LiveBy(sl[s]) /\ g[s] = LiveBy(slot)
    BY <1>1 DEF LiveOf
  <2> HIDE DEF f, g
  <2>3. SumOf(g, Slots) = SumOf(f, Slots) - f[s] + g[s]
    BY <2>1, <2>2, SlotsAreFinite, SumChanged
  <2> QED
    BY <2>2, <2>3 DEF f, g
<1>6. SumOf(PooledOf(sm), Slots) = SumOf(PooledOf(sl), Slots) - PooledBy(sl[s]) + PooledBy(slot)
  <2> DEFINE f == PooledOf(sl)
             g == PooledOf(sm)
  <2>1. \A r \in Slots : f[r] \in Nat /\ g[r] \in Nat
    BY <1>1, CountsAreNat
  <2>2. (\A r \in Slots \ {s} : f[r] = g[r]) /\ f[s] = PooledBy(sl[s]) /\ g[s] = PooledBy(slot)
    BY <1>1 DEF PooledOf
  <2> HIDE DEF f, g
  <2>3. SumOf(g, Slots) = SumOf(f, Slots) - f[s] + g[s]
    BY <2>1, <2>2, SlotsAreFinite, SumChanged
  <2> QED
    BY <2>2, <2>3 DEF f, g
<1> QED
  BY <1>2, <1>3, <1>4, <1>5, <1>6 DEF Moved

LEMMA SumsAreNat ==
  ASSUME NEW sl \in [Slots -> SlotRecord], NEW R
  PROVE  /\ SumOf(HeldOf(sl), Slots) \in Nat /\ SumOf(InUseOf(sl), Slots) \in Nat
         /\ SumOf(PendingOf(sl, R), Slots) \in Nat /\ SumOf(LiveOf(sl), Slots) \in Nat
         /\ SumOf(PooledOf(sl), Slots) \in Nat
         /\ SumOf(PooledOf(sl), Slots) <= SumOf(HeldOf(sl), Slots)
<1>1. /\ \A r \in Slots : HeldOf(sl)[r] \in Nat
      /\ \A r \in Slots : InUseOf(sl)[r] \in Nat
      /\ \A r \in Slots : PendingOf(sl, R)[r] \in Nat
      /\ \A r \in Slots : LiveOf(sl)[r] \in Nat
      /\ \A r \in Slots : PooledOf(sl)[r] \in Nat
  BY CountsAreNat
<1>2. /\ SumOf(HeldOf(sl), Slots) \in Nat /\ SumOf(InUseOf(sl), Slots) \in Nat
      /\ SumOf(PendingOf(sl, R), Slots) \in Nat /\ SumOf(LiveOf(sl), Slots) \in Nat
      /\ SumOf(PooledOf(sl), Slots) \in Nat
  BY <1>1, SlotsAreFinite, SumType
<1>3. SumOf(PooledOf(sl), Slots) <= SumOf(HeldOf(sl), Slots)
  <2> DEFINE T == {s \in Slots : sl[s].shared /\ ~sl[s].borrowed}
  <2>1. \A s \in Slots : PooledOf(sl)[s] = IF s \in T THEN 0 ELSE HeldOf(sl)[s]
    BY DEF PooledOf, HeldOf, PooledBy, HeldBy
  <2>2. T \in SUBSET Slots
    OBVIOUS
  <2> HIDE DEF T
  <2>3. /\ SumOf(PooledOf(sl), Slots) = SumOf(HeldOf(sl), Slots) - SumOf(HeldOf(sl), T)
        /\ SumOf(HeldOf(sl), T) \in Nat
    BY <1>1, <2>1, <2>2, SlotsAreFinite, SumDropped
  <2> QED
    BY <1>2, <2>3
<1> QED
  BY <1>2, <1>3

\* One slot changes, and each counter by what it changes in it.
LEMMA BooksChanged ==
  ASSUME IInv, BooksInv, NEW s \in Slots, NEW slot \in SlotRecord,
         slots' = [slots EXCEPT ![s] = slot],
         \A r \in Slots \ {s} : r \in Retiring <=> r \in Retiring',
         slot.native = NoBuffer => slot.bytes = 0,
         stats' \in [held : Int, inUse : Int, asked : Int, pending : Int, live : Int],
         stats'.held = stats.held - HeldBy(slots[s]) + HeldBy(slot),
         stats'.inUse = stats.inUse - InUseBy(slots[s]) + InUseBy(slot),
         stats'.pending = stats.pending - PendingBy(slots[s], s, Retiring)
                            + PendingBy(slot, s, Retiring'),
         stats'.live = stats.live - LiveBy(slots[s]) + LiveBy(slot),
         SumOf(PooledOf(slots), Slots) - PooledBy(slots[s]) + PooledBy(slot) <= Budget,
         call'.pc # "native"
  PROVE  BooksInv'
<1>1. slots \in [Slots -> SlotRecord]
  BY DEF IInv, TypeOK
<1>2. slots'[s] = slot /\ \A r \in Slots \ {s} : slots'[r] = slots[r]
  BY <1>1
<1>3. \A r \in Slots : slots'[r].native = NoBuffer => slots'[r].bytes = 0
  BY <1>2 DEF BooksInv
<1>4. PICK Q : Q = Retiring' /\ \A r \in Slots \ {s} : r \in Retiring <=> r \in Q
  OBVIOUS
<1>5. PICK sm : sm = slots' /\ sm = [slots EXCEPT ![s] = slot]
  OBVIOUS
<1>6. Moved(slots, sm, s, slot, Retiring, Q)
  BY ONLY <1>1, <1>4, <1>5, SlotChanged, s \in Slots, slot \in SlotRecord
<1>7. Moved(slots, slots', s, slot, Retiring, Retiring')
  BY <1>4, <1>5, <1>6
<1> QED
  BY <1>2, <1>3, <1>7 DEF BooksInv, Moved, HeldOf, InUseOf, PendingOf, LiveOf, PooledOf

StatsRecord == [held : Int, inUse : Int, asked : Int, pending : Int, live : Int]

\* Bytes handed back to the backend are taken off held alone.
LEMMA HeldGivenBack ==
  ASSUME NEW st \in StatsRecord, NEW n \in Int
  PROVE  /\ [st EXCEPT !.held = @ - n] \in StatsRecord
         /\ [st EXCEPT !.held = @ - n].held = st.held - n
         /\ [st EXCEPT !.held = @ - n].pending = st.pending
         /\ [st EXCEPT !.held = @ - n].inUse = st.inUse
         /\ [st EXCEPT !.held = @ - n].live = st.live
<1>1. PICK m \in Int : m = st.held - n
  BY DEF StatsRecord
<1>2. /\ [st EXCEPT !.held = m] \in StatsRecord
      /\ [st EXCEPT !.held = m].held = m
      /\ [st EXCEPT !.held = m].pending = st.pending
      /\ [st EXCEPT !.held = m].inUse = st.inUse
      /\ [st EXCEPT !.held = m].live = st.live
  BY DEF StatsRecord
<1> QED
  BY <1>1, <1>2, Zenon

\* Where the slots are, one at a time.
LEMMA PlaceFacts ==
  ASSUME IInv
  PROVE  /\ slots \in [Slots -> SlotRecord] /\ Live \subseteq Slots
         /\ \A s \in Slots : s \in Live <=> slots[s].live
         /\ \A s \in Live : s \notin Retiring /\ s \notin free
         /\ free \subseteq Slots /\ \A s \in free : s \notin Retiring
         /\ \A s \in Retiring : s \in Slots
         /\ \A s \in Slots \ Live : ~slots[s].shared /\ ~slots[s].borrowed
         /\ \A s \in Slots : slots[s].live \in BOOLEAN /\ slots[s].bytes \in Nat /\ slots[s].asked \in Nat
<1>1. DOMAIN retiring = 1 .. Len(retiring) /\ Retiring \subseteq Slots
  BY RetiringFacts DEF IInv
<1>2. slots \in [Slots -> SlotRecord] /\ free \subseteq Slots
  BY DEF IInv, TypeOK
<1>3. \A s \in Slots : slots[s].live \in BOOLEAN /\ slots[s].bytes \in Nat /\ slots[s].asked \in Nat
  BY <1>2 DEF SlotRecord
<1>4. \A s \in Retiring : ~slots[s].live /\ s \notin free
  BY <1>1 DEF Retiring, IInv, PlacesInv
<1>5. \A s \in Live : s \notin free
  BY DEF IInv, PlacesInv
<1> QED
  BY <1>1, <1>2, <1>3, <1>4, <1>5 DEF Live, IInv, PlacesInv, Pooled

\* The queue falls apart in what is drained and what stays.
LEMMA DrainedApart ==
  ASSUME IInv, NEW done, NEW n \in 0 .. Len(retiring), Drains(done, n)
  PROVE  Drained(n) \subseteq Retiring /\ Retiring' = Retiring \ Drained(n)
<1>1. retiring \in Seq(RetiringRecord) /\ Len(retiring) \in Nat /\ n \in Nat
  BY RetiringFacts DEF IInv, TypeOK
<1>2. /\ Len(retiring') = Len(retiring) - n
      /\ \A i \in 1 .. Len(retiring) - n : retiring'[i] = retiring[i + n]
      /\ DOMAIN retiring' = 1 .. Len(retiring')
  BY <1>1, DropsFront DEF Drains
<1>3. Drained(n) \subseteq Retiring /\ DOMAIN retiring = 1 .. Len(retiring)
  BY <1>1 DEF Drained, Retiring
<1>4. Retiring \subseteq Drained(n) \cup Retiring'
  BY DrainedOrRetiring
<1>5. ASSUME NEW i \in 1 .. Len(retiring')
      PROVE  retiring'[i].slot \in Retiring \ Drained(n)
  <2>1. i + n \in 1 .. Len(retiring) /\ retiring'[i] = retiring[i + n] /\ i \in Nat /\ i > 0
    BY <1>1, <1>2
  <2>2. \A j \in 1 .. n : j \in 1 .. Len(retiring) /\ j # i + n
    BY <1>1, <2>1
  <2>3. \A j \in 1 .. n : retiring[j].slot # retiring[i + n].slot
    BY <2>1, <2>2 DEF IInv, PlacesInv
  <2> QED
    BY <1>3, <2>1, <2>3 DEF Drained, Retiring
<1>6. Retiring' \subseteq Retiring \ Drained(n)
  BY <1>2, <1>5 DEF Retiring
<1> QED
  BY <1>3, <1>4, <1>6

LEMMA BooksReclaimed ==
  ASSUME IInv, BooksInv, NEW done, reclaimLocked(done),
         call'.pc = "native" => stats'.held + ClassBytes[ClassOf[call'.want]] <= Budget
  PROVE  BooksInv'
<1>1. PICK n \in 0 .. Len(retiring) :
        Drains(done, n) /\ stats' = StatsDrained(n) /\ slots' = slots
  BY DEF reclaimLocked
<1>2. slots \in [Slots -> SlotRecord] /\ Retiring \subseteq Slots
  BY PlaceFacts
<1>3. Drained(n) \subseteq Retiring /\ Retiring' = Retiring \ Drained(n)
  BY <1>1, DrainedApart
<1> DEFINE f == PendingOf(slots, Retiring)
           g == PendingOf(slots, Retiring \ Drained(n))
<1>4. SumOf(g, Slots) = SumOf(f, Slots) - SumOf(f, Drained(n)) /\ SumOf(f, Drained(n)) \in Nat
  <2>1. /\ \A s \in Slots : f[s] \in Nat
        /\ \A s \in Slots : g[s] = IF s \in Drained(n) THEN 0 ELSE f[s]
        /\ Drained(n) \in SUBSET Slots
    BY <1>2, <1>3, CountsAreNat DEF PendingOf, PendingBy
  <2> HIDE DEF f, g
  <2> QED
    BY <2>1, SlotsAreFinite, SumDropped
<1>5. Bytes(Drained(n)) = SumOf(f, Drained(n))
  <2>1. \A s \in Drained(n) : f[s] = slots[s].bytes
    BY <1>2, <1>3 DEF PendingOf, PendingBy
  <2>2. IsFiniteSet(Drained(n))
    BY <1>2, <1>3, SlotsAreFinite, FS_Subset
  <2> HIDE DEF f
  <2> QED
    BY <2>1, <2>2, BytesAreSum
<1> HIDE DEF f, g
<1>6. stats' = [stats EXCEPT !.pending = @ - Bytes(Drained(n))]
  BY <1>1 DEF StatsDrained
<1>7. /\ stats'.pending = stats.pending - Bytes(Drained(n)) /\ stats' \in StatsRecord
      /\ stats'.held = stats.held /\ stats'.inUse = stats.inUse /\ stats'.live = stats.live
  <2>1. stats \in StatsRecord /\ Bytes(Drained(n)) \in Int
    BY <1>4, <1>5 DEF BooksInv, StatsRecord
  <2> QED
    BY <1>6, <2>1 DEF StatsRecord
<1>8. stats'.pending = SumOf(PendingOf(slots', Retiring'), Slots)
  BY <1>1, <1>3, <1>4, <1>5, <1>7 DEF BooksInv, f, g
<1> QED
  BY <1>1, <1>7, <1>8 DEF BooksInv, StatsRecord, Size, HeldOf, InUseOf, LiveOf, PooledOf

LEMMA BooksTrimmed ==
  ASSUME IInv, BooksInv, trimLocked,
         call'.pc = "native" => stats'.held + ClassBytes[ClassOf[call'.want]] <= Budget
  PROVE  BooksInv'
<1>1. PICK n \in 0 .. Len(retiring) :
        /\ Drains(Published, n)
        /\ slots' = [s \in Slots |-> IF s \in free \cup Drained(n) THEN Emptied(slots[s]) ELSE slots[s]]
        /\ stats' = [StatsDrained(n) EXCEPT !.held = @ - Bytes(free \cup Drained(n))]
  BY DEF trimLocked
<1> DEFINE D == Drained(n)
           back == free \cup D
<1>2. slots \in [Slots -> SlotRecord] /\ Retiring \subseteq Slots /\ free \subseteq Slots
  BY PlaceFacts
<1>3. D \subseteq Retiring /\ Retiring' = Retiring \ D
  BY <1>1, DrainedApart
<1>4. back \in SUBSET Slots /\ D \in SUBSET Slots /\ \A s \in D : s \in back
  BY <1>2, <1>3
<1>5. \A s \in back : ~slots[s].live /\ ~slots[s].shared /\ ~slots[s].borrowed /\ s \notin Retiring'
  BY <1>3, <1>4, PlaceFacts
<1>6. \A s \in back \ D : s \notin Retiring
  BY PlaceFacts
<1>7. /\ slots' = [s \in Slots |-> IF s \in back THEN Emptied(slots[s]) ELSE slots[s]]
      /\ stats' = [StatsDrained(n) EXCEPT !.held = @ - Bytes(back)]
  BY <1>1
<1>8. StatsDrained(n) = [stats EXCEPT !.pending = @ - Bytes(D)]
  BY DEF StatsDrained
<1> HIDE DEF D, back
<1>9. PICK sm : sm = slots'
  OBVIOUS
<1>10. \A s \in Slots :
         /\ s \in back => /\ sm[s].bytes = 0 /\ ~sm[s].live
                          /\ ~sm[s].shared /\ ~sm[s].borrowed
         /\ s \notin back => sm[s] = slots[s]
  <2>1. \A s \in back : Emptied(slots[s]).bytes = 0 /\ Emptied(slots[s]).live = slots[s].live
                        /\ Emptied(slots[s]).shared = slots[s].shared
                        /\ Emptied(slots[s]).borrowed = slots[s].borrowed
    BY <1>2, <1>4 DEF Emptied, SlotRecord
  <2> QED
    BY <1>4, <1>5, <1>7, <1>9, <2>1
<1>11. PICK Q : Q = Retiring'
  OBVIOUS
<1>12. \A s \in Slots :
         /\ HeldOf(sm)[s] = IF s \in back THEN 0 ELSE HeldOf(slots)[s]
         /\ PooledOf(sm)[s] = IF s \in back THEN 0 ELSE PooledOf(slots)[s]
         /\ PendingOf(sm, Q)[s] = IF s \in D THEN 0 ELSE PendingOf(slots, Retiring)[s]
         /\ InUseOf(sm)[s] = InUseOf(slots)[s]
         /\ LiveOf(sm)[s] = LiveOf(slots)[s]
  <2> SUFFICES ASSUME NEW s \in Slots
               PROVE  /\ HeldOf(sm)[s] = IF s \in back THEN 0 ELSE HeldOf(slots)[s]
                      /\ PooledOf(sm)[s] = IF s \in back THEN 0 ELSE PooledOf(slots)[s]
                      /\ PendingOf(sm, Q)[s] = IF s \in D THEN 0 ELSE PendingOf(slots, Retiring)[s]
                      /\ InUseOf(sm)[s] = InUseOf(slots)[s]
                      /\ LiveOf(sm)[s] = LiveOf(slots)[s]
    OBVIOUS
  <2>1. /\ HeldOf(sm)[s] = IF s \in back THEN 0 ELSE HeldOf(slots)[s]
        /\ PooledOf(sm)[s] = IF s \in back THEN 0 ELSE PooledOf(slots)[s]
    BY <1>10 DEF HeldOf, HeldBy, PooledOf, PooledBy
  <2>2. PendingOf(sm, Q)[s] = IF s \in D THEN 0 ELSE PendingOf(slots, Retiring)[s]
    BY <1>3, <1>4, <1>5, <1>6, <1>10, <1>11 DEF PendingOf, PendingBy
  <2>3. InUseOf(sm)[s] = InUseOf(slots)[s] /\ LiveOf(sm)[s] = LiveOf(slots)[s]
    BY <1>5, <1>10 DEF InUseOf, InUseBy, LiveOf, LiveBy
  <2> QED
    BY <2>1, <2>2, <2>3
<1>13. /\ SumOf(HeldOf(sm), Slots) = SumOf(HeldOf(slots), Slots) - SumOf(HeldOf(slots), back)
       /\ SumOf(PooledOf(sm), Slots) = SumOf(PooledOf(slots), Slots) - SumOf(PooledOf(slots), back)
       /\ SumOf(PendingOf(sm, Q), Slots) = SumOf(PendingOf(slots, Retiring), Slots)
                                             - SumOf(PendingOf(slots, Retiring), D)
       /\ SumOf(HeldOf(slots), back) \in Nat /\ SumOf(PooledOf(slots), back) \in Nat
       /\ SumOf(PendingOf(slots, Retiring), D) \in Nat
       /\ SumOf(InUseOf(sm), Slots) = SumOf(InUseOf(slots), Slots)
       /\ SumOf(LiveOf(sm), Slots) = SumOf(LiveOf(slots), Slots)
  <2>1. /\ \A s \in Slots : HeldOf(slots)[s] \in Nat
        /\ \A s \in Slots : PooledOf(slots)[s] \in Nat
        /\ \A s \in Slots : PendingOf(slots, Retiring)[s] \in Nat
    BY <1>2, CountsAreNat
  <2>2. /\ SumOf(HeldOf(sm), Slots) = SumOf(HeldOf(slots), Slots) - SumOf(HeldOf(slots), back)
        /\ SumOf(HeldOf(slots), back) \in Nat
    BY <1>4, <1>12, <2>1, SlotsAreFinite, SumDropped
  <2>3. /\ SumOf(PooledOf(sm), Slots) = SumOf(PooledOf(slots), Slots) - SumOf(PooledOf(slots), back)
        /\ SumOf(PooledOf(slots), back) \in Nat
    BY <1>4, <1>12, <2>1, SlotsAreFinite, SumDropped
  <2>4. /\ SumOf(PendingOf(sm, Q), Slots) = SumOf(PendingOf(slots, Retiring), Slots)
                                              - SumOf(PendingOf(slots, Retiring), D)
        /\ SumOf(PendingOf(slots, Retiring), D) \in Nat
    BY <1>4, <1>12, <2>1, SlotsAreFinite, SumDropped
  <2>5. /\ SumOf(InUseOf(sm), Slots) = SumOf(InUseOf(slots), Slots)
        /\ SumOf(LiveOf(sm), Slots) = SumOf(LiveOf(slots), Slots)
    BY <1>12, SlotsAreFinite, SumSame
  <2> QED
    BY <2>2, <2>3, <2>4, <2>5
<1>14. Bytes(back) = SumOf(HeldOf(slots), back) /\ Bytes(D) = SumOf(PendingOf(slots, Retiring), D)
  <2>1. IsFiniteSet(back) /\ IsFiniteSet(D)
    BY <1>4, SlotsAreFinite, FS_Subset
  <2>2. \A s \in back : HeldOf(slots)[s] = slots[s].bytes
    BY <1>4, <1>5 DEF HeldOf, HeldBy
  <2>3. \A s \in D : PendingOf(slots, Retiring)[s] = slots[s].bytes
    BY <1>3, <1>4 DEF PendingOf, PendingBy
  <2> QED
    BY <2>1, <2>2, <2>3, BytesAreSum
<1>15. /\ stats' \in StatsRecord /\ stats'.held = stats.held - Bytes(back)
       /\ stats'.pending = stats.pending - Bytes(D)
       /\ stats'.inUse = stats.inUse /\ stats'.live = stats.live
  <2>1. stats \in StatsRecord /\ Bytes(D) \in Int /\ Bytes(back) \in Int
    BY <1>13, <1>14 DEF BooksInv, StatsRecord
  <2>2. /\ StatsDrained(n) \in StatsRecord /\ StatsDrained(n).held = stats.held
        /\ StatsDrained(n).pending = stats.pending - Bytes(D)
        /\ StatsDrained(n).inUse = stats.inUse /\ StatsDrained(n).live = stats.live
    BY <1>8, <2>1 DEF StatsRecord
  <2>3. PICK drained \in StatsRecord : drained = StatsDrained(n)
    BY <2>2
  <2>4. stats' = [drained EXCEPT !.held = @ - Bytes(back)]
    BY <1>7, <2>3
  <2>5. /\ stats' \in StatsRecord /\ stats'.held = drained.held - Bytes(back)
        /\ stats'.pending = drained.pending
        /\ stats'.inUse = drained.inUse /\ stats'.live = drained.live
    BY <2>1, <2>3, <2>4, HeldGivenBack
  <2> QED
    BY <2>2, <2>3, <2>5
<1>16. \A s \in Slots : sm[s].native = NoBuffer => sm[s].bytes = 0
  BY <1>10 DEF BooksInv
<1>17. SumOf(PooledOf(sm), Slots) <= Budget
  <2>1. SumOf(PooledOf(slots), Slots) \in Nat /\ SumOf(PooledOf(slots), Slots) <= Budget
    BY <1>2, SumsAreNat DEF BooksInv
  <2> QED
    BY <1>13, <2>1, PoolAssumption
<1> QED
  BY <1>9, <1>11, <1>13, <1>14, <1>15, <1>16, <1>17
  DEF BooksInv, StatsRecord, Size, HeldOf, InUseOf, PendingOf, LiveOf, PooledOf

\* A slot that is taken for a new buffer has none, and counts nowhere.
LEMMA TakenCountsNowhere ==
  ASSUME IInv, TableInv, BooksInv, NEW s \in Slots, TakesSlot(s)
  PROVE  /\ slots[s] \in SlotRecord /\ slots[s].bytes = 0 /\ s \notin Retiring
         /\ ~slots[s].live /\ ~slots[s].shared /\ ~slots[s].borrowed
         /\ HeldBy(slots[s]) = 0 /\ InUseBy(slots[s]) = 0 /\ LiveBy(slots[s]) = 0
         /\ PooledBy(slots[s]) = 0 /\ PendingBy(slots[s], s, Retiring) = 0
<1>1. ~slots[s].live /\ \A i \in 1 .. Len(retiring) : retiring[i].slot # s
  BY TakenSlot
<1>2. s \notin Retiring
  BY <1>1, RetiringFacts DEF Retiring, IInv
<1>3. slots[s].native = NoBuffer
  <2>1. used \in Nat /\ s \in Nat
    BY TypeFacts DEF IInv, Slots
  <2>2. s > used \/ s \in recycled
    BY <2>1 DEF TakesSlot
  <2> QED
    BY <2>2 DEF TableInv
<1>4. slots[s].bytes = 0
  BY <1>3 DEF BooksInv
<1>5. ~slots[s].shared /\ ~slots[s].borrowed /\ slots[s] \in SlotRecord
  BY <1>1, PlaceFacts
<1> QED
  BY <1>1, <1>2, <1>4, <1>5 DEF HeldBy, InUseBy, LiveBy, PooledBy, PendingBy

LEMMA HitBooks ==
  ASSUME IInv, BooksInv, NEW s \in free, Hit(s)
  PROVE  BooksInv'
<1> DEFINE slot == Handed(slots[s])
<1>1. s \in Slots /\ slots[s] \in SlotRecord /\ call.want \in Requests /\ s \notin Retiring
      /\ ~slots[s].live /\ ~slots[s].shared /\ ~slots[s].borrowed
  BY PlaceFacts DEF Hit, IInv, TypeOK, At, PCs
<1>2. slot \in SlotRecord
  BY <1>1, SlotOperations, PoolAssumption
<1>3. /\ slot.live /\ slot.bytes = slots[s].bytes /\ slot.native = slots[s].native
      /\ ~slot.shared /\ ~slot.borrowed
  BY <1>1 DEF Handed, SlotRecord
<1>4. slots[s].bytes \in Nat /\ call.want \in Nat
  BY <1>1, PoolAssumption, PlaceFacts
<1>5. /\ slots' = [slots EXCEPT ![s] = slot] /\ Retiring' = Retiring /\ call'.pc # "native"
      /\ stats' = [stats EXCEPT !.inUse = @ + slots[s].bytes, !.asked = @ + call.want,
                                !.live = @ + 1]
  BY DEF Hit, Retiring, Idle
<1> HIDE DEF slot
<1>6. /\ stats' \in StatsRecord /\ stats'.held = stats.held
      /\ stats'.inUse = stats.inUse + slots[s].bytes
      /\ stats'.pending = stats.pending /\ stats'.live = stats.live + 1
      /\ stats.held \in Int /\ stats.inUse \in Int /\ stats.pending \in Int /\ stats.live \in Int
  <2>1. stats \in StatsRecord
    BY DEF BooksInv, StatsRecord
  <2>2. /\ stats.inUse + slots[s].bytes \in Int /\ stats.asked + call.want \in Int
        /\ stats.live + 1 \in Int /\ stats.held \in Int /\ stats.inUse \in Int
        /\ stats.pending \in Int /\ stats.live \in Int
    BY <1>4, <2>1 DEF StatsRecord
  <2>3. stats' \in StatsRecord
    BY <1>5, <2>1, <2>2 DEF StatsRecord
  <2>4. /\ stats'.held = stats.held /\ stats'.inUse = stats.inUse + slots[s].bytes
        /\ stats'.pending = stats.pending /\ stats'.live = stats.live + 1
    BY <1>5, <2>1 DEF StatsRecord
  <2> QED
    BY <2>2, <2>3, <2>4
<1>7. /\ HeldBy(slots[s]) = slots[s].bytes /\ HeldBy(slot) = slots[s].bytes
      /\ InUseBy(slots[s]) = 0 /\ InUseBy(slot) = slots[s].bytes
      /\ PendingBy(slots[s], s, Retiring) = 0 /\ PendingBy(slot, s, Retiring') = 0
      /\ LiveBy(slots[s]) = 0 /\ LiveBy(slot) = 1
      /\ PooledBy(slots[s]) = slots[s].bytes /\ PooledBy(slot) = slots[s].bytes
  BY <1>1, <1>3, <1>5 DEF HeldBy, InUseBy, PendingBy, LiveBy, PooledBy
<1>8. slot.native = NoBuffer => slot.bytes = 0
  BY <1>1, <1>3 DEF BooksInv
<1>9. SumOf(PooledOf(slots), Slots) \in Nat /\ SumOf(PooledOf(slots), Slots) <= Budget
  BY PlaceFacts, SumsAreNat DEF BooksInv
<1> QED
  <2>1. /\ stats'.held = stats.held - HeldBy(slots[s]) + HeldBy(slot)
        /\ stats'.inUse = stats.inUse - InUseBy(slots[s]) + InUseBy(slot)
        /\ stats'.pending = stats.pending - PendingBy(slots[s], s, Retiring)
                              + PendingBy(slot, s, Retiring')
        /\ stats'.live = stats.live - LiveBy(slots[s]) + LiveBy(slot)
        /\ SumOf(PooledOf(slots), Slots) - PooledBy(slots[s]) + PooledBy(slot) <= Budget
    BY <1>4, <1>6, <1>7, <1>9
  <2>2. stats' \in [held : Int, inUse : Int, asked : Int, pending : Int, live : Int]
    BY <1>6 DEF StatsRecord
  <2> QED
    BY <1>1, <1>2, <1>5, <1>8, <2>1, <2>2, BooksChanged

\* A slot is given a new buffer: what that counts for is added.
LEMMA GrantBooks ==
  ASSUME IInv, TableInv, BooksInv, NEW s \in Slots, TakesSlot(s), NEW slot \in SlotRecord,
         slots' = [slots EXCEPT ![s] = slot], UNCHANGED retiring, slot.native # NoBuffer,
         slot.live, stats' \in StatsRecord, stats'.held = stats.held + HeldBy(slot),
         stats'.inUse = stats.inUse + HeldBy(slot), stats'.live = stats.live + 1,
         stats'.pending = stats.pending, call'.pc # "native",
         SumOf(PooledOf(slots), Slots) + PooledBy(slot) <= Budget
  PROVE  BooksInv'
<1>1. /\ HeldBy(slots[s]) = 0 /\ InUseBy(slots[s]) = 0 /\ LiveBy(slots[s]) = 0
      /\ PooledBy(slots[s]) = 0 /\ PendingBy(slots[s], s, Retiring) = 0
      /\ s \notin Retiring
  BY TakenCountsNowhere
<1>2. Retiring' = Retiring
  BY DEF Retiring
<1>3. PendingBy(slot, s, Retiring') = 0 /\ LiveBy(slot) = 1 /\ InUseBy(slot) = HeldBy(slot)
  BY <1>1, <1>2 DEF PendingBy, LiveBy, InUseBy, HeldBy
<1>4. /\ stats.held \in Int /\ stats.inUse \in Int /\ stats.pending \in Int /\ stats.live \in Int
      /\ HeldBy(slot) \in Nat /\ PooledBy(slot) \in Nat
  BY DEF BooksInv, SlotRecord, HeldBy, PooledBy
<1>5. SumOf(PooledOf(slots), Slots) \in Nat
  BY PlaceFacts, SumsAreNat
<1> QED
  <2>1. /\ stats'.held = stats.held - HeldBy(slots[s]) + HeldBy(slot)
        /\ stats'.inUse = stats.inUse - InUseBy(slots[s]) + InUseBy(slot)
        /\ stats'.pending = stats.pending - PendingBy(slots[s], s, Retiring)
                              + PendingBy(slot, s, Retiring')
        /\ stats'.live = stats.live - LiveBy(slots[s]) + LiveBy(slot)
        /\ SumOf(PooledOf(slots), Slots) - PooledBy(slots[s]) + PooledBy(slot) <= Budget
    BY <1>1, <1>3, <1>4, <1>5
  <2>2. stats' \in [held : Int, inUse : Int, asked : Int, pending : Int, live : Int]
    BY DEF StatsRecord
  <2> QED
    BY <1>2, <2>1, <2>2, BooksChanged

LEMMA NativeBooks ==
  ASSUME IInv, TableInv, BooksInv, NEW s \in Slots, NEW n \in Natives, NativeAlloc(s, n)
  PROVE  BooksInv'
<1> DEFINE slot == Handed([slots[s] EXCEPT !.native = n, !.bytes = Size])
<1>1. /\ TakesSlot(s) /\ slots' = [slots EXCEPT ![s] = slot] /\ UNCHANGED retiring
      /\ call'.pc # "native" /\ call.pc = "native"
      /\ stats' = [stats EXCEPT !.held = @ + Size, !.inUse = @ + Size,
                                !.asked = @ + call.want, !.live = @ + 1]
  BY DEF NativeAlloc, Idle, At
<1>2. slots[s] \in SlotRecord /\ ~slots[s].shared /\ ~slots[s].borrowed
  BY <1>1, TakenCountsNowhere
<1>3. call.want \in Requests /\ call.want \in Nat
  BY <1>1, PoolAssumption DEF IInv, TypeOK, PCs
<1>4. Size \in Nat
  BY <1>3, PoolAssumption DEF Size
<1>5. slot \in SlotRecord
  BY <1>2, <1>3, <1>4, SlotOperations, PoolAssumption
<1>6. slot.live /\ slot.native = n /\ slot.bytes = Size /\ ~slot.shared /\ ~slot.borrowed
  BY <1>2 DEF Handed, SlotRecord
<1> HIDE DEF slot
<1>7. HeldBy(slot) = Size /\ PooledBy(slot) = Size
  BY <1>6 DEF HeldBy, PooledBy
<1>8. /\ stats' \in StatsRecord /\ stats'.held = stats.held + Size
      /\ stats'.inUse = stats.inUse + Size /\ stats'.live = stats.live + 1
      /\ stats'.pending = stats.pending
  <2>1. stats \in StatsRecord
    BY DEF BooksInv, StatsRecord
  <2> HIDE DEF Size
  <2>2. /\ stats.held + Size \in Int /\ stats.inUse + Size \in Int
        /\ stats.asked + call.want \in Int /\ stats.live + 1 \in Int
    BY <1>3, <1>4, <2>1 DEF StatsRecord
  <2>3. stats' \in StatsRecord
    BY <1>1, <2>1, <2>2 DEF StatsRecord
  <2>4. /\ stats'.held = stats.held + Size /\ stats'.inUse = stats.inUse + Size
        /\ stats'.pending = stats.pending /\ stats'.live = stats.live + 1
    BY <1>1, <2>1 DEF StatsRecord
  <2> QED
    BY <2>3, <2>4
<1>9. SumOf(PooledOf(slots), Slots) + Size <= Budget
  <2>1. /\ SumOf(PooledOf(slots), Slots) \in Nat /\ SumOf(HeldOf(slots), Slots) \in Nat
        /\ SumOf(PooledOf(slots), Slots) <= SumOf(HeldOf(slots), Slots)
    BY PlaceFacts, SumsAreNat
  <2>2. SumOf(HeldOf(slots), Slots) + Size <= Budget
    BY <1>1 DEF BooksInv
  <2> QED
    BY <1>4, <2>1, <2>2, PoolAssumption
<1>10. slot.native # NoBuffer
  BY <1>6, PoolAssumption
<1> QED
  BY <1>1, <1>5, <1>6, <1>7, <1>8, <1>9, <1>10, GrantBooks

LEMMA OwnMemoryBooks ==
  ASSUME IInv, TableInv, BooksInv, NEW s \in Slots, NEW n \in Natives, NEW r \in Requests,
         allocShared(s, n, r) \/ adopt(s, n, r)
  PROVE  BooksInv'
<1>1. /\ TakesSlot(s) /\ UNCHANGED retiring /\ call'.pc # "native" /\ r \in Nat
  BY PoolAssumption DEF allocShared, adopt, At
<1>2. /\ slots[s] \in SlotRecord /\ ~slots[s].shared /\ ~slots[s].borrowed
      /\ stats \in StatsRecord
  BY <1>1, TakenCountsNowhere DEF BooksInv, StatsRecord
<1>3. n # NoBuffer
  BY PoolAssumption
<1>4. SumOf(PooledOf(slots), Slots) \in Nat /\ SumOf(PooledOf(slots), Slots) <= Budget
  BY PlaceFacts, SumsAreNat DEF BooksInv
<1>5. CASE allocShared(s, n, r)
  <2> DEFINE slot == [Filled(slots[s], n, r) EXCEPT !.shared = TRUE]
  <2>1. slot \in SlotRecord
    BY <1>1, <1>2, SlotOperations, PoolAssumption DEF IInv
  <2>2. slot.live /\ slot.native = n /\ slot.bytes = r /\ slot.shared /\ ~slot.borrowed
    BY <1>2 DEF Filled, SlotRecord
  <2>3. /\ slots' = [slots EXCEPT ![s] = slot]
        /\ stats' = [stats EXCEPT !.held = @ + r, !.inUse = @ + r, !.live = @ + 1]
    BY <1>5 DEF allocShared
  <2> HIDE DEF slot
  <2>4. HeldBy(slot) = r /\ PooledBy(slot) = 0
    BY <2>2 DEF HeldBy, PooledBy
  <2>5. /\ stats' \in StatsRecord /\ stats'.held = stats.held + r
        /\ stats'.inUse = stats.inUse + r /\ stats'.live = stats.live + 1
        /\ stats'.pending = stats.pending
    <3>1. stats.held + r \in Int /\ stats.inUse + r \in Int /\ stats.live + 1 \in Int
      BY <1>1, <1>2 DEF StatsRecord
    <3>2. stats' \in StatsRecord
      BY <1>2, <2>3, <3>1 DEF StatsRecord
    <3>3. /\ stats'.held = stats.held + r /\ stats'.inUse = stats.inUse + r
          /\ stats'.pending = stats.pending /\ stats'.live = stats.live + 1
      BY <1>2, <2>3 DEF StatsRecord
    <3> QED
      BY <3>2, <3>3
  <2>6. SumOf(PooledOf(slots), Slots) + PooledBy(slot) <= Budget
    BY <1>4, <2>4
  <2> QED
    BY <1>1, <1>3, <2>1, <2>2, <2>3, <2>4, <2>5, <2>6, GrantBooks
<1>6. CASE adopt(s, n, r)
  <2> DEFINE slot == [Filled(slots[s], n, r) EXCEPT !.borrowed = TRUE]
  <2>1. slot \in SlotRecord
    BY <1>1, <1>2, SlotOperations, PoolAssumption DEF IInv
  <2>2. slot.live /\ slot.native = n /\ slot.bytes = r /\ slot.borrowed
    BY <1>2 DEF Filled, SlotRecord
  <2>3. slots' = [slots EXCEPT ![s] = slot] /\ stats' = [stats EXCEPT !.live = @ + 1]
    BY <1>6 DEF adopt
  <2> HIDE DEF slot
  <2>4. HeldBy(slot) = 0 /\ PooledBy(slot) = 0
    BY <2>2 DEF HeldBy, PooledBy
  <2>5. /\ stats' \in StatsRecord /\ stats'.held = stats.held + 0
        /\ stats'.inUse = stats.inUse + 0 /\ stats'.live = stats.live + 1
        /\ stats'.pending = stats.pending
    BY <1>2, <2>3 DEF StatsRecord
  <2>6. SumOf(PooledOf(slots), Slots) + PooledBy(slot) <= Budget
    BY <1>4, <2>4
  <2> QED
    BY <1>1, <1>3, <2>1, <2>2, <2>3, <2>4, <2>5, <2>6, GrantBooks
<1> QED
  BY <1>5, <1>6

\* A live slot is given up: what it counted for is taken away, or goes to what is pending.
LEMMA ReleaseBooks ==
  ASSUME IInv, BooksInv, NEW h \in owned \cup dead, release(h)
  PROVE  BooksInv'
<1> DEFINE s == h[1]
<1>1. resolve(h) /\ call'.pc # "native" /\ call' = call
  BY DEF release, At
<1>2. s \in Live /\ s \in Slots /\ slots[s] \in SlotRecord /\ s \notin Retiring
  BY <1>1, ResolvedIsOwned, PlaceFacts
<1>3. slots[s].live /\ slots[s].bytes \in Nat /\ slots[s].asked \in Nat
  BY <1>2, PlaceFacts
<1>4. /\ stats \in StatsRecord /\ stats.held \in Int /\ stats.inUse \in Int
      /\ stats.pending \in Int /\ stats.live \in Int /\ stats.live - 1 \in Int
      /\ stats.held - slots[s].bytes \in Int /\ stats.inUse - slots[s].bytes \in Int
      /\ stats.asked - slots[s].asked \in Int /\ stats.pending + slots[s].bytes \in Int
  BY <1>3 DEF BooksInv, StatsRecord
<1>5. SumOf(PooledOf(slots), Slots) \in Nat /\ SumOf(PooledOf(slots), Slots) <= Budget
  BY PlaceFacts, SumsAreNat DEF BooksInv
<1>6. PendingBy(slots[s], s, Retiring) = 0 /\ LiveBy(slots[s]) = 1
  BY <1>2, <1>3 DEF PendingBy, LiveBy
<1> HIDE DEF s
<1>7. CASE ReleaseBorrowed(s)
  <2> DEFINE slot == [Emptied(slots[s]) EXCEPT !.live = FALSE, !.borrowed = FALSE, !.gen = @ + 1]
  <2>1. slot \in SlotRecord /\ slot.bytes = 0 /\ ~slot.live /\ ~slot.borrowed
    <3>1. slot \in SlotRecord
      BY <1>2, SlotOperations
    <3>2. slot.bytes = 0 /\ ~slot.live /\ ~slot.borrowed
      BY <1>2, SlotFields, Zenon
    <3> QED
      BY <3>1, <3>2, Zenon
  <2>2. /\ slots' = [slots EXCEPT ![s] = slot] /\ Retiring' = Retiring /\ slots[s].borrowed
        /\ stats' = [stats EXCEPT !.live = @ - 1]
    BY <1>7 DEF ReleaseBorrowed, Retiring
  <2> HIDE DEF slot
  <2>3. /\ HeldBy(slots[s]) = 0 /\ HeldBy(slot) = 0 /\ InUseBy(slots[s]) = 0 /\ InUseBy(slot) = 0
        /\ PendingBy(slot, s, Retiring') = 0 /\ LiveBy(slot) = 0
        /\ PooledBy(slots[s]) = 0 /\ PooledBy(slot) = 0
    BY <1>2, <2>1, <2>2 DEF HeldBy, InUseBy, PendingBy, LiveBy, PooledBy
  <2>4. /\ stats'.held = stats.held /\ stats'.inUse = stats.inUse
        /\ stats'.pending = stats.pending /\ stats'.live = stats.live - 1
    BY <1>4, <2>2 DEF StatsRecord
  <2>5. stats' \in [held : Int, inUse : Int, asked : Int, pending : Int, live : Int]
    BY <1>4, <2>2 DEF StatsRecord
  <2>6. /\ stats'.held = stats.held - HeldBy(slots[s]) + HeldBy(slot)
        /\ stats'.inUse = stats.inUse - InUseBy(slots[s]) + InUseBy(slot)
        /\ stats'.pending = stats.pending - PendingBy(slots[s], s, Retiring)
                              + PendingBy(slot, s, Retiring')
        /\ stats'.live = stats.live - LiveBy(slots[s]) + LiveBy(slot)
        /\ SumOf(PooledOf(slots), Slots) - PooledBy(slots[s]) + PooledBy(slot) <= Budget
    BY <1>4, <1>5, <1>6, <2>3, <2>4
  <2> QED
    BY <1>1, <1>2, <2>1, <2>2, <2>5, <2>6, BooksChanged
<1>8. CASE ReleaseShared(s)
  <2> DEFINE slot == Unshared(slots[s])
  <2>1. slot \in SlotRecord /\ slot.bytes = 0 /\ ~slot.live
    <3>1. Emptied(slots[s]).bytes = 0 /\ Emptied(slots[s]) \in SlotRecord
      BY <1>2, SlotOperations DEF Emptied, SlotRecord
    <3>2. slot.bytes = 0 /\ ~slot.live
      BY <3>1 DEF Unshared, SlotRecord
    <3> QED
      BY <1>2, <3>2, SlotOperations
  <2>2. /\ slots' = [slots EXCEPT ![s] = slot] /\ Retiring' = Retiring
        /\ ~slots[s].borrowed /\ slots[s].shared
        /\ stats' = [stats EXCEPT !.live = @ - 1, !.inUse = @ - slots[s].bytes,
                                  !.asked = @ - slots[s].asked,
                                  !.held = stats.held - slots[s].bytes]
    BY <1>8 DEF ReleaseShared, Retiring, HeldWithout
  <2> HIDE DEF slot
  <2>3. /\ HeldBy(slots[s]) = slots[s].bytes /\ HeldBy(slot) = 0
        /\ InUseBy(slots[s]) = slots[s].bytes /\ InUseBy(slot) = 0
        /\ PendingBy(slot, s, Retiring') = 0 /\ LiveBy(slot) = 0
        /\ PooledBy(slots[s]) = 0 /\ PooledBy(slot) = 0
    BY <1>2, <1>3, <2>1, <2>2 DEF HeldBy, InUseBy, PendingBy, LiveBy, PooledBy
  <2>4. /\ stats'.held = stats.held - slots[s].bytes
        /\ stats'.inUse = stats.inUse - slots[s].bytes
        /\ stats'.pending = stats.pending /\ stats'.live = stats.live - 1
    BY <1>4, <2>2 DEF StatsRecord
  <2>5. stats' \in [held : Int, inUse : Int, asked : Int, pending : Int, live : Int]
    BY <1>4, <2>2 DEF StatsRecord
  <2>6. /\ stats'.held = stats.held - HeldBy(slots[s]) + HeldBy(slot)
        /\ stats'.inUse = stats.inUse - InUseBy(slots[s]) + InUseBy(slot)
        /\ stats'.pending = stats.pending - PendingBy(slots[s], s, Retiring)
                              + PendingBy(slot, s, Retiring')
        /\ stats'.live = stats.live - LiveBy(slots[s]) + LiveBy(slot)
        /\ SumOf(PooledOf(slots), Slots) - PooledBy(slots[s]) + PooledBy(slot) <= Budget
    BY <1>3, <1>4, <1>5, <1>6, <2>3, <2>4
  <2> QED
    BY <1>1, <1>2, <2>1, <2>2, <2>5, <2>6, BooksChanged
<1>9. CASE ReleasePooled(s)
  <2> DEFINE slot == [slots[s] EXCEPT !.live = FALSE]
  <2>1. /\ slot \in SlotRecord /\ slot.bytes = slots[s].bytes /\ slot.native = slots[s].native
        /\ slot.shared = slots[s].shared /\ slot.borrowed = slots[s].borrowed /\ ~slot.live
    <3>1. slot \in SlotRecord
      BY <1>2, SlotOperations
    <3>2. /\ slot.bytes = slots[s].bytes /\ slot.native = slots[s].native /\ ~slot.live
          /\ slot.shared = slots[s].shared /\ slot.borrowed = slots[s].borrowed
      BY <1>2, SlotFields, Zenon
    <3> QED
      BY <3>1, <3>2, Zenon
  <2>2. /\ slots' = [slots EXCEPT ![s] = slot] /\ ~slots[s].borrowed /\ ~slots[s].shared
        /\ retiring' = Append(retiring, [slot |-> s, at |-> submitted])
        /\ stats' = [stats EXCEPT !.live = @ - 1, !.inUse = @ - slots[s].bytes,
                                  !.asked = @ - slots[s].asked, !.pending = @ + slots[s].bytes]
    BY <1>9 DEF ReleasePooled, Queued, Pooled
  <2> HIDE DEF slot
  <2>3. Retiring' = Retiring \cup {s}
    <3>1. retiring \in Seq(RetiringRecord) /\ [slot |-> s, at |-> submitted] \in RetiringRecord
      BY <1>2 DEF IInv, TypeOK, RetiringRecord
    <3>2. /\ DOMAIN retiring' = 1 .. Len(retiring) + 1 /\ DOMAIN retiring = 1 .. Len(retiring)
          /\ Len(retiring) \in Nat /\ retiring'[Len(retiring) + 1].slot = s
          /\ \A i \in 1 .. Len(retiring) : retiring'[i] = retiring[i]
      BY <2>2, <3>1
    <3> QED
      BY <3>2 DEF Retiring
  <2>4. /\ HeldBy(slots[s]) = slots[s].bytes /\ HeldBy(slot) = slots[s].bytes
        /\ InUseBy(slots[s]) = slots[s].bytes /\ InUseBy(slot) = 0
        /\ PendingBy(slot, s, Retiring') = slots[s].bytes /\ LiveBy(slot) = 0
        /\ PooledBy(slots[s]) = slots[s].bytes /\ PooledBy(slot) = slots[s].bytes
    BY <1>3, <2>1, <2>2, <2>3 DEF HeldBy, InUseBy, PendingBy, LiveBy, PooledBy
  <2>5. /\ stats'.held = stats.held /\ stats'.inUse = stats.inUse - slots[s].bytes
        /\ stats'.pending = stats.pending + slots[s].bytes /\ stats'.live = stats.live - 1
    BY <1>4, <2>2 DEF StatsRecord
  <2>6. stats' \in [held : Int, inUse : Int, asked : Int, pending : Int, live : Int]
    BY <1>4, <2>2 DEF StatsRecord
  <2>7. /\ stats'.held = stats.held - HeldBy(slots[s]) + HeldBy(slot)
        /\ stats'.inUse = stats.inUse - InUseBy(slots[s]) + InUseBy(slot)
        /\ stats'.pending = stats.pending - PendingBy(slots[s], s, Retiring)
                              + PendingBy(slot, s, Retiring')
        /\ stats'.live = stats.live - LiveBy(slots[s]) + LiveBy(slot)
        /\ SumOf(PooledOf(slots), Slots) - PooledBy(slots[s]) + PooledBy(slot) <= Budget
    BY <1>3, <1>4, <1>5, <1>6, <2>4, <2>5
  <2>8. slot.native = NoBuffer => slot.bytes = 0
    BY <1>2, <2>1 DEF BooksInv
  <2> QED
    BY <1>1, <1>2, <2>1, <2>2, <2>3, <2>6, <2>7, <2>8, BooksChanged
<1> QED
  BY <1>7, <1>8, <1>9 DEF release, s

LEMMA InitBooks == Init => BooksInv
<1> SUFFICES ASSUME Init PROVE BooksInv
  OBVIOUS
<1>1. /\ slots = [s \in Slots |-> FreshSlot] /\ Retiring = {} /\ call.pc # "native"
      /\ stats = [held |-> 0, inUse |-> 0, asked |-> 0, pending |-> 0, live |-> 0]
  BY DEF Init, Retiring, Idle
<1>2. \A s \in Slots : slots[s].bytes = 0 /\ ~slots[s].live
  BY <1>1 DEF FreshSlot
<1>3. /\ \A s \in Slots : HeldOf(slots)[s] = 0
      /\ \A s \in Slots : InUseOf(slots)[s] = 0
      /\ \A s \in Slots : PendingOf(slots, Retiring)[s] = 0
      /\ \A s \in Slots : LiveOf(slots)[s] = 0
      /\ \A s \in Slots : PooledOf(slots)[s] = 0
  BY <1>2 DEF HeldOf, InUseOf, PendingOf, LiveOf, PooledOf, HeldBy, InUseBy, PendingBy,
     LiveBy, PooledBy
<1>4. ASSUME NEW f, \A s \in Slots : f[s] = 0 PROVE SumOf(f, Slots) = 0
  <2>1. SumOf(f, Slots) = SumOf(f, {})
    BY <1>4, SlotsAreFinite, SumOnly
  <2> QED
    BY <2>1, SumEmpty
<1>5. /\ SumOf(HeldOf(slots), Slots) = 0 /\ SumOf(InUseOf(slots), Slots) = 0
      /\ SumOf(PendingOf(slots, Retiring), Slots) = 0 /\ SumOf(LiveOf(slots), Slots) = 0
      /\ SumOf(PooledOf(slots), Slots) = 0
  BY <1>3, <1>4
<1> QED
  BY <1>1, <1>2, <1>5, PoolAssumption DEF BooksInv

LEMMA NextBooks == IInv /\ TableInv /\ BooksInv /\ [Next]_vars => BooksInv'
<1> SUFFICES ASSUME IInv, TableInv, BooksInv, [Next]_vars PROVE BooksInv'
  OBVIOUS
<1>1. ASSUME NEW pc, Goes(pc) PROVE call'.pc = pc /\ call'.want = call.want
  BY <1>1 DEF Goes, IInv, TypeOK
<1>2. CASE UNCHANGED <<slots, retiring, stats>> /\ (call'.pc = "native" => call' = call)
  BY <1>2 DEF BooksInv, Retiring, Size, HeldOf, InUseOf, PendingOf, LiveOf, PooledOf
<1>3. ASSUME NEW done, reclaimLocked(done), call'.pc # "native" PROVE BooksInv'
  BY <1>3, BooksReclaimed
<1>4. CASE Miss
  <2>1. UNCHANGED <<slots, retiring, stats>> /\ call'.want = call.want
    BY <1>1, <1>4 DEF Miss, pool
  <2>2. call'.pc = "native" => stats.held + Size <= Budget
    BY <1>1, <1>4 DEF Miss, Fits
  <2> QED
    BY <2>1, <2>2 DEF BooksInv, Retiring, Size, HeldOf, InUseOf, PendingOf, LiveOf, PooledOf
<1>5. CASE RoomReclaim \/ RoomMark
  <2>1. PICK done : reclaimLocked(done)
    BY <1>5 DEF RoomReclaim, RoomMark
  <2>2. call'.want = call.want
    BY <1>1, <1>5 DEF RoomReclaim, RoomMark
  <2>3. call'.pc = "native" => stats'.held + Size <= Budget
    BY <1>1, <1>5 DEF RoomReclaim, RoomMark, Fits
  <2> QED
    BY <2>1, <2>2, <2>3, BooksReclaimed DEF Size
<1>6. CASE RoomTrim \/ Relieved \/ trim
  <2>1. trimLocked
    BY <1>6 DEF RoomTrim, Relieved, trim
  <2>2. call'.pc = "native" => stats'.held + Size <= Budget /\ call'.want = call.want
    <3>1. CASE RoomTrim
      BY <1>1, <3>1 DEF RoomTrim, Fits
    <3>2. CASE Relieved
      BY <1>1, <3>2 DEF Relieved, NoRoom, Idle, Fits
    <3>3. CASE trim
      BY <3>3 DEF trim, At
    <3> QED
      BY <1>6, <3>1, <3>2, <3>3
  <2> QED
    BY <2>1, <2>2, BooksTrimmed DEF Size
<1>7. CASE \/ \E r \in Requests : alloc(r)
           \/ SyncMarks \/ \E at \in 1 .. submitted : waitFor(at)
  BY <1>3, <1>7 DEF alloc, SyncMarks, waitFor, Idle, At
<1>8. ASSUME NEW h \in owned \cup dead, release(h) PROVE BooksInv'
  BY <1>8, ReleaseBooks
<1>9. CASE \E s \in free : Hit(s)
  BY <1>9, HitBooks
<1>10. CASE \E s \in Slots, n \in Natives : NativeAlloc(s, n)
  BY <1>10, NativeBooks
<1>11. CASE \E s \in Slots, n \in Natives, r \in Requests : allocShared(s, n, r) \/ adopt(s, n, r)
  BY <1>11, OwnMemoryBooks
<1>12. CASE \/ RoomSync \/ (\E gave \in BOOLEAN : PressureAnswers(gave))
            \/ NativeRefuses \/ SyncWaits \/ sync \/ WaitSyncs
  <2>1. UNCHANGED <<slots, retiring, stats>>
    BY <1>12 DEF RoomSync, PressureAnswers, NativeRefuses, SyncWaits, sync, WaitSyncs, pool
  <2>2. call'.pc # "native"
    BY <1>1, <1>12 DEF RoomSync, PressureAnswers, NativeRefuses, SyncWaits, sync, WaitSyncs, Idle
  <2> QED
    BY <1>2, <2>1, <2>2
<1>13. CASE \/ (\E H \in SUBSET owned : dispatch(H)) \/ dispatchRefused \/ Spin \/ Finish
            \/ (\E k \in 1 .. finished : Report(k)) \/ UNCHANGED vars
  BY <1>13, <1>2 DEF dispatch, dispatchRefused, Spin, Finish, Report, pool, vars
<1> QED
  BY <1>4, <1>5, <1>6, <1>7, <1>8, <1>9, <1>10, <1>11, <1>12, <1>13 DEF Next, Body

LEMMA BooksAlways == Spec => [](IInv /\ TableInv /\ BooksInv)
<1>1. Init => BooksInv
  BY InitBooks
<1>2. IInv /\ TableInv /\ BooksInv /\ [Next]_vars => BooksInv'
  BY NextBooks
<1> QED
  BY <1>1, <1>2, TableAlways, PTL DEF Spec

(***************************************************************************)
(* Every counter a HUD reads is the sum it claims to be: for any number of *)
(* slots and any sizes, through every reclaim, trim and release.           *)
(***************************************************************************)
THEOREM CountersAreExact == Spec => []StatsExact
<1>1. IInv /\ BooksInv => StatsExact
  <2> SUFFICES ASSUME IInv, BooksInv PROVE StatsExact
    OBVIOUS
  <2>1. /\ Bytes({s \in Slots : ~slots[s].borrowed}) = SumOf(HeldOf(slots), Slots)
        /\ Bytes({s \in Live : ~slots[s].borrowed}) = SumOf(InUseOf(slots), Slots)
        /\ Bytes(Retiring) = SumOf(PendingOf(slots, Retiring), Slots)
        /\ Cardinality(Live) = SumOf(LiveOf(slots), Slots)
    BY CountersAreSums DEF IInv
  <2> QED
    BY <2>1 DEF BooksInv, StatsExact
<1> QED
  BY <1>1, BooksAlways, PTL

(***************************************************************************)
(* What the pool takes from the driver for its size classes stays within   *)
(* the budget, on every way through the makeRoom ladder.                   *)
(***************************************************************************)
THEOREM BudgetIsKept == Spec => []PooledWithinBudget
<1>1. IInv /\ BooksInv => PooledWithinBudget
  BY CountersAreSums DEF IInv, BooksInv, PooledWithinBudget
<1> QED
  BY <1>1, BooksAlways, PTL
(***************************************************************************)
(* stats.asked.  Where memory is not shared, no slot is, and what a slot   *)
(* asked for is part of what it holds; where it is, a slot that is shared  *)
(* keeps what its last caller asked for, and release takes that away too.  *)
(***************************************************************************)
Counted(slot) == slot.live /\ ~slot.borrowed
AskedBy(slot) == IF Counted(slot) THEN slot.asked ELSE 0
AskedOf(sl) == [s \in Slots |-> AskedBy(sl[s])]

ClassSizes == {ClassBytes[c] : c \in Classes}

AskedInv ==
  /\ \A s \in Slots : ~slots[s].shared
  /\ \A s \in Slots :
       s \in free \cup Retiring \/ Counted(slots[s]) => slots[s].bytes \in ClassSizes
  /\ \A s \in Slots : Counted(slots[s]) => slots[s].asked <= slots[s].bytes
  /\ stats.asked = SumOf(AskedOf(slots), Slots)

LEMMA SumBelow ==
  ASSUME NEW S, IsFiniteSet(S), NEW f, NEW g,
         \A s \in S : f[s] \in Nat /\ g[s] \in Nat /\ f[s] <= g[s]
  PROVE  SumOf(f, S) <= SumOf(g, S)
<1> DEFINE bad == {T \in SUBSET S : ~ (SumOf(f, T) <= SumOf(g, T))}
<1>1. ASSUME bad # {} PROVE FALSE
  <2>1. PICK T \in bad : \A U \in bad : U \subseteq T => U = T
    <3>1. bad \in SUBSET SUBSET S
      OBVIOUS
    <3> HIDE DEF bad
    <3> QED
      BY <1>1, <3>1, SmallestPart
  <2>2. T \in SUBSET S /\ ~ (SumOf(f, T) <= SumOf(g, T))
    OBVIOUS
  <2>3. T # {}
    <3>1. SumOf(f, {}) = 0 /\ SumOf(g, {}) = 0
      BY SumEmpty
    <3> QED
      BY <2>2, <3>1
  <2>4. /\ Any(T) \in T
        /\ T \ {Any(T)} \in SUBSET S /\ T \ {Any(T)} # T
        /\ SumOf(f, T) = f[Any(T)] + SumOf(f, T \ {Any(T)})
        /\ SumOf(g, T) = g[Any(T)] + SumOf(g, T \ {Any(T)})
    BY <2>2, <2>3, PartStep
  <2>5. SumOf(f, T \ {Any(T)}) <= SumOf(g, T \ {Any(T)})
    BY <2>1, <2>4
  <2>6. SumOf(f, T \ {Any(T)}) \in Nat /\ SumOf(g, T \ {Any(T)}) \in Nat
    <3>1. IsFiniteSet(T \ {Any(T)}) /\ \A s \in T \ {Any(T)} : f[s] \in Nat /\ g[s] \in Nat
      BY <2>4, FS_Subset
    <3> QED
      BY <3>1, SumType
  <2>7. f[Any(T)] \in Nat /\ g[Any(T)] \in Nat /\ f[Any(T)] <= g[Any(T)]
    BY <2>2, <2>4
  <2> QED
    BY <2>2, <2>4, <2>5, <2>6, <2>7
<1> QED
  BY <1>1

\* One slot changes, and what is asked for by what that changes in it.
LEMMA AskedChanged ==
  ASSUME IInv, AskedInv, NEW s \in Slots, NEW slot \in SlotRecord,
         slots' = [slots EXCEPT ![s] = slot], ~slot.shared,
         \A r \in Slots \ {s} : r \in free' \cup Retiring' => r \in free \cup Retiring,
         s \in free' \cup Retiring' \/ Counted(slot) => slot.bytes \in ClassSizes,
         Counted(slot) => slot.asked <= slot.bytes,
         stats'.asked = stats.asked - AskedBy(slots[s]) + AskedBy(slot)
  PROVE  AskedInv'
<1>1. slots \in [Slots -> SlotRecord]
  BY DEF IInv, TypeOK
<1>2. slots'[s] = slot /\ \A r \in Slots \ {s} : slots'[r] = slots[r]
  BY <1>1
<1>3. PICK f : f = AskedOf(slots)
  OBVIOUS
<1>4. PICK g : g = AskedOf(slots')
  OBVIOUS
<1>5. /\ \A r \in Slots : f[r] \in Nat /\ g[r] \in Nat
      /\ \A r \in Slots \ {s} : f[r] = g[r]
      /\ f[s] = AskedBy(slots[s]) /\ g[s] = AskedBy(slot)
  <2>1. \A r \in Slots : slots[r].asked \in Nat /\ slots'[r].asked \in Nat
    BY <1>1, <1>2 DEF SlotRecord
  <2>2. \A r \in Slots : f[r] = AskedBy(slots[r]) /\ g[r] = AskedBy(slots'[r])
    BY <1>3, <1>4 DEF AskedOf
  <2>3. \A r \in Slots : f[r] \in Nat /\ g[r] \in Nat
    BY <2>1, <2>2 DEF AskedBy
  <2> QED
    BY <1>2, <2>2, <2>3
<1>6. SumOf(g, Slots) = SumOf(f, Slots) - f[s] + g[s]
  BY <1>5, SlotsAreFinite, SumChanged
<1>7. stats'.asked = SumOf(AskedOf(slots'), Slots)
  BY <1>3, <1>4, <1>5, <1>6 DEF AskedInv
<1>8. ASSUME NEW r \in Slots
      PROVE  /\ ~slots'[r].shared
             /\ r \in free' \cup Retiring' \/ Counted(slots'[r]) => slots'[r].bytes \in ClassSizes
             /\ Counted(slots'[r]) => slots'[r].asked <= slots'[r].bytes
  <2>1. CASE r = s
    BY <1>2, <2>1
  <2>2. CASE r # s
    BY <1>2, <2>2 DEF AskedInv
  <2> QED
    BY <2>1, <2>2
<1> QED
  BY <1>7, <1>8 DEF AskedInv, AskedOf

\* A slot that is on neither list any more is emptied, the others stay as they are.
LEMMA AskedKept ==
  ASSUME IInv, AskedInv, stats'.asked = stats.asked,
         \A r \in Slots : \/ slots'[r] = slots[r]
                          \/ ~slots[r].live /\ ~slots'[r].live /\ ~slots'[r].shared
                             /\ r \notin free' \cup Retiring',
         \A r \in Slots : r \in free' \cup Retiring' => r \in free \cup Retiring
  PROVE  AskedInv'
<1>1. \A r \in Slots : AskedBy(slots'[r]) = AskedBy(slots[r])
  BY DEF AskedBy, Counted
<1>2. AskedOf(slots') = AskedOf(slots)
  BY <1>1 DEF AskedOf
<1>3. ASSUME NEW r \in Slots
      PROVE  /\ ~slots'[r].shared
             /\ r \in free' \cup Retiring' \/ Counted(slots'[r]) => slots'[r].bytes \in ClassSizes
             /\ Counted(slots'[r]) => slots'[r].asked <= slots'[r].bytes
  <2>1. CASE slots'[r] = slots[r]
    BY <2>1 DEF AskedInv
  <2>2. CASE ~slots'[r].live /\ ~slots'[r].shared /\ r \notin free' \cup Retiring'
    BY <2>2 DEF Counted
  <2> QED
    BY <2>1, <2>2
<1>4. stats'.asked = SumOf(AskedOf(slots'), Slots)
  BY <1>2 DEF AskedInv
<1> QED
  BY <1>3, <1>4 DEF AskedInv, AskedOf

LEMMA AskedReclaimed ==
  ASSUME IInv, BooksInv, AskedInv, NEW done, reclaimLocked(done)
  PROVE  AskedInv'
<1>1. PICK n \in 0 .. Len(retiring) :
        /\ Drains(done, n) /\ stats' = StatsDrained(n) /\ slots' = slots
        /\ free' = free \cup Drained(n)
  BY DEF reclaimLocked
<1>2. Drained(n) \subseteq Retiring /\ Retiring' = Retiring \ Drained(n)
  BY <1>1, DrainedApart
<1>3. stats'.asked = stats.asked
  BY <1>1 DEF StatsDrained, BooksInv
<1> QED
  BY <1>1, <1>2, <1>3, AskedKept

LEMMA AskedTrimmed ==
  ASSUME IInv, BooksInv, AskedInv, trimLocked
  PROVE  AskedInv'
<1>1. PICK n \in 0 .. Len(retiring) :
        /\ Drains(Published, n) /\ free' = {}
        /\ slots' = [s \in Slots |-> IF s \in free \cup Drained(n) THEN Emptied(slots[s]) ELSE slots[s]]
        /\ stats' = [StatsDrained(n) EXCEPT !.held = @ - Bytes(free \cup Drained(n))]
  BY DEF trimLocked
<1>2. Drained(n) \subseteq Retiring /\ Retiring' = Retiring \ Drained(n)
  BY <1>1, DrainedApart
<1>3. stats'.asked = stats.asked
  <2>1. DOMAIN stats = {"held", "inUse", "asked", "pending", "live"}
    BY DEF BooksInv
  <2>2. PICK names : names = DOMAIN stats /\ stats = [f \in names |-> stats[f]] /\ "asked" \in names
    BY <2>1 DEF BooksInv
  <2> QED
    BY <1>1, <2>2, Zenon DEF StatsDrained
<1>4. ASSUME NEW r \in Slots
      PROVE  \/ slots'[r] = slots[r]
             \/ ~slots[r].live /\ ~slots'[r].live /\ ~slots'[r].shared /\ r \notin free' \cup Retiring'
  <2>1. CASE r \in free \cup Drained(n)
    <3>1. r \notin Retiring' /\ ~slots[r].live /\ ~slots[r].shared /\ slots[r] \in SlotRecord
      BY <1>2, <2>1, PlaceFacts
    <3>2. Emptied(slots[r]).live = slots[r].live /\ Emptied(slots[r]).shared = slots[r].shared
      BY <3>1 DEF Emptied, SlotRecord
    <3> QED
      BY <1>1, <2>1, <3>1, <3>2
  <2>2. CASE r \notin free \cup Drained(n)
    BY <1>1, <2>2
  <2> QED
    BY <2>1, <2>2
<1> QED
  BY <1>1, <1>2, <1>3, <1>4, AskedKept

LEMMA HitAsked ==
  ASSUME IInv, BooksInv, AskedInv, NEW s \in free, Hit(s)
  PROVE  AskedInv'
<1> DEFINE slot == Handed(slots[s])
<1>1. /\ s \in Slots /\ slots[s] \in SlotRecord /\ call.want \in Requests /\ s \notin Retiring
      /\ ~slots[s].live /\ ~slots[s].shared /\ ~slots[s].borrowed
  BY PlaceFacts DEF Hit, IInv, TypeOK, At, PCs
<1>2. slot \in SlotRecord /\ call.want \in Nat
  BY <1>1, SlotOperations, PoolAssumption
<1>3. /\ slot.live /\ slot.bytes = slots[s].bytes /\ slot.asked = call.want
      /\ ~slot.shared /\ ~slot.borrowed
  BY <1>1 DEF Handed, SlotRecord
<1>4. /\ slots' = [slots EXCEPT ![s] = slot] /\ Retiring' = Retiring /\ free' = free \ {s}
      /\ stats'.asked = stats.asked + call.want /\ stats.asked \in Int
      /\ ClassOf[slots[s].bytes] = ClassOf[call.want]
  BY DEF Hit, Retiring, FreeOf, BooksInv
<1> HIDE DEF slot
<1>5. PICK c \in Classes : slots[s].bytes = ClassBytes[c]
  BY <1>1 DEF AskedInv, ClassSizes
<1>6. call.want <= slots[s].bytes /\ slots[s].bytes \in ClassSizes
  <2>1. ClassOf[call.want] = c
    BY <1>4, <1>5, PoolAssumption
  <2> QED
    BY <1>1, <1>5, <2>1, PoolAssumption DEF ClassSizes
<1>7. AskedBy(slots[s]) = 0 /\ AskedBy(slot) = call.want
  BY <1>1, <1>3 DEF AskedBy, Counted
<1>8. /\ stats'.asked = stats.asked - AskedBy(slots[s]) + AskedBy(slot)
      /\ slot.asked <= slot.bytes /\ slot.bytes \in ClassSizes
  BY <1>2, <1>3, <1>4, <1>6, <1>7
<1> QED
  BY <1>1, <1>2, <1>3, <1>4, <1>8, AskedChanged

LEMMA NativeAsked ==
  ASSUME IInv, TableInv, BooksInv, AskedInv, NEW s \in Slots, NEW n \in Natives, NativeAlloc(s, n)
  PROVE  AskedInv'
<1> DEFINE slot == Handed([slots[s] EXCEPT !.native = n, !.bytes = Size])
<1>1. /\ TakesSlot(s) /\ slots' = [slots EXCEPT ![s] = slot] /\ UNCHANGED <<retiring, free>>
      /\ call.pc = "native" /\ stats'.asked = stats.asked + call.want /\ stats.asked \in Int
  BY DEF NativeAlloc, At, BooksInv
<1>2. slots[s] \in SlotRecord /\ ~slots[s].live /\ ~slots[s].shared /\ ~slots[s].borrowed
  BY <1>1, TakenCountsNowhere
<1>3. call.want \in Requests /\ call.want \in Nat
  BY <1>1, PoolAssumption DEF IInv, TypeOK, PCs
<1>4. Size \in Nat /\ Size \in ClassSizes /\ call.want <= Size
  BY <1>3, PoolAssumption DEF Size, ClassSizes
<1>5. slot \in SlotRecord
  BY <1>2, <1>3, <1>4, SlotOperations, PoolAssumption
<1>6. slot.live /\ slot.bytes = Size /\ slot.asked = call.want /\ ~slot.shared /\ ~slot.borrowed
  BY <1>2 DEF Handed, SlotRecord
<1> HIDE DEF slot
<1>7. AskedBy(slots[s]) = 0 /\ AskedBy(slot) = call.want
  BY <1>2, <1>6 DEF AskedBy, Counted
<1>8. Retiring' = Retiring /\ free' = free
  BY <1>1 DEF Retiring
<1>9. /\ stats'.asked = stats.asked - AskedBy(slots[s]) + AskedBy(slot)
      /\ slot.asked <= slot.bytes /\ slot.bytes \in ClassSizes
  BY <1>1, <1>3, <1>4, <1>6, <1>7
<1> QED
  BY <1>1, <1>5, <1>6, <1>8, <1>9, AskedChanged

LEMMA AdoptAsked ==
  ASSUME IInv, TableInv, BooksInv, AskedInv, NEW s \in Slots, NEW n \in Natives,
         NEW r \in Requests, adopt(s, n, r)
  PROVE  AskedInv'
<1> DEFINE slot == [Filled(slots[s], n, r) EXCEPT !.borrowed = TRUE]
<1>1. /\ TakesSlot(s) /\ slots' = [slots EXCEPT ![s] = slot] /\ UNCHANGED <<retiring, free>>
      /\ stats'.asked = stats.asked /\ stats.asked \in Int
  BY DEF adopt, BooksInv
<1>2. /\ slots[s] \in SlotRecord /\ ~slots[s].live /\ ~slots[s].shared /\ ~slots[s].borrowed
      /\ s \notin Retiring
  BY <1>1, TakenCountsNowhere
<1>3. slot \in SlotRecord
  BY <1>2, SlotOperations, PoolAssumption
<1>4. ~slot.shared /\ slot.borrowed
  BY <1>2 DEF Filled, SlotRecord
<1>5. s \notin free
  <2>1. free \subseteq free \ {s}
    BY <1>1, TakenSlot
  <2> QED
    BY <2>1
<1> HIDE DEF slot
<1>6. AskedBy(slots[s]) = 0 /\ AskedBy(slot) = 0 /\ ~Counted(slot)
  BY <1>2, <1>4 DEF AskedBy, Counted
<1>7. Retiring' = Retiring /\ free' = free
  BY <1>1 DEF Retiring
<1>8. stats'.asked = stats.asked - AskedBy(slots[s]) + AskedBy(slot)
  BY <1>1, <1>6
<1> QED
  BY <1>1, <1>2, <1>3, <1>4, <1>5, <1>6, <1>7, <1>8, AskedChanged

LEMMA ReleaseAsked ==
  ASSUME IInv, BooksInv, AskedInv, NEW h \in owned \cup dead, release(h)
  PROVE  AskedInv'
<1> DEFINE s == h[1]
<1>1. resolve(h) /\ free' = free
  BY DEF release
<1>2. s \in Live /\ s \in Slots /\ slots[s] \in SlotRecord /\ s \notin Retiring /\ s \notin free
  BY <1>1, ResolvedIsOwned, PlaceFacts
<1>3. slots[s].live /\ slots[s].asked \in Nat /\ stats.asked \in Int /\ ~slots[s].shared
  BY <1>2, PlaceFacts DEF BooksInv, AskedInv
<1> HIDE DEF s
<1>4. CASE ReleaseBorrowed(s)
  <2> DEFINE slot == [Emptied(slots[s]) EXCEPT !.live = FALSE, !.borrowed = FALSE, !.gen = @ + 1]
  <2>1. slot \in SlotRecord
    BY <1>2, SlotOperations
  <2>2. ~slot.live
    BY <1>2, SlotFields, Zenon
  <2>3. /\ slots' = [slots EXCEPT ![s] = slot] /\ Retiring' = Retiring /\ slots[s].borrowed
        /\ stats'.asked = stats.asked
    BY <1>4 DEF ReleaseBorrowed, Retiring, BooksInv
  <2>4. slot.shared = slots[s].shared
    BY <1>2, SlotFields, Zenon
  <2> HIDE DEF slot
  <2>5. AskedBy(slots[s]) = 0 /\ AskedBy(slot) = 0 /\ ~Counted(slot)
    BY <2>2, <2>3 DEF AskedBy, Counted
  <2>6. stats'.asked = stats.asked - AskedBy(slots[s]) + AskedBy(slot) /\ ~slot.shared
    BY <1>3, <2>3, <2>4, <2>5
  <2> QED
    BY <1>1, <1>2, <2>1, <2>3, <2>5, <2>6, AskedChanged
<1>5. CASE ReleasePooled(s)
  <2> DEFINE slot == [slots[s] EXCEPT !.live = FALSE]
  <2>1. slot \in SlotRecord
    BY <1>2, SlotOperations
  <2>2. slot.bytes = slots[s].bytes /\ ~slot.live /\ slot.shared = slots[s].shared
    BY <1>2, SlotFields, Zenon
  <2>3. /\ slots' = [slots EXCEPT ![s] = slot] /\ ~slots[s].borrowed
        /\ retiring' = Append(retiring, [slot |-> s, at |-> submitted])
        /\ stats'.asked = stats.asked - slots[s].asked
    BY <1>5 DEF ReleasePooled, Queued, Pooled, BooksInv
  <2> HIDE DEF slot
  <2>4. Retiring' \subseteq Retiring \cup {s}
    <3>1. retiring \in Seq(RetiringRecord) /\ [slot |-> s, at |-> submitted] \in RetiringRecord
      BY <1>2 DEF IInv, TypeOK, RetiringRecord
    <3>2. /\ DOMAIN retiring' = 1 .. Len(retiring) + 1 /\ DOMAIN retiring = 1 .. Len(retiring)
          /\ Len(retiring) \in Nat /\ retiring'[Len(retiring) + 1].slot = s
          /\ \A i \in 1 .. Len(retiring) : retiring'[i] = retiring[i]
      BY <2>3, <3>1
    <3> QED
      BY <3>2 DEF Retiring
  <2>5. AskedBy(slots[s]) = slots[s].asked /\ AskedBy(slot) = 0 /\ ~Counted(slot)
    BY <1>3, <2>2, <2>3 DEF AskedBy, Counted
  <2>6. slot.bytes \in ClassSizes /\ ~slot.shared
    BY <1>2, <1>3, <2>2, <2>3 DEF AskedInv, Counted
  <2>7. stats'.asked = stats.asked - AskedBy(slots[s]) + AskedBy(slot)
    BY <1>3, <2>3, <2>5
  <2> QED
    BY <1>1, <1>2, <2>1, <2>3, <2>4, <2>5, <2>6, <2>7, AskedChanged
<1>6. ~ReleaseShared(s)
  BY <1>3 DEF ReleaseShared
<1> QED
  BY <1>4, <1>5, <1>6 DEF release, s

LEMMA InitAsked == Init => AskedInv
<1> SUFFICES ASSUME Init PROVE AskedInv
  OBVIOUS
<1>1. /\ slots = [s \in Slots |-> FreshSlot] /\ Retiring = {} /\ free = {}
      /\ stats.asked = 0
  BY DEF Init, Retiring
<1>2. \A s \in Slots : ~slots[s].live /\ ~slots[s].shared
  BY <1>1 DEF FreshSlot
<1>3. \A s \in Slots : AskedOf(slots)[s] = 0
  BY <1>2 DEF AskedOf, AskedBy, Counted
<1>4. SumOf(AskedOf(slots), Slots) = SumOf(AskedOf(slots), {})
  BY <1>3, SlotsAreFinite, SumOnly
<1> QED
  BY <1>1, <1>2, <1>4, SumEmpty DEF AskedInv, Counted

LEMMA NextAsked ==
  ASSUME ~UnifiedMemory, IInv, TableInv, BooksInv, AskedInv, [Next]_vars
  PROVE  AskedInv'
<1>1. CASE UNCHANGED <<slots, free, retiring, stats>>
  BY <1>1 DEF AskedInv, Retiring, AskedOf
<1>2. CASE \/ RoomReclaim \/ RoomMark \/ SyncMarks
           \/ \E r \in Requests : alloc(r)
           \/ \E at \in 1 .. submitted : waitFor(at)
  <2>1. \/ \E done : reclaimLocked(done)
        \/ UNCHANGED <<slots, free, retiring, stats>>
    BY <1>2 DEF RoomReclaim, RoomMark, SyncMarks, alloc, waitFor
  <2> QED
    BY <1>1, <2>1, AskedReclaimed
<1>3. CASE RoomTrim \/ Relieved \/ trim
  BY <1>3, AskedTrimmed DEF RoomTrim, Relieved, trim
<1>4. CASE \E s \in free : Hit(s)
  BY <1>4, HitAsked
<1>5. CASE \E s \in Slots, n \in Natives : NativeAlloc(s, n)
  BY <1>5, NativeAsked
<1>6. CASE \E s \in Slots, n \in Natives, r \in Requests : allocShared(s, n, r) \/ adopt(s, n, r)
  BY <1>6, AdoptAsked DEF allocShared
<1>7. ASSUME NEW h \in owned \cup dead, release(h) PROVE AskedInv'
  BY <1>7, ReleaseAsked
<1>8. CASE \/ Miss \/ RoomSync \/ (\E gave \in BOOLEAN : PressureAnswers(gave))
           \/ NativeRefuses \/ SyncWaits \/ sync \/ WaitSyncs
           \/ (\E H \in SUBSET owned : dispatch(H)) \/ dispatchRefused \/ Spin \/ Finish
           \/ (\E k \in 1 .. finished : Report(k)) \/ UNCHANGED vars
  BY <1>1, <1>8 DEF Miss, RoomSync, PressureAnswers, NativeRefuses, SyncWaits, sync, WaitSyncs,
     dispatch, dispatchRefused, Spin, Finish, Report, pool, vars
<1> QED
  BY <1>2, <1>3, <1>4, <1>5, <1>6, <1>7, <1>8 DEF Next, Body

(***************************************************************************)
(* bytesAsked (pool.h:84) is what it says, a part of bytesInUse, on every  *)
(* backend without allocShared: what falls below zero on the others comes  *)
(* from their shared slots alone.                                          *)
(***************************************************************************)
THEOREM AskedIsWithin == Spec => [](~UnifiedMemory => AskedWithinInUse)
<1>1. ASSUME IInv, BooksInv, AskedInv PROVE AskedWithinInUse
  <2>1. PICK f : f = AskedOf(slots)
    OBVIOUS
  <2>2. PICK g : g = InUseOf(slots)
    OBVIOUS
  <2>3. \A s \in Slots : f[s] \in Nat /\ g[s] \in Nat /\ f[s] <= g[s]
    <3> SUFFICES ASSUME NEW s \in Slots PROVE f[s] \in Nat /\ g[s] \in Nat /\ f[s] <= g[s]
      OBVIOUS
    <3>1. slots[s].asked \in Nat /\ slots[s].bytes \in Nat
      BY <1>1, PlaceFacts
    <3>2. f[s] = AskedBy(slots[s]) /\ g[s] = InUseBy(slots[s])
      BY <2>1, <2>2 DEF AskedOf, InUseOf
    <3>3. Counted(slots[s]) => slots[s].asked <= slots[s].bytes
      BY <1>1 DEF AskedInv
    <3> QED
      BY <3>1, <3>2, <3>3 DEF AskedBy, InUseBy, Counted
  <2>4. SumOf(f, Slots) <= SumOf(g, Slots) /\ SumOf(f, Slots) \in Nat
    BY <2>3, SlotsAreFinite, SumBelow, SumType
  <2>5. stats.asked = SumOf(f, Slots) /\ stats.inUse = SumOf(g, Slots)
    BY <1>1, <2>1, <2>2 DEF AskedInv, BooksInv
  <2> QED
    BY <2>4, <2>5 DEF AskedWithinInUse
<1>2. Init => (~UnifiedMemory => AskedInv)
  BY InitAsked
<1>3. /\ IInv /\ TableInv /\ BooksInv /\ (~UnifiedMemory => AskedInv) /\ [Next]_vars
      => (~UnifiedMemory => AskedInv)'
  BY NextAsked
<1>4. IInv /\ BooksInv /\ (~UnifiedMemory => AskedInv) => (~UnifiedMemory => AskedWithinInUse)
  BY <1>1
<1> QED
  BY <1>2, <1>3, <1>4, BooksAlways, PTL DEF Spec
=============================================================================

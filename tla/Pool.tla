-------------------------------- MODULE Pool --------------------------------
(***************************************************************************)
(* PooledDevice (src/pool.h, src/pool.cpp): the decorator that hands out   *)
(* device buffers, keeps the released ones until the submission that may   *)
(* still read them has retired, and reuses them.  Handles are <<slot,      *)
(* generation>>; the device underneath is external.                        *)
(*                                                                         *)
(* Every call takes guard_, so a call is one action unless something can   *)
(* interleave with its body: the device finishes work and its completion   *)
(* handlers publish while alloc climbs the makeRoom ladder, while sync     *)
(* blocks, and while waitFor spins without the lock.  The pressure         *)
(* callback runs inside alloc and may release: guard_ is recursive.        *)
(*                                                                         *)
(* The free lists and recycledSlots_ are sets: which of several equal      *)
(* slots is reused is a choice here, the most recent one in the code.      *)
(***************************************************************************)
EXTENDS Integers, Sequences, FiniteSets, FiniteSetsExt

CONSTANTS
  Requests,        \* the byte counts callers ask for
  Classes,         \* the size classes those fall in
  ClassOf,         \* bucketFor
  ClassBytes,      \* bucketBytes
  Budget,          \* budget_
  UnifiedMemory,   \* Metal: allocShared works, adopt does not. CUDA: the reverse
  Natives,         \* the backend's buffer ids
  NoBuffer,        \* kInvalidBuffer
  MaxSpins,        \* bound: the 10000 spins of waitFor
  MaxHandles,      \* bound: handles ever given out
  MaxSubmissions   \* bound: dispatches

ASSUME PoolAssumption ==
  /\ Requests \subseteq Nat \ {0}
  /\ ClassOf \in [Requests \cup {ClassBytes[c] : c \in Classes} -> Classes]
  /\ ClassBytes \in [Classes -> Nat \ {0}]
  /\ \A r \in Requests : r <= ClassBytes[ClassOf[r]]
  /\ \A c \in Classes : ClassOf[ClassBytes[c]] = c
  /\ Budget \in Nat
  /\ UnifiedMemory \in BOOLEAN
  /\ NoBuffer \notin Natives
  /\ MaxSpins \in Nat /\ MaxHandles \in Nat /\ MaxSubmissions \in Nat

VARIABLES
  slots,       \* slots_, without the reserved slot zero
  used,        \* slots_.size() - 1
  free,        \* freeByBucket_: the slot's own size says which list
  recycled,    \* recycledSlots_
  retiring,    \* retiring_: released, waiting on a submission, oldest first
  submitted,   \* submitted_
  completed,   \* completed_
  stats,       \* stats_
  call,        \* who holds guard_ between two actions, and where it is
  waiter       \* a thread inside waitFor, without guard_

VARIABLES      \* the device, external
  granted,     \* buffer ids the backend has given out
  inflight,    \* work queued and not finished
  accepted,    \* how many dispatches the backend took
  finished,    \* how many of them are done
  reported     \* completedSubmissions()

VARIABLES      \* history: what callers are entitled to
  owned,       \* handles given out and not released
  dead         \* handles released

pool   == <<slots, used, free, recycled, retiring, submitted, completed, stats>>
device == <<granted, inflight, accepted, finished, reported>>
vars   == <<pool, call, waiter, device, owned, dead>>

Slots == 1 .. MaxHandles

Handles == Slots \X Nat

\* Where a call that holds guard_ can be when something else moves.  "room"
\* steps are those of makeRoom.
PCs == {"idle", "lookup", "room", "roomSync", "roomMark", "trim", "pressure",
        "relieved", "native", "sync", "mark"}

Idle == [pc |-> "idle", want |-> 0]

Off == [phase |-> "off", at |-> 0, spins |-> 0]

\* Slot and Retiring (pool.h:272).
SlotRecord ==
  [native : Natives \cup {NoBuffer}, bytes : Nat, asked : Nat, gen : Nat,
   live : BOOLEAN, shared : BOOLEAN, borrowed : BOOLEAN]

RetiringRecord == [slot : Slots, at : Nat]

FreshSlot ==
  [native |-> NoBuffer, bytes |-> 0, asked |-> 0, gen |-> 1, live |-> FALSE,
   shared |-> FALSE, borrowed |-> FALSE]

Init ==
  /\ slots = [s \in Slots |-> FreshSlot]
  /\ used = 0 /\ free = {} /\ recycled = {} /\ retiring = <<>>
  /\ submitted = 0 /\ completed = 0
  /\ stats = [held |-> 0, inUse |-> 0, asked |-> 0, pending |-> 0, live |-> 0]
  /\ call = Idle
  /\ waiter = Off
  /\ granted = {} /\ inflight = {} /\ accepted = 0 /\ finished = 0 /\ reported = 0
  /\ owned = {} /\ dead = {}
-----------------------------------------------------------------------------
(* What several calls share. *)

Later(a, b) == IF a > b THEN a ELSE b

\* Mutant: the plain store notifyCompleted once was (pool.h:205).
PublishedStored == reported

\* notifyCompleted(reporter's number): a compare-and-swap that only climbs.
Published == Later(reported, completed)

\* Mutant: the plain store again, which undid the sync.
MarkedStored == reported

\* After a native sync: completed_ is stored, then notifyCompleted sees it.
Marked == Later(reported, submitted)

Bytes(S) == MapThenSumSet(LAMBDA s : slots[s].bytes, S)

Size == ClassBytes[ClassOf[call.want]]

\* Mutant: looks at what is held and not at what would be.
FitsNow(held) == held <= Budget

Fits(held) == held + Size <= Budget

FreeOf(class) == {s \in free : ClassOf[slots[s].bytes] = class}

Pooled(s) == ~slots[s].shared /\ ~slots[s].borrowed

resolve(h) == h[1] <= used /\ slots[h[1]].live /\ slots[h[1]].gen = h[2]

At(pc) == call.pc = pc

Goes(pc) == call' = [call EXCEPT !.pc = pc]

Drained(n) == {retiring[i].slot : i \in 1 .. n}

\* The loop of reclaimLocked: leaves the queue at the first entry not retired.
Drains(done, n) ==
  /\ \A i \in 1 .. n : retiring[i].at <= done
  /\ n < Len(retiring) => retiring[n + 1].at > done
  /\ retiring' = SubSeq(retiring, n + 1, Len(retiring))
  /\ completed' = done

\* Mutant: the drained buffers stay counted as pending.
StatsDrainedNot(n) == stats

StatsDrained(n) == [stats EXCEPT !.pending = @ - Bytes(Drained(n))]

\* Mutant: the driver is not told.
NativeReleasesNone(S) == UNCHANGED granted

NativeReleases(S) == granted' = granted \ {slots[s].native : s \in S}

\* A slot whose buffer went back to the backend.
Emptied(slot) == [slot EXCEPT !.native = NoBuffer, !.bytes = 0]

reclaimLocked(done) ==
  \E n \in 0 .. Len(retiring) :
    /\ Drains(done, n)
    /\ free' = free \cup Drained(n)
    /\ stats' = StatsDrained(n)
    /\ UNCHANGED <<slots, used, recycled, submitted, granted>>

trimLocked ==
  \E n \in 0 .. Len(retiring) :
    LET back == free \cup Drained(n)
    IN  /\ Drains(Published, n)
        /\ free' = {}
        /\ recycled' = recycled \cup back
        /\ slots' = [s \in Slots |->
                       IF s \in back THEN Emptied(slots[s]) ELSE slots[s]]
        /\ NativeReleases(back)
        /\ stats' = [StatsDrained(n) EXCEPT !.held = @ - Bytes(back)]
        /\ UNCHANGED <<used, submitted>>

\* Mutant: the table grows past the slot that is handed out.
TakesSlotSkipping(s) ==
  \/ s \in recycled /\ recycled' = recycled \ {s} /\ UNCHANGED used
  \/ recycled = {} /\ s = used + 1 /\ used' = s + 1 /\ UNCHANGED recycled

\* Mutant: recycledSlots_.pop_back() is missing.
TakesSlotKeeping(s) ==
  /\ s \in recycled \/ (recycled = {} /\ s = used + 1)
  /\ used' = Later(used, s)
  /\ UNCHANGED recycled

\* A slot for a new buffer: a recycled one, or the table grows.
TakesSlot(s) ==
  \/ s \in recycled /\ recycled' = recycled \ {s} /\ UNCHANGED used
  \/ recycled = {} /\ s = used + 1 /\ used' = s /\ UNCHANGED recycled

\* The history a call that hands out slot s leaves.
HandsOut(s) == owned' = owned \cup {<<s, slots'[s].gen>>} /\ UNCHANGED dead

BelowMaxHandles == Cardinality(owned \cup dead) < MaxHandles
-----------------------------------------------------------------------------
(* alloc and the makeRoom ladder. *)

\* Mutant: ++slot.generation is missing.
HandedSameGeneration(slot) == [slot EXCEPT !.live = TRUE, !.asked = call.want]

Handed(slot) == [slot EXCEPT !.gen = @ + 1, !.live = TRUE, !.asked = call.want]

alloc(r) ==
  /\ At("idle") /\ BelowMaxHandles
  /\ reclaimLocked(Published)
  /\ call' = [pc |-> "lookup", want |-> r]
  /\ UNCHANGED <<waiter, inflight, accepted, finished, reported, owned, dead>>

Hit(s) ==
  /\ At("lookup") /\ s \in FreeOf(ClassOf[call.want])
  /\ free' = free \ {s}
  /\ slots' = [slots EXCEPT ![s] = Handed(slots[s])]
  /\ stats' = [stats EXCEPT !.inUse = @ + slots[s].bytes, !.asked = @ + call.want,
                            !.live = @ + 1]
  /\ HandsOut(s)
  /\ call' = Idle
  /\ UNCHANGED <<used, recycled, retiring, submitted, completed, waiter, device>>

Miss ==
  /\ At("lookup") /\ FreeOf(ClassOf[call.want]) = {}
  /\ Goes(IF Fits(stats.held) THEN "native" ELSE "room")
  /\ UNCHANGED <<pool, waiter, device, owned, dead>>

\* Steps 1 to 4 of makeRoom, in its order.
RoomReclaim ==
  /\ At("room")
  /\ reclaimLocked(Published)
  /\ Goes(IF Fits(stats'.held) THEN "native" ELSE "roomSync")
  /\ UNCHANGED <<waiter, inflight, accepted, finished, reported, owned, dead>>

RoomSync ==
  /\ At("roomSync") /\ inflight = {}
  /\ Goes("roomMark")
  /\ UNCHANGED <<pool, waiter, device, owned, dead>>

RoomMark ==
  /\ At("roomMark")
  /\ reclaimLocked(Marked)
  /\ Goes(IF Fits(stats'.held) THEN "native" ELSE "trim")
  /\ UNCHANGED <<waiter, inflight, accepted, finished, reported, owned, dead>>

RoomTrim ==
  /\ At("trim")
  /\ trimLocked
  /\ \/ Fits(stats'.held) /\ Goes("native")
     \/ ~Fits(stats'.held) /\ Goes("pressure")
  /\ UNCHANGED <<waiter, inflight, accepted, finished, reported, owned, dead>>

\* The callback returns whether it gave anything up; what it released it has
\* released by then, through release.  A pool without a callback is one whose
\* callback gives nothing.
PressureAnswers(gave) ==
  /\ At("pressure")
  /\ IF gave THEN Goes("relieved") ELSE call' = Idle
  /\ UNCHANGED <<pool, waiter, device, owned, dead>>

\* Mutant: asks again, the loop of unbounded length pool.cpp:215 warns of.
NoRoomAsksAgain == Goes("pressure")

NoRoom == call' = Idle

Relieved ==
  /\ At("relieved")
  /\ trimLocked
  /\ IF Fits(stats'.held) THEN Goes("native") ELSE NoRoom
  /\ UNCHANGED <<waiter, inflight, accepted, finished, reported, owned, dead>>

NativeAlloc(s, n) ==
  /\ At("native") /\ TakesSlot(s) /\ n \notin granted
  /\ granted' = granted \cup {n}
  /\ slots' = [slots EXCEPT
       ![s] = Handed([slots[s] EXCEPT !.native = n, !.bytes = Size])]
  /\ stats' = [stats EXCEPT !.held = @ + Size, !.inUse = @ + Size,
                            !.asked = @ + call.want, !.live = @ + 1]
  /\ HandsOut(s)
  /\ call' = Idle
  /\ UNCHANGED <<free, retiring, submitted, completed, waiter, inflight, accepted,
                 finished, reported>>

NativeRefuses ==
  /\ At("native")
  /\ call' = Idle
  /\ UNCHANGED <<pool, waiter, device, owned, dead>>
-----------------------------------------------------------------------------
(* The other ways in and out of the table. *)

Filled(slot, n, r) ==
  [slot EXCEPT !.native = n, !.bytes = r, !.live = TRUE, !.gen = @ + 1]

allocShared(s, n, r) ==
  /\ At("idle") /\ UnifiedMemory /\ BelowMaxHandles
  /\ TakesSlot(s) /\ n \notin granted
  /\ granted' = granted \cup {n}
  /\ slots' = [slots EXCEPT ![s] =
       [Filled(slots[s], n, r) EXCEPT !.shared = TRUE]]
  /\ stats' = [stats EXCEPT !.held = @ + r, !.inUse = @ + r, !.live = @ + 1]
  /\ HandsOut(s)
  /\ UNCHANGED <<free, retiring, submitted, completed, call, waiter, inflight,
                 accepted, finished, reported>>

adopt(s, n, r) ==
  /\ At("idle") /\ ~UnifiedMemory /\ BelowMaxHandles
  /\ TakesSlot(s) /\ n \notin granted
  /\ granted' = granted \cup {n}
  /\ slots' = [slots EXCEPT ![s] =
       [Filled(slots[s], n, r) EXCEPT !.borrowed = TRUE]]
  /\ stats' = [stats EXCEPT !.live = @ + 1]
  /\ HandsOut(s)
  /\ UNCHANGED <<free, retiring, submitted, completed, call, waiter, inflight,
                 accepted, finished, reported>>

\* The three ends of release, by the kind of buffer the slot holds.
ReleaseBorrowed(s) ==
  /\ slots[s].borrowed
  /\ slots' = [slots EXCEPT ![s] =
       [Emptied(slots[s]) EXCEPT !.live = FALSE, !.borrowed = FALSE, !.gen = @ + 1]]
  /\ NativeReleases({s})
  /\ recycled' = recycled \cup {s}
  /\ stats' = [stats EXCEPT !.live = @ - 1]
  /\ UNCHANGED retiring

Unshared(slot) == [Emptied(slot) EXCEPT !.live = FALSE, !.shared = FALSE]

\* Mutant: a shared buffer's bytes stay counted as held.
HeldWithoutNot(s) == stats.held

HeldWithout(s) == stats.held - slots[s].bytes

ReleaseShared(s) ==
  /\ ~slots[s].borrowed /\ slots[s].shared
  /\ slots' = [slots EXCEPT ![s] = Unshared(slots[s])]
  /\ NativeReleases({s})
  /\ recycled' = recycled \cup {s}
  /\ stats' = [stats EXCEPT !.live = @ - 1, !.inUse = @ - slots[s].bytes,
                            !.asked = @ - slots[s].asked, !.held = HeldWithout(s)]
  /\ UNCHANGED retiring

\* Mutant: waits for what is done and not for what is queued.
QueuedAtCompleted(s) == Append(retiring, [slot |-> s, at |-> completed])

\* Mutant: push_front.
QueuedInFront(s) == <<[slot |-> s, at |-> submitted]>> \o retiring

Queued(s) == Append(retiring, [slot |-> s, at |-> submitted])

ReleasePooled(s) ==
  /\ Pooled(s)
  /\ slots' = [slots EXCEPT ![s].live = FALSE]
  /\ retiring' = Queued(s)
  /\ stats' = [stats EXCEPT !.live = @ - 1, !.inUse = @ - slots[s].bytes,
                            !.asked = @ - slots[s].asked,
                            !.pending = @ + slots[s].bytes]
  /\ UNCHANGED <<granted, recycled>>

\* By a caller, with a handle it holds or one it released before; or by the
\* pressure callback.
release(h) ==
  /\ At("idle") \/ At("pressure")
  /\ resolve(h)
  /\ ReleaseBorrowed(h[1]) \/ ReleaseShared(h[1]) \/ ReleasePooled(h[1])
  /\ owned' = owned \ {h}
  /\ dead' = dead \cup {h}
  /\ UNCHANGED <<used, free, submitted, completed, call, waiter, inflight, accepted,
                 finished, reported>>

trim ==
  /\ At("idle")
  /\ trimLocked
  /\ UNCHANGED <<call, waiter, inflight, accepted, finished, reported, owned, dead>>
-----------------------------------------------------------------------------
(* Submissions. *)

\* Mutant: dispatch without guard_, as it once was (pool.cpp:358).
MayDispatchUnlocked == submitted < MaxSubmissions

MayDispatch == At("idle") /\ submitted < MaxSubmissions

\* The number is taken before the backend is asked.
dispatch(H) ==
  /\ MayDispatch
  /\ submitted' = submitted + 1
  /\ accepted' = accepted + 1
  /\ inflight' = inflight \cup
       {[num |-> accepted', at |-> submitted', uses |-> {h \in H : Pooled(h[1])}]}
  /\ UNCHANGED <<slots, used, free, recycled, retiring, completed, stats, call,
                 waiter, granted, finished, reported, owned, dead>>

\* The same call, when the backend refuses it: no handler will ever report it.
dispatchRefused ==
  /\ MayDispatch
  /\ submitted' = submitted + 1
  /\ UNCHANGED <<slots, used, free, recycled, retiring, completed, stats, call,
                 waiter, device, owned, dead>>

sync ==
  /\ At("idle")
  /\ Goes("sync")
  /\ UNCHANGED <<pool, waiter, device, owned, dead>>

SyncWaits ==
  /\ At("sync") /\ inflight = {}
  /\ Goes("mark")
  /\ UNCHANGED <<pool, waiter, device, owned, dead>>

SyncMarks ==
  /\ At("mark")
  /\ reclaimLocked(Marked)
  /\ call' = Idle
  /\ waiter' = IF waiter.phase = "sync" THEN Off ELSE waiter
  /\ UNCHANGED <<inflight, accepted, finished, reported, owned, dead>>

\* waitFor(at): reclaim under the lock, spin without it, then sync.
waitFor(at) ==
  /\ At("idle") /\ waiter.phase = "off"
  /\ reclaimLocked(Published)
  /\ waiter' = IF completed' >= at THEN Off
               ELSE [phase |-> "spin", at |-> at, spins |-> MaxSpins]
  /\ UNCHANGED <<call, inflight, accepted, finished, reported, owned, dead>>

\* Mutant: the spinning has no end.
SpunForever == waiter

Spun == [waiter EXCEPT !.spins = @ - 1]

Spin ==
  /\ waiter.phase = "spin" /\ waiter.spins > 0
  /\ completed' = Published
  /\ waiter' = IF completed' >= waiter.at THEN Off ELSE Spun
  /\ UNCHANGED <<slots, used, free, recycled, retiring, submitted, stats, call,
                 device, owned, dead>>

WaitSyncs ==
  /\ At("idle") /\ waiter.phase = "spin" /\ waiter.spins = 0
  /\ Goes("sync")
  /\ waiter' = [waiter EXCEPT !.phase = "sync"]
  /\ UNCHANGED <<pool, device, owned, dead>>
-----------------------------------------------------------------------------
(* The device: one in-order queue, and handlers that may be late or never  *)
(* run.  A backend without CompletionReporting is one that never reports.  *)

Finish ==
  \E w \in inflight :
    /\ \A v \in inflight : w.num <= v.num
    /\ inflight' = inflight \ {w}
    /\ finished' = w.num
    /\ UNCHANGED <<pool, call, waiter, granted, accepted, reported, owned, dead>>

\* reportCompleted publishes the largest number any handler has brought.
Report(k) ==
  /\ reported < k
  /\ reported' = k
  /\ UNCHANGED <<pool, call, waiter, granted, inflight, accepted, finished, owned, dead>>
-----------------------------------------------------------------------------
\* What is left of a call that holds guard_.
Body ==
  \/ \E s \in free : Hit(s)
  \/ Miss \/ RoomReclaim \/ RoomSync \/ RoomMark \/ RoomTrim
  \/ \E gave \in BOOLEAN : PressureAnswers(gave)
  \/ Relieved
  \/ \E s \in Slots, n \in Natives : NativeAlloc(s, n)
  \/ NativeRefuses
  \/ SyncWaits \/ SyncMarks

Next ==
  \/ \E r \in Requests : alloc(r)
  \/ Body
  \/ \E s \in Slots, n \in Natives, r \in Requests :
       allocShared(s, n, r) \/ adopt(s, n, r)
  \/ \E h \in owned \cup dead : release(h)
  \/ trim
  \/ \E H \in SUBSET owned : dispatch(H)
  \/ dispatchRefused
  \/ sync
  \/ \E at \in 1 .. submitted : waitFor(at)
  \/ Spin \/ WaitSyncs
  \/ Finish
  \/ \E k \in 1 .. finished : Report(k)

\* The thread inside a call runs on and its callback returns; the device
\* finishes what it was given; a thread that keeps asking for guard_ gets it.
\* Nothing is promised about reports: a backend may publish nothing.
Fairness ==
  WF_vars(Body) /\ WF_vars(Finish) /\ WF_vars(Spin) /\ SF_vars(WaitSyncs)

Spec == Init /\ [][Next]_vars

FairSpec == Spec /\ Fairness
-----------------------------------------------------------------------------
(* Properties. *)

Live == {s \in Slots : slots[s].live}

Retiring == {retiring[i].slot : i \in DOMAIN retiring}

\* Every variable has its type.
TypeOK ==
  /\ slots \in [Slots -> SlotRecord]
  /\ used \in 0 .. MaxHandles /\ free \subseteq Slots /\ recycled \subseteq Slots
  /\ retiring \in Seq(RetiringRecord)
  /\ submitted \in Nat /\ completed \in Nat
  /\ call \in [pc : PCs, want : Requests \cup {0}]
  /\ call.pc \in PCs \ {"idle", "sync", "mark"} => call.want \in Requests
  /\ waiter \in [phase : {"off", "spin", "sync"}, at : Nat, spins : Nat]
  /\ granted \subseteq Natives
  /\ inflight \subseteq [num : Nat, at : Nat, uses : SUBSET Handles]
  /\ accepted \in Nat /\ finished \in Nat /\ reported \in Nat
  /\ owned \subseteq Handles /\ dead \subseteq Handles

\* What retired(at) promises: "has everything up to `at` finished?".  No work
\* at or below the mark is still queued, whatever the backend refused, however
\* late its handlers are, and whoever moved the mark.
WatermarkSound == \A w \in inflight : completed < w.at

\* What the arenas and the player build on: whatever else the pool does, its
\* numbers are those of Watermark.
Numbers == INSTANCE Watermark WITH queued <- inflight

KeepsNumbers == Numbers!Spec

\* The reason the pool waits at all: memory that queued work was handed stays
\* with the handle it was handed under.  It is never on a free list, given to
\* the next alloc or returned to the driver while the work may touch it.
InFlightKept ==
  \A w \in inflight : \A h \in w.uses :
    /\ slots[h[1]].gen = h[2] /\ slots[h[1]].native # NoBuffer
    /\ h[1] \notin free \cup recycled

\* A handle a caller holds is good until that caller releases it, and a handle
\* released never answers again: reuse of the slot is invisible to both.
HandlesExact ==
  /\ owned = {<<s, slots[s].gen>> : s \in Live}
  /\ owned \cap dead = {}

Count(b) == IF b THEN 1 ELSE 0

\* Every slot of the table is in exactly one place: live, free, recycled, or
\* once in the retiring queue.  None is lost and none can be handed out twice.
EverySlotAccounted ==
  \A s \in Slots :
    Count(slots[s].live) + Count(s \in free) + Count(s \in recycled)
      + Cardinality({i \in DOMAIN retiring : retiring[i].slot = s})
      = Count(s <= used)

\* The driver's memory and the table agree: everything the backend gave out is
\* in exactly one slot, a recycled slot holds none of it, and a slot nobody
\* holds keeps no mark of having been somebody's own memory.
DriverMemoryAccounted ==
  LET holding == {s \in Slots : slots[s].native # NoBuffer}
  IN  /\ granted = {slots[s].native : s \in holding}
      /\ Cardinality(granted) = Cardinality(holding)
      /\ holding = (1 .. used) \ recycled
      /\ \A s \in Slots \ Live : Pooled(s)

\* The counters a HUD reads are the sums they claim to be (Stats, pool.h:81).
StatsExact ==
  /\ stats.held = Bytes({s \in Slots : ~slots[s].borrowed})
  /\ stats.inUse = Bytes({s \in Live : ~slots[s].borrowed})
  /\ stats.pending = Bytes(Retiring)
  /\ stats.live = Cardinality(Live)

\* What the pool takes from the driver for its buckets stays within budget_,
\* through every rung of the ladder and whatever the callback does.
PooledWithinBudget == Bytes({s \in Slots : Pooled(s)}) <= Budget

\* "What the callers actually asked for, of what is handed out" (pool.h:84) is a
\* part of it: "the difference against bytesInUse is what the size classes cost"
\* (pool.h:86).
AskedWithinInUse == 0 <= stats.asked /\ stats.asked <= stats.inUse

\* The mark only climbs, although sync stores it and handlers lag behind it.
MarkClimbs == [][completed' >= completed]_completed

\* What is left in the queue is waiting for something.
NothingReady == \A i \in DOMAIN retiring : retiring[i].at > completed

\* The queue is drained from its front only, and that is enough: a reclaim
\* leaves nothing behind whose submission has retired, so an alloc that looks
\* for a buffer sees every one there is.
ReclaimLeavesNothingReady ==
  /\ [][call'.pc = "lookup" => NothingReady']_call
  /\ [][Len(retiring') < Len(retiring) => NothingReady']_retiring

\* waitFor(at) returns only once retired(at), also when the dispatch it waits
\* for was refused or the backend never reports.
WaitDelivers ==
  [][waiter.phase # "off" /\ waiter'.phase = "off" => completed' >= waiter.at]_waiter

\* Every call that takes guard_ lets it go: no rung of the ladder repeats.
CallsReturn == ~At("idle") ~> At("idle")

\* waitFor returns, whatever the backend reports.
WaitsReturn == waiter.phase # "off" ~> waiter.phase = "off"
-----------------------------------------------------------------------------
(* Why it works: an invariant that every action keeps. *)

\* The numbers.  The backend counts only what it took, so its numbers lag the
\* pool's; it finishes in order and reports no more than it finished.  While
\* a sync is being marked the device is idle, because guard_ is held.
QueueInv ==
  /\ reported <= finished /\ finished <= accepted
  /\ accepted <= submitted /\ completed <= submitted
  /\ \A w \in inflight : /\ finished < w.num /\ w.num <= accepted /\ w.num <= w.at
                         /\ w.at <= submitted /\ completed < w.at
  /\ \A v, w \in inflight : v.num = w.num => v = w
  /\ call.pc \in {"roomMark", "mark"} => inflight = {}

\* The table.  A slot is in one place at a time, and holds a buffer unless it
\* is recycled.
PlacesInv ==
  /\ free \subseteq 1 .. used /\ recycled \subseteq 1 .. used /\ free \cap recycled = {}
  /\ \A s \in Live : s <= used /\ s \notin free \cup recycled
  /\ \A i \in 1 .. Len(retiring) :
       /\ retiring[i].slot <= used /\ ~slots[retiring[i].slot].live
       /\ retiring[i].slot \notin free \cup recycled
  /\ \A i, j \in 1 .. Len(retiring) : retiring[i].slot = retiring[j].slot => i = j
  /\ \A s \in (1 .. used) \ recycled : slots[s].native # NoBuffer
  /\ \A s \in Slots \ Live : Pooled(s)
  /\ \A s \in Slots : ~(slots[s].shared /\ slots[s].borrowed)

\* The link between them: what queued work was handed is still live, or waits
\* in the retiring queue for a submission no earlier than that work.
KeptInv ==
  \A w \in inflight : \A h \in w.uses :
    /\ slots[h[1]].gen = h[2] /\ Pooled(h[1])
    /\ \/ slots[h[1]].live
       \/ \E i \in 1 .. Len(retiring) : retiring[i].slot = h[1] /\ w.at <= retiring[i].at

\* The generations: a released handle is behind its slot, or the slot is not live.
HandlesInv ==
  /\ owned = {<<s, slots[s].gen>> : s \in Live}
  /\ \A h \in dead : /\ h[2] <= slots[h[1]].gen
                     /\ h[2] = slots[h[1]].gen => ~slots[h[1]].live

IInv == TypeOK /\ QueueInv /\ PlacesInv /\ KeptInv /\ HandlesInv

\* The queue is in the order of submission, and a waiter waits for something
\* that was submitted.
OrderInv ==
  /\ waiter.at <= submitted
  /\ \A i \in 1 .. Len(retiring) : retiring[i].at <= submitted
  /\ \A i, j \in 1 .. Len(retiring) : i <= j => retiring[i].at <= retiring[j].at

\* Nothing of the table or of the driver's memory is lost: a slot that was ever
\* used is somewhere, and what the driver gave out is named by exactly one slot.
TableInv ==
  /\ \A s \in 1 .. used : slots[s].live \/ s \in free \cup recycled \cup Retiring
  /\ granted = {slots[s].native : s \in Slots} \ {NoBuffer}
  /\ \A r, s \in Slots : slots[r].native = slots[s].native /\ slots[s].native # NoBuffer => r = s
  /\ \A s \in Slots : s > used \/ s \in recycled => slots[s].native = NoBuffer
=============================================================================

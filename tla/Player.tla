------------------------------- MODULE Player -------------------------------
(***************************************************************************)
(* Player::run (src/player.cpp) with what it is made of: the arenas, the   *)
(* ring of host plates a decoder writes (HostRing, src/hostring.h), the    *)
(* drop policy (src/drop.h) and the clock.  It starts where a prepare      *)
(* succeeded.                                                              *)
(*                                                                         *)
(* Two counts meet here.  A plate is committed to the pool's next number   *)
(* and comes back by the backend's, which lags it for good once a dispatch *)
(* was refused.                                                            *)
(*                                                                         *)
(* The plates are pinned: upload queues a DMA that reads the plate when    *)
(* its turn comes, behind the dispatches queued before it and before those *)
(* queued after.  A plate that is not pinned is copied out at once, which  *)
(* is less to get wrong.                                                   *)
(***************************************************************************)
EXTENDS Arenas

CONSTANTS
  frames,         \* run's frames
  Span, Periods,  \* the rate: Periods frames last Span ticks of the clock
  MaxClock        \* bound: the last tick the clock shows

ASSUME PlayerAssumption ==
  /\ frames \in Nat \ {0} /\ Span \in Nat \ {0} /\ Periods \in Nat \ {0}
  /\ MaxClock \in Nat /\ frames * Span <= MaxClock * Periods
  /\ Slots \subseteq Images

VARIABLES
  now,       \* the clock, in ticks since run started
  frame,     \* the frame the loop is at
  pc,        \* where the loop is
  plates,    \* by plate: inFlight, submission
  at,        \* HostRing::at_
  count,     \* Stats: presented, dropped, starved
  policy     \* DropPolicy: frames, drops, repeatRun

VARIABLES    \* the device's copy queue, external, and what is where
  copies,    \* uploads queued and not done, oldest first
  written,   \* by plate: the frame decoded into it
  content,   \* by slot: the frame its input image holds
  jobs,      \* queued dispatches that are to read a frame's picture
  shown      \* the last frame presented

ring   == <<plates, at, written>>
loop   == <<now, frame, count, policy, shown>>
copied == <<copies, content>>
player == <<loop, pc, ring, copied, jobs>>
pvars  == <<vars, player>>

\* One deeper than the frame pipeline.
Plates == 0 .. kSlots

Nothing == -1

Least(a, b) == IF a < b THEN a ELSE b

PlayerInit ==
  /\ Init
  /\ images = [s \in Slots |-> <<s>>]
  /\ endedAt = [s \in Slots |-> 0]
  /\ current = 0 /\ handed = 0 /\ perSlot = 1
  /\ phase = "shut" /\ want = 1 /\ prepares = MaxPrepares
  /\ asked = {} /\ framed = {}
  /\ now = 0 /\ frame = 0 /\ pc = "top"
  /\ plates = [p \in Plates |-> [inFlight |-> FALSE, submission |-> 0]]
  /\ at = 0 /\ written = [p \in Plates |-> Nothing]
  /\ count = [presented |-> 0, dropped |-> 0, starved |-> 0]
  /\ policy = [frames |-> 0, drops |-> 0, repeatRun |-> 0]
  /\ copies = <<>> /\ content = [s \in Slots |-> Nothing]
  /\ jobs = {} /\ shown = Nothing

Goes(place) == pc' = place
-----------------------------------------------------------------------------
(* The loop. *)

\* x over d converted to a whole number, from a quotient or product of doubles:
\* what should be whole may come out just below, and loses one.
Truncations(x, d) ==
  LET whole == x \div d
  IN  IF x > 0 /\ x % d = 0 THEN {whole - 1, whole} ELSE {whole}

\* The frame that is due at tick t: elapsed / period.
Dues(t) == Truncations(t * Periods, Span)

\* Mutant: the period is cut to ticks before the product, and the loss adds up.
MomentsOfWholePeriods(f) == {f * (Span \div Periods)}

\* The tick frame f is slept for: period * frame, cast to the clock's duration.
Moments(f) == Truncations(f * Span, Periods)

\* Mutant: the frames past the last are counted too.
LatePastTheLast(due) == due - frame

Late(due) == Least(due, frames) - frame

\* A frame arrived in time; n frames in a row did not.
onFrame == [policy EXCEPT !.frames = @ + 1, !.repeatRun = 0]

onDrop(n) == [policy EXCEPT !.drops = @ + n, !.repeatRun = @ + n]

\* What the clock has passed is dropped.
Drops(due) ==
  /\ due > frame
  /\ frame' = due
  /\ count' = [count EXCEPT !.dropped = @ + Late(due)]
  /\ policy' = onDrop(Late(due))

OnTime(due) == due <= frame /\ UNCHANGED <<frame, count, policy>>

Top ==
  /\ pc = "top" /\ frame < frames
  /\ \E due \in Dues(now) : Drops(due) \/ OnTime(due)
  /\ Goes(IF frame' < frames THEN "begin" ELSE "done")
  /\ UNCHANGED <<vars, now, shown, ring, copied, jobs>>

\* The condition of the loop.
Done ==
  /\ pc = "top" /\ frame >= frames
  /\ Goes("done")
  /\ UNCHANGED <<vars, loop, ring, copied, jobs>>

Begin ==
  /\ pc = "begin"
  /\ begin(frame % kSlots)
  /\ Goes("acquire")
  /\ UNCHANGED <<loop, ring, copied, jobs>>

\* Begin waits.  Nothing is copied or run inside sync either: it ends when
\* both queues are empty.
Waits ==
  /\ BeginLooks \/ BeginSyncs \/ (copies = <<>> /\ BeginMarks)
  /\ UNCHANGED player

\* acquire: still being read.
Busy == plates[at].inFlight /\ plates[at].submission > reported

Acquire ==
  /\ pc = "acquire" /\ context /\ ~Busy
  /\ plates' = [plates EXCEPT ![at].inFlight = FALSE]
  /\ Goes("decode")
  /\ UNCHANGED <<loop, at, written, copied, jobs>>

Starves ==
  /\ pc = "acquire" /\ context /\ Busy
  /\ count' = [count EXCEPT !.starved = @ + 1]
  /\ Goes("render")
  /\ UNCHANGED <<now, frame, policy, shown, ring, copied, jobs>>

Decode ==
  /\ pc = "decode"
  /\ written' = [written EXCEPT ![at] = frame]
  /\ Goes("upload")
  /\ UNCHANGED <<vars, loop, plates, at, copied, jobs>>

Upload ==
  /\ pc = "upload"
  /\ copies' = Append(copies, [plate |-> at, slot |-> current, behind |-> accepted])
  /\ Goes("commit")
  /\ UNCHANGED <<vars, loop, ring, content, jobs>>

\* Mutant: the submission before the one that will follow.
CommittedToLast == submitted

Committed == submitted + 1

PlateAfter(p) == (p + 1) % (kSlots + 1)

Commit ==
  /\ pc = "commit"
  /\ plates' = [plates EXCEPT ![at] = [inFlight |-> TRUE, submission |-> Committed]]
  /\ at' = PlateAfter(at)
  /\ Goes("render")
  /\ UNCHANGED <<vars, loop, written, copied, jobs>>

\* The picture of this frame is on its way to the slot, or the frame starved.
Uploaded == \E p \in Plates : written[p] = frame

Dispatches ==
  /\ pc = "render" /\ CanDispatch
  /\ Accept(framed)
  /\ jobs' = IF Uploaded
             THEN jobs \cup {[num |-> accepted', slot |-> current, frame |-> frame]}
             ELSE jobs
  /\ UNCHANGED <<arenas, loop, pc, ring, copied>>

\* render returns.
Ended ==
  /\ pc = "render"
  /\ end
  /\ count' = [count EXCEPT !.presented = @ + 1]
  /\ policy' = onFrame
  /\ shown' = frame
  /\ frame' = frame + 1
  /\ Goes("sleep")
  /\ UNCHANGED <<now, ring, copied, jobs>>

Sleeps ==
  /\ pc = "sleep" /\ \E tick \in Moments(frame) : now >= tick
  /\ Goes("top")
  /\ UNCHANGED <<vars, loop, ring, copied, jobs>>
-----------------------------------------------------------------------------
(* The clock, the device and other callers of the pool. *)

Tick ==
  /\ now < MaxClock
  /\ now' = now + 1
  /\ UNCHANGED <<vars, frame, count, policy, shown, pc, ring, copied, jobs>>

\* The oldest copy, once the dispatches before it are done.
Copies ==
  /\ copies # <<>> /\ Head(copies).behind <= finished
  /\ content' = [content EXCEPT ![Head(copies).slot] = written[Head(copies).plate]]
  /\ copies' = Tail(copies)
  /\ UNCHANGED <<vars, loop, pc, ring, jobs>>

\* Mutant: the compute stream does not wait for the copies.
CopiedBeforeOrNot(num) == TRUE

\* The copies that were queued before dispatch num are done.
CopiedBefore(num) == \A i \in 1 .. Len(copies) : copies[i].behind >= num

Finishes ==
  /\ Finish /\ CopiedBefore(finished')
  /\ jobs' = {j \in jobs : j.num # finished'}
  /\ UNCHANGED <<arenas, loop, pc, ring, copied>>

OtherCallers ==
  /\ \/ CanDispatch /\ (Accept({}) \/ Refuse)
     \/ \E k \in 1 .. finished : Report(k)
     \/ phase # "syncing" /\ (Reclaim \/ (copies = <<>> /\ Mark))
  /\ UNCHANGED <<arenas, player>>

Loop ==
  \/ Top \/ Done \/ Begin \/ Waits \/ Acquire \/ Starves \/ Decode \/ Upload \/ Commit
  \/ Dispatches \/ Ended \/ Sleeps

PlayerNext == Loop \/ Tick \/ Copies \/ Finishes \/ OtherCallers

PlayerSpec == PlayerInit /\ [][PlayerNext]_pvars

\* The thread runs on, and render returns; time passes; the device does what it
\* was given.  The reporter need never report.
FairPlayer ==
  /\ PlayerSpec
  /\ WF_pvars(Top \/ Done \/ Begin \/ Acquire \/ Starves \/ Decode \/ Upload \/ Commit
              \/ Ended \/ Sleeps)
  /\ WF_pvars(phase = "begun" /\ Waits)
  /\ WF_pvars(phase = "waiting" /\ BeginSyncs /\ Waits)
  /\ WF_pvars(phase = "syncing" /\ Waits)
  /\ WF_pvars(Tick) /\ WF_pvars(Copies) /\ WF_pvars(Finishes)
-----------------------------------------------------------------------------
PlayerTypeOK ==
  /\ TypeOK
  /\ now \in Nat /\ frame \in Nat /\ shown \in Nat \cup {Nothing}
  /\ pc \in {"top", "begin", "acquire", "decode", "upload", "commit", "render", "sleep", "done"}
  /\ plates \in [Plates -> [inFlight : BOOLEAN, submission : Nat]] /\ at \in Plates
  /\ count \in [presented : Nat, dropped : Nat, starved : Nat]
  /\ policy \in [frames : Nat, drops : Nat, repeatRun : Nat]
  /\ copies \in Seq([plate : Plates, slot : Slots, behind : Nat])
  /\ written \in [Plates -> Nat \cup {Nothing}]
  /\ content \in [Slots -> Nat \cup {Nothing}]
  /\ jobs \subseteq [num : Nat, slot : Slots, frame : Nat]

\* The decoder never writes a plate that a queued upload is yet to read
\* ("still being read", hostring.h), although the plate is committed to one
\* count and asked for by another, and others dispatch in between.
PlateKept == pc = "decode" => \A i \in 1 .. Len(copies) : copies[i].plate # at

\* A dispatch of a frame reads the picture that was decoded for that frame:
\* neither plate nor image was written over on the way.
PictureKept ==
  \A j \in jobs : CopiedBefore(j.num) /\ finished + 1 = j.num => content[j.slot] = j.frame

\* Every frame up to where the loop is was presented or dropped, once, and the
\* policy has counted the same, down to how many have been missing in a row.
EveryFrameOnce ==
  /\ count.presented + count.dropped = Least(frame, frames)
  /\ policy.frames = count.presented /\ policy.drops = count.dropped
  /\ policy.repeatRun = Least(frame, frames) - (shown + 1)

\* "The clock is the truth" (player.h:5), to a tick and however far the run has
\* come.  The moment slept for and the frame that is due are rounded apart, by a
\* product and by a quotient, and both may fall short: still, when the loop
\* turns to a frame its moment is at most a tick ahead and the next frame's has
\* not passed, and the run does not end more than a tick before its time.
OnTheClock ==
  [][pc = "top" /\ pc' # "top" =>
       /\ frame' * Span <= (now + 1) * Periods
       /\ pc' = "begin" => now * Periods <= (frame' + 1) * Span]_pvars

\* The run ends, whatever the backend refuses or does not report.
RunEnds == <>(pc = "done")
-----------------------------------------------------------------------------
\* Why these hold.

\* Once it has slept, the loop is at most a tick ahead of the clock.
TickAhead == pc # "sleep" => frame * Span <= (now + 1) * Periods

\* Where the loop is says whether the slot is open and a frame is due.
LoopInv ==
  /\ pc \in {"decode", "upload", "commit", "render"} => phase = "open"
  /\ pc \in {"begin", "acquire", "decode", "upload", "commit", "render"} => frame < frames
  /\ shown < frame /\ shown < frames

\* A copy that is not done holds back every dispatch queued after it, so what
\* was reported is not past it; its plate is committed to a later number in
\* either count, or is about to be.
CopiesInv ==
  \A i \in 1 .. Len(copies) :
    LET c == copies[i]
    IN  /\ finished <= c.behind /\ c.behind <= accepted
        /\ \/ plates[c.plate].inFlight /\ c.behind < plates[c.plate].submission
           \/ pc = "commit" /\ c.plate = at
        /\ pc \in {"decode", "upload"} => c.plate # at

PlayerInv ==
  IInv /\ PlayerTypeOK /\ LoopInv /\ CopiesInv /\ EveryFrameOnce /\ TickAhead

\* Dispatch num is to find picture f in slot s: the last copy to the slot that it
\* waits for brings it, or none is left and it is there.
OnItsWay(queue, from, there, s, f, num) ==
  LET mine == {i \in 1 .. Len(queue) : queue[i].slot = s /\ queue[i].behind < num}
  IN  /\ mine = {} => there[s] = f
      /\ \A i \in mine : (\A k \in mine : k <= i) => from[queue[i].plate] = f

\* A picture that was decoded is on its way from then until it was read.
PictureInv ==
  /\ \A j \in jobs : /\ \E w \in queued : w.num = j.num
                     /\ OnItsWay(copies, written, content, j.slot, j.frame, j.num)
  /\ \A p \in Plates : written[p] <= frame
  /\ pc \notin {"upload", "commit", "render"} => \A p \in Plates : written[p] < frame
  /\ pc = "upload" => written[at] = frame
  /\ pc = "commit" \/ (pc = "render" /\ Uploaded)
       => OnItsWay(copies, written, content, current, frame, accepted + 1)
=============================================================================

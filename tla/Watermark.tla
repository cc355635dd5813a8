----------------------------- MODULE Watermark ------------------------------
(***************************************************************************)
(* What PooledDevice promises those who reuse memory by number: dispatches *)
(* are numbered, completed_ says how far the device has come, and no work  *)
(* at or below it is still queued.  Pool is shown to implement it; the     *)
(* arenas and the player are built on it.                                  *)
(*                                                                         *)
(* Two counts run side by side.  The pool numbers every dispatch, also one *)
(* the backend refuses; the backend, and the handlers that report for it,  *)
(* number what was taken.                                                  *)
(***************************************************************************)
EXTENDS Integers

VARIABLES
  submitted,   \* submitted_: dispatches numbered by the pool
  completed,   \* completed_: the mark
  queued,      \* work the device has not finished
  accepted,    \* dispatches the backend took
  finished,    \* how many of those are done
  reported     \* completedSubmissions()

numbers == <<submitted, completed, queued, accepted, finished, reported>>

Later(a, b) == IF a > b THEN a ELSE b

Init ==
  /\ submitted = 0 /\ completed = 0 /\ queued = {}
  /\ accepted = 0 /\ finished = 0 /\ reported = 0

Accept(U) ==
  /\ submitted' = submitted + 1
  /\ accepted' = accepted + 1
  /\ queued' = queued \cup {[num |-> accepted', at |-> submitted', uses |-> U]}
  /\ UNCHANGED <<completed, finished, reported>>

Refuse ==
  /\ submitted' = submitted + 1
  /\ UNCHANGED <<completed, queued, accepted, finished, reported>>

Oldest(w) == w \in queued /\ \A v \in queued : w.num <= v.num

Finish ==
  \E w \in queued :
    /\ Oldest(w)
    /\ queued' = queued \ {w} /\ finished' = w.num
    /\ UNCHANGED <<submitted, completed, accepted, reported>>

Report(k) ==
  /\ reported < k /\ k <= finished
  /\ reported' = k
  /\ UNCHANGED <<submitted, completed, queued, accepted, finished>>

Published == Later(reported, completed)

\* reclaim: what the handlers have published.
Reclaim ==
  /\ completed' = Published
  /\ UNCHANGED <<submitted, queued, accepted, finished, reported>>

\* sync: everything numbered is done, once the device is idle.
Mark ==
  /\ queued = {}
  /\ completed' = Later(reported, submitted)
  /\ UNCHANGED <<submitted, queued, accepted, finished, reported>>

\* A step that takes work may say it touches anything.
Next ==
  \/ \E w \in queued' : Accept(w.uses)
  \/ Refuse \/ Finish \/ Reclaim \/ Mark
  \/ \E k \in 1 .. finished : Report(k)

Spec == Init /\ [][Next]_numbers
-----------------------------------------------------------------------------
\* The numbers, and why the mark can be trusted: the backend's lag the pool's,
\* so a number that was reported is below whatever is queued in both.
NumbersInv ==
  /\ submitted \in Nat /\ completed \in Nat /\ accepted \in Nat
  /\ finished \in Nat /\ reported \in Nat
  /\ reported <= finished /\ finished <= accepted
  /\ accepted <= submitted /\ completed <= submitted
  /\ \A w \in queued : /\ w.num \in Nat /\ w.at \in Nat
                       /\ finished < w.num /\ w.num <= accepted /\ w.num <= w.at
                       /\ w.at <= submitted /\ completed < w.at
  /\ \A v, w \in queued : v.num = w.num => v = w
=============================================================================

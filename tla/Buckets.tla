------------------------------ MODULE Buckets ------------------------------
(***************************************************************************)
(* The size classes of the pooled device (src/pool.cpp): bucketFor rounds  *)
(* a byte count up to a class, bucketBytes gives the class its size.  Four *)
(* classes to a doubling, from one page to MaxShift.                       *)
(***************************************************************************)
EXTENDS Integers

CONSTANTS
  MinShift,   \* log2 of the smallest class: kMinBucketShift
  MaxShift,   \* log2 of the largest: kMaxBucketShift
  Steps       \* classes per doubling: kStepsPerDouble

\* size_t{1} << k
Bit[k \in Nat] == IF k = 0 THEN 1 ELSE 2 * Bit[k - 1]

ASSUME BucketsAssumption ==
  /\ MinShift \in Nat /\ MaxShift \in Nat /\ MinShift < MaxShift
  /\ Steps \in Nat \ {0}
  /\ Bit[MinShift] % Steps = 0     \* a step of the smallest doubling is whole

AtMost(a, b) == IF a < b THEN a ELSE b

kBucketCount == (MaxShift - MinShift) * Steps + 1

Buckets == 0 .. kBucketCount - 1

\* std::bit_width(n): how many bits n takes.
bit_width(n) == CHOOSE k \in 0 .. n : n < Bit[k] /\ (k > 0 => Bit[k - 1] <= n)

\* As bucketFor, but the quarter is found by rounding down.
bucketForRoundingDown(bytes) ==
  LET shift  == bit_width(bytes - 1) - 1
      floor  == Bit[shift]
      within == (bytes - floor) \div (floor \div Steps)
  IN  IF bytes <= Bit[MinShift] THEN 0
      ELSE AtMost((shift - MinShift) * Steps + within, kBucketCount - 1)

\* As bucketFor, but the doubling is looked up for bytes and not bytes - 1:
\* a power of two lands one quarter up.
bucketForWidthOfBytes(bytes) ==
  LET shift  == bit_width(bytes) - 1
      floor  == Bit[shift]
      step   == floor \div Steps
      within == (bytes - floor + step) \div step
  IN  IF bytes <= Bit[MinShift] THEN 0
      ELSE AtMost((shift - MinShift) * Steps + within, kBucketCount - 1)

bucketFor(bytes) ==
  LET shift  == bit_width(bytes - 1) - 1
      floor  == Bit[shift]
      step   == floor \div Steps
      within == (bytes - floor + step - 1) \div step
  IN  IF bytes <= Bit[MinShift] THEN 0
      ELSE AtMost((shift - MinShift) * Steps + within, kBucketCount - 1)

\* As bucketBytes, with the powers of two the quarters replaced.
bucketBytesDoubling(bucket) == Bit[bucket \div Steps + MinShift]
                                 * (IF bucket % Steps = 0 THEN 1 ELSE 2)

bucketBytes(bucket) ==
  LET floor == Bit[bucket \div Steps + MinShift]
  IN  floor + (floor \div Steps) * (bucket % Steps)

\* What a request is charged, and what alloc refuses (`size < bytes`).
Served(bytes) == bucketBytes(bucketFor(bytes))
Refused(bytes) == Served(bytes) < bytes
=============================================================================

-------------------------- MODULE EngineFunctions --------------------------
(***************************************************************************)
(* What the engine computes and looks up: every byte count up to Limit of  *)
(* the size classes (src/pool.cpp), dispatches of every number of buffers  *)
(* and uniform bytes up to Count (include/gpe/args.h), and, beside the     *)
(* first of these, everything that bundles may do to the names of kernels  *)
(* (src/kernel_registry.cpp).                                              *)
(***************************************************************************)
EXTENDS Buckets, Args, Kernels

CONSTANTS
  Limit,   \* the largest request asked
  Count    \* the most buffers and the most uniform bytes

ASSUME EngineAssumption == Limit \in Nat \ {0} /\ Count \in Nat

VARIABLES
  request,     \* the argument of alloc
  dispatched   \* what was put in an Args

engineVars == <<request, dispatched, kernelVars>>

NoArgs == [buffers |-> <<>>, elements |-> <<>>, uniforms |-> <<>>]

EngineInit == request \in 1 .. Limit /\ dispatched = NoArgs /\ KernelsInit

\* Every handle, element size and byte is another.
Filled(buffers, uniforms) ==
  [buffers  |-> [i \in 1 .. buffers |-> i],
   elements |-> [i \in 1 .. buffers |-> 100 + i],
   uniforms |-> [i \in 1 .. uniforms |-> 200 + i]]

EngineNext ==
  \/ /\ request = Limit
     /\ dispatched' \in {Filled(b, u) : b, u \in 0 .. Count}
     /\ UNCHANGED <<request, kernelVars>>
  \/ request = 1 /\ KernelsNext /\ UNCHANGED <<request, dispatched>>

EngineSpec == EngineInit /\ [][EngineNext]_engineVars

\* A request takes the smallest class that holds it: the classes of bucketFor
\* and the sizes of bucketBytes agree about where one ends.  alloc refuses only
\* what no class can hold (pool.cpp:233).
TakesTheLeastClass ==
  /\ \A b \in Buckets : bucketBytes(b) >= request => b >= bucketFor(request)
  /\ Refused(request) <=> request > bucketBytes(kBucketCount - 1)

\* "No size is ever charged more than a quarter over" (pool.cpp:39), above the
\* page below which everything is one class.  pool.h:85-91 is older: it has the
\* classes powers of two, and 135 MiB take 256 where they take 160.
AtMostAQuarterOver ==
  request > Bit[MinShift] /\ ~Refused(request)
    => Steps * Served(request) <= (Steps + 1) * request

\* reclaimLocked files a buffer under bucketFor of its own size: the class it
\* came from, or the next alloc of that class would not find it.
FiledWhereItCameFrom ==
  ~Refused(request) => bucketFor(Served(request)) = bucketFor(request)

\* The backend's own handles for the pool's.
Backing == [h \in 1 .. Count |-> 1000 + h]

\* What the backend reads of a dispatch is what the client put in, with the
\* pool's handles replaced by the backend's own.  Of a blob that was cut short,
\* or whose counts did not fit the header, it reads nothing: "a backend that
\* trusted it would read past the end" (args.h:118).
BlobsReadBack ==
  LET blob == Translated(Built(dispatched), Backing)
      fits == Len(dispatched.buffers) < WordMax /\ Len(dispatched.uniforms) < WordMax
      read == [dispatched EXCEPT !.buffers = [i \in DOMAIN @ |-> Backing[@[i]]]]
  IN  /\ Read(blob) = IF fits
                      THEN [valid    |-> TRUE,         buffers  |-> read.buffers,
                            elements |-> read.elements, uniforms |-> read.uniforms]
                      ELSE Invalid
      /\ fits => \A n \in 0 .. Len(blob) - 1 : Read(SubSeq(blob, 1, n)) = Invalid
=============================================================================

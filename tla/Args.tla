-------------------------------- MODULE Args --------------------------------
(***************************************************************************)
(* The blob of a dispatch (include/gpe/args.h): what a client builds, what *)
(* the pool does to the handles in it on the way, and what a backend reads *)
(* back.                                                                   *)
(*                                                                         *)
(* A blob is a sequence of bytes.  A byte is a pair: a value and which     *)
(* byte of it this is.                                                     *)
(***************************************************************************)
EXTENDS Integers, Sequences

CONSTANTS
  WordMax,      \* a uint32_t is below it: 2 ^ 32
  WordBytes,    \* sizeof(uint32_t)
  HandleBytes   \* sizeof(BufferId)

ASSUME ArgsAssumption ==
  WordMax \in Nat \ {0} /\ WordBytes \in Nat \ {0} /\ HandleBytes \in Nat \ {0}

\* The bytes of an array, each value of n bytes.
Bytes(values, n) ==
  [i \in 1 .. n * Len(values) |-> <<values[(i - 1) \div n + 1], (i - 1) % n>>]

\* The values of an array of n bytes each, from byte `from' on; a value is known
\* by its first byte.
Values(blob, from, count, n) == [i \in 1 .. count |-> blob[from + n * (i - 1)][1]]

\* static_cast<uint32_t>
Word(n) == n % WordMax

Header == 2 * WordBytes

\* Args::blob.  Each buffer came with the size of its elements.
Built(args) ==
  Bytes(<<Word(Len(args.buffers)), Word(Len(args.uniforms))>>, WordBytes)
    \o Bytes(args.buffers, HandleBytes) \o Bytes(args.elements, WordBytes)
    \o Bytes(args.uniforms, 1)

Invalid == [valid |-> FALSE, buffers |-> <<>>, elements |-> <<>>, uniforms |-> <<>>]

\* Mutant: a blob that is longer than it says is read too.
MeasuresAtLeast(blob, count, bytes) ==
  Header + count * HandleBytes + count * WordBytes + bytes <= Len(blob)

Measures(blob, count, bytes) ==
  Header + count * HandleBytes + count * WordBytes + bytes = Len(blob)

ReadCounted(blob, count, bytes) ==
  LET elements == Header + count * HandleBytes
      uniforms == elements + count * WordBytes
  IN  IF Measures(blob, count, bytes)
      THEN [valid    |-> TRUE,
            buffers  |-> Values(blob, Header + 1, count, HandleBytes),
            elements |-> Values(blob, elements + 1, count, WordBytes),
            uniforms |-> Values(blob, uniforms + 1, bytes, 1)]
      ELSE Invalid

\* Args::read
Read(blob) ==
  IF Len(blob) < Header THEN Invalid
  ELSE ReadCounted(blob, blob[1][1], blob[WordBytes + 1][1])

\* PooledDevice::dispatch: the handles of a blob it can read, and nothing else,
\* are replaced by the backend's.
Translated(blob, native) ==
  LET count == Len(Read(blob).buffers)
  IN  [i \in 1 .. Len(blob) |->
        IF i \in Header + 1 .. Header + count * HandleBytes
        THEN <<native[blob[i][1]], blob[i][2]>>
        ELSE blob[i]]
=============================================================================

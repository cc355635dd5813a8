---------------------------- MODULE DisplayProofs ----------------------------
(***************************************************************************)
(* That the display holds what it names and shows whole pictures: for any  *)
(* sizes, buffers, names, bundles and widths.  Of FunctionsProofs it takes *)
(* that blobs are read back as they were built, and what keeps kernels.    *)
(***************************************************************************)
EXTENDS Display, FunctionsProofs

-----------------------------------------------------------------------------
(* What the pass holds *)

LEMMA SizesArePositive ==
  ASSUME NEW s \in Sizes
  PROVE  /\ s \in Nat \X Nat /\ s[1] \in Nat \ {0} /\ s[2] \in Nat \ {0}
         /\ TargetBytes(s) \in Nat \ {0}
         /\ Class(TargetBytes(s)) \in Nat /\ Class(TargetBytes(s)) >= TargetBytes(s)
<1>1. s \in Nat \X Nat /\ s[1] \in Nat \ {0} /\ s[2] \in Nat \ {0}
  BY SizesAssumption
<1>2. s[1] * s[2] \in Nat \ {0}
  BY <1>1
<1>3. TargetBytes(s) \in Nat \ {0}
  BY <1>2 DEF TargetBytes, PixelBytes
<1>4. TargetBytes(s) \in Asked
  BY DEF Asked
<1> QED BY <1>1, <1>3, <1>4, DisplayAssumption

LEMMA SampleIsPositive == Class(SampleBytes) \in Nat \ {0}
<1>1. SampleBytes \in Asked /\ SampleBytes = 16
  BY DEF Asked, SampleBytes
<1> QED BY <1>1, DisplayAssumption

LEMMA LatticesArePositive ==
  ASSUME NEW n \in LutSizes
  PROVE  /\ n \in Nat \ {0} /\ LatticeBytes(n) \in Nat \ {0}
         /\ Class(LatticeBytes(n)) \in Nat /\ Class(LatticeBytes(n)) >= LatticeBytes(n)
<1>1. n \in Nat \ {0}
  BY DisplayAssumption
<1>2. n * n \in Nat \ {0}
  BY <1>1
<1>3. n * n * n \in Nat \ {0}
  BY <1>1, <1>2
<1>4. LatticeBytes(n) \in Nat \ {0}
  BY <1>3 DEF LatticeBytes, SampleBytes
<1>5. LatticeBytes(n) \in Asked
  BY DEF Asked
<1> QED BY <1>1, <1>4, <1>5, DisplayAssumption

LEMMA ReleasedIs ==
  ASSUME NEW held \in [Buffers -> Nat], NEW b
  PROVE  /\ Released(held, b) \in [Buffers -> Nat]
         /\ \A c \in Buffers : Released(held, b)[c] = IF c = b THEN 0 ELSE held[c]
  BY DEF Released

LEMMA AllocedIs ==
  ASSUME NEW held \in [Buffers -> Nat], NEW b \in Buffers, NEW n, Class(n) \in Nat
  PROVE  /\ Alloced(held, b, n) \in [Buffers -> Nat]
         /\ \A c \in Buffers : Alloced(held, b, n)[c] = IF c = b THEN Class(n) ELSE held[c]
  BY DEF Alloced

Holds == bytes \in [Buffers -> Nat] /\ HoldsExactly

LEMMA HalfIs ==
  ASSUME Holds, NEW s \in Sizes, NEW b \in Free(Without(bytes, 0))
  PROVE  /\ b \in Buffers /\ b # targets[1] /\ b # lut
         /\ Half(s, b) \in [Buffers -> Nat]
         /\ \A c \in Buffers : Half(s, b)[c] =
              IF c = b THEN Class(TargetBytes(s))
              ELSE IF c \in {targets[0], targets[1]} THEN 0 ELSE bytes[c]
<1> DEFINE first == Without(bytes, 0)
<1>1. /\ first \in [Buffers -> Nat]
      /\ \A c \in Buffers : first[c] = IF c = targets[0] THEN 0 ELSE bytes[c]
  BY ReleasedIs DEF Holds, Without
<1>2. b \in Buffers /\ first[b] = 0
  BY DEF Free
<1>3. b # targets[1] /\ b # lut
  BY <1>1, <1>2, DisplayAssumption DEF Holds, HoldsExactly, Live
<1> DEFINE second == Alloced(first, b, TargetBytes(s))
<1>4. /\ second \in [Buffers -> Nat]
      /\ \A c \in Buffers : second[c] = IF c = b THEN Class(TargetBytes(s)) ELSE first[c]
  BY <1>1, <1>2, AllocedIs, SizesArePositive
<1>5. Half(s, b) = Released(second, targets[1])
  BY DEF Half, Without
<1> HIDE DEF first, second
<1>6. /\ Half(s, b) \in [Buffers -> Nat]
      /\ \A c \in Buffers : Half(s, b)[c] = IF c = targets[1] THEN 0 ELSE second[c]
  BY <1>4, <1>5, ReleasedIs
<1> QED BY <1>1, <1>2, <1>3, <1>4, <1>6

LEMMA WholeIs ==
  ASSUME Holds, NEW s \in Sizes, NEW b, NEW c, CanHave(s, b, c)
  PROVE  /\ b \in Buffers /\ c \in Buffers /\ b # c /\ b # lut /\ c # lut
         /\ Whole(s, b, c) \in [Buffers -> Nat]
         /\ \A d \in Buffers : Whole(s, b, c)[d] =
              IF d \in {b, c} THEN Class(TargetBytes(s))
              ELSE IF d \in {targets[0], targets[1]} THEN 0 ELSE bytes[d]
<1>1. b \in Free(Without(bytes, 0)) /\ c \in Free(Half(s, b))
  BY DEF CanHave
<1>2. /\ b \in Buffers /\ b # targets[1] /\ b # lut
      /\ Half(s, b) \in [Buffers -> Nat]
      /\ \A d \in Buffers : Half(s, b)[d] =
           IF d = b THEN Class(TargetBytes(s))
           ELSE IF d \in {targets[0], targets[1]} THEN 0 ELSE bytes[d]
  BY <1>1, HalfIs
<1>3. c \in Buffers /\ Half(s, b)[c] = 0
  BY <1>1 DEF Free
<1>4. c # b /\ c # lut
  BY <1>2, <1>3, SizesArePositive, DisplayAssumption DEF Holds, HoldsExactly, Live
<1>5. /\ Whole(s, b, c) \in [Buffers -> Nat]
      /\ \A d \in Buffers :
           Whole(s, b, c)[d] = IF d = c THEN Class(TargetBytes(s)) ELSE Half(s, b)[d]
  BY <1>2, <1>3, AllocedIs, SizesArePositive DEF Whole
<1> QED BY <1>2, <1>3, <1>4, <1>5
-----------------------------------------------------------------------------
(* Every step of the pass *)

\* What a device has loaded it keeps.
LEMMA KernelsGrow ==
  ASSUME KernelsTypeOK,
         KernelsNext \/ UNCHANGED kernelVars \/ (\E n \in Names : \E id : Loads(n, id))
  PROVE  /\ Len(kernels') \in Nat /\ Len(kernels) \in Nat /\ Len(kernels') >= Len(kernels)
         /\ \A id \in 1 .. Len(kernels) : kernels'[id] = kernels[id]
<1>1. kernels \in Seq([name : Names, blob : Bundles \cup {Ours}])
  BY DEF KernelsTypeOK
<1>3. ASSUME NEW n \in Names, lookup(n) # NoBlob,
             kernels' = Append(kernels, [name |-> n, blob |-> lookup(n)])
      PROVE  /\ Len(kernels') = Len(kernels) + 1
             /\ \A id \in 1 .. Len(kernels) : kernels'[id] = kernels[id]
  <2>1. [name |-> n, blob |-> lookup(n)] \in [name : Names, blob : Bundles \cup {Ours}]
    BY <1>3 DEF lookup, KernelsTypeOK
  <2> QED BY <1>1, <1>3, <2>1
<1>4. \/ UNCHANGED kernels
      \/ \E n \in Names :
           lookup(n) # NoBlob /\ kernels' = Append(kernels, [name |-> n, blob |-> lookup(n)])
  BY DEF KernelsNext, kernelVars, Loads, OpensBundle, ClosesBundle, registerKernel,
     unregisterKernel
<1>5. Len(kernels) \in Nat
  BY <1>1, LenProperties
<1>6. CASE UNCHANGED kernels
  BY <1>5, <1>6
<1>7. CASE \E n \in Names :
             lookup(n) # NoBlob /\ kernels' = Append(kernels, [name |-> n, blob |-> lookup(n)])
  <2>1. Len(kernels') = Len(kernels) + 1
        /\ \A id \in 1 .. Len(kernels) : kernels'[id] = kernels[id]
    BY <1>3, <1>7
  <2> QED BY <1>5, <2>1
<1> QED BY <1>4, <1>6, <1>7

\* Loading "display" gives the build's own.
LEMMA LoadsOurs ==
  ASSUME KernelsInv, NEW id, Loads("display", id)
  PROVE  /\ KernelsInv' /\ Len(kernels') \in Nat /\ id \in 1 .. Len(kernels')
         /\ kernels'[id] = [name |-> "display", blob |-> Ours]
<1>1. "display" \in Names /\ "display" \in Compiled
  BY KernelsAssumption, DisplayAssumption
<1>2. KernelsInv'
  BY <1>1, KernelsStep
<1>3. kernels \in Seq([name : Names, blob : Bundles \cup {Ours}])
  BY DEF KernelsInv, KernelsTypeOK
<1>4. /\ kernels' \in Seq([name : Names, blob : Bundles \cup {Ours}])
      /\ \A i \in 1 .. Len(kernels') : kernels'[i].name \in Compiled => kernels'[i].blob = Ours
  BY <1>2 DEF KernelsInv, KernelsTypeOK, NeverShadowed
<1>5. lookup("display") = Ours
  BY <1>1 DEF lookup
<1>6. id \in 1 .. Len(kernels') /\ kernels'[id].name = "display"
  <2>1. CASE id \in Cached("display") /\ UNCHANGED kernels
    BY <2>1, <1>3 DEF Cached
  <2>2. CASE /\ kernels' = Append(kernels, [name |-> "display", blob |-> lookup("display")])
             /\ id = Len(kernels')
    <3>1. [name |-> "display", blob |-> lookup("display")]
            \in [name : Names, blob : Bundles \cup {Ours}]
      BY <1>1, <1>5
    <3>2. Len(kernels') = Len(kernels) + 1
          /\ kernels'[Len(kernels) + 1] = [name |-> "display", blob |-> lookup("display")]
      BY <1>3, <2>2, <3>1
    <3> QED BY <1>3, <2>2, <3>2, LenProperties
  <2> QED BY <2>1, <2>2 DEF Loads
<1>7. kernels'[id] \in [name : Names, blob : Bundles \cup {Ours}]
  BY <1>4, <1>6, ElementOfSeq
<1>8. kernels'[id].name = "display" /\ kernels'[id].blob = Ours
  BY <1>1, <1>4, <1>6
<1>9. kernels'[id] = [name |-> "display", blob |-> Ours]
  BY <1>7, <1>8
<1>10. Len(kernels') \in Nat
  BY <1>4, LenProperties
<1> QED BY <1>2, <1>6, <1>9, <1>10

\* What is true of the pass's own variables.
PassFacts == PassTypes /\ HoldsExactly /\ LutMatches /\ ReadyInv

\* setLut: the old lattice goes, another may come.
LEMMA SetLutKeeps ==
  ASSUME PassFacts, SetsLut, UNCHANGED kernels
  PROVE  PassFacts'
<1> USE DEF PassFacts, PassTypes
<1> DEFINE held == Released(bytes, lut)
<1>1. /\ held \in [Buffers -> Nat]
      /\ \A c \in Buffers : held[c] = IF c = lut THEN 0 ELSE bytes[c]
  BY ReleasedIs
<1>2. UNCHANGED <<kernel, targets, at, max, host, prepared, frame, handed>>
  BY DEF SetsLut, SetLutLeavesNone, SetLut
<1>3. CASE SetLutLeavesNone
  <2>1. bytes' = held /\ lut' = NoBuffer /\ lutSize' = 0
    BY <1>3 DEF SetLutLeavesNone, NoLutSize
  <2>2. PassTypes'
    BY <1>1, <1>2, <2>1
  <2>3. HoldsExactly' /\ LutMatches'
    BY <1>1, <1>2, <2>1, DisplayAssumption DEF HoldsExactly, LutMatches, Live
  <2>4. ReadyInv'
    BY <1>1, <1>2, <2>1, DisplayAssumption DEF HoldsExactly, ReadyInv, Live
  <2> QED BY <2>2, <2>3, <2>4
<1>4. ASSUME NEW n \in LutSizes, SetLut(n) PROVE PassFacts'
  <2>1. PICK b \in Free(held) : lut' = b /\ bytes' = Alloced(held, b, LatticeBytes(n))
    BY <1>4 DEF SetLut
  <2>2. b \in Buffers /\ held[b] = 0 /\ lutSize' = n
    BY <1>4 DEF Free, SetLut
  <2>3. /\ n \in Nat \ {0} /\ LatticeBytes(n) \in Nat \ {0} /\ Class(LatticeBytes(n)) \in Nat
        /\ Class(LatticeBytes(n)) >= LatticeBytes(n)
    BY LatticesArePositive
  <2>4. /\ bytes' \in [Buffers -> Nat]
        /\ \A c \in Buffers : bytes'[c] = IF c = b THEN Class(LatticeBytes(n)) ELSE held[c]
    <3> HIDE DEF held
    <3>1. held \in [Buffers -> Nat] /\ b \in Buffers /\ Class(LatticeBytes(n)) \in Nat
      BY <1>1, <2>2, <2>3
    <3>2. /\ Alloced(held, b, LatticeBytes(n)) \in [Buffers -> Nat]
          /\ \A c \in Buffers : Alloced(held, b, LatticeBytes(n))[c] =
               IF c = b THEN Class(LatticeBytes(n)) ELSE held[c]
      BY ONLY <3>1 DEF Alloced
    <3> QED BY <2>1, <3>2
  <2>5. PassTypes'
    BY <1>2, <2>1, <2>2, <2>3, <2>4
  <2>6. HoldsExactly'
    BY <1>1, <1>2, <2>1, <2>2, <2>3, <2>4, DisplayAssumption, SMTT(30), ZenonT(30) DEF HoldsExactly, Live
  <2>7. LutMatches'
    BY <2>1, <2>2, <2>3, <2>4 DEF LutMatches, Live
  <2>8. ReadyInv'
    BY <1>1, <1>2, <2>1, <2>2, <2>4, DisplayAssumption, SMTT(30), ZenonT(30) DEF HoldsExactly, ReadyInv, Live
  <2> QED BY <2>5, <2>6, <2>7, <2>8
<1> QED BY <1>3, <1>4 DEF SetsLut

\* What a prepare leaves in any case, and of the kernel.
LEMMA PrepareFrames ==
  ASSUME KernelsInv, PassFacts, DrawsOurs, Prepared
  PROVE  /\ UNCHANGED <<at, lutSize, frame, handed>>
         /\ kernel' \in 0 .. Len(kernels') /\ DrawsOurs' /\ KernelsInv'
<1>1. CASE PrepareFindsNoKernel
  <2>1. UNCHANGED kernelVars /\ kernel' = 0 /\ UNCHANGED <<at, lutSize, frame, handed>>
    BY <1>1 DEF PrepareFindsNoKernel, LoadFails
  <2>2. KernelsInv'
    BY <2>1, KernelsStep
  <2>3. Len(kernels') \in Nat
    BY <2>2, LenProperties DEF KernelsInv, KernelsTypeOK
  <2> QED BY <2>1, <2>2, <2>3 DEF DrawsOurs
<1>2. CASE Prepares
  BY <1>2, LoadsOurs DEF Prepares, DrawsOurs
<1> QED
  BY <1>1, <1>2 DEF Prepared, PrepareLacksFirst, PrepareLacksSecond, PrepareLacksSample, Prepare

LEMMA PrepareKeeps ==
  ASSUME KernelsInv, PassFacts, DrawsOurs, Prepared
  PROVE  PassFacts'
<1> USE DEF PassFacts, PassTypes
<1>1. UNCHANGED <<at, lutSize, frame, handed>> /\ kernel' \in 0 .. Len(kernels')
  BY PrepareFrames
<1>2. Holds
  BY DEF Holds
<1>3. CASE PrepareFindsNoKernel
  <2>1. UNCHANGED <<bytes, targets, max, host, lut>> /\ prepared' = FALSE
    BY <1>3 DEF PrepareFindsNoKernel
  <2> QED BY <1>1, <2>1 DEF HoldsExactly, LutMatches, ReadyInv, Live
<1>4. CASE PrepareLacksFirst
  <2>1. /\ prepared' = FALSE /\ UNCHANGED <<max, host, lut>>
        /\ bytes' = Without(bytes, 0) /\ targets' = Pair(NoBuffer, targets[1])
    BY <1>4 DEF PrepareLacksFirst
  <2>2. /\ bytes' \in [Buffers -> Nat]
        /\ \A c \in Buffers : bytes'[c] = IF c = targets[0] THEN 0 ELSE bytes[c]
    BY <2>1, ReleasedIs DEF Without
  <2>3. /\ targets' \in [{0, 1} -> Buffers \cup {NoBuffer}]
        /\ targets'[0] = NoBuffer /\ targets'[1] = targets[1]
    BY <2>1 DEF Pair
  <2>4. PassTypes' /\ ReadyInv'
    BY <1>1, <2>1, <2>2, <2>3 DEF ReadyInv
  <2>5. HoldsExactly' /\ LutMatches'
    BY <1>1, <2>1, <2>2, <2>3, DisplayAssumption DEF HoldsExactly, LutMatches, Live
  <2> QED BY <2>4, <2>5
<1>5. ASSUME NEW s \in Sizes, PrepareLacksSecond(s) PROVE PassFacts'
  <2>1. PICK b \in Free(Without(bytes, 0)) : bytes' = Half(s, b) /\ targets' = Pair(b, NoBuffer)
    BY <1>5 DEF PrepareLacksSecond
  <2>2. /\ b \in Buffers /\ b # targets[1] /\ b # lut
        /\ bytes' \in [Buffers -> Nat]
        /\ \A c \in Buffers : bytes'[c] =
             IF c = b THEN Class(TargetBytes(s))
             ELSE IF c \in {targets[0], targets[1]} THEN 0 ELSE bytes[c]
    BY <1>2, <2>1, HalfIs
  <2>3. /\ targets' \in [{0, 1} -> Buffers \cup {NoBuffer}]
        /\ targets'[0] = b /\ targets'[1] = NoBuffer
    BY <2>1, <2>2 DEF Pair
  <2>4. prepared' = FALSE /\ UNCHANGED <<max, host, lut>>
    BY <1>5 DEF PrepareLacksSecond
  <2>5. PassTypes' /\ ReadyInv'
    BY <1>1, <2>2, <2>3, <2>4 DEF ReadyInv
  <2>6. Class(TargetBytes(s)) # 0
    BY SizesArePositive
  <2>7. HoldsExactly' /\ LutMatches'
    BY <1>1, <2>2, <2>3, <2>4, <2>6, DisplayAssumption, SMTT(30), ZenonT(30) DEF HoldsExactly, LutMatches, Live
  <2> QED BY <2>5, <2>7
<1>6. ASSUME NEW s \in Sizes, PrepareLacksSample(s) PROVE PassFacts'
  <2>1. PICK b \in Buffers, c \in Buffers :
          CanHave(s, b, c) /\ bytes' = Whole(s, b, c) /\ targets' = Pair(b, c)
    BY <1>6 DEF PrepareLacksSample
  <2>2. /\ b # c /\ b # lut /\ c # lut /\ bytes' \in [Buffers -> Nat]
        /\ \A d \in Buffers : bytes'[d] =
             IF d \in {b, c} THEN Class(TargetBytes(s))
             ELSE IF d \in {targets[0], targets[1]} THEN 0 ELSE bytes[d]
    BY <1>2, <2>1, WholeIs
  <2>3. /\ targets' \in [{0, 1} -> Buffers \cup {NoBuffer}]
        /\ targets'[0] = b /\ targets'[1] = c
    BY <2>1 DEF Pair
  <2>4. /\ prepared' = FALSE /\ UNCHANGED <<max, lut>> /\ lut = NoBuffer
        /\ host' = TargetBytes(s)
    BY <1>6 DEF PrepareLacksSample
  <2>5. TargetBytes(s) \in Nat /\ Class(TargetBytes(s)) # 0
    BY SizesArePositive
  <2>6. PassTypes' /\ ReadyInv'
    BY <1>1, <2>2, <2>3, <2>4, <2>5 DEF ReadyInv
  <2>7. HoldsExactly' /\ LutMatches'
    BY <1>1, <2>2, <2>3, <2>4, <2>5, DisplayAssumption, SMTT(30), ZenonT(30) DEF HoldsExactly, LutMatches, Live
  <2> QED BY <2>6, <2>7
<1>7. ASSUME NEW s \in Sizes, Prepare(s) PROVE PassFacts'
  <2>1. PICK b \in Buffers, c \in Buffers :
          /\ CanHave(s, b, c) /\ targets' = Pair(b, c)
          /\ \/ lut # NoBuffer /\ bytes' = Whole(s, b, c) /\ UNCHANGED lut
             \/ /\ lut = NoBuffer /\ lut' \in Free(Whole(s, b, c))
                /\ bytes' = Alloced(Whole(s, b, c), lut', SampleBytes)
    BY <1>7 DEF Prepare
  <2> DEFINE whole == Whole(s, b, c)
  <2>2. /\ b # c /\ b # lut /\ c # lut /\ whole \in [Buffers -> Nat]
        /\ \A d \in Buffers : whole[d] =
             IF d \in {b, c} THEN Class(TargetBytes(s))
             ELSE IF d \in {targets[0], targets[1]} THEN 0 ELSE bytes[d]
    BY <1>2, <2>1, WholeIs
  <2>3. /\ targets' \in [{0, 1} -> Buffers \cup {NoBuffer}]
        /\ targets'[0] = b /\ targets'[1] = c
    BY <2>1 DEF Pair
  <2>4. prepared' = TRUE /\ host' = TargetBytes(s) /\ max' = s
    BY <1>7 DEF Prepare
  <2>5. /\ s \in Nat \X Nat /\ TargetBytes(s) \in Nat \ {0}
        /\ Class(TargetBytes(s)) \in Nat /\ Class(TargetBytes(s)) >= TargetBytes(s)
    BY SizesArePositive
  <2>6. CASE lut # NoBuffer /\ bytes' = whole /\ UNCHANGED lut
    <3> HIDE DEF whole
    <3>1. PassTypes'
      BY <1>1, <2>2, <2>3, <2>4, <2>5, <2>6
    <3>3. /\ bytes'[b] = Class(TargetBytes(s)) /\ bytes'[c] = Class(TargetBytes(s))
      BY <2>2, <2>6
    <3>4. ReadyInv'
      BY <2>3, <2>4, <2>5, <3>3 DEF ReadyInv, Live
    <3>5. lut \in Live /\ lut \notin {targets[0], targets[1]} /\ bytes'[lut] = bytes[lut]
      BY <2>2, <2>6, DisplayAssumption DEF HoldsExactly, Live
    <3>6. Live' = {b, c, lut}
      BY <2>2, <2>5, <2>6, <3>3, <3>5, SMTT(30), ZenonT(30) DEF HoldsExactly, Live
    <3>2. HoldsExactly' /\ LutMatches'
      BY <1>1, <2>2, <2>3, <2>6, <3>5, <3>6, DisplayAssumption DEF HoldsExactly, LutMatches
    <3> QED BY <3>1, <3>2, <3>4
  <2>7. CASE /\ lut = NoBuffer /\ lut' \in Free(whole)
             /\ bytes' = Alloced(whole, lut', SampleBytes)
    <3> HIDE DEF whole
    <3>1. Class(SampleBytes) \in Nat \ {0} /\ lut' \in Buffers /\ whole[lut'] = 0
      BY <2>7, SampleIsPositive DEF Free
    <3>2. /\ bytes' \in [Buffers -> Nat]
          /\ \A d \in Buffers : bytes'[d] = IF d = lut' THEN Class(SampleBytes) ELSE whole[d]
      <4>1. bytes' = [whole EXCEPT ![lut'] = Class(SampleBytes)]
        BY <2>7 DEF Alloced
      <4> QED BY ONLY <2>2, <3>1, <4>1
    <3>9. whole[b] # 0 /\ whole[c] # 0
      BY <2>2, <2>5, SMTT(30), ZenonT(30)
    <3>3. lut' # b /\ lut' # c
      BY ONLY <3>1, <3>9
    <3>4. lutSize = 0
      BY <2>7, DisplayAssumption DEF LutMatches, Live
    <3>5. PassTypes'
      BY <1>1, <2>3, <2>4, <2>5, <3>1, <3>2
    <3>7. /\ bytes'[b] = Class(TargetBytes(s)) /\ bytes'[c] = Class(TargetBytes(s))
      BY <2>2, <3>2, <3>3
    <3>8. ReadyInv'
      BY <2>3, <2>4, <2>5, <3>7 DEF ReadyInv, Live
    <3>11. \A d \in Buffers : d \notin {b, c} => whole[d] = 0
      BY <2>2, <2>7, DisplayAssumption DEF HoldsExactly, Live
    <3>10. Live' = {b, c, lut'}
      <4>1. bytes'[b] # 0 /\ bytes'[c] # 0
        BY <2>5, <3>7
      <4>2. bytes'[lut'] # 0
        BY <3>1, <3>2
      <4>3. \A d \in Buffers : d \notin {b, c, lut'} => bytes'[d] = 0
        BY <3>2, <3>11
      <4> QED BY ONLY <3>1, <4>1, <4>2, <4>3, b \in Buffers, c \in Buffers DEF Live
    <3>12. HoldsExactly'
      BY <2>2, <2>3, <3>1, <3>3, <3>10, DisplayAssumption, SMTT(30), ZenonT(30) DEF HoldsExactly
    <3>6. HoldsExactly' /\ LutMatches'
      BY <1>1, <3>4, <3>12 DEF LutMatches
    <3> QED BY <3>5, <3>6, <3>8
  <2> QED BY <2>1, <2>6, <2>7
<1> QED BY <1>3, <1>4, <1>5, <1>6, <1>7 DEF Prepared
-----------------------------------------------------------------------------
(* The presenter *)

PresenterFacts == PresenterTypes /\ ShownIsLast

LEMMA PutsKeeps ==
  ASSUME NEW picture \in Pictures, NEW s \in Nat \X Nat, NEW i \in {0, 1},
         NEW ts \in [{0, 1} -> [of : Nat \X Nat, holds : Pictures]],
         commands \in BOOLEAN, Puts(picture, ts, i)
  PROVE  /\ textures' \in [{0, 1} -> [of : Nat \X Nat, holds : Pictures]]
         /\ turn' \in {0, 1} /\ uploaded' \in BOOLEAN
         /\ \A j \in {0, 1} : textures'[j].of = ts[j].of
         /\ uploaded' => textures'[(turn' + 1) % 2].holds = picture
<1>1. turn' = (i + 1) % 2 /\ turn' \in {0, 1} /\ (turn' + 1) % 2 = i
  BY DEF Puts
<1>2. CASE ts[i].of # <<0, 0>> /\ commands
  <2>1. textures' = [ts EXCEPT ![i].holds = picture] /\ uploaded' = TRUE
    BY <1>2 DEF Puts
  <2>2. \A j \in {0, 1} :
          textures'[j] = IF j = i THEN [of |-> ts[j].of, holds |-> picture] ELSE ts[j]
    BY <2>1
  <2>3. textures' \in [{0, 1} -> [of : Nat \X Nat, holds : Pictures]]
    BY <2>1
  <2> QED BY <1>1, <2>1, <2>2, <2>3
<1>3. CASE ~ (ts[i].of # <<0, 0>> /\ commands)
  BY <1>1, <1>3 DEF Puts
<1> QED BY <1>2, <1>3

\* A picture is handed over.
LEMMA PresentKeeps ==
  ASSUME PresenterFacts, handed' \in Pictures, handed'.size \in Nat \X Nat, Present(handed')
  PROVE  PresenterFacts'
<1> USE DEF PresenterFacts, PresenterTypes
<1>1. UNCHANGED <<wanted, commands>>
  BY DEF Present
<1>2. CASE Refuses(handed')
  BY <1>1, <1>2 DEF Refuses, ShownIsLast
<1>3. CASE ResizeFails(handed'.size)
  <2>1. NoPicture \in Pictures /\ Null \in [of : Nat \X Nat, holds : Pictures]
        /\ Made(handed'.size) \in [of : Nat \X Nat, holds : Pictures]
    BY DEF Pictures, Null, Made
  <2>2. textures' \in [{0, 1} -> [of : Nat \X Nat, holds : Pictures]]
    BY <1>3, <2>1 DEF ResizeFails
  <2> QED BY <1>1, <1>3, <2>2 DEF ResizeFails, ShownIsLast
<1>4. CASE Resized(handed')
  <2>1. /\ Remade(handed'.size) \in [{0, 1} -> [of : Nat \X Nat, holds : Pictures]]
        /\ \A j \in {0, 1} : Remade(handed'.size)[j].of = handed'.size
    BY DEF Pictures, Remade, Made
  <2>2. /\ Puts(handed', Remade(handed'.size), 0) /\ size' = handed'.size /\ torn' = FALSE
    BY <1>4 DEF Resized
  <2>3. /\ textures' \in [{0, 1} -> [of : Nat \X Nat, holds : Pictures]]
        /\ turn' \in {0, 1} /\ uploaded' \in BOOLEAN
        /\ \A j \in {0, 1} : textures'[j].of = handed'.size
        /\ uploaded' => textures'[(turn' + 1) % 2].holds = handed'
    BY <2>1, <2>2, PutsKeeps
  <2> QED BY <1>1, <2>2, <2>3 DEF ShownIsLast, current
<1>5. CASE SameSize(handed')
  <2>1. Puts(handed', textures, turn) /\ UNCHANGED <<size, torn>>
    BY <1>5 DEF SameSize
  <2>2. /\ textures' \in [{0, 1} -> [of : Nat \X Nat, holds : Pictures]]
        /\ turn' \in {0, 1} /\ uploaded' \in BOOLEAN
        /\ \A j \in {0, 1} : textures'[j].of = textures[j].of
        /\ uploaded' => textures'[(turn' + 1) % 2].holds = handed'
    BY <2>1, PutsKeeps
  <2> QED BY <1>1, <2>1, <2>2 DEF ShownIsLast, current
<1> QED BY <1>2, <1>3, <1>4, <1>5 DEF Present
-----------------------------------------------------------------------------
(* A picture of a frame *)

LEMMA SmallerIs ==
  ASSUME NEW m \in Nat, NEW n \in Nat
  PROVE  Smaller(m, n) \in Nat /\ Smaller(m, n) <= m /\ Smaller(m, n) <= n
         /\ (m <= n => Smaller(m, n) = m)
  BY DEF Smaller

LEMMA ClampedIs ==
  ASSUME PresenterTypes, PassTypes
  PROVE  /\ Clamped = <<Clamped[1], Clamped[2]>> /\ Clamped \in Nat \X Nat
         /\ Clamped[1] \in Nat /\ Clamped[2] \in Nat
         /\ Clamped[1] <= max[1] /\ Clamped[2] <= max[2]
<1>1. wanted[1] \in Nat /\ wanted[2] \in Nat
  BY SizesArePositive DEF PresenterTypes
<1>2. max[1] \in Nat /\ max[2] \in Nat
  BY DEF PassTypes
<1> QED BY <1>1, <1>2, SmallerIs DEF Clamped

LEMMA Areas ==
  ASSUME NEW a \in Nat, NEW b \in Nat, NEW c \in Nat, NEW d \in Nat, a <= c, b <= d
  PROVE  /\ a * b \in Nat /\ c * d \in Nat /\ a * b <= c * d
<1>1. a * b <= c * b
  BY SMT
<1>2. c * b <= c * d
  BY SMT
<1> QED BY <1>1, <1>2

LEMMA Quarters ==
  ASSUME NEW p \in Nat, NEW n \in Nat, p * 4 <= n
  PROVE  n \div 4 \in Nat /\ p <= n \div 4
  OBVIOUS

\* The kernel is given the whole target.
LEMMA DrawnIs ==
  ASSUME PassTypes, NEW t \in Live, NEW s \in Nat \X Nat, s = <<s[1], s[2]>>,
         s[1] * s[2] \in Nat, s[1] * s[2] * 4 <= bytes[t]
  PROVE  Drawn(t, s) = s[1] * s[2]
<1> DEFINE args == ArgsOf(t, s)
           S == Buffers \cup {NoBuffer, Source} \cup Nat
           view == Read(Translated(Built(args), Native))
<1>1. t \in Buffers /\ bytes[t] \in Nat /\ lut \in Buffers \cup {NoBuffer} /\ s[1] \in Nat /\ s[2] \in Nat
  BY DEF Live, PassTypes
<1>2. /\ args.buffers = <<Source, Source, t, lut>> /\ args.elements = <<16, 16, 4, 16>>
      /\ args.uniforms = <<s[1], s[2]>>
  BY DEF ArgsOf, SampleBytes, PixelBytes
<1>3. /\ args.buffers \in Seq(S) /\ args.elements \in Seq(S) /\ args.uniforms \in Seq(S)
      /\ Len(args.buffers) = 4 /\ Len(args.elements) = 4 /\ Len(args.uniforms) = 2
      /\ args.buffers[3] = t /\ args.elements[3] = 4
  <2>1. {Source, t, lut, 16, 4, s[1], s[2]} \subseteq S
    BY <1>1
  <2> HIDE DEF args, S
  <2> QED BY <1>2, <2>1
<1>4. Nat \subseteq S /\ 4 < WordMax /\ 2 < WordMax
  BY ArgsAssumption, DisplayAssumption
<1> HIDE DEF args, S
<1>5. view = [valid    |-> TRUE,
              buffers  |-> [i \in 1 .. Len(args.buffers) |-> Native[args.buffers[i]]],
              elements |-> args.elements,
              uniforms |-> args.uniforms]
  BY <1>3, <1>4, BlobReadsBack, SMTT(30), ZenonT(30)
<1>6. Native[t] = <<t>>
  BY <1>1 DEF Native
<1> HIDE DEF view
<1>7. view.valid = TRUE /\ view.buffers[3] = <<t>> /\ view.elements[3] = 4
  BY <1>3, <1>5, <1>6
<1>8. HeldIn(view.buffers[3]) = bytes[t]
  BY <1>1, <1>7 DEF HeldIn
<1>9. Drawn(t, s) = Smaller(s[1] * s[2], bytes[t] \div 4)
  <2>1. Drawn(t, s) = IF view.valid
                      THEN Smaller(s[1] * s[2], HeldIn(view.buffers[3]) \div view.elements[3])
                      ELSE 0
    BY DEF Drawn, view, args
  <2> QED BY ONLY <1>7, <1>8, <2>1
<1>10. bytes[t] \div 4 \in Nat /\ s[1] * s[2] <= bytes[t] \div 4
  BY <1>1, Quarters
<1> QED BY <1>9, <1>10, SmallerIs

\* After a prepare that succeeded a picture is whole.
LEMMA PictureIsWhole ==
  ASSUME PassFacts, PresenterTypes, prepared
  PROVE  Picture(targets[at], Clamped).whole
<1> DEFINE t == targets[at]
           s == Clamped
<1>1. /\ max \in Sizes /\ host = TargetBytes(max)
      /\ t \in Live /\ bytes[t] >= TargetBytes(max)
  BY DEF PassFacts, PassTypes, ReadyInv
<1>2. /\ s = <<s[1], s[2]>> /\ s \in Nat \X Nat /\ s[1] \in Nat /\ s[2] \in Nat
      /\ s[1] <= max[1] /\ s[2] <= max[2]
  BY ClampedIs DEF PassFacts
<1>3. max[1] \in Nat /\ max[2] \in Nat /\ bytes[t] \in Nat
  BY <1>1, SizesArePositive DEF PassFacts, PassTypes, Live
<1> HIDE DEF s, t
<1>4. s[1] * s[2] \in Nat /\ max[1] * max[2] \in Nat /\ s[1] * s[2] <= max[1] * max[2]
  BY <1>2, <1>3, Areas
<1>5. /\ TargetBytes(s) = s[1] * s[2] * 4 /\ TargetBytes(s) <= TargetBytes(max)
      /\ TargetBytes(s) <= bytes[t]
  BY <1>1, <1>3, <1>4 DEF TargetBytes, PixelBytes
<1>6. Drawn(t, s) = s[1] * s[2]
  BY <1>1, <1>2, <1>4, <1>5, DrawnIs DEF PassFacts
<1>7. Downloaded(t, s) /\ TargetBytes(s) <= host
  BY <1>1, <1>5 DEF Downloaded
<1> QED BY <1>6, <1>7 DEF Picture, s, t

LEMMA PresentWipeKeeps ==
  ASSUME IInv, PresentWipe
  PROVE  IInv'
<1> DEFINE picture == Picture(targets[at], Clamped)
<1>1. /\ PassFacts /\ PresenterFacts /\ KernelsInv /\ DrawsOurs
  BY DEF IInv, DisplayTypeOK, PassInv, PassFacts, PresenterFacts
<1>2. /\ handed' = picture /\ frame' = frame + 1 /\ at' = (at + 1) % 2 /\ frame < MaxFrames
      /\ Present(handed')
      /\ UNCHANGED <<kernelVars, bytes, kernel, targets, max, host, lut, lutSize, prepared>>
  BY DEF PresentWipe
<1>3. picture \in Pictures /\ picture.size \in Nat \X Nat
  BY <1>1, ClampedIs, SMTT(30), ZenonT(30) DEF Picture, Pictures, PassFacts, PassTypes, PresenterFacts
<1> HIDE DEF picture
<1>4. PassTypes'
  <2>1. PassTypes
    BY <1>1 DEF PassFacts
  <2>2. at' \in {0, 1} /\ handed' \in Pictures /\ UNCHANGED kernels
    BY <1>2, <1>3, <2>1 DEF PassTypes, kernelVars
  <2>3. frame' \in 0 .. MaxFrames
    BY <1>2, <2>1, DisplayAssumption DEF PassTypes
  <2> QED BY <1>2, <2>1, <2>2, <2>3 DEF PassTypes
<1>5. HoldsExactly' /\ LutMatches' /\ ReadyInv' /\ DrawsOurs'
  BY <1>1, <1>2 DEF PassFacts, HoldsExactly, LutMatches, ReadyInv, DrawsOurs, Live, kernelVars
<1>6. PresenterFacts'
  <2>1. handed' \in Pictures /\ handed'.size \in Nat \X Nat
    BY <1>2, <1>3
  <2> QED BY <1>1, <1>2, <2>1, PresentKeeps
<1>7. KernelsInv'
  BY <1>1, <1>2, KernelsStep
<1>8. PictureWhole'
  <2>1. picture.ready = prepared
    BY DEF Picture, picture
  <2>2. prepared => picture.whole
    BY <1>1, PictureIsWhole DEF PresenterFacts, picture
  <2> HIDE DEF picture
  <2> QED BY <1>2, <2>1, <2>2 DEF PictureWhole
<1> QED BY <1>4, <1>5, <1>6, <1>7, <1>8
        DEF IInv, DisplayTypeOK, PassInv, PresenterFacts, KernelsInv
-----------------------------------------------------------------------------
(* The whole *)

LEMMA DisplayStart == Init => IInv
<1> SUFFICES ASSUME Init PROVE IInv
  OBVIOUS
<1>1. KernelsInv
  BY KernelsStart DEF Init
<1>2. NoPicture \in Pictures
  BY DEF Pictures
<1>3. PresenterTypes /\ ShownIsLast
  BY <1>2 DEF Init, PresenterInit, PresenterTypes, ShownIsLast, Null
<1>4. kernels = <<>> /\ Len(kernels) = 0
  BY DEF Init, KernelsInit
<1>5. PassTypes /\ PictureWhole
  <2>1. kernel \in 0 .. Len(kernels) /\ frame \in 0 .. MaxFrames
    BY <1>4, DisplayAssumption DEF Init
  <2>2. <<0, 0>> \in Nat \X Nat /\ bytes \in [Buffers -> Nat]
        /\ targets \in [{0, 1} -> Buffers \cup {NoBuffer}]
    BY DEF Init
  <2> QED BY <1>2, <2>1, <2>2 DEF Init, PassTypes, PictureWhole
<1>6. PassInv
  BY DEF Init, PassInv, HoldsExactly, LutMatches, ReadyInv, DrawsOurs, Live
<1> QED BY <1>1, <1>3, <1>5, <1>6 DEF IInv, DisplayTypeOK, KernelsInv

LEMMA DisplayStep == IInv /\ [Next]_vars => IInv'
<1> SUFFICES ASSUME IInv, [Next]_vars PROVE IInv'
  OBVIOUS
<1>1. /\ PassFacts /\ PresenterFacts /\ KernelsInv /\ DrawsOurs /\ PictureWhole
  BY DEF IInv, DisplayTypeOK, PassInv, PassFacts, PresenterFacts
<1>2. ASSUME PassFacts', PresenterFacts', KernelsInv', DrawsOurs', UNCHANGED handed
      PROVE  IInv'
  <2>1. PictureWhole'
    BY <1>1, <1>2 DEF PictureWhole
  <2> QED BY <1>2, <2>1
          DEF IInv, DisplayTypeOK, PassInv, PassFacts, PresenterFacts, KernelsInv
<1>3. ASSUME UNCHANGED presenterVars, UNCHANGED handed PROVE PresenterFacts'
  BY <1>1, <1>3 DEF PresenterFacts, PresenterTypes, ShownIsLast, presenterVars, current
<1>4. ASSUME UNCHANGED passVars,
             KernelsNext \/ UNCHANGED kernelVars
      PROVE  PassFacts' /\ DrawsOurs' /\ KernelsInv'
  <2>1. KernelsInv'
    BY <1>1, <1>4, KernelsStep
  <2>2. /\ Len(kernels') \in Nat /\ Len(kernels) \in Nat /\ Len(kernels') >= Len(kernels)
        /\ \A id \in 1 .. Len(kernels) : kernels'[id] = kernels[id]
    BY <1>1, <1>4, KernelsGrow DEF KernelsInv
  <2>3. kernel \in 0 .. Len(kernels) /\ UNCHANGED kernel
    BY <1>1, <1>4 DEF PassFacts, PassTypes, passVars
  <2>4. kernel' \in 0 .. Len(kernels') /\ DrawsOurs'
    BY <1>1, <2>2, <2>3 DEF DrawsOurs
  <2>5. PassFacts'
    BY <1>1, <1>4, <2>4
       DEF PassFacts, PassTypes, HoldsExactly, LutMatches, ReadyInv, Live, passVars
  <2> QED BY <2>1, <2>4, <2>5
<1>5. CASE Prepared /\ UNCHANGED presenterVars
  <2>1. /\ UNCHANGED <<at, lutSize, frame, handed>>
        /\ kernel' \in 0 .. Len(kernels') /\ DrawsOurs' /\ KernelsInv'
    BY <1>1, <1>5, PrepareFrames
  <2>2. PassFacts'
    BY <1>1, <1>5, PrepareKeeps
  <2> QED BY <1>2, <1>3, <1>5, <2>1, <2>2
<1>6. CASE SetsLut /\ UNCHANGED <<presenterVars, kernelVars>>
  <2>1. UNCHANGED <<kernels, kernelVars, presenterVars>>
    BY <1>6 DEF kernelVars
  <2>2. PassFacts'
    BY <1>1, <1>6, <2>1, SetLutKeeps
  <2>3. UNCHANGED handed /\ UNCHANGED kernel
    BY <1>6 DEF SetsLut, SetLutLeavesNone, SetLut
  <2>4. KernelsInv'
    BY <1>1, <2>1, KernelsStep
  <2>5. DrawsOurs'
    BY <1>1, <2>1, <2>3 DEF DrawsOurs
  <2> QED BY <1>2, <1>3, <2>1, <2>2, <2>3, <2>4, <2>5
<1>7. CASE PresentWipe
  BY <1>7, PresentWipeKeeps
<1>8. CASE Window /\ UNCHANGED <<kernelVars, passVars>>
  <2>1. PassFacts' /\ DrawsOurs' /\ KernelsInv' /\ UNCHANGED handed
    BY <1>4, <1>8 DEF passVars
  <2>2. PresenterFacts'
    BY <1>1, <1>8, <2>1 DEF Window, setTargetSize, setCommandBuffer, PresenterFacts,
       PresenterTypes, ShownIsLast, current
  <2> QED BY <1>2, <2>1, <2>2
<1>9. CASE (KernelsNext /\ UNCHANGED <<presenterVars, passVars>>) \/ UNCHANGED vars
  <2>1. PassFacts' /\ DrawsOurs' /\ KernelsInv' /\ UNCHANGED handed
    BY <1>4, <1>9 DEF passVars, vars
  <2>2. UNCHANGED presenterVars
    BY <1>9 DEF vars
  <2> QED BY <1>2, <1>3, <2>1, <2>2
<1> QED BY <1>5, <1>6, <1>7, <1>8, <1>9 DEF Next

\* Of every state of the display, its kernels and its window.
THEOREM DisplayInvariance == Spec => []IInv
  BY DisplayStart, DisplayStep, PTL DEF Spec

\* However a prepare or a setLut fails half way, the pass holds the buffers it names
\* and no other (display.cpp 46-115).
THEOREM BuffersHeldExactly == Spec => []HoldsExactly
<1>1. IInv => HoldsExactly
  BY DEF IInv, PassInv
<1> QED BY <1>1, DisplayInvariance, PTL

\* Every picture handed over after a prepare that succeeded is all of its frame,
\* for windows of any size (display.cpp 97-115 and 133-186).
THEOREM PicturesAreWhole == Spec => []PictureWhole
<1>1. IInv => PictureWhole
  BY DEF IInv
<1> QED BY <1>1, DisplayInvariance, PTL

\* A lattice the kernel is told of is there in full (display.cpp 56-79).
THEOREM LatticeIsThere == Spec => []LutMatches
<1>1. IInv => LutMatches
  BY DEF IInv, PassInv
<1> QED BY <1>1, DisplayInvariance, PTL

\* No bundle makes the pass draw with a kernel of its own (kernel_registry.cpp 80-88).
THEOREM DrawnByOurs == Spec => []DrawsOurs
<1>1. IInv => DrawsOurs
  BY DEF IInv, PassInv
<1> QED BY <1>1, DisplayInvariance, PTL

\* The window draws the picture handed over last, if that was uploaded, and textures
\* of one size unless a resize failed (rhi_presenter.cpp 23-43 and 73-127).
THEOREM LastIsShown == Spec => []ShownIsLast
<1>1. IInv => ShownIsLast
  BY DEF IInv
<1> QED BY <1>1, DisplayInvariance, PTL
=============================================================================

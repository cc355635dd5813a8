-------------------------- MODULE FunctionsProofs --------------------------
(***************************************************************************)
(* That every request takes the least size class that holds it, at most a  *)
(* quarter over, that blobs are read back as they were built or not at     *)
(* all, and that no lookup of a kernel finds what is gone or shadows the   *)
(* build's own: for any sizes of classes, requests, widths, names and      *)
(* bundles.                                                                *)
(***************************************************************************)
EXTENDS EngineFunctions, SequenceTheorems, WellFoundedInduction, TLAPS

\* Of natural numbers one is the least.
LEMMA LeastOfMany ==
  ASSUME NEW T \in SUBSET Nat, T # {}
  PROVE  \E x \in T : \A y \in T : x <= y
<1>1. PICK R : R = OpToRel(<, Nat)
  BY Zenon
<1>2. IsWellFoundedOn(R, Nat)
  BY <1>1, NatLessThanWellFounded, Zenon
<1>3. ASSUME NEW x \in Nat, NEW y \in Nat, x < y PROVE <<x, y>> \in R
  BY <1>1, <1>3, Zenon DEF OpToRel
<1>4. PICK x \in T : \A y \in T : ~ (<<y, x>> \in R)
  BY <1>2, WFMin, Zenon
<1>5. \A y \in T : ~ (y < x)
  BY <1>3, <1>4
<1> QED
  BY <1>4, <1>5

LEMMA Quotients ==
  ASSUME NEW n \in Nat \ {0}, NEW k \in Nat
  PROVE  /\ n * k \in Nat /\ (n * k) \div n = k /\ (n * k) % n = 0
         /\ \A m \in 0 .. n * k - 1 : m \div n \in 0 .. k - 1 /\ m % n \in 0 .. n - 1
  OBVIOUS
-----------------------------------------------------------------------------
(* Powers of two *)

\* That the recursion of Bit has a function, up to n.
BitsTo(n, f) ==
  /\ f \in [0 .. n -> Nat \ {0}] /\ f[0] = 1
  /\ \A k \in 1 .. n : f[k] = 2 * f[k - 1]

LEMMA BitsFinite == \A n \in Nat : \E f : BitsTo(n, f)
<1> DEFINE bad == {n \in Nat : ~ \E f : BitsTo(n, f)}
<1> SUFFICES ASSUME bad # {} PROVE FALSE
  OBVIOUS
<1>1. PICK n \in bad : \A m \in bad : n <= m
  <2> HIDE DEF bad
  <2>1. bad \in SUBSET Nat
    BY DEF bad
  <2> QED
    BY <2>1, LeastOfMany
<1>2. n \in Nat /\ ~ \E f : BitsTo(n, f)
  OBVIOUS
<1>3. n # 0
  <2>1. BitsTo(0, [k \in 0 .. 0 |-> 1])
    BY DEF BitsTo
  <2> QED
    BY <1>2, <2>1
<1>4. PICK f : BitsTo(n - 1, f)
  <2>1. n - 1 \in Nat /\ n - 1 \notin bad
    BY <1>1, <1>2, <1>3
  <2> QED
    BY <2>1
<1> HIDE DEF bad
<1> DEFINE g == [k \in 0 .. n |-> IF k = n THEN 2 * f[n - 1] ELSE f[k]]
<1>5. BitsTo(n, g)
  <2>1. /\ f \in [0 .. n - 1 -> Nat \ {0}] /\ f[0] = 1
        /\ \A k \in 1 .. n - 1 : f[k] = 2 * f[k - 1]
    BY <1>4 DEF BitsTo
  <2>2. n - 1 \in Nat /\ n \in Nat
    BY <1>2, <1>3
  <2>3. g \in [0 .. n -> Nat \ {0}] /\ g[0] = 1
    BY <1>3, <2>1, <2>2
  <2>4. ASSUME NEW k \in 1 .. n PROVE g[k] = 2 * g[k - 1]
    BY <2>1, <2>2
  <2> HIDE DEF g
  <2> QED
    BY <2>3, <2>4 DEF BitsTo
<1> QED
  BY <1>2, <1>5

LEMMA BitsAgree ==
  ASSUME NEW n \in Nat, NEW m \in Nat, m <= n, NEW f, NEW g, BitsTo(n, f), BitsTo(m, g),
         NEW k \in 0 .. m
  PROVE  f[k] = g[k]
<1> DEFINE bad == {j \in 0 .. m : f[j] # g[j]}
<1> SUFFICES ASSUME bad # {} PROVE FALSE
  OBVIOUS
<1>1. PICK j \in bad : \A i \in bad : j <= i
  <2> HIDE DEF bad
  <2>1. bad \in SUBSET Nat
    BY DEF bad
  <2> QED
    BY <2>1, LeastOfMany
<1>2. j \in 0 .. m /\ f[j] # g[j]
  OBVIOUS
<1>3. j # 0
  BY <1>2 DEF BitsTo
<1>4. j - 1 \in 0 .. m /\ j - 1 \notin bad
  BY <1>1, <1>2, <1>3
<1>5. f[j - 1] = g[j - 1]
  BY <1>4
<1>6. j \in 1 .. m /\ j \in 1 .. n
  BY <1>2, <1>3
<1> QED
  BY <1>2, <1>5, <1>6 DEF BitsTo

\* What the definition of Bit says of it.
LEMMA BitIs ==
  /\ Bit \in [Nat -> Nat \ {0}] /\ Bit[0] = 1
  /\ \A k \in Nat : Bit[k + 1] = 2 * Bit[k]
<1> DEFINE F(g) == [k \in Nat |-> IF k = 0 THEN 1 ELSE 2 * g[k - 1]]
           G(n) == CHOOSE f : BitsTo(n, f)
           h    == [k \in Nat |-> G(k)[k]]
<1>1. \A n \in Nat : BitsTo(n, G(n))
  BY BitsFinite
<1>2. h \in [Nat -> Nat \ {0}] /\ h[0] = 1
  <2> HIDE DEF G
  <2> QED
    BY <1>1 DEF BitsTo
<1>3. ASSUME NEW k \in Nat, k # 0 PROVE h[k] = 2 * h[k - 1]
  <2>1. BitsTo(k, G(k)) /\ BitsTo(k - 1, G(k - 1)) /\ k - 1 \in Nat
    BY <1>1, <1>3
  <2>2. h[k] = G(k)[k] /\ h[k - 1] = G(k - 1)[k - 1]
    BY <2>1
  <2> HIDE DEF G, h
  <2>3. G(k)[k] = 2 * G(k)[k - 1]
    <3>1. k \in 1 .. k
      BY <1>3
    <3> QED
      BY <2>1, <3>1 DEF BitsTo
  <2>4. G(k)[k - 1] = G(k - 1)[k - 1]
    <3>1. k - 1 <= k /\ k - 1 \in 0 .. k - 1
      BY <2>1
    <3> QED
      BY <2>1, <3>1, BitsAgree
  <2> QED
    BY <2>2, <2>3, <2>4
<1>4. h = F(h)
  <2>1. \A k \in Nat : h[k] = F(h)[k]
    <3> HIDE DEF h
    <3> QED
      BY <1>2, <1>3
  <2>2. h = [k \in Nat |-> h[k]] /\ F(h) = [k \in Nat |-> F(h)[k]]
    OBVIOUS
  <2> HIDE DEF h, F
  <2> QED
    BY <2>1, <2>2
<1> HIDE DEF h
<1>5. Bit = F(Bit)
  <2>1. Bit = CHOOSE g : g = F(g)
    BY DEF Bit
  <2> HIDE DEF F
  <2> QED
    BY <1>4, <2>1
<1>6. /\ Bit = [k \in Nat |-> Bit[k]]
      /\ \A k \in Nat : Bit[k] = IF k = 0 THEN 1 ELSE 2 * Bit[k - 1]
  BY <1>5
<1>7. Bit[0] = 1 /\ \A k \in Nat : Bit[k + 1] = 2 * Bit[k]
  <2>1. \A k \in Nat : k + 1 \in Nat /\ k + 1 # 0 /\ (k + 1) - 1 = k
    OBVIOUS
  <2> QED
    BY <1>6, <2>1
<1>8. \A k \in Nat : Bit[k] = h[k]
  <2> DEFINE bad == {k \in Nat : Bit[k] # h[k]}
  <2> SUFFICES ASSUME bad # {} PROVE FALSE
    OBVIOUS
  <2>1. PICK k \in bad : \A i \in bad : k <= i
    <3> HIDE DEF bad
    <3>1. bad \in SUBSET Nat
      BY DEF bad
    <3> QED
      BY <3>1, LeastOfMany
  <2>2. k \in Nat /\ Bit[k] # h[k]
    OBVIOUS
  <2>3. k # 0
    BY <1>2, <1>7, <2>2
  <2>4. k - 1 \in Nat /\ k - 1 \notin bad
    BY <2>1, <2>2, <2>3
  <2>5. Bit[k - 1] = h[k - 1]
    BY <2>4
  <2> QED
    BY <1>3, <1>6, <2>2, <2>3, <2>5
<1>9. \A k \in Nat : Bit[k] \in Nat \ {0}
  BY <1>2, <1>8
<1> QED
  BY <1>6, <1>7, <1>9

LEMMA BitsClimb ==
  ASSUME NEW j \in Nat, NEW k \in Nat, j < k
  PROVE  2 * Bit[j] <= Bit[k]
<1> DEFINE bad == {i \in Nat : j < i /\ ~ (2 * Bit[j] <= Bit[i])}
<1> SUFFICES ASSUME bad # {} PROVE FALSE
  OBVIOUS
<1>1. PICK i \in bad : \A m \in bad : i <= m
  <2> HIDE DEF bad
  <2>1. bad \in SUBSET Nat
    BY DEF bad
  <2> QED
    BY <2>1, LeastOfMany
<1>2. i \in Nat /\ j < i /\ ~ (2 * Bit[j] <= Bit[i])
  OBVIOUS
<1>3. i - 1 \in Nat /\ i - 1 \notin bad /\ i = (i - 1) + 1
  BY <1>1, <1>2
<1>4. Bit[i] = 2 * Bit[i - 1] /\ Bit[i - 1] \in Nat /\ Bit[j] \in Nat
  BY <1>3, BitIs
<1>5. i - 1 # j
  BY <1>2, <1>4
<1>6. 2 * Bit[j] <= Bit[i - 1]
  BY <1>2, <1>3, <1>5
<1> QED
  BY <1>2, <1>4, <1>6

LEMMA BitsAbove == \A n \in Nat : n < Bit[n]
<1> DEFINE bad == {n \in Nat : ~ (n < Bit[n])}
<1> SUFFICES ASSUME bad # {} PROVE FALSE
  OBVIOUS
<1>1. PICK n \in bad : \A m \in bad : n <= m
  <2> HIDE DEF bad
  <2>1. bad \in SUBSET Nat
    BY DEF bad
  <2> QED
    BY <2>1, LeastOfMany
<1>2. n \in Nat /\ ~ (n < Bit[n]) /\ n # 0
  BY BitIs
<1>3. n - 1 \in Nat /\ n - 1 \notin bad /\ n = (n - 1) + 1
  BY <1>1, <1>2
<1>4. n - 1 < Bit[n - 1]
  BY <1>3
<1>5. Bit[n] = 2 * Bit[n - 1] /\ Bit[n - 1] \in Nat \ {0}
  BY <1>3, BitIs
<1> QED
  BY <1>2, <1>3, <1>4, <1>5

\* The width of n is the least number of bits that n fits.
LEMMA WidthIs ==
  ASSUME NEW n \in Nat
  PROVE  /\ bit_width(n) \in Nat /\ n < Bit[bit_width(n)]
         /\ \A k \in Nat : k < bit_width(n) => Bit[k] <= n
<1> DEFINE fits == {k \in Nat : n < Bit[k]}
<1>1. n \in fits
  BY BitsAbove
<1>2. PICK k \in fits : \A j \in fits : k <= j
  <2> HIDE DEF fits
  <2>1. fits \in SUBSET Nat
    BY DEF fits
  <2> QED
    BY <1>1, <2>1, LeastOfMany
<1>3. k \in 0 .. n
  BY <1>1, <1>2
<1>4. k > 0 => Bit[k - 1] <= n
  <2> SUFFICES ASSUME k > 0 PROVE Bit[k - 1] <= n
    OBVIOUS
  <2>1. k - 1 \in Nat /\ k - 1 \notin fits
    BY <1>2
  <2>2. Bit[k - 1] \in Nat
    BY <2>1, BitIs
  <2> QED
    BY <2>1, <2>2
<1>5. n < Bit[k]
  BY <1>2
<1> HIDE DEF fits
<1>6. PICK w : w = bit_width(n)
  OBVIOUS
<1>7. w \in 0 .. n /\ n < Bit[w] /\ (w > 0 => Bit[w - 1] <= n)
  BY <1>3, <1>4, <1>5, <1>6 DEF bit_width
<1>8. ASSUME NEW j \in Nat, j < w PROVE Bit[j] <= n
  <2>1. w - 1 \in Nat /\ Bit[w - 1] <= n /\ j <= w - 1
    BY <1>7, <1>8
  <2>2. Bit[j] \in Nat /\ Bit[w - 1] \in Nat
    BY <2>1, BitIs
  <2>3. j = w - 1 \/ 2 * Bit[j] <= Bit[w - 1]
    BY <2>1, BitsClimb
  <2> QED
    BY <2>1, <2>2, <2>3
<1> QED
  BY <1>6, <1>7, <1>8
-----------------------------------------------------------------------------
(* Classes *)

\* The step between two classes of a doubling.
Step(shift) == Bit[shift] \div Steps

\* From the smallest class on a doubling is Steps whole steps.
LEMMA StepsAreWhole ==
  ASSUME NEW s \in Nat, s >= MinShift
  PROVE  Step(s) \in Nat \ {0} /\ Bit[s] = Steps * Step(s)
<1> DEFINE bad == {i \in Nat : i >= MinShift /\ Bit[i] % Steps # 0}
<1>1. Bit[s] % Steps = 0
  <2> SUFFICES ASSUME bad # {} PROVE FALSE
    OBVIOUS
  <2>1. PICK i \in bad : \A m \in bad : i <= m
    <3> HIDE DEF bad
    <3>1. bad \in SUBSET Nat
      BY DEF bad
    <3> QED
      BY <3>1, LeastOfMany
  <2>2. i \in Nat /\ i >= MinShift /\ Bit[i] % Steps # 0 /\ i # MinShift
    BY BucketsAssumption
  <2>3. i - 1 \in Nat /\ i - 1 \notin bad /\ i = (i - 1) + 1 /\ i - 1 >= MinShift
    BY <2>1, <2>2, BucketsAssumption
  <2>4. Bit[i - 1] % Steps = 0 /\ Bit[i] = 2 * Bit[i - 1] /\ Bit[i - 1] \in Nat
    BY <2>3, BitIs
  <2> HIDE DEF bad
  <2>5. \A a \in Nat, n \in Nat \ {0} : a % n = 0 => (2 * a) % n = 0
    <3> SUFFICES ASSUME NEW a \in Nat, NEW n \in Nat \ {0}, a % n = 0 PROVE (2 * a) % n = 0
      OBVIOUS
    <3>1. PICK q \in Nat : a = n * q
      <4>1. a = n * (a \div n) /\ a \div n \in Nat
        OBVIOUS
      <4> QED
        BY <4>1
    <3>2. 2 * a = n * (2 * q) /\ 2 * q \in Nat
      BY <3>1
    <3>3. \A k \in Nat : (n * k) % n = 0
      BY Quotients
    <3> QED
      BY <3>2, <3>3
  <2> QED
    BY <2>2, <2>4, <2>5, BucketsAssumption
<1>2. Bit[s] \in Nat \ {0} /\ Steps \in Nat \ {0}
  BY BitIs, BucketsAssumption
<1>3. \A a \in Nat \ {0}, n \in Nat \ {0} : a % n = 0 => a \div n \in Nat \ {0} /\ a = n * (a \div n)
  <2> SUFFICES ASSUME NEW a \in Nat \ {0}, NEW n \in Nat \ {0}, a % n = 0
               PROVE  a \div n \in Nat \ {0} /\ a = n * (a \div n)
    OBVIOUS
  <2>1. a = n * (a \div n) /\ a \div n \in Nat
    OBVIOUS
  <2> QED
    BY <2>1
<1> QED
  BY <1>1, <1>2, <1>3 DEF Step

\* The size of the class w steps above a doubling.
LEMMA SizeIs ==
  ASSUME NEW s \in Nat, s >= MinShift, NEW w \in 0 .. Steps
  PROVE  /\ (s - MinShift) * Steps + w \in Nat
         /\ bucketBytes((s - MinShift) * Steps + w) = Bit[s] + Step(s) * w
<1> DEFINE b == (s - MinShift) * Steps + w
<1>1. MinShift \in Nat /\ Steps \in Nat \ {0} /\ s - MinShift \in Nat /\ w \in Nat
  BY BucketsAssumption
<1>2. b \in Nat
  <2>1. \A d \in Nat, n \in Nat \ {0} : d * n \in Nat
    OBVIOUS
  <2> QED
    BY <1>1, <2>1
<1>3. \A d \in Nat, n \in Nat \ {0} : \A r \in 0 .. n - 1 :
        (d * n + r) \div n = d /\ (d * n + r) % n = r
  OBVIOUS
<1>4. CASE w < Steps
  <2>1. w \in 0 .. Steps - 1
    BY <1>1, <1>4
  <2>2. b \div Steps = s - MinShift /\ b % Steps = w
    BY <1>1, <1>3, <2>1
  <2>3. b \div Steps + MinShift = s
    BY <1>1, <2>2
  <2> HIDE DEF b
  <2>4. bucketBytes(b) = Bit[s] + Step(s) * w
    BY <2>2, <2>3 DEF bucketBytes, Step
  <2> QED
    BY <1>2, <2>4 DEF b
<1>5. CASE w = Steps
  <2>1. b = (s + 1 - MinShift) * Steps + 0 /\ s + 1 - MinShift \in Nat /\ 0 \in 0 .. Steps - 1
    <3>1. \A d \in Nat, n \in Nat \ {0} : d * n + n = (d + 1) * n + 0
      OBVIOUS
    <3>2. s + 1 - MinShift = (s - MinShift) + 1
      BY <1>1
    <3> QED
      BY <1>1, <1>5, <3>1, <3>2
  <2>2. b \div Steps = s + 1 - MinShift /\ b % Steps = 0
    <3> HIDE DEF b
    <3> QED
      BY <1>1, <1>3, <2>1
  <2>3. b \div Steps + MinShift = s + 1
    BY <1>1, <2>2
  <2>4. Bit[s + 1] = 2 * Bit[s] /\ Bit[s] \in Nat /\ Step(s) \in Nat /\ Bit[s] = Steps * Step(s)
    BY BitIs, StepsAreWhole
  <2>5. Bit[s] + Step(s) * w = Bit[s + 1]
    <3>1. Step(s) * w = Bit[s]
      BY <1>1, <1>5, <2>4
    <3> QED
      BY <2>4, <3>1
  <2> HIDE DEF b
  <2>6. bucketBytes(b) = Bit[s + 1] + Step(s + 1) * 0
    BY <2>2, <2>3 DEF bucketBytes, Step
  <2>7. Step(s + 1) \in Nat /\ Bit[s + 1] \in Nat
    BY <1>1, BitIs, StepsAreWhole
  <2>8. bucketBytes(b) = Bit[s + 1]
    BY <2>6, <2>7
  <2> QED
    BY <1>2, <2>5, <2>8 DEF b
<1> QED
  BY <1>1, <1>4, <1>5

\* Every class is some steps above a doubling.
LEMMA ClassIs ==
  ASSUME NEW b \in Nat
  PROVE  \E s \in Nat, w \in 0 .. Steps - 1 :
           /\ s >= MinShift /\ b = (s - MinShift) * Steps + w
           /\ bucketBytes(b) = Bit[s] + Step(s) * w /\ bucketBytes(b) \in Nat
<1> DEFINE d == b \div Steps
           w == b % Steps
<1>1. MinShift \in Nat /\ Steps \in Nat \ {0}
  BY BucketsAssumption
<1>2. d \in Nat /\ w \in 0 .. Steps - 1 /\ b = d * Steps + w
  <2>1. \A n \in Nat \ {0} : b \div n \in Nat
    OBVIOUS
  <2>2. \A n \in Nat \ {0} : b % n \in 0 .. n - 1
    OBVIOUS
  <2>3. \A n \in Nat \ {0} : b = n * (b \div n) + (b % n)
    OBVIOUS
  <2>4. d \in Nat /\ w \in 0 .. Steps - 1 /\ b = Steps * d + w
    BY <1>1, <2>1, <2>2, <2>3
  <2> HIDE DEF d, w
  <2> QED
    BY <1>1, <2>4
<1> HIDE DEF d, w
<1>3. d + MinShift \in Nat /\ d + MinShift >= MinShift /\ (d + MinShift) - MinShift = d /\ w \in 0 .. Steps
  BY <1>1, <1>2
<1>4. bucketBytes(b) = Bit[d + MinShift] + Step(d + MinShift) * w
  BY <1>2, <1>3, SizeIs
<1>5. Bit[d + MinShift] \in Nat /\ Step(d + MinShift) \in Nat
  BY <1>3, BitIs, StepsAreWhole
<1>6. bucketBytes(b) \in Nat
  <2>1. \A x, y \in Nat : x * y \in Nat
    OBVIOUS
  <2> QED
    BY <1>2, <1>4, <1>5, <2>1
<1> QED
  BY <1>2, <1>3, <1>4, <1>6

LEMMA SizesClimb ==
  ASSUME NEW b \in Nat, NEW c \in Nat, b < c
  PROVE  bucketBytes(b) < bucketBytes(c)
<1>1. PICK s \in Nat, w \in 0 .. Steps - 1 :
        /\ s >= MinShift /\ b = (s - MinShift) * Steps + w
        /\ bucketBytes(b) = Bit[s] + Step(s) * w /\ bucketBytes(b) \in Nat
  BY ClassIs
<1>2. PICK t \in Nat, v \in 0 .. Steps - 1 :
        /\ t >= MinShift /\ c = (t - MinShift) * Steps + v
        /\ bucketBytes(c) = Bit[t] + Step(t) * v /\ bucketBytes(c) \in Nat
  BY ClassIs
<1>3. /\ Step(s) \in Nat \ {0} /\ Bit[s] = Steps * Step(s) /\ Bit[s] \in Nat
      /\ Step(t) \in Nat \ {0} /\ Bit[t] = Steps * Step(t) /\ Bit[t] \in Nat
  BY <1>1, <1>2, StepsAreWhole, BitIs
<1>4. MinShift \in Nat /\ Steps \in Nat \ {0} /\ w \in Nat /\ v \in Nat /\ w <= Steps - 1
  BY BucketsAssumption
<1>5. \A x \in Nat \ {0}, y, z \in Nat : y < z => x * y < x * z
  OBVIOUS
<1>6. CASE s = t
  <2>1. w < v
    <3>1. (s - MinShift) * Steps \in Int
      BY <1>4
    <3> QED
      BY <1>1, <1>2, <1>4, <1>6, <3>1
  <2>2. Step(s) * w < Step(s) * v /\ Step(s) * w \in Int /\ Step(s) * v \in Int
    BY <1>3, <1>4, <1>5, <2>1
  <2> QED
    BY <1>1, <1>2, <1>3, <1>6, <2>2
<1>7. CASE s < t
  <2>1. Step(s) * w < Step(s) * Steps /\ Step(s) * w \in Int /\ Step(s) * Steps = Bit[s]
    <3>1. w < Steps
      BY <1>4
    <3>2. Step(s) * w < Step(s) * Steps
      BY <1>3, <1>4, <1>5, <3>1
    <3> QED
      BY <1>3, <1>4, <3>2
  <2>2. 2 * Bit[s] <= Bit[t]
    BY <1>7, BitsClimb
  <2>3. Step(t) * v >= 0 /\ Step(t) * v \in Int
    BY <1>3, <1>4
  <2> QED
    BY <1>1, <1>2, <1>3, <2>1, <2>2, <2>3
<1>8. CASE t < s
  <2>1. \A d, e \in Nat, n \in Nat \ {0} : \A x, y \in 0 .. n - 1 : e < d => e * n + y < d * n + x
    <3> SUFFICES ASSUME NEW d \in Nat, NEW e \in Nat, NEW n \in Nat \ {0},
                        NEW x \in 0 .. n - 1, NEW y \in 0 .. n - 1, e < d
                 PROVE  e * n + y < d * n + x
      OBVIOUS
    <3>1. PICK k \in Nat : d = e + 1 + k
      <4>1. d = e + 1 + (d - e - 1) /\ d - e - 1 \in Nat
        OBVIOUS
      <4> QED
        BY <4>1
    <3>2. d * n = e * n + n + k * n /\ k * n >= 0 /\ k * n \in Int /\ e * n \in Int
      BY <3>1
    <3> QED
      BY <3>2
  <2>2. s - MinShift \in Nat /\ t - MinShift \in Nat /\ t - MinShift < s - MinShift
    BY <1>1, <1>2, <1>4, <1>8
  <2>3. (t - MinShift) * Steps + v < (s - MinShift) * Steps + w
    BY <1>4, <2>1, <2>2
  <2> QED
    BY <1>1, <1>2, <2>3
<1> QED
  BY <1>6, <1>7, <1>8

LEMMA SizesKeepOrder ==
  ASSUME NEW b \in Nat, NEW c \in Nat
  PROVE  /\ bucketBytes(b) \in Nat /\ bucketBytes(c) \in Nat
         /\ bucketBytes(b) <= bucketBytes(c) <=> b <= c
<1>1. bucketBytes(b) \in Nat /\ bucketBytes(c) \in Nat
  BY ClassIs
<1>2. /\ b < c => bucketBytes(b) < bucketBytes(c)
      /\ c < b => bucketBytes(c) < bucketBytes(b)
      /\ b = c => bucketBytes(b) = bucketBytes(c)
  BY SizesClimb
<1> QED
  BY <1>1, <1>2

\* The class bucketFor takes if the table had no end is the least that holds
\* the bytes, and above the smallest class it is less than a step too large.
LEMMA QuarterIs ==
  ASSUME NEW bytes \in Nat, bytes > Bit[MinShift]
  PROVE  LET s      == bit_width(bytes - 1) - 1
             within == (bytes - Bit[s] + Step(s) - 1) \div Step(s)
             raw    == (s - MinShift) * Steps + within
         IN  /\ s \in Nat /\ s >= MinShift /\ within \in 1 .. Steps /\ raw \in Nat \ {0}
             /\ bytes <= bucketBytes(raw) /\ bucketBytes(raw - 1) < bytes
             /\ bucketBytes(raw) < bytes + Step(s) /\ Bit[s] < bytes
<1> DEFINE s      == bit_width(bytes - 1) - 1
           q      == Step(s)
           within == (bytes - Bit[s] + q - 1) \div q
           raw    == (s - MinShift) * Steps + within
<1>1. MinShift \in Nat /\ Steps \in Nat \ {0} /\ Bit[MinShift] \in Nat \ {0} /\ bytes - 1 \in Nat
  BY BucketsAssumption, BitIs
<1>2. /\ s + 1 \in Nat /\ bytes - 1 < Bit[s + 1]
      /\ \A k \in Nat : k < s + 1 => Bit[k] <= bytes - 1
  <2> DEFINE w == bit_width(bytes - 1)
  <2>1. w \in Nat /\ bytes - 1 < Bit[w] /\ \A k \in Nat : k < w => Bit[k] <= bytes - 1
    BY <1>1, WidthIs
  <2> HIDE DEF w
  <2>2. (w - 1) + 1 = w
    BY <2>1
  <2> QED
    BY <2>1, <2>2 DEF w
<1> HIDE DEF s
<1>3. s \in Nat /\ s >= MinShift
  <2>3. s \in Int
    <3>1. bit_width(bytes - 1) \in Nat
      BY <1>1, WidthIs
    <3> QED
      BY <3>1 DEF s
  <2> SUFFICES ASSUME s + 1 <= MinShift PROVE FALSE
    <3>1. ~ (s + 1 <= MinShift) => s \in Nat /\ s >= MinShift
      BY <1>1, <2>3
    <3> QED
      BY <3>1
  <2>1. s + 1 = MinShift \/ 2 * Bit[s + 1] <= Bit[MinShift]
    BY <1>1, <1>2, BitsClimb
  <2>2. Bit[s + 1] \in Nat
    BY <1>2, BitIs
  <2> QED
    BY <1>1, <1>2, <2>1, <2>2
<1>4. Bit[s] \in Nat /\ Bit[s + 1] = 2 * Bit[s] /\ q \in Nat \ {0} /\ Bit[s] = Steps * q
  BY <1>3, BitIs, StepsAreWhole
<1>5. Bit[s] < bytes /\ bytes <= 2 * Bit[s]
  <2>1. Bit[s] <= bytes - 1
    BY <1>2, <1>3
  <2> QED
    BY <1>1, <1>2, <1>4, <2>1
<1> HIDE DEF q
<1> DEFINE over == bytes - Bit[s]
<1>6. over \in 1 .. Steps * q
  BY <1>4, <1>5
<1>7. /\ within \in 1 .. Steps /\ over <= q * within /\ q * (within - 1) < over
      /\ q * within \in Nat /\ q * (within - 1) \in Nat
  <2>1. \A x \in Nat, n \in Nat \ {0} : \A m \in 1 .. x * n :
          LET c == (m + n - 1) \div n
          IN  /\ c \in 1 .. x /\ m <= n * c /\ n * (c - 1) < m
              /\ n * c \in Nat /\ n * (c - 1) \in Nat
    <3> SUFFICES ASSUME NEW x \in Nat, NEW n \in Nat \ {0}, NEW m \in 1 .. x * n
                 PROVE  LET c == (m + n - 1) \div n
                        IN  /\ c \in 1 .. x /\ m <= n * c /\ n * (c - 1) < m
                            /\ n * c \in Nat /\ n * (c - 1) \in Nat
      OBVIOUS
    <3>1. PICK c \in Nat, r \in 0 .. n - 1 : m + n - 1 = n * c + r /\ c = (m + n - 1) \div n
      <4>1. PICK j \in Nat : j = m + n - 1
        OBVIOUS
      <4>2. j \div n \in Nat /\ j % n \in 0 .. n - 1 /\ j = n * (j \div n) + (j % n)
        OBVIOUS
      <4> QED
        BY <4>1, <4>2
    <3>2. n * c \in Nat /\ n * (c - 1) = n * c - n
      OBVIOUS
    <3>3. m <= n * c /\ n * (c - 1) < m
      BY <3>1, <3>2
    <3>4. c >= 1
      <4> SUFFICES ASSUME c = 0 PROVE FALSE
        OBVIOUS
      <4>1. n * c = 0
        OBVIOUS
      <4> QED
        BY <3>3, <4>1
    <3>5. c <= x
      <4> SUFFICES ASSUME c >= x + 1 PROVE FALSE
        OBVIOUS
      <4>1. PICK d \in Nat : c = x + 1 + d
        <5>1. c = x + 1 + (c - x - 1) /\ c - x - 1 \in Nat
          OBVIOUS
        <5> QED
          BY <5>1
      <4>2. n * (c - 1) = x * n + n * d /\ n * d >= 0 /\ n * d \in Int /\ x * n \in Int
        BY <4>1
      <4> QED
        BY <3>3, <4>2
    <3>6. c - 1 \in Nat /\ n * (c - 1) \in Nat
      BY <3>4
    <3>7. c = (m + n - 1) \div n
      BY <3>1
    <3> QED
      BY <3>2, <3>3, <3>4, <3>5, <3>6, <3>7
  <2>2. within = (over + q - 1) \div q
    OBVIOUS
  <2> HIDE DEF over, within
  <2> QED
    BY <1>1, <1>4, <1>6, <2>1, <2>2
<1> HIDE DEF within
<1>8. raw \in Nat \ {0} /\ bucketBytes(raw) = Bit[s] + q * within
  <2>1. raw \in Nat /\ bucketBytes(raw) = Bit[s] + q * within
    <3>1. within \in 0 .. Steps
      BY <1>7
    <3> QED
      BY <1>3, <3>1, SizeIs DEF q
  <2>2. (s - MinShift) * Steps >= 0 /\ (s - MinShift) * Steps \in Int
    BY <1>1, <1>3
  <2> QED
    BY <1>7, <2>1, <2>2
<1>9. bucketBytes(raw - 1) = Bit[s] + q * (within - 1)
  <2>1. within - 1 \in 0 .. Steps
    BY <1>1, <1>7
  <2>2. raw - 1 = (s - MinShift) * Steps + (within - 1)
    <3>1. (s - MinShift) * Steps \in Int
      BY <1>1, <1>3
    <3> QED
      BY <1>7, <3>1
  <2>3. bucketBytes((s - MinShift) * Steps + (within - 1)) = Bit[s] + q * (within - 1)
    BY <1>3, <2>1, SizeIs DEF q
  <2> QED
    BY <2>2, <2>3
<1>10. q * within = q * (within - 1) + q
  BY <1>4, <1>7
<1> HIDE DEF raw
<1>11. /\ bytes <= bucketBytes(raw) /\ bucketBytes(raw - 1) < bytes
       /\ bucketBytes(raw) < bytes + q
  BY <1>4, <1>5, <1>7, <1>8, <1>9, <1>10
<1> QED
  BY <1>3, <1>5, <1>7, <1>8, <1>11 DEF s, q, within, raw

\* What bucketFor does: b is the least class that holds the bytes, the table's
\* last standing for all beyond it.
LeastFor(b, bytes) ==
  /\ b \in Nat /\ bytes <= bucketBytes(b)
  /\ \A c \in Nat : bytes <= bucketBytes(c) => b <= c

LEMMA ClassFound ==
  ASSUME NEW bytes \in Nat
  PROVE  \E raw \in Nat :
           /\ LeastFor(raw, bytes)
           /\ bucketFor(bytes) = AtMost(raw, kBucketCount - 1)
           /\ bytes > Bit[MinShift] => Steps * bucketBytes(raw) <= (Steps + 1) * bytes
<1>1. MinShift \in Nat /\ Steps \in Nat \ {0} /\ Bit[MinShift] \in Nat /\ kBucketCount - 1 \in Nat
  <2>1. MinShift \in Nat /\ Steps \in Nat \ {0} /\ MaxShift - MinShift \in Nat
    BY BucketsAssumption
  <2>2. kBucketCount - 1 = (MaxShift - MinShift) * Steps /\ (MaxShift - MinShift) * Steps \in Nat
    BY <2>1 DEF kBucketCount
  <2> QED
    BY <2>1, <2>2, BitIs
<1>2. CASE bytes <= Bit[MinShift]
  <2>1. bucketBytes(0) = Bit[MinShift]
    <3>1. 0 \in 0 .. Steps /\ (MinShift - MinShift) * Steps + 0 = 0
      BY <1>1
    <3>2. bucketBytes((MinShift - MinShift) * Steps + 0) = Bit[MinShift] + Step(MinShift) * 0
      BY <1>1, <3>1, SizeIs
    <3>3. Step(MinShift) \in Nat
      BY <1>1, StepsAreWhole
    <3> QED
      BY <1>1, <3>1, <3>2, <3>3
  <2>2. LeastFor(0, bytes)
    BY <1>2, <2>1 DEF LeastFor
  <2>3. bucketFor(bytes) = 0
    BY <1>2 DEF bucketFor
  <2>4. AtMost(0, kBucketCount - 1) = 0
    <3>1. \A n \in Nat : AtMost(0, n) = 0
      BY DEF AtMost
    <3> QED
      BY <1>1, <3>1
  <2>5. ~ (bytes > Bit[MinShift])
    BY <1>1, <1>2
  <2> QED
    BY <2>2, <2>3, <2>4, <2>5
<1>3. CASE bytes > Bit[MinShift]
  <2> DEFINE s      == bit_width(bytes - 1) - 1
             within == (bytes - Bit[s] + Step(s) - 1) \div Step(s)
             raw    == (s - MinShift) * Steps + within
  <2>1. /\ s \in Nat /\ s >= MinShift /\ raw \in Nat \ {0}
        /\ bytes <= bucketBytes(raw) /\ bucketBytes(raw - 1) < bytes
        /\ bucketBytes(raw) < bytes + Step(s) /\ Bit[s] < bytes
    BY <1>3, QuarterIs
  <2>2. bucketFor(bytes) = AtMost(raw, kBucketCount - 1)
    <3>1. ~ (bytes <= Bit[MinShift])
      BY <1>1, <1>3
    <3> QED
      BY <3>1 DEF bucketFor, Step
  <2> HIDE DEF s, raw
  <2>3. LeastFor(raw, bytes)
    <3>1. ASSUME NEW c \in Nat, bytes <= bucketBytes(c) PROVE raw <= c
      <4>1. raw - 1 \in Nat /\ bucketBytes(c) \in Nat /\ bucketBytes(raw - 1) \in Nat
        BY <2>1, SizesKeepOrder
      <4>2. ~ (bucketBytes(c) <= bucketBytes(raw - 1))
        BY <2>1, <3>1, <4>1
      <4>3. ~ (c <= raw - 1)
        BY <4>1, <4>2, SizesKeepOrder
      <4> QED
        BY <2>1, <4>3
    <3> QED
      BY <2>1, <3>1 DEF LeastFor
  <2>4. Steps * bucketBytes(raw) <= (Steps + 1) * bytes
    <3>1. /\ Step(s) \in Nat \ {0} /\ Bit[s] = Steps * Step(s) /\ Bit[s] \in Nat
          /\ bucketBytes(raw) \in Nat
      BY <2>1, BitIs, StepsAreWhole, SizesKeepOrder
    <3>2. \A n \in Nat \ {0}, x, y, q \in Nat : x < y + q => n * x <= n * y + n * q
      <4> SUFFICES ASSUME NEW n \in Nat \ {0}, NEW x \in Nat, NEW y \in Nat, NEW q \in Nat, x < y + q
                   PROVE  n * x <= n * y + n * q
        OBVIOUS
      <4>1. PICK d \in Nat : y + q = x + d
        <5>1. y + q = x + (y + q - x) /\ y + q - x \in Nat
          OBVIOUS
        <5> QED
          BY <5>1
      <4>2. n * (y + q) = n * x + n * d /\ n * (y + q) = n * y + n * q /\ n * d >= 0
        BY <4>1
      <4> QED
        BY <4>2
    <3>3. Steps * bucketBytes(raw) <= Steps * bytes + Bit[s]
      BY <1>1, <2>1, <3>1, <3>2
    <3>4. (Steps + 1) * bytes = Steps * bytes + bytes /\ Steps * bytes \in Nat
          /\ Steps * bucketBytes(raw) \in Nat
      BY <1>1, <3>1
    <3> QED
      BY <2>1, <3>1, <3>3, <3>4
  <2> QED
    BY <2>1, <2>2, <2>3, <2>4
<1> QED
  BY <1>1, <1>2, <1>3

LEMMA BucketsAre ==
  /\ kBucketCount - 1 \in Nat /\ Buckets = 0 .. kBucketCount - 1
  /\ \A b \in Buckets : b \in Nat /\ b <= kBucketCount - 1
<1>1. Steps \in Nat \ {0} /\ MaxShift - MinShift \in Nat
  BY BucketsAssumption
<1>2. kBucketCount - 1 = (MaxShift - MinShift) * Steps /\ (MaxShift - MinShift) * Steps \in Nat
  BY <1>1 DEF kBucketCount
<1> QED
  BY <1>2 DEF Buckets

\* What alloc takes a class for: a request is refused just when the last class
\* does not hold it, else it is served by the least class that does.
LEMMA ServedByTheLeast ==
  ASSUME NEW bytes \in Nat
  PROVE  /\ bucketFor(bytes) \in Buckets
         /\ \A b \in Buckets : bucketBytes(b) >= bytes => b >= bucketFor(bytes)
         /\ Refused(bytes) <=> bytes > bucketBytes(kBucketCount - 1)
         /\ ~Refused(bytes) => /\ bucketFor(Served(bytes)) = bucketFor(bytes)
                               /\ bytes <= Served(bytes)
         /\ bytes > Bit[MinShift] /\ ~Refused(bytes)
              => Steps * Served(bytes) <= (Steps + 1) * bytes
<1> DEFINE last == kBucketCount - 1
<1>1. last \in Nat /\ Buckets = 0 .. last /\ \A b \in Buckets : b \in Nat /\ b <= last
  BY BucketsAre
<1>2. PICK raw \in Nat :
        /\ LeastFor(raw, bytes)
        /\ bucketFor(bytes) = AtMost(raw, last)
        /\ bytes > Bit[MinShift] => Steps * bucketBytes(raw) <= (Steps + 1) * bytes
  BY ClassFound
<1> HIDE DEF last
<1>3. bucketFor(bytes) = (IF raw < last THEN raw ELSE last)
  BY <1>2 DEF AtMost
<1>4. /\ bytes <= bucketBytes(raw) /\ \A c \in Nat : bytes <= bucketBytes(c) => raw <= c
      /\ bucketBytes(raw) \in Nat /\ bucketBytes(last) \in Nat
  BY <1>1, <1>2, SizesKeepOrder DEF LeastFor
<1>5. bucketFor(bytes) \in Buckets
  BY <1>1, <1>3
<1>6. ASSUME NEW b \in Buckets, bucketBytes(b) >= bytes PROVE b >= bucketFor(bytes)
  <2>1. b \in Nat /\ b <= last /\ bucketBytes(b) \in Nat
    BY <1>1, SizesKeepOrder
  <2>2. raw <= b
    BY <1>4, <1>6, <2>1
  <2> QED
    BY <1>1, <1>3, <2>1, <2>2
<1>7. CASE raw <= last
  <2>1. bucketFor(bytes) = raw
    BY <1>1, <1>3, <1>7
  <2>2. Served(bytes) = bucketBytes(raw) /\ ~Refused(bytes)
    BY <1>4, <2>1 DEF Served, Refused
  <2>3. bucketBytes(raw) <= bucketBytes(last)
    BY <1>1, <1>7, SizesKeepOrder
  <2>4. bucketFor(bucketBytes(raw)) = raw
    <3>1. PICK own \in Nat : /\ LeastFor(own, bucketBytes(raw))
                             /\ bucketFor(bucketBytes(raw)) = AtMost(own, last)
      BY <1>4, ClassFound DEF last
    <3>2. own <= raw /\ bucketBytes(raw) <= bucketBytes(own)
      BY <1>4, <3>1 DEF LeastFor
    <3>3. raw <= own
      BY <3>2, SizesKeepOrder
    <3>4. own = raw
      BY <3>2, <3>3
    <3> QED
      BY <1>1, <1>7, <3>1, <3>4 DEF AtMost
  <2> QED
    BY <1>2, <1>4, <1>5, <1>6, <2>1, <2>2, <2>3, <2>4 DEF last
<1>8. CASE last < raw
  <2>1. bucketFor(bytes) = last
    BY <1>1, <1>3, <1>8
  <2>2. ~ (bytes <= bucketBytes(last))
    BY <1>1, <1>4, <1>8
  <2>3. Refused(bytes) /\ bytes > bucketBytes(last)
    BY <1>4, <2>1, <2>2 DEF Refused, Served
  <2> QED
    BY <1>5, <1>6, <2>3 DEF last
<1> QED
  BY <1>1, <1>7, <1>8

LEMMA OwnClass == \A c \in Buckets : bucketFor(bucketBytes(c)) = c
<1> SUFFICES ASSUME NEW c \in Buckets PROVE bucketFor(bucketBytes(c)) = c
  OBVIOUS
<1>1. c \in Nat /\ kBucketCount - 1 \in Nat /\ c <= kBucketCount - 1 /\ bucketBytes(c) \in Nat
  BY BucketsAre, SizesKeepOrder
<1>2. PICK own \in Nat : /\ LeastFor(own, bucketBytes(c))
                         /\ bucketFor(bucketBytes(c)) = AtMost(own, kBucketCount - 1)
  BY <1>1, ClassFound
<1>3. own <= c /\ bucketBytes(c) <= bucketBytes(own)
  BY <1>1, <1>2 DEF LeastFor
<1>4. c <= own
  BY <1>1, <1>3, SizesKeepOrder
<1>5. own = c
  BY <1>1, <1>3, <1>4
<1>6. \A n \in Nat : c <= n => AtMost(c, n) = c
  BY <1>1 DEF AtMost
<1> QED
  BY <1>1, <1>2, <1>5, <1>6

\* The classes are as Pool assumes them (PoolAssumption), for requests that are
\* not refused: a size every one, which holds what it is asked for, and a buffer
\* of the size is of that class (pool.cpp 47-69, 176, 231-233).
THEOREM ClassesFitThePool ==
  ASSUME NEW Requests \in SUBSET (Nat \ {0}), \A r \in Requests : ~Refused(r)
  PROVE  LET ClassBytes == [c \in Buckets |-> bucketBytes(c)]
             ClassOf    == [r \in Requests \cup {ClassBytes[c] : c \in Buckets} |-> bucketFor(r)]
         IN  /\ ClassOf \in [Requests \cup {ClassBytes[c] : c \in Buckets} -> Buckets]
             /\ ClassBytes \in [Buckets -> Nat \ {0}]
             /\ \A r \in Requests : r <= ClassBytes[ClassOf[r]]
             /\ \A c \in Buckets : ClassOf[ClassBytes[c]] = c
<1> DEFINE ClassBytes == [c \in Buckets |-> bucketBytes(c)]
           Sizes      == {ClassBytes[c] : c \in Buckets}
           ClassOf    == [r \in Requests \cup Sizes |-> bucketFor(r)]
<1>1. ASSUME NEW c \in Buckets PROVE bucketBytes(c) \in Nat \ {0}
  <2>1. c \in Nat /\ 0 \in Nat
    BY BucketsAre
  <2>2. PICK s \in Nat, w \in 0 .. Steps - 1 :
          /\ s >= MinShift /\ bucketBytes(c) = Bit[s] + Step(s) * w /\ bucketBytes(c) \in Nat
    BY <2>1, ClassIs
  <2>3. Bit[s] \in Nat \ {0} /\ Step(s) \in Nat /\ w \in Nat
    BY <2>2, BitIs, StepsAreWhole, BucketsAssumption
  <2>4. Step(s) * w \in Nat
    BY <2>3
  <2> QED
    BY <2>2, <2>3, <2>4
<1>2. ClassBytes \in [Buckets -> Nat \ {0}] /\ Sizes \subseteq Nat
  BY <1>1
<1>3. \A r \in Requests \cup Sizes : r \in Nat /\ bucketFor(r) \in Buckets
  <2>1. \A r \in Requests \cup Sizes : r \in Nat
    BY <1>2
  <2> HIDE DEF Sizes
  <2> QED
    BY <2>1, ServedByTheLeast
<1>4. ClassOf \in [Requests \cup Sizes -> Buckets]
  <2> HIDE DEF Sizes
  <2> QED
    BY <1>3
<1>5. ASSUME NEW r \in Requests PROVE r <= ClassBytes[ClassOf[r]]
  <2>1. ClassOf[r] = bucketFor(r) /\ bucketFor(r) \in Buckets
    BY <1>3
  <2>2. ClassBytes[ClassOf[r]] = Served(r)
    BY <2>1 DEF Served
  <2>3. r <= Served(r)
    BY ServedByTheLeast
  <2> QED
    BY <2>2, <2>3
<1>6. ASSUME NEW c \in Buckets PROVE ClassOf[ClassBytes[c]] = c
  <2>1. ClassBytes[c] = bucketBytes(c) /\ ClassBytes[c] \in Sizes
    OBVIOUS
  <2>2. ClassOf[ClassBytes[c]] = bucketFor(bucketBytes(c))
    <3> HIDE DEF Sizes, ClassBytes
    <3> QED
      BY <2>1
  <2> QED
    BY <2>2, OwnClass
<1> QED
  BY <1>2, <1>4, <1>5, <1>6
-----------------------------------------------------------------------------
(* Blobs *)

LEMMA BytesAre ==
  ASSUME NEW S, NEW values \in Seq(S), NEW n \in Nat \ {0}
  PROVE  /\ Bytes(values, n) \in Seq(S \X Nat)
         /\ Len(Bytes(values, n)) = n * Len(values)
         /\ \A i \in 1 .. Len(values) :
              /\ n * (i - 1) + 1 \in 1 .. n * Len(values)
              /\ Bytes(values, n)[n * (i - 1) + 1] = <<values[i], 0>>
<1>1. Len(values) \in Nat /\ n * Len(values) \in Nat
  BY LenProperties
<1>2. ASSUME NEW j \in 1 .. n * Len(values)
      PROVE  <<values[(j - 1) \div n + 1], (j - 1) % n>> \in S \X Nat
  <2>1. j - 1 \in 0 .. n * Len(values) - 1
    BY <1>1
  <2>2. (j - 1) \div n \in 0 .. Len(values) - 1 /\ (j - 1) % n \in 0 .. n - 1
    BY <1>1, <2>1, Quotients
  <2>3. (j - 1) \div n + 1 \in 1 .. Len(values) /\ (j - 1) % n \in Nat
    BY <1>1, <2>2
  <2>4. values[(j - 1) \div n + 1] \in S
    BY <2>3, ElementOfSeq
  <2> QED BY <2>3, <2>4
<1>3. Bytes(values, n) \in Seq(S \X Nat) /\ Len(Bytes(values, n)) = n * Len(values)
  BY <1>1, <1>2 DEF Bytes
<1>4. ASSUME NEW i \in 1 .. Len(values)
      PROVE  /\ n * (i - 1) + 1 \in 1 .. n * Len(values)
             /\ Bytes(values, n)[n * (i - 1) + 1] = <<values[i], 0>>
  <2>1. i - 1 \in Nat /\ n * (i - 1) \in Nat /\ n * (i - 1) + n <= n * Len(values)
    BY <1>1
  <2>2. (n * (i - 1)) \div n = i - 1 /\ (n * (i - 1)) % n = 0
    BY <2>1, Quotients
  <2>3. n * (i - 1) + 1 \in 1 .. n * Len(values) /\ n * (i - 1) + 1 - 1 = n * (i - 1)
    BY <1>1, <2>1
  <2> QED BY <2>1, <2>2, <2>3 DEF Bytes
<1> QED BY <1>3, <1>4

LEMMA Remainders == \A n \in Nat \ {0}, k \in Nat : k < n => k % n = k
  OBVIOUS

LEMMA PartsOf ==
  ASSUME NEW S, NEW s \in Seq(S), NEW t \in Seq(S)
  PROVE  /\ s \o t \in Seq(S) /\ Len(s \o t) = Len(s) + Len(t)
         /\ \A i \in 1 .. Len(s) : (s \o t)[i] = s[i]
         /\ \A i \in 1 .. Len(t) : (s \o t)[Len(s) + i] = t[i]
  OBVIOUS

\* Where the parts of a blob of these arguments are.
LaidOut(blob, args) ==
  LET count == Len(args.buffers)
      rest  == Len(args.uniforms)
  IN  /\ Len(blob) = Header + count * HandleBytes + count * WordBytes + rest
      /\ blob[1] = <<Word(count), 0>> /\ blob[WordBytes + 1] = <<Word(rest), 0>>
      /\ \A i \in 1 .. count :
           /\ HandleBytes * (i - 1) + 1 \in 1 .. count * HandleBytes
           /\ blob[Header + 1 + HandleBytes * (i - 1)] = <<args.buffers[i], 0>>
      /\ \A i \in 1 .. count :
           /\ WordBytes * (i - 1) + 1 \in 1 .. count * WordBytes
           /\ blob[Header + count * HandleBytes + 1 + WordBytes * (i - 1)]
                = <<args.elements[i], 0>>
      /\ \A i \in 1 .. rest :
           blob[Header + count * HandleBytes + count * WordBytes + 1 + 1 * (i - 1)]
             = <<args.uniforms[i], 0>>

LEMMA WordIs ==
  ASSUME NEW n \in Nat
  PROVE  /\ Word(n) \in Nat /\ Word(n) <= n /\ Word(n) < WordMax
         /\ n < WordMax => Word(n) = n
<1>1. \A k \in Nat \ {0} : n % k \in Nat /\ n % k <= n /\ n % k < k /\ (n < k => n % k = n)
  OBVIOUS
<1> QED
  BY <1>1, ArgsAssumption DEF Word

LEMMA BlobIs ==
  ASSUME NEW S, Nat \subseteq S, NEW args,
         args.buffers \in Seq(S), args.elements \in Seq(S), args.uniforms \in Seq(S),
         Len(args.elements) = Len(args.buffers)
  PROVE  LaidOut(Built(args), args)
<1> DEFINE count == Len(args.buffers)
           rest == Len(args.uniforms)
           A == Bytes(<<Word(count), Word(rest)>>, WordBytes)
           B == Bytes(args.buffers, HandleBytes)
           C == Bytes(args.elements, WordBytes)
           D == Bytes(args.uniforms, 1)
<1>1. count \in Nat /\ rest \in Nat /\ WordBytes \in Nat \ {0} /\ HandleBytes \in Nat \ {0}
  BY LenProperties, ArgsAssumption
<1>2. Word(count) \in Nat /\ Word(rest) \in Nat
  BY <1>1, WordIs
<1>3. Built(args) = ((A \o B) \o C) \o D
  BY DEF Built
<1>4. /\ A \in Seq(S \X Nat) /\ Len(A) = Header
      /\ A[1] = <<Word(count), 0>> /\ A[WordBytes + 1] = <<Word(rest), 0>>
  <2>1. <<Word(count), Word(rest)>> \in Seq(S) /\ Len(<<Word(count), Word(rest)>>) = 2
    BY <1>2
  <2>2. /\ A \in Seq(S \X Nat) /\ Len(A) = WordBytes * 2
        /\ \A i \in 1 .. 2 : A[WordBytes * (i - 1) + 1] = <<(<<Word(count), Word(rest)>>)[i], 0>>
    BY <1>1, <2>1, BytesAre, ZenonT(30)
  <2>3. /\ A[WordBytes * (1 - 1) + 1] = <<Word(count), 0>>
        /\ A[WordBytes * (2 - 1) + 1] = <<Word(rest), 0>>
    <3>1. 1 \in 1 .. 2 /\ 2 \in 1 .. 2
      OBVIOUS
    <3>2. /\ (<<Word(count), Word(rest)>>)[1] = Word(count)
          /\ (<<Word(count), Word(rest)>>)[2] = Word(rest)
      OBVIOUS
    <3> HIDE DEF A, count, rest
    <3> QED BY <2>2, <3>1, <3>2
  <2>4. /\ WordBytes * (1 - 1) + 1 = 1 /\ WordBytes * (2 - 1) + 1 = WordBytes + 1
        /\ WordBytes * 2 = Header
    BY <1>1 DEF Header
  <2> QED BY <2>2, <2>3, <2>4
<1>5. /\ B \in Seq(S \X Nat) /\ Len(B) = count * HandleBytes
      /\ \A i \in 1 .. count :
           /\ HandleBytes * (i - 1) + 1 \in 1 .. count * HandleBytes
           /\ B[HandleBytes * (i - 1) + 1] = <<args.buffers[i], 0>>
  <2>1. HandleBytes * count = count * HandleBytes
    BY <1>1
  <2> QED BY <1>1, <2>1, BytesAre
<1>6. /\ C \in Seq(S \X Nat) /\ Len(C) = count * WordBytes
      /\ \A i \in 1 .. count :
           /\ WordBytes * (i - 1) + 1 \in 1 .. count * WordBytes
           /\ C[WordBytes * (i - 1) + 1] = <<args.elements[i], 0>>
  <2>1. WordBytes * count = count * WordBytes /\ Len(args.elements) = count
    BY <1>1
  <2> QED BY <1>1, <2>1, BytesAre, ZenonT(30)
<1>7. /\ D \in Seq(S \X Nat) /\ Len(D) = rest
      /\ \A i \in 1 .. rest : D[1 * (i - 1) + 1] = <<args.uniforms[i], 0>>
  <2>1. \A n \in Nat \ {0} :
          /\ Bytes(args.uniforms, n) \in Seq(S \X Nat)
          /\ Len(Bytes(args.uniforms, n)) = n * rest
          /\ \A i \in 1 .. rest :
               Bytes(args.uniforms, n)[n * (i - 1) + 1] = <<args.uniforms[i], 0>>
    BY BytesAre
  <2>2. 1 \in Nat \ {0}
    OBVIOUS
  <2>3. /\ D \in Seq(S \X Nat) /\ Len(D) = 1 * rest
        /\ \A i \in 1 .. rest : D[1 * (i - 1) + 1] = <<args.uniforms[i], 0>>
    BY ONLY <2>1, <2>2
  <2>4. 1 * rest = rest
    BY <1>1
  <2> QED BY ONLY <2>3, <2>4
<1> DEFINE Pairs == S \X Nat
<1> HIDE DEF count, rest, A, B, C, D
<1>8. Header \in Nat /\ count * HandleBytes \in Nat /\ count * WordBytes \in Nat
  BY <1>1 DEF Header
<1>17. A \in Seq(Pairs) /\ B \in Seq(Pairs) /\ C \in Seq(Pairs) /\ D \in Seq(Pairs)
  BY <1>4, <1>5, <1>6, <1>7
<1> HIDE DEF Pairs
<1>9. /\ A \o B \in Seq(Pairs) /\ Len(A \o B) = Header + count * HandleBytes
      /\ \A i \in 1 .. Header : (A \o B)[i] = A[i]
      /\ \A i \in 1 .. count * HandleBytes : (A \o B)[Header + i] = B[i]
  <2>1. /\ A \o B \in Seq(Pairs) /\ Len(A \o B) = Len(A) + Len(B)
        /\ \A i \in 1 .. Len(A) : (A \o B)[i] = A[i]
        /\ \A i \in 1 .. Len(B) : (A \o B)[Len(A) + i] = B[i]
    BY <1>17, PartsOf
  <2>2. Len(A) = Header
    BY <1>4, <1>5, <1>8
  <2> QED BY <1>4, <1>5, <1>8, <2>1, <2>2
<1> DEFINE AB == A \o B
<1> HIDE DEF AB
<1>10. /\ AB \o C \in Seq(Pairs)
       /\ Len(AB \o C) = Header + count * HandleBytes + count * WordBytes
       /\ \A i \in 1 .. Header + count * HandleBytes : (AB \o C)[i] = AB[i]
       /\ \A i \in 1 .. count * WordBytes : (AB \o C)[Header + count * HandleBytes + i] = C[i]
  <2>1. /\ AB \o C \in Seq(Pairs) /\ Len(AB \o C) = Len(AB) + Len(C)
        /\ \A i \in 1 .. Len(AB) : (AB \o C)[i] = AB[i]
        /\ \A i \in 1 .. Len(C) : (AB \o C)[Len(AB) + i] = C[i]
    BY <1>9, <1>17, PartsOf, SMTT(30) DEF AB
  <2>2. Len(AB) = Header + count * HandleBytes
    BY <1>6, <1>8, <1>9 DEF AB
  <2> QED BY <1>6, <1>8, <1>9, <2>1, <2>2
<1> DEFINE ABC == AB \o C
<1> HIDE DEF ABC
<1>11. /\ ABC \o D \in Seq(Pairs)
       /\ Len(ABC \o D) = Header + count * HandleBytes + count * WordBytes + rest
       /\ \A i \in 1 .. Header + count * HandleBytes + count * WordBytes :
            (ABC \o D)[i] = ABC[i]
       /\ \A i \in 1 .. rest :
            (ABC \o D)[Header + count * HandleBytes + count * WordBytes + i] = D[i]
  <2>1. /\ ABC \o D \in Seq(Pairs) /\ Len(ABC \o D) = Len(ABC) + Len(D)
        /\ \A i \in 1 .. Len(ABC) : (ABC \o D)[i] = ABC[i]
        /\ \A i \in 1 .. Len(D) : (ABC \o D)[Len(ABC) + i] = D[i]
    <3>1. ABC \in Seq(Pairs)
      BY <1>10 DEF ABC
    <3> QED
      BY <1>17, <3>1, PartsOf
  <2>2. Len(ABC) = Header + count * HandleBytes + count * WordBytes
    BY <1>1, <1>7, <1>8, <1>10 DEF ABC
  <2> QED BY <1>1, <1>7, <1>8, <1>10, <2>1, <2>2
<1> DEFINE blob == ABC \o D
<1>12. Built(args) = blob
  BY <1>3 DEF AB, ABC
<1> HIDE DEF blob
<1>18. /\ \A i \in 1 .. Header : AB[i] = A[i]
       /\ \A i \in 1 .. count * HandleBytes : AB[Header + i] = B[i]
  BY <1>9 DEF AB
<1>19. /\ \A i \in 1 .. Header + count * HandleBytes : ABC[i] = AB[i]
       /\ \A i \in 1 .. count * WordBytes : ABC[Header + count * HandleBytes + i] = C[i]
  BY <1>10 DEF ABC
<1>20. \A i \in 1 .. Header + count * HandleBytes : blob[i] = AB[i]
  <2>1. \A i \in 1 .. Header + count * HandleBytes + count * WordBytes : blob[i] = ABC[i]
    BY <1>11 DEF blob
  <2>2. \A i \in 1 .. Header + count * HandleBytes :
          i \in 1 .. Header + count * HandleBytes + count * WordBytes
    BY <1>8
  <2> QED BY ONLY <1>19, <2>1, <2>2
<1>13. blob[1] = <<Word(count), 0>> /\ blob[WordBytes + 1] = <<Word(rest), 0>>
  <2>1. 1 \in 1 .. Header /\ WordBytes + 1 \in 1 .. Header
    BY <1>1 DEF Header
  <2>2. \A i \in 1 .. Header : i \in 1 .. Header + count * HandleBytes
    BY <1>8
  <2>3. \A i \in 1 .. Header : blob[i] = A[i]
    BY ONLY <1>18, <1>20, <2>2
  <2> QED BY ONLY <1>4, <2>1, <2>3
<1>14. ASSUME NEW i \in 1 .. count
       PROVE  blob[Header + 1 + HandleBytes * (i - 1)] = <<args.buffers[i], 0>>
  <2>1. /\ HandleBytes * (i - 1) + 1 \in 1 .. count * HandleBytes
        /\ B[HandleBytes * (i - 1) + 1] = <<args.buffers[i], 0>>
    BY <1>5
  <2>2. Header + 1 + HandleBytes * (i - 1) = Header + (HandleBytes * (i - 1) + 1)
    BY <1>1, <1>8
  <2>3. Header + (HandleBytes * (i - 1) + 1) \in 1 .. Header + count * HandleBytes
    BY <1>8, <2>1
  <2>4. blob[Header + (HandleBytes * (i - 1) + 1)] = B[HandleBytes * (i - 1) + 1]
    BY ONLY <1>18, <1>20, <2>1, <2>3
  <2> QED BY ONLY <2>1, <2>2, <2>4
<1>15. ASSUME NEW i \in 1 .. count
       PROVE  blob[Header + count * HandleBytes + 1 + WordBytes * (i - 1)]
                = <<args.elements[i], 0>>
  <2>1. /\ WordBytes * (i - 1) + 1 \in 1 .. count * WordBytes
        /\ C[WordBytes * (i - 1) + 1] = <<args.elements[i], 0>>
    BY <1>6
  <2>2. Header + count * HandleBytes + 1 + WordBytes * (i - 1)
          = Header + count * HandleBytes + (WordBytes * (i - 1) + 1)
    BY <1>1, <1>8
  <2>3. Header + count * HandleBytes + (WordBytes * (i - 1) + 1)
          \in 1 .. Header + count * HandleBytes + count * WordBytes
    BY <1>8, <2>1
  <2> QED BY <1>10, <1>11, <2>1, <2>2, <2>3 DEF ABC, blob
<1>16. ASSUME NEW i \in 1 .. rest
       PROVE  blob[Header + count * HandleBytes + count * WordBytes + 1 + 1 * (i - 1)]
                = <<args.uniforms[i], 0>>
  <2>1. /\ 1 * (i - 1) + 1 = i
        /\ Header + count * HandleBytes + count * WordBytes + 1 + 1 * (i - 1)
             = Header + count * HandleBytes + count * WordBytes + i
    BY <1>1, <1>8
  <2> QED BY <1>7, <1>11, <2>1 DEF blob
<1> QED
  BY <1>5, <1>6, <1>11, <1>12, <1>13, <1>14, <1>15, <1>16 DEF LaidOut, Pairs, blob, count, rest

\* What Args::read makes of a blob of the length it says.
LEMMA ReadIs ==
  ASSUME NEW blob, NEW count \in Nat, NEW rest \in Nat,
         Len(blob) = Header + count * HandleBytes + count * WordBytes + rest,
         blob[1][1] = count, blob[WordBytes + 1][1] = rest
  PROVE  Read(blob) =
           [valid    |-> TRUE,
            buffers  |-> Values(blob, Header + 1, count, HandleBytes),
            elements |-> Values(blob, Header + count * HandleBytes + 1, count, WordBytes),
            uniforms |->
              Values(blob, Header + count * HandleBytes + count * WordBytes + 1, rest, 1)]
<1>1. Header \in Nat /\ count * HandleBytes \in Nat /\ count * WordBytes \in Nat
  BY ArgsAssumption DEF Header
<1>2. ~ Len(blob) < Header
  BY <1>1
<1>3. Measures(blob, count, rest)
  BY DEF Measures
<1> QED BY <1>2, <1>3 DEF Read, ReadCounted

\* What becomes of a blob whose counts fit the header: the handles in it change,
\* its length and its header do not.
Told(told, blob, args, native) ==
  LET count == Len(args.buffers)
      rest  == Len(args.uniforms)
      total == Header + count * HandleBytes + count * WordBytes + rest
  IN  /\ told = [i \in 1 .. total |-> IF i \in Header + 1 .. Header + count * HandleBytes
                                    THEN <<native[blob[i][1]], blob[i][2]>>
                                    ELSE blob[i]]
      /\ Len(told) = total /\ total \in Nat
      /\ told[1][1] = count /\ told[WordBytes + 1][1] = rest

LEMMA ToldIs ==
  ASSUME NEW S, Nat \subseteq S, NEW args, NEW native,
         args.buffers \in Seq(S), args.elements \in Seq(S), args.uniforms \in Seq(S),
         Len(args.elements) = Len(args.buffers),
         Len(args.buffers) < WordMax, Len(args.uniforms) < WordMax
  PROVE  Told(Translated(Built(args), native), Built(args), args, native)
<1> DEFINE count == Len(args.buffers)
           rest == Len(args.uniforms)
           blob == Built(args)
           told == Translated(blob, native)
           total == Header + count * HandleBytes + count * WordBytes + rest
<1>1. /\ count \in Nat /\ rest \in Nat /\ WordBytes \in Nat \ {0} /\ HandleBytes \in Nat \ {0}
      /\ Header \in Nat /\ 1 \in 1 .. Header /\ WordBytes + 1 \in 1 .. Header
      /\ count * HandleBytes \in Nat /\ count * WordBytes \in Nat
  BY LenProperties, ArgsAssumption DEF Header
<1>2. /\ args.buffers = [i \in 1 .. count |-> args.buffers[i]]
      /\ args.elements = [i \in 1 .. count |-> args.elements[i]]
      /\ args.uniforms = [i \in 1 .. rest |-> args.uniforms[i]]
  BY LenProperties
<1>3. /\ Len(blob) = total
      /\ blob[1] = <<count, 0>> /\ blob[WordBytes + 1] = <<rest, 0>>
      /\ \A i \in 1 .. count :
           /\ HandleBytes * (i - 1) + 1 \in 1 .. count * HandleBytes
           /\ blob[Header + 1 + HandleBytes * (i - 1)] = <<args.buffers[i], 0>>
      /\ \A i \in 1 .. count :
           /\ WordBytes * (i - 1) + 1 \in 1 .. count * WordBytes
           /\ blob[Header + count * HandleBytes + 1 + WordBytes * (i - 1)] = <<args.elements[i], 0>>
      /\ \A i \in 1 .. rest :
           blob[Header + count * HandleBytes + count * WordBytes + 1 + 1 * (i - 1)]
             = <<args.uniforms[i], 0>>
  <2>1. LaidOut(blob, args)
    BY BlobIs
  <2>2. Word(count) = count /\ Word(rest) = rest
    BY <1>1, WordIs
  <2> HIDE DEF blob
  <2> QED BY <2>1, <2>2 DEF LaidOut
<1> HIDE DEF blob
<1>4. Read(blob).buffers = args.buffers
  <2>1. blob[1][1] = count /\ blob[WordBytes + 1][1] = rest
    BY <1>3
  <2>2. Read(blob).buffers = Values(blob, Header + 1, count, HandleBytes)
    <3> HIDE DEF count, rest
    <3>1. Len(blob) = Header + count * HandleBytes + count * WordBytes + rest
      BY <1>3
    <3> HIDE DEF total
    <3>2. Read(blob) =
           [valid    |-> TRUE,
            buffers  |-> Values(blob, Header + 1, count, HandleBytes),
            elements |-> Values(blob, Header + count * HandleBytes + 1, count, WordBytes),
            uniforms |->
              Values(blob, Header + count * HandleBytes + count * WordBytes + 1, rest, 1)]
      BY <1>1, <2>1, <3>1, ReadIs
    <3> QED BY ONLY <3>2
  <2>3. ASSUME NEW i \in 1 .. count
        PROVE  blob[Header + 1 + HandleBytes * (i - 1)][1] = args.buffers[i]
    <3>1. blob[Header + 1 + HandleBytes * (i - 1)] = <<args.buffers[i], 0>>
      BY <1>3
    <3> QED BY ONLY <3>1
  <2> QED BY <1>2, <2>2, <2>3 DEF Values
<1>5. told = [i \in 1 .. total |-> IF i \in Header + 1 .. Header + count * HandleBytes
                                 THEN <<native[blob[i][1]], blob[i][2]>>
                                 ELSE blob[i]]
  BY <1>3, <1>4 DEF Translated
<1> HIDE DEF told, count, rest
<1>6. Len(told) = total /\ total \in Nat
  BY <1>1, <1>5
<1>7. told[1][1] = count /\ told[WordBytes + 1][1] = rest
  <2>1. ASSUME NEW i \in 1 .. Header
        PROVE  told[i] = blob[i]
    <3>1. i \in 1 .. total /\ i \notin Header + 1 .. Header + count * HandleBytes
      BY <1>1
    <3> HIDE DEF total
    <3> QED BY ONLY <1>5, <3>1
  <2>2. told[1] = blob[1] /\ told[WordBytes + 1] = blob[WordBytes + 1]
    BY <1>1, <2>1
  <2> QED BY <1>3, <2>2
<1> HIDE DEF total
<1> QED
  BY <1>5, <1>6, <1>7 DEF Told, told, blob, count, rest, total

\* A backend reads the buffers, the element sizes and the uniforms that were
\* added, each handle as the backend's own, whatever the widths of a word and of
\* a handle are (args.h 56-145, pool.cpp 383-396).
THEOREM BlobReadsBack ==
  ASSUME NEW S, Nat \subseteq S, NEW args, NEW native,
         args.buffers \in Seq(S), args.elements \in Seq(S), args.uniforms \in Seq(S),
         Len(args.elements) = Len(args.buffers),
         Len(args.buffers) < WordMax, Len(args.uniforms) < WordMax
  PROVE  Read(Translated(Built(args), native)) =
           [valid    |-> TRUE,
            buffers  |-> [i \in 1 .. Len(args.buffers) |-> native[args.buffers[i]]],
            elements |-> args.elements,
            uniforms |-> args.uniforms]
<1> DEFINE count == Len(args.buffers)
           rest == Len(args.uniforms)
           blob == Built(args)
           told == Translated(blob, native)
           total == Header + count * HandleBytes + count * WordBytes + rest
<1>1. /\ count \in Nat /\ rest \in Nat /\ WordBytes \in Nat \ {0} /\ HandleBytes \in Nat \ {0}
      /\ Header \in Nat /\ 1 \in 1 .. Header /\ WordBytes + 1 \in 1 .. Header
      /\ count * HandleBytes \in Nat /\ count * WordBytes \in Nat
  BY LenProperties, ArgsAssumption DEF Header
<1>2. /\ args.buffers = [i \in 1 .. count |-> args.buffers[i]]
      /\ args.elements = [i \in 1 .. count |-> args.elements[i]]
      /\ args.uniforms = [i \in 1 .. rest |-> args.uniforms[i]]
  BY LenProperties
<1>3. /\ Len(blob) = total
      /\ blob[1] = <<count, 0>> /\ blob[WordBytes + 1] = <<rest, 0>>
      /\ \A i \in 1 .. count :
           /\ HandleBytes * (i - 1) + 1 \in 1 .. count * HandleBytes
           /\ blob[Header + 1 + HandleBytes * (i - 1)] = <<args.buffers[i], 0>>
      /\ \A i \in 1 .. count :
           /\ WordBytes * (i - 1) + 1 \in 1 .. count * WordBytes
           /\ blob[Header + count * HandleBytes + 1 + WordBytes * (i - 1)] = <<args.elements[i], 0>>
      /\ \A i \in 1 .. rest :
           blob[Header + count * HandleBytes + count * WordBytes + 1 + 1 * (i - 1)]
             = <<args.uniforms[i], 0>>
  <2>1. LaidOut(blob, args)
    BY BlobIs
  <2>2. Word(count) = count /\ Word(rest) = rest
    BY <1>1, WordIs
  <2> HIDE DEF blob
  <2> QED BY <2>1, <2>2 DEF LaidOut
<1> HIDE DEF blob
<1> HIDE DEF blob
<1>5. told = [i \in 1 .. total |-> IF i \in Header + 1 .. Header + count * HandleBytes
                                 THEN <<native[blob[i][1]], blob[i][2]>>
                                 ELSE blob[i]]
  BY ToldIs DEF Told, blob
<1>6. Len(told) = total /\ total \in Nat
  BY ToldIs DEF Told, blob
<1>7. told[1][1] = count /\ told[WordBytes + 1][1] = rest
  BY ToldIs DEF Told, blob
<1> HIDE DEF told, count, rest
<1>8. ASSUME NEW i \in 1 .. count
      PROVE  told[Header + 1 + HandleBytes * (i - 1)][1] = native[args.buffers[i]]
  <2> DEFINE x == Header + 1 + HandleBytes * (i - 1)
  <2>1. HandleBytes * (i - 1) + 1 \in 1 .. count * HandleBytes /\ blob[x] = <<args.buffers[i], 0>>
    BY <1>3
  <2>2. HandleBytes * (i - 1) \in Int
    BY <1>1
  <2>3. x \in 1 .. total /\ x \in Header + 1 .. Header + count * HandleBytes
    <3>1. \A k \in Int, h \in Nat, w \in Nat : k + 1 \in 1 .. h =>
            /\ Header + 1 + k \in 1 .. Header + h + w + rest
            /\ Header + 1 + k \in Header + 1 .. Header + h
      BY <1>1
    <3> QED BY ONLY <1>1, <2>1, <2>2, <3>1
  <2> HIDE DEF x, total
  <2>4. told[x] = <<native[blob[x][1]], blob[x][2]>>
    BY ONLY <1>5, <2>3
  <2>5. told[x][1] = native[args.buffers[i]]
    BY ONLY <2>1, <2>4
  <2> QED BY <2>5 DEF x
<1>9. ASSUME NEW i \in 1 .. count
      PROVE  told[Header + count * HandleBytes + 1 + WordBytes * (i - 1)][1] = args.elements[i]
  <2> DEFINE x == Header + count * HandleBytes + 1 + WordBytes * (i - 1)
  <2>1. WordBytes * (i - 1) + 1 \in 1 .. count * WordBytes /\ blob[x] = <<args.elements[i], 0>>
    BY <1>3
  <2>2. WordBytes * (i - 1) \in Int
    BY <1>1
  <2>3. x \in 1 .. total /\ x \notin Header + 1 .. Header + count * HandleBytes
    <3>1. \A k \in Int, h \in Nat, w \in Nat : k + 1 \in 1 .. w =>
            /\ Header + h + 1 + k \in 1 .. Header + h + w + rest
            /\ Header + h + 1 + k \notin Header + 1 .. Header + h
      BY <1>1
    <3> QED BY ONLY <1>1, <2>1, <2>2, <3>1
  <2> HIDE DEF x, total
  <2>4. told[x] = blob[x]
    BY ONLY <1>5, <2>3
  <2>5. told[x][1] = args.elements[i]
    BY ONLY <2>1, <2>4
  <2> QED BY <2>5 DEF x
<1>10. ASSUME NEW i \in 1 .. rest
       PROVE  told[Header + count * HandleBytes + count * WordBytes + 1 + 1 * (i - 1)][1]
                = args.uniforms[i]
  <2> DEFINE x == Header + count * HandleBytes + count * WordBytes + 1 + 1 * (i - 1)
  <2>1. blob[x] = <<args.uniforms[i], 0>>
    BY <1>3
  <2>2. x \in 1 .. total /\ x \notin Header + 1 .. Header + count * HandleBytes
    BY <1>1
  <2> HIDE DEF x, total
  <2>3. told[x] = blob[x]
    BY ONLY <1>5, <2>2
  <2>4. told[x][1] = args.uniforms[i]
    BY ONLY <2>1, <2>3
  <2> QED BY <2>4 DEF x
<1> DEFINE handles == [i \in 1 .. count |-> native[args.buffers[i]]]
<1>11. Values(told, Header + 1, count, HandleBytes) = handles
  BY <1>8 DEF Values
<1>12. Values(told, Header + count * HandleBytes + 1, count, WordBytes) = args.elements
  BY <1>2, <1>9 DEF Values
<1>13. Values(told, Header + count * HandleBytes + count * WordBytes + 1, rest, 1) = args.uniforms
  BY <1>2, <1>10 DEF Values
<1> HIDE DEF handles
<1>14. Read(told) = [valid    |-> TRUE,          buffers  |-> handles,
                     elements |-> args.elements, uniforms |-> args.uniforms]
  <2>1. Len(told) = Header + count * HandleBytes + count * WordBytes + rest
    BY <1>6
  <2> HIDE DEF total
  <2>2. Read(told) =
         [valid    |-> TRUE,
          buffers  |-> Values(told, Header + 1, count, HandleBytes),
          elements |-> Values(told, Header + count * HandleBytes + 1, count, WordBytes),
          uniforms |->
            Values(told, Header + count * HandleBytes + count * WordBytes + 1, rest, 1)]
    BY <1>1, <1>7, <2>1, ReadIs
  <2> QED BY ONLY <1>11, <1>12, <1>13, <2>2
<1> QED BY <1>14 DEF told, blob, handles, count

\* A blob is not read when it is not as long as its header says.
LEMMA Mismeasured ==
  ASSUME NEW blob, NEW count \in Nat, NEW rest \in Nat, Len(blob) \in Nat,
         Len(blob) >= Header => blob[1][1] = count /\ blob[WordBytes + 1][1] = rest,
         Len(blob) # Header + count * HandleBytes + count * WordBytes + rest
  PROVE  Read(blob) = Invalid
<1>1. Header \in Nat
  BY ArgsAssumption DEF Header
<1>2. CASE Len(blob) < Header
  BY <1>2 DEF Read
<1>3. CASE Len(blob) >= Header
  <2>1. ~ Measures(blob, count, rest)
    <3>1. ~ (Header + count * HandleBytes + count * WordBytes + rest = Len(blob))
      OBVIOUS
    <3> QED
      BY <3>1 DEF Measures
  <2>2. ~ (Len(blob) < Header)
    BY <1>1, <1>3
  <2>3. Read(blob) = ReadCounted(blob, count, rest)
    BY <1>3, <2>2 DEF Read
  <2> QED
    BY <2>1, <2>3 DEF ReadCounted
<1> QED
  BY <1>1, <1>2, <1>3

\* Of a blob that was cut short a backend reads nothing, however short (args.h:118).
THEOREM CutBlobsAreRefused ==
  ASSUME NEW S, Nat \subseteq S, NEW args, NEW native,
         args.buffers \in Seq(S), args.elements \in Seq(S), args.uniforms \in Seq(S),
         Len(args.elements) = Len(args.buffers),
         Len(args.buffers) < WordMax, Len(args.uniforms) < WordMax,
         NEW n \in 0 .. Len(Translated(Built(args), native)) - 1
  PROVE  Read(SubSeq(Translated(Built(args), native), 1, n)) = Invalid
<1> DEFINE count == Len(args.buffers)
           rest  == Len(args.uniforms)
           total == Header + count * HandleBytes + count * WordBytes + rest
           told  == Translated(Built(args), native)
           cut   == SubSeq(told, 1, n)
<1>1. /\ Len(told) = total /\ total \in Nat
      /\ told[1][1] = count /\ told[WordBytes + 1][1] = rest
      /\ told = [i \in 1 .. total |-> told[i]]
  <2>1. Told(told, Built(args), args, native)
    BY ToldIs
  <2>2. /\ Len(told) = total /\ total \in Nat
        /\ told[1][1] = count /\ told[WordBytes + 1][1] = rest
    <3> HIDE DEF told
    <3> QED
      BY <2>1 DEF Told
  <2>3. told = [i \in 1 .. total |-> told[i]]
    <3> HIDE DEF told
    <3> QED
      BY <2>1 DEF Told
  <2> HIDE DEF told, total
  <2> QED
    BY <2>2, <2>3
<1>2. count \in Nat /\ rest \in Nat /\ Header \in Nat /\ 1 <= Header /\ WordBytes + 1 <= Header
      /\ WordBytes \in Nat
  BY LenProperties, ArgsAssumption DEF Header
<1> HIDE DEF told, count, rest
<1>3. n \in Nat /\ n <= total - 1
  <2>1. n \in 0 .. total - 1
    BY <1>1 DEF told
  <2> HIDE DEF total
  <2> QED
    BY <1>1, <2>1
<1> DEFINE of == {told[i] : i \in 1 .. total}
<1>4. Len(cut) = n /\ \A i \in 1 .. n : cut[i] = told[i]
  <2> HIDE DEF total
  <2>1. told \in Seq(of)
    <3>1. \A i \in 1 .. total : told[i] \in of
      OBVIOUS
    <3> HIDE DEF of
    <3> QED
      BY <1>1, <3>1
  <2> HIDE DEF of
  <2>2. n <= Len(told) /\ n \in 0 .. Len(told)
    BY <1>1, <1>3
  <2> QED
    BY <2>1, <2>2, <1>3
<1>5. n >= Header => cut[1][1] = count /\ cut[WordBytes + 1][1] = rest
  <2> SUFFICES ASSUME n >= Header PROVE cut[1][1] = count /\ cut[WordBytes + 1][1] = rest
    OBVIOUS
  <2>1. 1 \in 1 .. n /\ WordBytes + 1 \in 1 .. n
    BY <1>2, <1>3
  <2> HIDE DEF cut
  <2> QED
    BY <1>1, <1>4, <2>1
<1>6. n # Header + count * HandleBytes + count * WordBytes + rest
  <2>1. n # total
    <3> HIDE DEF total
    <3> QED
      BY <1>1, <1>3
  <2> QED
    BY <2>1
<1> HIDE DEF total, cut
<1>7. Read(cut) = Invalid
  BY <1>2, <1>3, <1>4, <1>5, <1>6, Mismeasured
<1> QED
  BY <1>7 DEF cut, told

\* Of a dispatch of more buffers or uniform bytes than the header can count
\* (static_cast<uint32_t>) the pool translates nothing and a backend reads nothing.
THEOREM UncountedBlobsAreRefused ==
  ASSUME NEW S, Nat \subseteq S, NEW args, NEW native,
         args.buffers \in Seq(S), args.elements \in Seq(S), args.uniforms \in Seq(S),
         Len(args.elements) = Len(args.buffers),
         ~ (Len(args.buffers) < WordMax /\ Len(args.uniforms) < WordMax)
  PROVE  Read(Translated(Built(args), native)) = Invalid
<1> DEFINE count == Len(args.buffers)
           rest  == Len(args.uniforms)
           c     == Word(count)
           r     == Word(rest)
           total == Header + count * HandleBytes + count * WordBytes + rest
           blob  == Built(args)
           told  == Translated(blob, native)
<1>1. /\ count \in Nat /\ rest \in Nat /\ Header \in Nat /\ 1 <= Header /\ WordBytes + 1 <= Header
      /\ WordBytes \in Nat \ {0} /\ HandleBytes \in Nat \ {0} /\ WordMax \in Nat \ {0}
  BY LenProperties, ArgsAssumption DEF Header
<1>2. Len(blob) = total /\ blob[1][1] = c /\ blob[WordBytes + 1][1] = r
  <2>1. LaidOut(blob, args)
    BY BlobIs
  <2> HIDE DEF blob
  <2> QED
    BY <2>1 DEF LaidOut
<1> HIDE DEF blob
<1>3. ~ (count < WordMax /\ rest < WordMax)
  OBVIOUS
<1> HIDE DEF count, rest
<1>4. c \in Nat /\ c <= count /\ c < WordMax /\ r \in Nat /\ r <= rest /\ r < WordMax
  BY <1>1, WordIs
<1> HIDE DEF c, r
<1>5. total \in Nat /\ total >= Header
      /\ total # Header + c * HandleBytes + c * WordBytes + r
  <2>1. \A x, y \in Nat : x * y \in Nat
    OBVIOUS
  <2>2. \A x, y, n \in Nat : x <= y => x * n <= y * n
    <3> SUFFICES ASSUME NEW x \in Nat, NEW y \in Nat, NEW n \in Nat, x <= y PROVE x * n <= y * n
      OBVIOUS
    <3>1. PICK d \in Nat : y = x + d
      <4>1. y = x + (y - x) /\ y - x \in Nat
        OBVIOUS
      <4> QED
        BY <4>1
    <3>2. y * n = x * n + d * n /\ d * n >= 0 /\ x * n \in Int /\ d * n \in Int
      BY <3>1
    <3> QED
      BY <3>2
  <2>3. \A x, y \in Nat, n \in Nat \ {0} : x < y => x * n < y * n
    <3> SUFFICES ASSUME NEW x \in Nat, NEW y \in Nat, NEW n \in Nat \ {0}, x < y
                 PROVE  x * n < y * n
      OBVIOUS
    <3>1. PICK d \in Nat \ {0} : y = x + d
      <4>1. y = x + (y - x) /\ y - x \in Nat \ {0}
        OBVIOUS
      <4> QED
        BY <4>1
    <3>2. y * n = x * n + d * n /\ d * n > 0 /\ x * n \in Int /\ d * n \in Int
      BY <3>1
    <3> QED
      BY <3>2
  <2>4. /\ c * HandleBytes \in Nat /\ count * HandleBytes \in Nat
        /\ c * WordBytes \in Nat /\ count * WordBytes \in Nat
    BY <1>1, <1>4, <2>1
  <2>5. c * HandleBytes <= count * HandleBytes /\ c * WordBytes <= count * WordBytes
    BY <1>1, <1>4, <2>2
  <2>6. c < count => c * HandleBytes < count * HandleBytes
    BY <1>1, <1>4, <2>3
  <2>7. c < count \/ r < rest
    BY <1>1, <1>3, <1>4
  <2> QED
    BY <1>1, <1>4, <2>4, <2>5, <2>6, <2>7, SMTT(30)
<1>6. Read(blob) = Invalid
  <2> HIDE DEF total
  <2> QED
    BY <1>2, <1>4, <1>5, Mismeasured
<1>7. told = [i \in 1 .. total |-> blob[i]]
  <2>1. Len(Read(blob).buffers) = 0
    BY <1>6 DEF Invalid
  <2>2. \A i \in 1 .. total : i \notin Header + 1 .. Header + 0 * HandleBytes
    BY <1>1
  <2>3. told = [i \in 1 .. Len(blob) |->
                 IF i \in Header + 1 .. Header + 0 * HandleBytes
                 THEN <<native[blob[i][1]], blob[i][2]>>
                 ELSE blob[i]]
    BY <2>1 DEF Translated
  <2> HIDE DEF told, total
  <2> QED
    BY <1>2, <2>2, <2>3
<1> HIDE DEF told
<1>8. Len(told) = total /\ told[1][1] = c /\ told[WordBytes + 1][1] = r
  <2> HIDE DEF total
  <2>1. 1 \in 1 .. total /\ WordBytes + 1 \in 1 .. total
    BY <1>1, <1>5
  <2> QED
    BY <1>2, <1>5, <1>7, <2>1
<1>9. Read(told) = Invalid
  <2> HIDE DEF total
  <2> QED
    BY <1>4, <1>5, <1>8, Mismeasured
<1> QED
  BY <1>9 DEF told, blob
-----------------------------------------------------------------------------
(* Kernels *)

\* No step of a bundle or of a device makes a name stale or shadows one.
LEMMA KernelsStep ==
  ASSUME KernelsInv,
         KernelsNext \/ UNCHANGED kernelVars \/ (\E n \in Names : \E id : Loads(n, id))
  PROVE  KernelsInv'
<1> USE KernelsAssumption DEF KernelsInv, KernelsTypeOK
<1>1. CASE UNCHANGED kernelVars
  BY <1>1 DEF kernelVars, NeverShadowed, ClaimsInv
<1>2. ASSUME NEW b \in Bundles, OpensBundle(b) \/ ClosesBundle(b)
      PROVE  KernelsInv'
  BY <1>2 DEF OpensBundle, ClosesBundle, NeverShadowed, ClaimsInv
<1>3. ASSUME NEW b \in Bundles, NEW n \in Names, registerKernel(b, n)
      PROVE  KernelsInv'
  <2>1. KernelsTypeOK' /\ NeverShadowed'
    BY <1>3 DEF registerKernel, NeverShadowed
  <2>2. ClaimsInv'
    BY <1>3 DEF registerKernel, ClaimsInv
  <2> QED BY <2>1, <2>2
<1>4. ASSUME NEW b \in Bundles, NEW n \in Names, unregisterKernel(b, n)
      PROVE  KernelsInv'
  <2>1. KernelsTypeOK' /\ NeverShadowed'
    BY <1>4 DEF unregisterKernel, Withdrawn, NeverShadowed
  <2>2. ClaimsInv'
    BY <1>4 DEF unregisterKernel, Withdrawn, ClaimsInv
  <2> QED BY <2>1, <2>2
<1>5. ASSUME NEW n \in Names, NEW id, Loads(n, id)
      PROVE  KernelsInv'
  <2>1. CASE UNCHANGED kernels
    BY <1>5, <2>1 DEF Loads, NeverShadowed, ClaimsInv
  <2>2. CASE lookup(n) # NoBlob /\ kernels' = Append(kernels, [name |-> n, blob |-> lookup(n)])
    <3>1. [name |-> n, blob |-> lookup(n)] \in [name : Names, blob : Bundles \cup {Ours}]
      BY <2>2 DEF lookup
    <3>2. KernelsTypeOK' /\ ClaimsInv'
      BY <1>5, <2>2, <3>1 DEF Loads, ClaimsInv
    <3>3. NeverShadowed'
      BY <2>2, <3>1 DEF NeverShadowed, lookup
    <3> QED BY <3>2, <3>3
  <2> QED BY <1>5, <2>1, <2>2 DEF Loads
<1> QED BY <1>1, <1>2, <1>3, <1>4, <1>5 DEF KernelsNext

LEMMA KernelsStart == KernelsInit => KernelsInv
  BY DEF KernelsInit, KernelsInv, KernelsTypeOK, NeverShadowed, ClaimsInv

\* What is registered and not withdrawn is in memory.
LEMMA ClaimsAreMapped == KernelsInv => FoundIsMapped
  BY DEF KernelsInv, KernelsTypeOK, ClaimsInv, FoundIsMapped, lookup

\* However bundles take names from each other, withdraw them and go, no lookup
\* finds a blob that is gone (kernel_registry.cpp 43-88).
THEOREM NothingFoundIsGone == KernelsSpec => []FoundIsMapped
<1>1. KernelsInv /\ [KernelsNext]_kernelVars => KernelsInv'
  BY KernelsStep
<1> QED BY <1>1, KernelsStart, ClaimsAreMapped, PTL DEF KernelsSpec
-----------------------------------------------------------------------------
(* The properties, of every request and dispatch *)

EngineInv == request \in Nat /\ \E b, u \in 0 .. Count : dispatched = Filled(b, u)

LEMMA EngineInputs == EngineSpec => []EngineInv
<1>1. EngineInit => EngineInv
  <2> SUFFICES ASSUME EngineInit PROVE EngineInv
    OBVIOUS
  <2>1. NoArgs = Filled(0, 0)
    BY DEF NoArgs, Filled
  <2>2. 0 \in 0 .. Count /\ request \in Nat
    BY EngineAssumption DEF EngineInit
  <2> QED
    BY <2>1, <2>2 DEF EngineInit, EngineInv
<1>2. EngineInv /\ [EngineNext]_engineVars => EngineInv'
  BY DEF EngineInv, EngineNext, engineVars
<1> QED
  BY <1>1, <1>2, PTL DEF EngineSpec

\* Every request takes the least class that holds it, for any table of classes
\* whose smallest doubling is whole steps (pool.cpp 47-69, 231-236).
THEOREM LeastClassIsTaken == EngineSpec => []TakesTheLeastClass
<1>1. EngineInv => TakesTheLeastClass
  BY ServedByTheLeast DEF EngineInv, TakesTheLeastClass
<1> QED
  BY <1>1, EngineInputs, PTL

\* What is charged is at most one step over what was asked (pool.cpp 38-41).
THEOREM NobodyIsOvercharged == EngineSpec => []AtMostAQuarterOver
<1>1. EngineInv => AtMostAQuarterOver
  BY ServedByTheLeast DEF EngineInv, AtMostAQuarterOver
<1> QED
  BY <1>1, EngineInputs, PTL

\* A reclaimed buffer is found again by the next request of its class (pool.cpp 176).
THEOREM FiledInItsClass == EngineSpec => []FiledWhereItCameFrom
<1>1. EngineInv => FiledWhereItCameFrom
  BY ServedByTheLeast DEF EngineInv, FiledWhereItCameFrom
<1> QED
  BY <1>1, EngineInputs, PTL

\* A dispatch is read as it was built, or not at all: when it was cut short, or
\* holds more than its header can count (args.h 56-145, pool.cpp 383-396).
THEOREM DispatchesAreRead == EngineSpec => []BlobsReadBack
<1>1. EngineInv => BlobsReadBack
  <2> SUFFICES ASSUME EngineInv PROVE BlobsReadBack
    OBVIOUS
  <2>1. PICK b \in 0 .. Count, u \in 0 .. Count : dispatched = Filled(b, u)
    BY DEF EngineInv
  <2>2. b \in Nat /\ u \in Nat
    BY EngineAssumption
  <2>3. /\ dispatched.buffers \in Seq(Nat) /\ dispatched.elements \in Seq(Nat)
        /\ dispatched.uniforms \in Seq(Nat)
        /\ Len(dispatched.buffers) = b /\ Len(dispatched.elements) = b
        /\ Len(dispatched.uniforms) = u
    BY <2>1, <2>2 DEF Filled
  <2> DEFINE blob == Translated(Built(dispatched), Backing)
             fits == Len(dispatched.buffers) < WordMax /\ Len(dispatched.uniforms) < WordMax
             read == [dispatched EXCEPT !.buffers = [i \in DOMAIN @ |-> Backing[@[i]]]]
  <2>4. Nat \subseteq Nat
    OBVIOUS
  <2>5. CASE fits
    <3>1. Read(blob) = [valid    |-> TRUE,
                        buffers  |-> [i \in 1 .. Len(dispatched.buffers) |->
                                       Backing[dispatched.buffers[i]]],
                        elements |-> dispatched.elements,
                        uniforms |-> dispatched.uniforms]
      <4>1. /\ Len(dispatched.elements) = Len(dispatched.buffers)
            /\ Len(dispatched.buffers) < WordMax /\ Len(dispatched.uniforms) < WordMax
        BY <2>3, <2>5
      <4> QED
        BY <2>3, <2>4, <4>1, BlobReadsBack
    <3>2. /\ read.buffers = [i \in 1 .. Len(dispatched.buffers) |->
                              Backing[dispatched.buffers[i]]]
          /\ read.elements = dispatched.elements /\ read.uniforms = dispatched.uniforms
      BY <2>1, <2>3 DEF Filled
    <3>3. \A n \in 0 .. Len(blob) - 1 : Read(SubSeq(blob, 1, n)) = Invalid
      BY <2>3, <2>4, <2>5, CutBlobsAreRefused
    <3> QED
      BY <2>5, <3>1, <3>2, <3>3 DEF BlobsReadBack
  <2>6. CASE ~fits
    <3>1. Read(blob) = Invalid
      BY <2>3, <2>4, <2>6, UncountedBlobsAreRefused
    <3> QED
      BY <2>6, <3>1 DEF BlobsReadBack
  <2> QED
    BY <2>5, <2>6
<1> QED
  BY <1>1, EngineInputs, PTL
=============================================================================

--------------------------- MODULE MultipartProofs ---------------------------
(***************************************************************************)
(* Proofs about Multipart, for any limits, lengths, part sizes and number  *)
(* of uploads.                                                             *)
(***************************************************************************)
EXTENDS Multipart, FiniteSetTheorems, TLAPS

-----------------------------------------------------------------------------
(* Part plans *)

LEMMA Division ==
  ASSUME NEW a \in Nat, NEW s \in Nat \ {0}
  PROVE  /\ a \div s \in Nat
         /\ (a \div s) * s <= a
         /\ a < (a \div s) * s + s
BY Z3

LEMMA Ceiling ==
  ASSUME NEW total \in Nat, NEW size \in Nat \ {0}
  PROVE  /\ PartCount(total, size) \in Nat \ {0}
         /\ total <= PartCount(total, size) * size
         /\ total # 0 => (PartCount(total, size) - 1) * size < total
<1>1. CASE total = 0
  BY <1>1 DEF PartCount
<1>2. CASE total # 0
  <2> DEFINE a == total + size - 1
             q == a \div size
  <2>1. a \in Nat
    BY <1>2
  <2>2. q \in Nat /\ q * size <= a /\ a < q * size + size
    BY <2>1, Division
  <2>3. PartCount(total, size) = q
    BY <1>2 DEF PartCount
  <2> HIDE DEF q
  <2>4. q * size \in Nat
    BY <2>2
  <2>5. (q - 1) * size = q * size - size
    BY <2>2
  <2>6. q # 0
    BY <1>2, <2>2
  <2> QED BY <1>2, <2>2, <2>3, <2>4, <2>5, <2>6
<1> QED BY <1>1, <1>2

\* Part n of a plan ends where part n + 1 begins.
LEMMA Distribute ==
  ASSUME NEW m \in Nat, NEW n \in Nat, NEW size \in Nat
  PROVE  /\ n * size \in Nat
         /\ (n - 1) * size = n * size - size
         /\ n <= m => n * size <= m * size
BY Z3

LEMMA LenOfPart ==
  ASSUME NEW p, NEW n, NEW k \in Nat, LastByte(p, n) - FirstByte(p, n) + 1 = k
  PROVE  Len(PartBytes(p, n)) = k
<1>1. PartBytes(p, n) = [i \in 1 .. k |-> FirstByte(p, n) + i - 1]
  BY DEF PartBytes
<1> QED BY <1>1

Planned(p) ==
  /\ p \in [total : Nat, size : Nat, count : Nat]
  /\ p.size \in Limits.minPartBytes .. Limits.maxPartBytes
  /\ p.count = PartCount(p.total, p.size)
  /\ p.count <= Limits.maxParts

PlanInv == plan # None => Planned(plan)

\* The arithmetic of a plan: its parts but the last are full, the last one holds
\* the rest.
LEMMA PartLengths ==
  ASSUME NEW p, Planned(p), NEW n \in 1 .. p.count
  PROVE  Len(PartBytes(p, n)) \in
           (IF n < p.count THEN Limits.minPartBytes
            ELSE IF p.total = 0 THEN 0 ELSE 1) .. Limits.maxPartBytes
<1> DEFINE t == p.total
           s == p.size
           c == p.count
<1>1. /\ t \in Nat /\ s \in Nat \ {0} /\ c \in Nat \ {0} /\ n \in Nat
      /\ t <= c * s
      /\ t # 0 => (c - 1) * s < t
      /\ t = 0 => c = 1
  BY MultipartAssumption, Ceiling DEF Planned, PartCount
<1>2. /\ Limits.minPartBytes \in Nat \ {0} /\ Limits.maxPartBytes \in Nat
      /\ Limits.minPartBytes <= s /\ s <= Limits.maxPartBytes
  BY MultipartAssumption DEF Planned
<1>3. /\ n * s \in Nat /\ c * s \in Nat
      /\ (n - 1) * s = n * s - s
      /\ (c - 1) * s = c * s - s
  BY <1>1, Distribute
<1>4. CASE n < c
  <2>1. n * s <= (c - 1) * s
    BY <1>1, <1>4, Distribute
  <2>2. t # 0 /\ n * s < t
    BY <1>1, <1>3, <1>4, <2>1
  <2>3. LastByte(p, n) - FirstByte(p, n) + 1 = s
    BY <1>1, <1>3, <2>2 DEF LastByte, FirstByte
  <2>4. Len(PartBytes(p, n)) = s
    BY <1>1, <2>3, LenOfPart
  <2> QED BY <1>2, <1>4, <2>4
<1>5. CASE n = c
  <2> DEFINE k == t - (c * s - s)
  <2>1. LastByte(p, n) - FirstByte(p, n) + 1 = k
    BY <1>1, <1>3, <1>5 DEF LastByte, FirstByte
  <2>2. k \in Nat /\ k <= s /\ (t # 0 => k >= 1)
    BY <1>1, <1>3
  <2>3. Len(PartBytes(p, n)) = k
    BY <2>1, <2>2, LenOfPart
  <2> HIDE DEF k
  <2> QED BY <1>1, <1>2, <1>5, <2>2, <2>3
<1> QED BY <1>1, <1>4, <1>5

LEMMA PartsCoverOnce ==
  ASSUME NEW p, Planned(p), NEW b \in 1 .. p.total
  PROVE  \E n \in 1 .. p.count :
           b \in FirstByte(p, n) .. LastByte(p, n)
           /\ \A m \in 1 .. p.count :
                b \in FirstByte(p, m) .. LastByte(p, m) => m = n
<1> DEFINE t == p.total
           s == p.size
           c == p.count
           q == (b - 1) \div s
           n == q + 1
<1>1. /\ t \in Nat /\ s \in Nat \ {0} /\ c \in Nat \ {0}
      /\ b \in Nat /\ 1 <= b /\ b <= t
      /\ t <= c * s
  BY MultipartAssumption, Ceiling DEF Planned
<1>2. q \in Nat /\ q * s <= b - 1 /\ b - 1 < q * s + s
  <2>1. b - 1 \in Nat /\ s \in Nat \ {0}
    BY <1>1
  <2> QED BY <2>1, Division
<1> HIDE DEF q
<1>3. n \in Nat /\ (n - 1) * s = q * s /\ n * s = q * s + s /\ q * s \in Nat
  BY <1>1, <1>2, Distribute
<1>4. n <= c
  <2> SUFFICES ASSUME c <= q PROVE FALSE
    BY <1>1, <1>2
  <2>1. c * s <= q * s
    BY <1>1, <1>2, Distribute
  <2>2. c * s \in Nat
    BY <1>1, Distribute
  <2> QED BY <1>1, <1>2, <1>3, <2>1, <2>2
<1>5. b \in FirstByte(p, n) .. LastByte(p, n)
  BY <1>1, <1>2, <1>3 DEF FirstByte, LastByte
<1>6. ASSUME NEW m \in 1 .. c, b \in FirstByte(p, m) .. LastByte(p, m)
      PROVE  m = n
  <2>1. /\ m \in Nat /\ m * s \in Nat /\ (m - 1) * s = m * s - s
    BY <1>1, <1>6, Distribute
  <2>2. m * s - s <= b - 1 /\ b <= m * s
    BY <1>1, <1>6, <2>1 DEF FirstByte, LastByte
  <2>3. CASE m < n
    <3>1. m * s <= q * s
      BY <1>1, <1>2, <2>1, <2>3, Distribute
    <3> QED BY <1>1, <1>2, <1>3, <2>1, <2>2, <3>1
  <2>4. CASE n < m
    <3>1. n * s <= (m - 1) * s
      BY <1>1, <1>3, <2>1, <2>4, Distribute
    <3> QED BY <1>1, <1>2, <1>3, <2>1, <2>2, <3>1
  <2> QED BY <1>1, <1>2, <2>1, <2>3, <2>4
<1> QED BY <1>1, <1>2, <1>4, <1>5, <1>6

LEMMA PlanStep == PlanInv /\ [Next]_vars => PlanInv'
<1> SUFFICES ASSUME PlanInv, [Next]_vars PROVE PlanInv'
  OBVIOUS
<1>1. ASSUME NEW total \in Totals, NEW size \in PartSizes, Begin(total, size)
      PROVE  PlanInv'
  <2>1. total \in Nat /\ size \in Nat \ {0}
        /\ size \in Limits.minPartBytes .. Limits.maxPartBytes
        /\ PartCount(total, size) <= Limits.maxParts
    BY <1>1, MultipartAssumption DEF Begin, ValidPlan
  <2>2. PartCount(total, size) \in Nat
    BY <2>1, Ceiling
  <2>3. plan' = [total |-> total, size |-> size, count |-> PartCount(total, size)]
    BY <1>1 DEF Begin
  <2>4. Planned(plan')
    BY <2>1, <2>2, <2>3 DEF Planned
  <2> QED BY <2>4 DEF PlanInv
<1>2. \A n : Upload(n) => UNCHANGED plan
  BY DEF Upload
<1>3. \A parts : Complete(parts) => UNCHANGED plan
  BY DEF Complete
<1>4. CASE Abort
  BY <1>4 DEF Abort, PlanInv
<1>5. CASE UNCHANGED plan
  BY <1>5 DEF PlanInv
<1> QED BY <1>1, <1>2, <1>3, <1>4, <1>5 DEF Next, vars

-----------------------------------------------------------------------------
(* Induction, and recursive functions on an initial segment of Nat *)

\* A set of naturals with zero and with the successor of each member holds all.
LEMMA InductionSet ==
  ASSUME NEW S \in SUBSET Nat, 0 \in S, \A n \in S : n + 1 \in S
  PROVE  S = Nat
<1> SUFFICES ASSUME S # Nat PROVE FALSE
  OBVIOUS
<1> DEFINE R == OpToRel(<, Nat)
<1>1. PICK x \in Nat \ S : \A y \in Nat \ S : ~ (<<y, x>> \in R)
  <2>1. Nat \ S \subseteq Nat /\ Nat \ S # {}
    OBVIOUS
  <2>2. IsWellFoundedOn(R, Nat)
    BY NatLessThanWellFounded
  <2> HIDE DEF R
  <2> QED BY <2>1, <2>2, WFMin
<1>2. x # 0 /\ x - 1 \in Nat
  OBVIOUS
<1>3. <<x - 1, x>> \in R
  BY <1>2 DEF OpToRel
<1>4. x - 1 \in S
  BY <1>1, <1>2, <1>3
<1> QED BY <1>2, <1>4

\* The same up to a bound.
LEMMA InductionUpTo ==
  ASSUME NEW k \in Nat, NEW S, 0 \in S, \A n \in 0 .. k - 1 : n \in S => n + 1 \in S
  PROVE  \A n \in 0 .. k : n \in S
<1> DEFINE A == {n \in Nat : n <= k => n \in S}
<1>1. A \in SUBSET Nat /\ 0 \in A
  OBVIOUS
<1>2. ASSUME NEW n \in A PROVE n + 1 \in A
  <2> SUFFICES ASSUME n + 1 <= k PROVE n + 1 \in S
    OBVIOUS
  <2>1. n \in 0 .. k - 1 /\ n \in S
    OBVIOUS
  <2> QED BY <2>1
<1> HIDE DEF A
<1>3. A = Nat
  BY <1>1, <1>2, InductionSet
<1> QED BY <1>3 DEF A

\* f starts with base and goes on by step.
Steps(f, k, base, step) ==
  f[0] = base /\ \A n \in 1 .. k : f[n] = step[<<f[n - 1], n>>]

LEMMA RecursionExists ==
  ASSUME NEW k \in Nat, NEW T, NEW base \in T, NEW step \in [T \X (1 .. k) -> T]
  PROVE  \E f \in [0 .. k -> T] : Steps(f, k, base, step)
<1> DEFINE S == {m \in 0 .. k : \E f \in [0 .. m -> T] : Steps(f, m, base, step)}
<1>1. 0 \in S
  <2>1. [n \in 0 .. 0 |-> base] \in [0 .. 0 -> T]
    OBVIOUS
  <2>2. Steps([n \in 0 .. 0 |-> base], 0, base, step)
    BY DEF Steps
  <2> QED BY <2>1, <2>2
<1>2. ASSUME NEW m \in 0 .. k - 1, m \in S PROVE m + 1 \in S
  <2>1. PICK f \in [0 .. m -> T] : Steps(f, m, base, step)
    BY <1>2
  <2> DEFINE g == [n \in 0 .. m + 1 |-> IF n = m + 1 THEN step[<<f[m], m + 1>>] ELSE f[n]]
  <2>2. m \in 0 .. m /\ m + 1 \in 1 .. k /\ m + 1 \in 0 .. k /\ m + 1 \in 0 .. m + 1
    OBVIOUS
  <2>3. f[m] \in T
    BY <2>2
  <2>4. <<f[m], m + 1>> \in T \X (1 .. k)
    BY <2>2, <2>3
  <2>5. step[<<f[m], m + 1>>] \in T
    BY <2>4
  <2>6. g \in [0 .. m + 1 -> T]
    BY <2>5
  <2>7. Steps(g, m + 1, base, step)
    <3>1. g[0] = base
      BY <2>1 DEF Steps
    <3>2. ASSUME NEW n \in 1 .. m PROVE g[n] = step[<<g[n - 1], n>>]
      <4>1. n \in 0 .. m + 1 /\ n - 1 \in 0 .. m + 1 /\ n # m + 1 /\ n - 1 # m + 1
        OBVIOUS
      <4>2. g[n] = f[n] /\ g[n - 1] = f[n - 1]
        BY <4>1
      <4> QED BY <2>1, <4>2 DEF Steps
    <3>3. g[m + 1] = step[<<g[m], m + 1>>]
      <4>1. m \in 0 .. m + 1 /\ m # m + 1
        OBVIOUS
      <4> QED BY <2>2, <4>1
    <3>4. \A n \in 1 .. m + 1 : n \in 1 .. m \/ n = m + 1
      OBVIOUS
    <3>5. m + 1 - 1 = m
      OBVIOUS
    <3> HIDE DEF g
    <3>6. ASSUME NEW n \in 1 .. m + 1 PROVE g[n] = step[<<g[n - 1], n>>]
      <4>1. CASE n \in 1 .. m
        BY ONLY <3>2, <4>1
      <4>2. CASE n = m + 1
        BY ONLY <3>3, <3>5, <4>2
      <4> QED BY <3>4, <4>1, <4>2
    <3> QED BY ONLY <3>1, <3>6 DEF Steps
  <2> QED BY <2>2, <2>6, <2>7
<1> HIDE DEF S
<1>3. k \in S
  BY <1>1, <1>2, InductionUpTo
<1> QED BY <1>3 DEF S

\* Two functions that start alike and go on alike end alike.
LEMMA RecursionUnique ==
  ASSUME NEW k \in Nat, NEW f, NEW g, f[0] = g[0],
         \A n \in 1 .. k : f[n - 1] = g[n - 1] => f[n] = g[n]
  PROVE  f[k] = g[k]
<1> DEFINE S == {n \in 0 .. k : f[n] = g[n]}
<1>1. 0 \in S
  OBVIOUS
<1>2. \A n \in 0 .. k - 1 : n \in S => n + 1 \in S
  <2> SUFFICES ASSUME NEW n \in 0 .. k - 1, n \in S PROVE n + 1 \in S
    OBVIOUS
  <2>1. n + 1 \in 1 .. k /\ n + 1 \in 0 .. k /\ n + 1 - 1 = n
    OBVIOUS
  <2>2. f[n + 1 - 1] = g[n + 1 - 1]
    BY <2>1
  <2> QED BY <2>1, <2>2
<1> HIDE DEF S
<1>3. \A n \in 0 .. k : n \in S
  BY <1>1, <1>2, InductionUpTo
<1> QED BY <1>3 DEF S

-----------------------------------------------------------------------------
(* What the sum of byte lengths and the joined bytes are *)

LEMMA ByteLengthSum ==
  ASSUME NEW parts, NEW k \in Nat, Len(parts) = k,
         \A n \in 1 .. k : Len(parts[n].bytes) \in Nat
  PROVE  \E f \in [0 .. k -> Nat] :
           /\ f[0] = 0
           /\ \A n \in 1 .. k : f[n] = f[n - 1] + Len(parts[n].bytes)
           /\ ByteLength(parts) = f[k]
<1> DEFINE step == [x \in Nat \X (1 .. k) |-> x[1] + Len(parts[x[2]].bytes)]
<1>1. step \in [Nat \X (1 .. k) -> Nat]
  OBVIOUS
<1>2. PICK f \in [0 .. k -> Nat] : Steps(f, k, 0, step)
  <2> HIDE DEF step
  <2> QED BY <1>1, RecursionExists
<1>3. f[0] = 0
  BY <1>2 DEF Steps
<1>4. \A n \in 1 .. k : f[n] = f[n - 1] + Len(parts[n].bytes)
  <2> SUFFICES ASSUME NEW n \in 1 .. k PROVE f[n] = f[n - 1] + Len(parts[n].bytes)
    OBVIOUS
  <2>1. n - 1 \in 0 .. k
    OBVIOUS
  <2>2. f[n - 1] \in Nat
    BY <2>1
  <2>3. <<f[n - 1], n>> \in Nat \X (1 .. k)
    BY <2>2
  <2>4. step[<<f[n - 1], n>>] = f[n - 1] + Len(parts[n].bytes)
    BY <2>3
  <2> HIDE DEF step
  <2> QED BY <1>2, <2>4 DEF Steps
<1>5. f = [n \in 0 .. k |-> IF n = 0 THEN 0 ELSE f[n - 1] + Len(parts[n].bytes)]
  <2>1. \A n \in 0 .. k : n # 0 => n \in 1 .. k
    OBVIOUS
  <2> QED BY <1>3, <1>4, <2>1
<1>6. PICK g : /\ g = [n \in 0 .. k |-> IF n = 0 THEN 0 ELSE g[n - 1] + Len(parts[n].bytes)]
               /\ ByteLength(parts) = g[k]
  BY <1>5 DEF ByteLength
<1>7. g[0] = 0 /\ \A n \in 1 .. k : g[n] = g[n - 1] + Len(parts[n].bytes)
  <2>1. 0 \in 0 .. k /\ \A n \in 1 .. k : n \in 0 .. k /\ n # 0
    OBVIOUS
  <2> QED BY <1>6, <2>1, Zenon
<1>8. g[k] = f[k]
  <2>1. \A n \in 1 .. k : g[n - 1] = f[n - 1] => g[n] = f[n]
    BY <1>4, <1>7, Zenon
  <2>2. g[0] = f[0]
    BY <1>3, <1>7, Zenon
  <2> QED BY <2>1, <2>2, RecursionUnique, Zenon
<1> QED BY <1>3, <1>4, <1>6, <1>8

LEMMA JoinedChunks ==
  ASSUME NEW chunks, NEW k \in Nat, Len(chunks) = k,
         \A n \in 1 .. k : chunks[n] \in Seq(Nat)
  PROVE  \E f \in [0 .. k -> Seq(Nat)] :
           /\ f[0] = << >>
           /\ \A n \in 1 .. k : f[n] = f[n - 1] \o chunks[n]
           /\ Joined(chunks) = f[k]
<1> DEFINE step == [x \in Seq(Nat) \X (1 .. k) |-> x[1] \o chunks[x[2]]]
<1>1. step \in [Seq(Nat) \X (1 .. k) -> Seq(Nat)]
  OBVIOUS
<1>2. PICK f \in [0 .. k -> Seq(Nat)] : Steps(f, k, << >>, step)
  <2> HIDE DEF step
  <2>1. << >> \in Seq(Nat)
    OBVIOUS
  <2> QED BY <1>1, <2>1, RecursionExists
<1>3. f[0] = << >>
  BY <1>2 DEF Steps
<1>4. \A n \in 1 .. k : f[n] = f[n - 1] \o chunks[n]
  <2> SUFFICES ASSUME NEW n \in 1 .. k PROVE f[n] = f[n - 1] \o chunks[n]
    OBVIOUS
  <2>1. n - 1 \in 0 .. k
    OBVIOUS
  <2>2. f[n - 1] \in Seq(Nat)
    BY <2>1
  <2>3. <<f[n - 1], n>> \in Seq(Nat) \X (1 .. k)
    BY <2>2
  <2>4. step[<<f[n - 1], n>>] = f[n - 1] \o chunks[n]
    BY <2>3
  <2> HIDE DEF step
  <2> QED BY <1>2, <2>4 DEF Steps
<1>5. f = [n \in 0 .. k |-> IF n = 0 THEN << >> ELSE f[n - 1] \o chunks[n]]
  <2>1. \A n \in 0 .. k : n # 0 => n \in 1 .. k
    OBVIOUS
  <2> QED BY <1>3, <1>4, <2>1
<1>6. PICK g : /\ g = [n \in 0 .. k |-> IF n = 0 THEN << >> ELSE g[n - 1] \o chunks[n]]
               /\ Joined(chunks) = g[k]
  BY <1>5 DEF Joined
<1>7. g[0] = << >> /\ \A n \in 1 .. k : g[n] = g[n - 1] \o chunks[n]
  <2>1. 0 \in 0 .. k /\ \A n \in 1 .. k : n \in 0 .. k /\ n # 0
    OBVIOUS
  <2> QED BY <1>6, <2>1, Zenon
<1>8. g[k] = f[k]
  <2>1. \A n \in 1 .. k : g[n - 1] = f[n - 1] => g[n] = f[n]
    BY <1>4, <1>7, Zenon
  <2>2. g[0] = f[0]
    BY <1>3, <1>7, Zenon
  <2> QED BY <2>1, <2>2, RecursionUnique, Zenon
<1> QED BY <1>3, <1>4, <1>6, <1>8

-----------------------------------------------------------------------------
(* What sorting by number does *)

\* k parts with their numbers
Numbered(parts, k) ==
  DOMAIN parts = 1 .. k /\ \A i \in 1 .. k : parts[i].number \in Nat

\* A part that comes before another one has the lower rank.
LEMMA RankOrder ==
  ASSUME NEW k \in Nat, NEW parts, Numbered(parts, k)
  PROVE  /\ Ranks(parts) \in [1 .. k -> 1 .. k]
         /\ \A i, j \in 1 .. k :
              Before(parts, i, j) => Ranks(parts)[i] < Ranks(parts)[j]
<1> DEFINE below(i) == {j \in 1 .. k : Before(parts, j, i)}
<1> USE DEF Numbered
<1>1. IsFiniteSet(1 .. k) /\ Cardinality(1 .. k) = k
  BY FS_Interval
<1>2. \A i \in 1 .. k : IsFiniteSet(below(i)) /\ Cardinality(below(i)) \in Nat
  BY <1>1, FS_Subset, FS_CardinalityType
<1>3. \A i \in 1 .. k : Cardinality(below(i)) < k
  <2> SUFFICES ASSUME NEW i \in 1 .. k PROVE Cardinality(below(i)) < k
    OBVIOUS
  <2>1. below(i) \in SUBSET (1 .. k) /\ i \notin below(i)
    BY DEF Before
  <2>2. Cardinality(below(i)) <= k /\ (k = Cardinality(below(i)) => 1 .. k = below(i))
    BY <1>1, <2>1, FS_Subset
  <2> HIDE DEF below
  <2> QED BY <1>2, <2>1, <2>2
<1>4. Ranks(parts) = [i \in 1 .. k |-> Cardinality(below(i)) + 1]
  BY DEF Ranks
<1>5. ASSUME NEW i \in 1 .. k, NEW j \in 1 .. k, Before(parts, i, j)
      PROVE  Cardinality(below(i)) < Cardinality(below(j))
  <2>1. below(i) \in SUBSET below(j)
    BY <1>5 DEF Before
  <2>2. i \in below(j) /\ i \notin below(i)
    BY <1>5 DEF Before
  <2>3. /\ Cardinality(below(i)) <= Cardinality(below(j))
        /\ Cardinality(below(j)) = Cardinality(below(i)) => below(j) = below(i)
    BY <1>2, <2>1, FS_Subset
  <2> HIDE DEF below
  <2> QED BY <1>2, <2>2, <2>3
<1> HIDE DEF below
<1>6. Ranks(parts) \in [1 .. k -> 1 .. k]
  BY <1>2, <1>3, <1>4
<1>7. ASSUME NEW i \in 1 .. k, NEW j \in 1 .. k, Before(parts, i, j)
      PROVE  Ranks(parts)[i] < Ranks(parts)[j]
  BY <1>2, <1>4, <1>5, <1>7
<1> QED BY <1>6, <1>7

\* InOrder is a permutation of the parts, in the order of their numbers.
LEMMA InOrderSorts ==
  ASSUME NEW k \in Nat, NEW parts, Numbered(parts, k)
  PROVE  /\ DOMAIN InOrder(parts) = 1 .. k
         /\ \A n \in 1 .. k : \E i \in 1 .. k :
              Ranks(parts)[i] = n /\ InOrder(parts)[n] = parts[i]
         /\ \A m, n \in 1 .. k :
              m < n => InOrder(parts)[m].number <= InOrder(parts)[n].number
<1> DEFINE rank == Ranks(parts)
<1>1. rank \in [1 .. k -> 1 .. k]
  BY RankOrder
<1>2. \A i, j \in 1 .. k : Before(parts, i, j) => rank[i] < rank[j]
  BY RankOrder
<1> HIDE DEF rank
<1>3. \A i, j \in 1 .. k : rank[i] = rank[j] => i = j
  <2>1. \A i, j \in 1 .. k : i = j \/ Before(parts, i, j) \/ Before(parts, j, i)
    BY DEF Before, Numbered
  <2>2. \A i, j \in 1 .. k : Before(parts, i, j) => rank[i] # rank[j]
    BY <1>1, <1>2
  <2> QED BY ONLY <2>1, <2>2
<1>4. \A n \in 1 .. k : \E i \in 1 .. k : rank[i] = n
  <2>1. IsFiniteSet(1 .. k)
    BY FS_Interval
  <2>2. rank \in Injection(1 .. k, 1 .. k)
    BY <1>1, <1>3 DEF Injection, IsInjective
  <2>3. rank \in Surjection(1 .. k, 1 .. k)
    BY <2>1, <2>2, FS_Injection
  <2> QED BY <2>3 DEF Surjection
<1>5. InOrder(parts) = [n \in 1 .. k |-> parts[CHOOSE i \in 1 .. k : rank[i] = n]]
  BY DEF InOrder, rank, Numbered
<1>6. \A n \in 1 .. k : \E i \in 1 .. k : rank[i] = n /\ InOrder(parts)[n] = parts[i]
  <2> SUFFICES ASSUME NEW n \in 1 .. k
               PROVE  \E i \in 1 .. k : rank[i] = n /\ InOrder(parts)[n] = parts[i]
    OBVIOUS
  <2> DEFINE i == CHOOSE j \in 1 .. k : rank[j] = n
  <2>1. i \in 1 .. k /\ rank[i] = n
    BY <1>4
  <2>2. InOrder(parts)[n] = parts[i]
    BY <1>5
  <2> QED BY <2>1, <2>2
<1>7. \A m, n \in 1 .. k :
        m < n => InOrder(parts)[m].number <= InOrder(parts)[n].number
  <2> SUFFICES ASSUME NEW m \in 1 .. k, NEW n \in 1 .. k, m < n
               PROVE  InOrder(parts)[m].number <= InOrder(parts)[n].number
    OBVIOUS
  <2>1. PICK i \in 1 .. k : rank[i] = m /\ InOrder(parts)[m] = parts[i]
    BY <1>6
  <2>2. PICK j \in 1 .. k : rank[j] = n /\ InOrder(parts)[n] = parts[j]
    BY <1>6
  <2>3. ~ Before(parts, j, i)
    BY <1>2, <2>1, <2>2
  <2> QED BY <2>1, <2>2, <2>3 DEF Before, Numbered
<1>8. DOMAIN InOrder(parts) = 1 .. k
  BY <1>5
<1> QED BY <1>6, <1>7, <1>8 DEF rank

\* Parts that have each number up to theirs are sorted by giving each its place.
LEMMA InOrderPlaces ==
  ASSUME NEW k \in Nat, NEW parts, DOMAIN parts = 1 .. k,
         NEW number \in Surjection(1 .. k, 1 .. k),
         \A i \in 1 .. k : parts[i].number = number[i]
  PROVE  \A i \in 1 .. k : InOrder(parts)[number[i]] = parts[i]
<1> DEFINE below(i) == {j \in 1 .. k : Before(parts, j, i)}
<1>1. /\ number \in [1 .. k -> 1 .. k]
      /\ \A i, j \in 1 .. k : number[i] = number[j] => i = j
  <2>1. number \in Injection(1 .. k, 1 .. k)
    BY FS_Interval, FS_SurjSameCardinalityImpliesInj
  <2> QED BY <2>1 DEF Injection, IsInjective
<1>2. ASSUME NEW i \in 1 .. k PROVE Ranks(parts)[i] = number[i]
  <2> DEFINE g == [j \in below(i) |-> number[j]]
             m == number[i] - 1
  <2>1. number[i] \in 1 .. k /\ m \in Nat /\ m <= k /\ number[i] = m + 1
    BY <1>1
  <2>2. \A j \in 1 .. k : j \in below(i) <=> number[j] \in 1 .. m
    <3> SUFFICES ASSUME NEW j \in 1 .. k
                 PROVE  Before(parts, j, i) <=> number[j] \in 1 .. m
      OBVIOUS
    <3>1. number[j] \in 1 .. k /\ (number[j] = number[i] => j = i)
      BY <1>1
    <3>2. Before(parts, j, i) <=>
            number[j] < number[i] \/ (number[j] = number[i] /\ j < i)
      BY DEF Before
    <3> QED BY <2>1, <3>1, <3>2
  <2> HIDE DEF m
  <2>3. g \in Bijection(below(i), 1 .. m)
    <3>1. g \in [below(i) -> 1 .. m]
      BY <2>2
    <3>2. \A x, y \in below(i) : g[x] = g[y] => x = y
      BY <1>1
    <3>3. \A n \in 1 .. m : \E x \in below(i) : g[x] = n
      <4> SUFFICES ASSUME NEW n \in 1 .. m PROVE \E x \in below(i) : g[x] = n
        OBVIOUS
      <4>1. n \in 1 .. k
        BY <2>1
      <4>2. PICK x \in 1 .. k : number[x] = n
        BY <4>1 DEF Surjection
      <4>3. x \in below(i)
        BY <2>2, <4>2
      <4> QED BY <4>2, <4>3
    <3> HIDE DEF g
    <3> QED BY <3>1, <3>2, <3>3 DEF Bijection, Injection, Surjection, IsInjective
  <2>4. IsFiniteSet(below(i))
    BY FS_Interval, FS_Subset
  <2>5. Cardinality(1 .. m) = Cardinality(below(i))
    <3> HIDE DEF below, g
    <3> QED BY <2>3, <2>4, FS_Bijection DEF ExistsBijection
  <2>6. Cardinality(1 .. m) = m
    BY <2>1, FS_Interval
  <2>7. Ranks(parts)[i] = Cardinality(below(i)) + 1
    BY DEF Ranks
  <2> HIDE DEF below
  <2> QED BY <2>1, <2>5, <2>6, <2>7
<1>3. ASSUME NEW i \in 1 .. k PROVE InOrder(parts)[number[i]] = parts[i]
  <2>1. number[i] \in 1 .. k /\ Numbered(parts, k)
    BY <1>1 DEF Numbered
  <2> HIDE DEF below
  <2>2. PICK j \in 1 .. k : /\ Ranks(parts)[j] = number[i]
                            /\ InOrder(parts)[number[i]] = parts[j]
    <3>1. \A n \in 1 .. k : \E j \in 1 .. k :
            Ranks(parts)[j] = n /\ InOrder(parts)[n] = parts[j]
      <4>1. k \in Nat /\ Numbered(parts, k)
        BY <2>1
      <4> QED BY ONLY <4>1, InOrderSorts
    <3> QED BY <2>1, <3>1
  <2>3. i = j
    BY <1>1, <1>2, <2>2
  <2> QED BY <2>2, <2>3
<1> QED BY <1>3

-----------------------------------------------------------------------------
(* The bytes of a plan *)

\* Part n of a plan goes on where part n - 1 ended, up to the end of the Object.
LEMMA PartEnds ==
  ASSUME NEW p, Planned(p), NEW n \in 1 .. p.count
  PROVE  /\ LastByte(p, n - 1) \in Nat /\ LastByte(p, n) \in Nat
         /\ LastByte(p, n - 1) <= LastByte(p, n)
         /\ FirstByte(p, n) = LastByte(p, n - 1) + 1
         /\ n < p.count => LastByte(p, n) < p.total
         /\ n = p.count => LastByte(p, n) = p.total
         /\ LastByte(p, 0) = 0
<1> DEFINE t == p.total
           s == p.size
           c == p.count
<1>1. /\ t \in Nat /\ s \in Nat \ {0} /\ c \in Nat \ {0} /\ n \in Nat /\ n - 1 \in Nat
      /\ t <= c * s
      /\ t # 0 => (c - 1) * s < t
      /\ t = 0 => c = 1
  BY MultipartAssumption, Ceiling DEF Planned, PartCount
<1>2. /\ n * s \in Nat /\ c * s \in Nat
      /\ (n - 1) * s = n * s - s /\ (n - 1) * s \in Nat
      /\ (c - 1) * s = c * s - s /\ 0 * s = 0
  BY <1>1, Distribute
<1>3. n <= c /\ n * s <= c * s
  BY <1>1, Distribute
<1>4. n < c => n * s <= (c - 1) * s
  <2>1. c - 1 \in Nat /\ (n < c => n <= c - 1)
    BY <1>1
  <2> QED BY <1>1, <2>1, Distribute
<1>5. n < c => n * s < t
  BY <1>1, <1>2, <1>4
<1>6. LastByte(p, n - 1) = (n - 1) * s
  <2>1. CASE t = 0
    <3>1. n = 1
      BY <1>1, <2>1
    <3> QED BY <1>2, <2>1, <3>1 DEF LastByte
  <2>2. CASE t # 0
    <3>1. (n - 1) * s < t
      BY <1>1, <1>2, <1>3, <2>2
    <3> QED BY <3>1 DEF LastByte
  <2> QED BY <2>1, <2>2
<1>7. LastByte(p, 0) = 0
  BY <1>1, <1>2 DEF LastByte
<1>8. LastByte(p, n) = IF n * s < t THEN n * s ELSE t
  BY DEF LastByte
<1>9. FirstByte(p, n) = (n - 1) * s + 1
  BY DEF FirstByte
<1>10. LastByte(p, n - 1) <= LastByte(p, n)
  <2>1. t # 0 => (n - 1) * s <= t
    BY <1>1, <1>2, <1>3
  <2>2. t = 0 => (n - 1) * s = 0
    BY <1>1, <1>2
  <2> QED BY <1>1, <1>2, <1>6, <1>8, <2>1, <2>2
<1>11. n = c => LastByte(p, n) = t
  BY <1>1, <1>2, <1>8
<1> QED BY <1>1, <1>2, <1>5, <1>6, <1>7, <1>8, <1>9, <1>10, <1>11

LEMMA PartIsSeq ==
  ASSUME NEW p, Planned(p), NEW n \in 1 .. p.count
  PROVE  /\ PartBytes(p, n) \in Seq(Nat)
         /\ Len(PartBytes(p, n)) = LastByte(p, n) - LastByte(p, n - 1)
         /\ PartBytes(p, n) = [i \in 1 .. LastByte(p, n) - LastByte(p, n - 1) |->
                                 LastByte(p, n - 1) + i]
<1> DEFINE a == LastByte(p, n - 1)
           b == LastByte(p, n)
<1>1. a \in Nat /\ b \in Nat /\ a <= b /\ FirstByte(p, n) = a + 1
  BY PartEnds
<1>2. PartBytes(p, n) = [i \in 1 .. b - FirstByte(p, n) + 1 |-> FirstByte(p, n) + i - 1]
  BY DEF PartBytes
<1> HIDE DEF a, b
<1>3. b - FirstByte(p, n) + 1 = b - a /\ b - a \in Nat
  BY <1>1
<1>4. PartBytes(p, n) = [i \in 1 .. b - a |-> a + i]
  BY <1>1, <1>2, <1>3
<1>5. PartBytes(p, n) \in Seq(Nat) /\ Len(PartBytes(p, n)) = b - a
  <2>1. PICK d \in Nat : d = b - a
    BY <1>3
  <2>2. PartBytes(p, n) = [i \in 1 .. d |-> a + i]
    BY <1>4, <2>1
  <2>3. \A i \in 1 .. d : a + i \in Nat
    BY <1>1
  <2> QED BY <2>1, <2>2, <2>3
<1> QED BY <1>4, <1>5 DEF a, b

LEMMA TruncatedIsShorter ==
  ASSUME NEW bytes \in Seq(Nat)
  PROVE  /\ Truncated(bytes) \in Seq(Nat)
         /\ Len(Truncated(bytes)) <= Len(bytes)
         /\ Len(Truncated(bytes)) = Len(bytes) => Truncated(bytes) = bytes
<1>1. CASE Len(bytes) = 0
  BY <1>1 DEF Truncated
<1>2. CASE Len(bytes) # 0
  BY <1>2 DEF Truncated
<1> QED BY <1>1, <1>2

\* What an upload of part n may store.
Payloads(p, n) == {PartBytes(p, n), Truncated(PartBytes(p, n))}

LEMMA PayloadLengths ==
  ASSUME NEW p, Planned(p), NEW n \in 1 .. p.count, NEW bytes \in Payloads(p, n)
  PROVE  /\ bytes \in Seq(Nat) /\ Len(bytes) \in Nat
         /\ LastByte(p, n - 1) + Len(bytes) <= LastByte(p, n)
         /\ LastByte(p, n - 1) + Len(bytes) = LastByte(p, n) => bytes = PartBytes(p, n)
<1>1. /\ PartBytes(p, n) \in Seq(Nat)
      /\ Len(PartBytes(p, n)) = LastByte(p, n) - LastByte(p, n - 1)
  BY PartIsSeq
<1>2. LastByte(p, n) \in Nat /\ LastByte(p, n - 1) \in Nat
  BY PartEnds
<1>3. bytes \in Seq(Nat) /\ Len(bytes) \in Nat
  BY <1>1, TruncatedIsShorter DEF Payloads
<1>4. Len(bytes) <= Len(PartBytes(p, n))
  BY <1>1, TruncatedIsShorter DEF Payloads
<1>5. Len(bytes) = Len(PartBytes(p, n)) => bytes = PartBytes(p, n)
  BY <1>1, TruncatedIsShorter DEF Payloads
<1> QED BY <1>1, <1>2, <1>3, <1>4, <1>5

-----------------------------------------------------------------------------
(* The invariant of a session *)

\* Every MultipartPart the uploader holds is of a planned number and carries its
\* part or a truncated one, and while its token is the one the adapter has for
\* that number, the adapter has its bytes: tokens are never given twice.
SessionInv ==
  plan # None =>
    /\ uploads \in Nat
    /\ stored \in [1 .. plan.count -> [bytes : Seq(Nat), token : Nat] \cup {None}]
    /\ \A n \in 1 .. plan.count : stored[n] # None => stored[n].token < uploads
    /\ \A r \in receipts :
         /\ r.number \in 1 .. plan.count
         /\ r.bytes \in Payloads(plan, r.number)
         /\ r.verificationToken \in 0 .. uploads - 1
         /\ stored[r.number] # None
         /\ stored[r.number].token = r.verificationToken =>
              stored[r.number].bytes = r.bytes

LEMMA PlanInvInit == Init => PlanInv /\ SessionInv /\ ObjectIntact
BY DEF Init, PlanInv, SessionInv, ObjectIntact

LEMMA BeginSession ==
  ASSUME PlanInv', NEW total, NEW size, Begin(total, size)
  PROVE  SessionInv'
<1>1. /\ plan' # None => Planned(plan')
      /\ plan' = [total |-> total, size |-> size, count |-> PartCount(total, size)]
      /\ stored' = [n \in 1 .. PartCount(total, size) |-> None]
      /\ receipts' = {} /\ uploads' = 0
  BY DEF Begin, PlanInv
<1> QED BY <1>1 DEF SessionInv

LEMMA UploadSession ==
  ASSUME PlanInv, SessionInv, plan # None, NEW n \in 1 .. plan.count, Upload(n)
  PROVE  SessionInv'
<1>1. PICK bytes \in Payloads(plan, n) :
        /\ stored' = [stored EXCEPT ![n] = [bytes |-> bytes, token |-> uploads]]
        /\ \E arrived \in
               {{}, {[number |-> n, bytes |-> bytes, verificationToken |-> uploads]}} :
             receipts' = receipts \cup arrived
  BY DEF Upload, Payloads
<1>2. uploads \in Nat /\ uploads' = uploads + 1 /\ plan' = plan /\ Planned(plan)
  BY DEF Upload, SessionInv, PlanInv
<1>3. bytes \in Seq(Nat)
  BY <1>2, PayloadLengths
<1> DEFINE new == [bytes |-> bytes, token |-> uploads]
           Stored == [bytes : Seq(Nat), token : Nat] \cup {None}
<1>4. new \in Stored /\ new # None /\ new.bytes = bytes /\ new.token = uploads
  BY <1>2, <1>3, NoneAssumption
<1>5. stored \in [1 .. plan.count -> Stored]
  BY DEF SessionInv
<1>6. stored' = [stored EXCEPT ![n] = new]
  BY <1>1
<1>7. \A m \in 1 .. plan.count : stored[m] # None => stored[m].token \in Nat
  BY <1>5
<1> HIDE DEF new, Stored
<1>8. /\ stored' \in [1 .. plan.count -> Stored]
      /\ \A m \in 1 .. plan.count : stored'[m] = IF m = n THEN new ELSE stored[m]
  BY <1>4, <1>5, <1>6
<1>9. ASSUME NEW m \in 1 .. plan.count, stored'[m] # None
      PROVE  stored'[m].token < uploads'
  <2>1. CASE m = n
    BY <1>2, <1>4, <1>8, <2>1
  <2>2. CASE m # n
    BY <1>2, <1>7, <1>8, <1>9, <2>2 DEF SessionInv
  <2> QED BY <2>1, <2>2
<1>10. ASSUME NEW r \in receipts'
       PROVE  /\ r.number \in 1 .. plan.count
              /\ r.bytes \in Payloads(plan, r.number)
              /\ r.verificationToken \in 0 .. uploads' - 1
              /\ stored'[r.number] # None
              /\ stored'[r.number].token = r.verificationToken =>
                   stored'[r.number].bytes = r.bytes
  <2>1. CASE r \in receipts
    <3>1. /\ r.number \in 1 .. plan.count
          /\ r.bytes \in Payloads(plan, r.number)
          /\ r.verificationToken \in 0 .. uploads - 1
          /\ stored[r.number] # None
          /\ stored[r.number].token = r.verificationToken =>
               stored[r.number].bytes = r.bytes
      BY <2>1 DEF SessionInv
    <3>2. r.verificationToken \in 0 .. uploads' - 1
      BY <1>2, <3>1
    <3>3. r.verificationToken # uploads
      BY <1>2, <3>1
    <3> QED BY <1>4, <1>8, <3>1, <3>2, <3>3
  <2>2. CASE r = [number |-> n, bytes |-> bytes, verificationToken |-> uploads]
    <3>1. r.number = n /\ r.bytes = bytes /\ r.verificationToken = uploads
      BY <2>2
    <3>2. uploads \in 0 .. uploads' - 1
      BY <1>2
    <3> QED BY <1>1, <1>4, <1>8, <3>1, <3>2
  <2> QED BY <1>1, <2>1, <2>2
<1> QED BY <1>2, <1>8, <1>9, <1>10 DEF SessionInv, Stored

\* What an uploader can complete with.
LEMMA ManifestParts ==
  ASSUME PlanInv, SessionInv, plan # None, NEW parts \in Manifests
  PROVE  \E k \in Nat :
           /\ parts \in [1 .. k -> receipts] /\ Len(parts) = k
           /\ Numbered(parts, k)
           /\ \A i \in 1 .. k :
                /\ parts[i].number \in 1 .. plan.count
                /\ parts[i].bytes \in Payloads(plan, parts[i].number)
                /\ stored[parts[i].number] # None
                /\ stored[parts[i].number].token = parts[i].verificationToken =>
                     stored[parts[i].number].bytes = parts[i].bytes
<1>1. plan.count \in Nat
  BY DEF PlanInv, Planned
<1>2. PICK k \in 0 .. plan.count + 1 : parts \in [1 .. k -> receipts]
  BY DEF Manifests, BoundedSeq, SeqOf
<1>3. k \in Nat /\ DOMAIN parts = 1 .. k /\ Len(parts) = k
  BY <1>1, <1>2
<1>4. \A i \in 1 .. k : parts[i] \in receipts
  BY <1>2
<1>5. \A r \in receipts :
        /\ r.number \in 1 .. plan.count
        /\ r.bytes \in Payloads(plan, r.number)
        /\ stored[r.number] # None
        /\ stored[r.number].token = r.verificationToken =>
             stored[r.number].bytes = r.bytes
  BY DEF SessionInv
<1>6. Numbered(parts, k)
  BY <1>1, <1>3, <1>4, <1>5 DEF Numbered
<1> QED BY <1>2, <1>3, <1>4, <1>5, <1>6

-----------------------------------------------------------------------------
(* Completion *)

\* Parts that are the whole Object are sorted into its bytes.
LEMMA WholeInOrder ==
  ASSUME PlanInv, SessionInv, plan # None, NEW parts \in Manifests, Whole(parts)
  PROVE  /\ DOMAIN InOrder(parts) = 1 .. plan.count /\ DOMAIN parts = 1 .. plan.count
         /\ \A n \in 1 .. plan.count :
              /\ InOrder(parts)[n].number = n
              /\ InOrder(parts)[n].bytes = PartBytes(plan, n)
              /\ stored[n].token = InOrder(parts)[n].verificationToken
         /\ \A i \in 1 .. plan.count : InOrder(parts)[parts[i].number] = parts[i]
<1> DEFINE c == plan.count
<1>1. /\ parts \in [1 .. c -> receipts] /\ Numbered(parts, c) /\ c \in Nat
      /\ \A i \in 1 .. c : parts[i].number \in 1 .. c
  BY ManifestParts DEF Whole, PlanInv, Planned
<1>2. \A n \in 1 .. c : \E i \in 1 .. c :
        /\ parts[i].number = n
        /\ parts[i].bytes = PartBytes(plan, n)
        /\ stored[n].token = parts[i].verificationToken
  BY <1>1 DEF Whole
<1> DEFINE number == [i \in 1 .. c |-> parts[i].number]
<1>3. number \in Surjection(1 .. c, 1 .. c)
  BY <1>1, <1>2 DEF Surjection
<1>4. \A i \in 1 .. c : parts[i].number = number[i]
  OBVIOUS
<1>5. DOMAIN parts = 1 .. c
  BY <1>1
<1> HIDE DEF number
<1>6. \A i \in 1 .. c : InOrder(parts)[number[i]] = parts[i]
  BY ONLY <1>1, <1>3, <1>4, <1>5, InOrderPlaces
<1>7. DOMAIN InOrder(parts) = 1 .. c
  BY ONLY <1>1, InOrderSorts
<1>8. ASSUME NEW n \in 1 .. c
      PROVE  /\ InOrder(parts)[n].number = n
             /\ InOrder(parts)[n].bytes = PartBytes(plan, n)
             /\ stored[n].token = InOrder(parts)[n].verificationToken
  <2>1. PICK i \in 1 .. c : /\ parts[i].number = n
                            /\ parts[i].bytes = PartBytes(plan, n)
                            /\ stored[n].token = parts[i].verificationToken
    BY <1>2
  <2>2. InOrder(parts)[n] = parts[i]
    BY <1>4, <1>6, <2>1
  <2> QED BY <2>1, <2>2
<1> QED BY <1>4, <1>5, <1>6, <1>7, <1>8

\* They are accepted: their lengths add up to that of the Object.
LEMMA WholeAccepted ==
  ASSUME PlanInv, SessionInv, plan # None, NEW parts \in Manifests, Whole(parts)
  PROVE  Accepted(parts)
<1> DEFINE c == plan.count
           ordered == InOrder(parts)
<1>1. /\ DOMAIN ordered = 1 .. c /\ DOMAIN parts = 1 .. c
      /\ \A n \in 1 .. c :
           /\ ordered[n].number = n
           /\ ordered[n].bytes = PartBytes(plan, n)
           /\ stored[n].token = ordered[n].verificationToken
      /\ \A i \in 1 .. c : ordered[parts[i].number] = parts[i]
  BY WholeInOrder
<1>2. Planned(plan) /\ c \in Nat \ {0} /\ plan.total \in Nat
  BY Ceiling, MultipartAssumption DEF PlanInv, Planned
<1>3. \A i \in 1 .. c : Current(parts[i])
  <2> SUFFICES ASSUME NEW i \in 1 .. c PROVE Current(parts[i])
    OBVIOUS
  <2>1. parts[i].number \in 1 .. c /\ stored[parts[i].number] # None
    <3>1. PICK k \in Nat :
            /\ DOMAIN parts = 1 .. k
            /\ \A j \in 1 .. k : /\ parts[j].number \in 1 .. c
                                 /\ stored[parts[j].number] # None
      BY ManifestParts DEF Numbered
    <3> QED BY ONLY <1>1, <3>1, i \in 1 .. c
  <2> QED BY <1>1, <2>1 DEF Current
<1>4. ordered = [n \in 1 .. c |-> ordered[n]] /\ Len(ordered) = c
  <2>1. ordered = [n \in DOMAIN ordered |-> ordered[n]]
    BY DEF InOrder
  <2> QED BY <1>1, <1>2, <2>1
<1> HIDE DEF ordered, c
<1>5. ByteLength(ordered) = plan.total
  <2>1. \A n \in 1 .. c :
          /\ Len(ordered[n].bytes) = LastByte(plan, n) - LastByte(plan, n - 1)
          /\ LastByte(plan, n) \in Nat /\ LastByte(plan, n - 1) \in Nat
          /\ LastByte(plan, n - 1) <= LastByte(plan, n)
    <3> SUFFICES ASSUME NEW n \in 1 .. plan.count
                 PROVE  /\ Len(ordered[n].bytes) = LastByte(plan, n) - LastByte(plan, n - 1)
                        /\ LastByte(plan, n) \in Nat /\ LastByte(plan, n - 1) \in Nat
                        /\ LastByte(plan, n - 1) <= LastByte(plan, n)
      BY DEF c
    <3>1. ordered[n].bytes = PartBytes(plan, n)
      BY <1>1 DEF c
    <3>2. Len(PartBytes(plan, n)) = LastByte(plan, n) - LastByte(plan, n - 1)
      BY <1>2, PartIsSeq
    <3> QED BY <1>2, <3>1, <3>2, PartEnds
  <2>2. \A n \in 1 .. c : Len(ordered[n].bytes) \in Nat
    BY <2>1
  <2>3. PICK f \in [0 .. c -> Nat] :
          /\ f[0] = 0
          /\ \A n \in 1 .. c : f[n] = f[n - 1] + Len(ordered[n].bytes)
          /\ ByteLength(ordered) = f[c]
    BY ONLY <1>2, <1>4, <2>2, ByteLengthSum
  <2> DEFINE g == [n \in 0 .. c |-> LastByte(plan, n)]
  <2>4. LastByte(plan, 0) = 0 /\ LastByte(plan, c) = plan.total /\ 1 \in 1 .. c /\ c \in 1 .. c
    <3>1. 1 \in 1 .. c /\ c \in 1 .. c
      BY <1>2
    <3> QED BY <1>2, <3>1, PartEnds DEF c
  <2>5. f[0] = g[0]
    BY <1>2, <2>3, <2>4
  <2>6. \A n \in 1 .. c : f[n - 1] = g[n - 1] => f[n] = g[n]
    <3> SUFFICES ASSUME NEW n \in 1 .. c, f[n - 1] = g[n - 1] PROVE f[n] = g[n]
      OBVIOUS
    <3>1. g[n - 1] = LastByte(plan, n - 1) /\ g[n] = LastByte(plan, n)
      <4>1. n - 1 \in 0 .. c /\ n \in 0 .. c
        BY <1>2
      <4> QED BY <4>1
    <3>2. f[n] = LastByte(plan, n - 1) + Len(ordered[n].bytes)
      BY <2>3, <3>1
    <3> QED BY <2>1, <3>1, <3>2
  <2>7. g[c] = LastByte(plan, c)
    BY <1>2
  <2> HIDE DEF g
  <2>8. f[c] = g[c]
    BY ONLY <1>2, <2>5, <2>6, RecursionUnique
  <2> QED BY <2>3, <2>4, <2>7, <2>8
<1>6. Contiguous(ordered)
  BY <1>1 DEF Contiguous
<1>7. parts # << >>
  BY <1>1, <1>2
<1> QED BY <1>1, <1>3, <1>5, <1>6, <1>7 DEF Accepted, CompletionAccepts, ordered

\* Parts that are accepted have no gap in their numbers, so they are no more than
\* planned; their lengths add up, so none is missing and none truncated: the sum
\* of n parts is at most LastByte(plan, n), and less once one was truncated.
LEMMA AcceptedWhole ==
  ASSUME PlanInv, SessionInv, plan # None, NEW parts \in Manifests, Accepted(parts)
  PROVE  Whole(parts)
<1> DEFINE ordered == InOrder(parts)
<1>1. PICK k \in Nat :
        /\ parts \in [1 .. k -> receipts] /\ Len(parts) = k
        /\ Numbered(parts, k)
        /\ \A i \in 1 .. k :
             /\ parts[i].number \in 1 .. plan.count
             /\ parts[i].bytes \in Payloads(plan, parts[i].number)
  BY ManifestParts
<1>2. Planned(plan) /\ plan.count \in Nat \ {0} /\ plan.total \in Nat
  BY Ceiling, MultipartAssumption DEF PlanInv, Planned
<1>3. /\ DOMAIN ordered = 1 .. k
      /\ \A n \in 1 .. k : \E i \in 1 .. k : ordered[n] = parts[i]
  BY ONLY <1>1, InOrderSorts
<1>4. ordered = [n \in 1 .. k |-> ordered[n]] /\ Len(ordered) = k
  <2>1. ordered = [n \in DOMAIN ordered |-> ordered[n]]
    BY DEF InOrder
  <2> QED BY <1>1, <1>3, <2>1
<1>5. /\ parts # << >> /\ Contiguous(ordered) /\ ByteLength(ordered) = plan.total
      /\ \A i \in DOMAIN parts : Current(parts[i])
  BY DEF Accepted, CompletionAccepts
<1> HIDE DEF ordered
<1>6. ASSUME NEW n \in 1 .. k
      PROVE  \E i \in 1 .. k : /\ ordered[n] = parts[i] /\ parts[i].number = n
                               /\ n \in 1 .. plan.count
                               /\ ordered[n].bytes \in Payloads(plan, n)
                               /\ stored[n].token = parts[i].verificationToken
  <2>1. PICK i \in 1 .. k : ordered[n] = parts[i]
    BY <1>3
  <2>2. ordered[n].number = n
    BY <1>3, <1>5 DEF Contiguous
  <2>3. Current(parts[i])
    BY <1>1, <1>5
  <2> QED BY <1>1, <2>1, <2>2, <2>3 DEF Current
<1>7. k >= 1 /\ k <= plan.count
  <2>1. k # 0
    BY <1>1, <1>5
  <2>2. k \in 1 .. k
    BY <2>1
  <2>3. k \in 1 .. plan.count
    BY <1>6, <2>2
  <2> QED BY <1>2, <2>1, <2>3
<1>8. ASSUME NEW n \in 1 .. k
      PROVE  /\ Len(ordered[n].bytes) \in Nat
             /\ LastByte(plan, n) \in Nat /\ LastByte(plan, n - 1) \in Nat
             /\ LastByte(plan, n - 1) + Len(ordered[n].bytes) <= LastByte(plan, n)
             /\ LastByte(plan, n - 1) + Len(ordered[n].bytes) = LastByte(plan, n) =>
                  ordered[n].bytes = PartBytes(plan, n)
  <2>1. n \in 1 .. plan.count /\ ordered[n].bytes \in Payloads(plan, n)
    BY <1>6
  <2> QED BY <1>2, <2>1, PayloadLengths, PartEnds
<1>9. PICK f \in [0 .. k -> Nat] :
        /\ f[0] = 0
        /\ \A n \in 1 .. k : f[n] = f[n - 1] + Len(ordered[n].bytes)
        /\ ByteLength(ordered) = f[k]
  <2>1. \A n \in 1 .. k : Len(ordered[n].bytes) \in Nat
    BY <1>8
  <2> QED BY ONLY <1>1, <1>4, <2>1, ByteLengthSum
<1>10. LastByte(plan, 0) = 0
  <2>1. 1 \in 1 .. plan.count
    BY <1>2
  <2> QED BY <1>2, <2>1, PartEnds
<1> DEFINE Full(n) == \A m \in 1 .. n : ordered[m].bytes = PartBytes(plan, m)
           S == {n \in 0 .. k : /\ f[n] <= LastByte(plan, n)
                                /\ f[n] = LastByte(plan, n) => Full(n)}
<1>11. 0 \in S
  BY <1>9, <1>10
<1>12. \A n \in 0 .. k - 1 : n \in S => n + 1 \in S
  <2> SUFFICES ASSUME NEW n \in 0 .. k - 1, n \in S PROVE n + 1 \in S
    OBVIOUS
  <2> DEFINE m == n + 1
  <2>1. m \in 1 .. k /\ m \in 0 .. k /\ m - 1 = n /\ n \in 0 .. k
    BY <1>1
  <2>2. /\ Len(ordered[m].bytes) \in Nat
        /\ LastByte(plan, m) \in Nat /\ LastByte(plan, n) \in Nat
        /\ LastByte(plan, n) + Len(ordered[m].bytes) <= LastByte(plan, m)
        /\ LastByte(plan, n) + Len(ordered[m].bytes) = LastByte(plan, m) =>
             ordered[m].bytes = PartBytes(plan, m)
    BY <1>8, <2>1
  <2>3. f[m] = f[n] + Len(ordered[m].bytes) /\ f[n] \in Nat
    BY <1>9, <2>1
  <2>4. f[n] <= LastByte(plan, n) /\ (f[n] = LastByte(plan, n) => Full(n))
    OBVIOUS
  <2> DEFINE low == LastByte(plan, n)
             high == LastByte(plan, m)
             d == Len(ordered[m].bytes)
             before == f[n]
             after == f[m]
  <2>5. /\ before \in Nat /\ d \in Nat /\ low \in Nat /\ high \in Nat
        /\ before <= low /\ low + d <= high /\ after = before + d
    BY ONLY <2>2, <2>3, <2>4
  <2>6. after <= high /\ (after = high => before = low /\ low + d = high)
    <3> HIDE DEF low, high, d, before, after
    <3> QED BY ONLY <2>5
  <2> HIDE DEF Full
  <2>7. f[m] <= LastByte(plan, m)
    BY ONLY <2>6
  <2>8. ASSUME f[m] = LastByte(plan, m) PROVE Full(m)
    <3>1. before = low /\ low + d = high
      BY ONLY <2>6, <2>8
    <3>2. Full(n) /\ ordered[m].bytes = PartBytes(plan, m)
      BY ONLY <2>2, <2>4, <3>1
    <3>3. \A x \in 1 .. m : x \in 1 .. n \/ x = m
      OBVIOUS
    <3> QED BY ONLY <3>2, <3>3 DEF Full
  <2> QED BY <2>1, <2>7, <2>8
<1> HIDE DEF S
<1>13. k \in S
  <2>1. \A n \in 0 .. k : n \in S
    BY ONLY <1>1, <1>11, <1>12, InductionUpTo
  <2> QED BY <1>1, <2>1
<1>14. f[k] = plan.total /\ f[k] <= LastByte(plan, k)
       /\ (f[k] = LastByte(plan, k) => Full(k))
  BY <1>5, <1>9, <1>13 DEF S
<1> HIDE DEF Full
<1>15. k = plan.count /\ LastByte(plan, k) = plan.total
  <2>1. k \in 1 .. plan.count
    BY <1>2, <1>7
  <2>2. k < plan.count => LastByte(plan, k) < plan.total
    BY <1>2, <2>1, PartEnds
  <2>3. k = plan.count => LastByte(plan, k) = plan.total
    BY <1>2, <2>1, PartEnds
  <2>4. LastByte(plan, k) \in Nat
    BY <1>2, <2>1, PartEnds
  <2> QED BY <1>2, <1>7, <1>14, <2>2, <2>3, <2>4
<1>16. \A n \in 1 .. k : ordered[n].bytes = PartBytes(plan, n)
  BY <1>14, <1>15 DEF Full
<1>17. \A n \in 1 .. plan.count : \E i \in DOMAIN parts :
         /\ parts[i].number = n
         /\ parts[i].bytes = PartBytes(plan, n)
         /\ stored[n].token = parts[i].verificationToken
  <2> SUFFICES ASSUME NEW n \in 1 .. k
               PROVE  \E i \in 1 .. k : /\ parts[i].number = n
                                        /\ parts[i].bytes = PartBytes(plan, n)
                                        /\ stored[n].token = parts[i].verificationToken
    BY <1>1, <1>15
  <2>1. PICK i \in 1 .. k : /\ ordered[n] = parts[i] /\ parts[i].number = n
                            /\ stored[n].token = parts[i].verificationToken
    BY <1>6
  <2> QED BY <1>16, <2>1
<1> QED BY <1>1, <1>15, <1>17 DEF Whole

\* The first bytes of the Object, up to where part n ends.
UpTo(p, n) == [i \in 1 .. LastByte(p, n) |-> i]

LEMMA NextPart ==
  ASSUME NEW p, Planned(p), NEW n \in 1 .. p.count
  PROVE  UpTo(p, n - 1) \o PartBytes(p, n) = UpTo(p, n)
<1>1. PICK a \in Nat, b \in Nat :
        a = LastByte(p, n - 1) /\ b = LastByte(p, n) /\ a <= b
  BY PartEnds
<1>2. PICK d \in Nat : d = b - a
  BY <1>1
<1>3. PartBytes(p, n) = [i \in 1 .. d |-> a + i]
  BY <1>1, <1>2, PartIsSeq
<1>4. UpTo(p, n - 1) = [i \in 1 .. a |-> i] /\ UpTo(p, n) = [i \in 1 .. b |-> i]
  BY <1>1 DEF UpTo
<1> DEFINE x == [i \in 1 .. a |-> i]
           y == [i \in 1 .. d |-> a + i]
<1>5. x \in Seq(Nat) /\ Len(x) = a /\ y \in Seq(Nat) /\ Len(y) = d
  OBVIOUS
<1>6. \A i \in 1 .. b : (x \o y)[i] = i
  BY <1>2, <1>5
<1>7. x \o y \in Seq(Nat) /\ Len(x \o y) = b
  BY <1>2, <1>5
<1>8. x \o y = [i \in 1 .. b |-> i]
  <2> DEFINE z == x \o y
  <2>1. z \in Seq(Nat) /\ Len(z) = b /\ \A i \in 1 .. b : z[i] = i
    BY <1>6, <1>7
  <2> HIDE DEF z
  <2>2. z = [i \in 1 .. b |-> i]
    BY <2>1
  <2> QED BY <2>2 DEF z
<1> QED BY <1>3, <1>4, <1>8

\* The planned parts, one after the other, are the Object.
LEMMA JoinedParts ==
  ASSUME NEW p, Planned(p)
  PROVE  Joined([n \in 1 .. p.count |-> PartBytes(p, n)]) = [i \in 1 .. p.total |-> i]
<1>1. PICK c \in Nat \ {0} : c = p.count
  BY Ceiling, MultipartAssumption DEF Planned
<1> DEFINE chunks == [n \in 1 .. c |-> PartBytes(p, n)]
           g == [n \in 0 .. c |-> UpTo(p, n)]
<1>2. \A n \in 1 .. c : chunks[n] = PartBytes(p, n) /\ chunks[n] \in Seq(Nat)
  BY <1>1, PartIsSeq
<1>3. Len(chunks) = c
  BY <1>1
<1>4. LastByte(p, 0) = 0 /\ LastByte(p, c) = p.total
  <2>1. 1 \in 1 .. p.count /\ c \in 1 .. p.count
    BY <1>1
  <2> QED BY <1>1, <2>1, PartEnds
<1>5. g[0] = << >> /\ g[c] = [i \in 1 .. p.total |-> i]
  <2>1. 0 \in 0 .. c /\ c \in 0 .. c
    BY <1>1
  <2>2. g[0] = UpTo(p, 0) /\ g[c] = UpTo(p, c)
    BY <2>1
  <2> QED BY <1>4, <2>2 DEF UpTo
<1>6. \A n \in 1 .. c : g[n] = g[n - 1] \o PartBytes(p, n)
  <2> SUFFICES ASSUME NEW n \in 1 .. c PROVE g[n] = g[n - 1] \o PartBytes(p, n)
    OBVIOUS
  <2>1. n \in 0 .. c /\ n - 1 \in 0 .. c /\ n \in 1 .. p.count
    BY <1>1
  <2>2. g[n] = UpTo(p, n) /\ g[n - 1] = UpTo(p, n - 1)
    BY <2>1
  <2>3. UpTo(p, n - 1) \o PartBytes(p, n) = UpTo(p, n)
    BY <2>1, NextPart
  <2> HIDE DEF g
  <2> QED BY <2>2, <2>3, Zenon
<1> HIDE DEF chunks, g
<1>7. PICK f : /\ f[0] = << >>
               /\ \A n \in 1 .. c : f[n] = f[n - 1] \o chunks[n]
               /\ Joined(chunks) = f[c]
  <2>1. c \in Nat /\ \A n \in 1 .. c : chunks[n] \in Seq(Nat)
    BY <1>2
  <2> QED BY ONLY <1>3, <2>1, JoinedChunks
<1>8. f[c] = g[c]
  <2>1. f[0] = g[0] /\ c \in Nat
    BY <1>5, <1>7
  <2>2. \A n \in 1 .. c : f[n - 1] = g[n - 1] => f[n] = g[n]
    BY <1>2, <1>6, <1>7, Zenon
  <2> QED BY ONLY <2>1, <2>2, RecursionUnique
<1>9. Joined(chunks) = [i \in 1 .. p.total |-> i]
  BY <1>5, <1>7, <1>8
<1> QED BY <1>1, <1>9 DEF chunks

LEMMA CompleteIntact ==
  ASSUME PlanInv, SessionInv, plan # None, NEW parts \in Manifests, Complete(parts)
  PROVE  ObjectIntact'
<1> DEFINE ordered == InOrder(parts)
<1>1. Accepted(parts) /\ plan' = plan
      /\ object' = Joined([n \in DOMAIN parts |-> stored[ordered[n].number].bytes])
  BY DEF Complete
<1>2. Whole(parts)
  BY <1>1, AcceptedWhole
<1>3. /\ DOMAIN parts = 1 .. plan.count
      /\ \A n \in 1 .. plan.count :
           /\ ordered[n].number = n
           /\ ordered[n].bytes = PartBytes(plan, n)
           /\ stored[n].token = ordered[n].verificationToken
  BY <1>2, WholeInOrder
<1>4. ASSUME NEW n \in 1 .. plan.count
      PROVE  stored[ordered[n].number].bytes = PartBytes(plan, n)
  <2>1. plan.count \in Nat /\ Numbered(parts, plan.count)
    BY <1>2, ManifestParts DEF Whole, PlanInv, Planned
  <2>2. PICK i \in 1 .. plan.count : ordered[n] = parts[i]
    <3>1. PICK k \in Nat : k = plan.count /\ Numbered(parts, k) /\ n \in 1 .. k
      BY <2>1
    <3>2. \A m \in 1 .. k : \E i \in 1 .. k :
            Ranks(parts)[i] = m /\ InOrder(parts)[m] = parts[i]
      BY ONLY k \in Nat, <3>1, InOrderSorts
    <3> QED BY <3>1, <3>2
  <2>3. stored[parts[i].number].token = parts[i].verificationToken =>
          stored[parts[i].number].bytes = parts[i].bytes
    <3>1. PICK k \in Nat :
            /\ DOMAIN parts = 1 .. k
            /\ \A j \in 1 .. k :
                 stored[parts[j].number].token = parts[j].verificationToken =>
                   stored[parts[j].number].bytes = parts[j].bytes
      BY ManifestParts DEF Numbered
    <3> QED BY ONLY <1>3, <3>1, i \in 1 .. plan.count
  <2> QED BY <1>3, <2>2, <2>3
<1>5. [n \in DOMAIN parts |-> stored[ordered[n].number].bytes] =
        [n \in 1 .. plan.count |-> PartBytes(plan, n)]
  BY <1>3, <1>4
<1>6. Planned(plan)
  BY DEF PlanInv
<1>7. object' = [i \in 1 .. plan.total |-> i]
  BY <1>1, <1>5, <1>6, JoinedParts
<1> QED BY <1>1, <1>7 DEF ObjectIntact

-----------------------------------------------------------------------------
(* The results *)

LEMMA SessionHolds == Spec => [](PlanInv /\ SessionInv /\ ObjectIntact)
<1>1. PlanInv /\ SessionInv /\ ObjectIntact /\ [Next]_vars =>
        (PlanInv /\ SessionInv /\ ObjectIntact)'
  <2> SUFFICES ASSUME PlanInv, SessionInv, ObjectIntact, [Next]_vars
               PROVE  PlanInv' /\ SessionInv' /\ ObjectIntact'
    OBVIOUS
  <2>1. PlanInv'
    BY PlanStep
  <2>2. ASSUME NEW total \in Totals, NEW size \in PartSizes, Begin(total, size)
        PROVE  SessionInv' /\ ObjectIntact'
    <3>1. SessionInv'
      BY <2>1, <2>2, BeginSession
    <3> QED BY <2>2, <3>1 DEF Begin, ObjectIntact
  <2>3. ASSUME plan # None, NEW n \in 1 .. plan.count, Upload(n)
        PROVE  SessionInv' /\ ObjectIntact'
    <3>1. SessionInv'
      BY <2>3, UploadSession
    <3> QED BY <2>3, <3>1 DEF Upload, ObjectIntact
  <2>4. ASSUME plan # None, NEW parts \in Manifests, Complete(parts)
        PROVE  SessionInv' /\ ObjectIntact'
    <3>1. ObjectIntact'
      BY <2>4, CompleteIntact
    <3>2. UNCHANGED <<plan, stored, receipts, uploads>>
      BY <2>4 DEF Complete
    <3> QED BY <3>1, <3>2 DEF SessionInv
  <2>5. CASE Abort
    <3>1. SessionInv' /\ ObjectIntact'
      BY <2>5 DEF Abort, SessionInv, ObjectIntact
    <3> QED BY <2>1, <3>1
  <2>6. CASE UNCHANGED vars
    <3>1. SessionInv' /\ ObjectIntact'
      BY <2>6 DEF vars, SessionInv, ObjectIntact
    <3> QED BY <2>1, <3>1
  <2> QED BY <2>1, <2>2, <2>3, <2>4, <2>5, <2>6 DEF Next
<1> QED BY <1>1, PlanInvInit, PTL DEF Spec

\* Every session that validate admits is planned within the advertised limits,
\* and its parts carry every byte of the Object exactly once.
THEOREM PlansCover == Spec => []PlanCovers
<1>1. PlanInv => PlanCovers
  BY PartLengths, PartsCoverOnce DEF PlanInv, PlanCovers, Planned
<1> QED BY <1>1, SessionHolds, PTL

\* MultipartCompletion and the tokens of the adapter accept exactly the lists of
\* parts that are the whole Object, in whatever order they are given: contiguous
\* numbers and lengths that add up leave room for no missing, repeated, truncated
\* or replaced part.
THEOREM CompletionExact == Spec => []AcceptsExactlyWhole
<1>1. PlanInv /\ SessionInv => AcceptsExactlyWhole
  BY WholeAccepted, AcceptedWhole DEF AcceptsExactlyWhole
<1> QED BY <1>1, SessionHolds, PTL

\* A completed Object has the bytes of the uploader's, each at its place.
THEOREM ObjectsIntact == Spec => []ObjectIntact
BY SessionHolds, PTL

=============================================================================

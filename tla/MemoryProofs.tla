---------------------------- MODULE MemoryProofs ----------------------------
(***************************************************************************)
(* The memory manager keeps its region for regions, alignments, thresholds *)
(* and requests of any size, and the pods' managers keep what the          *)
(* replicated API promises.                                                *)
(***************************************************************************)
EXTENDS DeviceReplicate, FiniteSetTheorems, SequenceTheorems, WellFoundedInduction, TLAPS

-----------------------------------------------------------------------------
(* Numbers *)

(* A set of natural numbers has a least element.                             *)
LEMMA LeastNumber ==
  ASSUME NEW T, T \subseteq Nat, T # {}
  PROVE  \E n \in T : \A k \in T : ~(k < n)
<1>1. IsWellFoundedOn(OpToRel(<, Nat), Nat)
  BY NatLessThanWellFounded
<1>2. PICK n \in T : \A k \in T : ~(<<k, n>> \in OpToRel(<, Nat))
  BY <1>1, WFMin
<1>3. \A k \in T : ~(k < n)
  <2> SUFFICES ASSUME NEW k \in T, k < n PROVE FALSE
    OBVIOUS
  <2>1. <<k, n>> \in OpToRel(<, Nat)
    BY DEF OpToRel
  <2> QED BY <1>2, <2>1
<1> QED BY <1>3

LEMMA NatSum == \A a, b \in Nat : a + b \in Nat
OBVIOUS

LEMMA DivMod ==
  ASSUME NEW a \in Nat, NEW b \in Nat \ {0}
  PROVE  /\ a \div b \in Nat /\ a % b \in 0 .. b - 1
         /\ a = b * (a \div b) + (a % b)
OBVIOUS

LEMMA ModUnique ==
  ASSUME NEW b \in Nat \ {0}, NEW q \in Nat
  PROVE  b * q \in Nat /\ (b * q) % b = 0
<1>1. (b * q + 0) % b = 0
  OBVIOUS
<1> QED BY <1>1

Aligned(a) == a \in Nat /\ a % Alignment = 0

LEMMA AlignedSum ==
  ASSUME NEW a, NEW b, Aligned(a), Aligned(b)
  PROVE  Aligned(a + b) /\ (b <= a => Aligned(a - b))
<1>1. Alignment \in Nat \ {0}
  BY RegionAssumption
<1>2. PICK i \in Nat : a = Alignment * i
  <2>1. a \in Nat /\ a % Alignment = 0
    BY DEF Aligned
  <2>2. a \div Alignment \in Nat /\ a = Alignment * (a \div Alignment) + (a % Alignment)
    BY <1>1, <2>1, DivMod
  <2>3. a = Alignment * (a \div Alignment)
    BY <1>1, <2>1, <2>2
  <2> QED BY <2>2, <2>3
<1>3. PICK j \in Nat : b = Alignment * j
  <2>1. b \in Nat /\ b % Alignment = 0
    BY DEF Aligned
  <2>2. b \div Alignment \in Nat /\ b = Alignment * (b \div Alignment) + (b % Alignment)
    BY <1>1, <2>1, DivMod
  <2>3. b = Alignment * (b \div Alignment)
    BY <1>1, <2>1, <2>2
  <2> QED BY <2>2, <2>3
<1>4. a + b = Alignment * (i + j) /\ a - b = Alignment * (i - j)
  <2>1. /\ Alignment * (i + j) = Alignment * i + Alignment * j
        /\ Alignment * (i - j) = Alignment * i - Alignment * j
    BY <1>1
  <2> QED BY <1>2, <1>3, <2>1
<1>5. b <= a => i - j \in Nat
  <2> SUFFICES ASSUME b <= a, i < j PROVE FALSE
    OBVIOUS
  <2>1. Alignment * (j - i) > 0 /\ Alignment * (j - i) = Alignment * j - Alignment * i
    BY <1>1
  <2> QED BY <1>2, <1>3, <2>1 DEF Aligned
<1>6. Aligned(Alignment * (i + j))
  BY <1>1, ModUnique DEF Aligned
<1>7. b <= a => Aligned(Alignment * (i - j))
  BY <1>1, <1>5, ModUnique DEF Aligned
<1> QED BY <1>4, <1>6, <1>7

(* What a request is padded to: whole units, at least one.                   *)
LEMMA PaddedUnits ==
  ASSUME NEW size \in Nat
  PROVE  Aligned(Padded(size)) /\ Padded(size) > 0 /\ Padded(size) >= size
<1>1. Alignment \in Nat \ {0}
  BY RegionAssumption
<1> DEFINE wanted == IF size = 0 THEN Alignment ELSE size
           q == wanted \div Alignment
           mod == wanted % Alignment
<1>2. wanted \in Nat /\ wanted > 0 /\ wanted >= size
  BY <1>1
<1>3. q \in Nat /\ mod \in 0 .. Alignment - 1 /\ wanted = Alignment * q + mod
  BY <1>1, <1>2, DivMod
<1>4. Padded(size) = wanted + (IF mod > 0 THEN Alignment - mod ELSE 0)
  BY DEF Padded
<1>5. Padded(size) = IF mod > 0 THEN Alignment * (q + 1) ELSE Alignment * q
  <2> HIDE DEF wanted, q, mod
  <2> QED BY <1>1, <1>3, <1>4
<1>6. Aligned(Alignment * (q + 1)) /\ Aligned(Alignment * q)
  <2> HIDE DEF q
  <2> QED BY <1>1, <1>3, ModUnique DEF Aligned
<1>7. Padded(size) >= wanted
  <2> HIDE DEF wanted, q, mod
  <2> QED BY <1>1, <1>2, <1>3, <1>4
<1> QED BY <1>2, <1>5, <1>6, <1>7 DEF Aligned

-----------------------------------------------------------------------------
(* Buffers of the region *)

Region == Start .. Start + Size - 1

Blocks ==
  {b \in [first : Nat, second : Nat] :
     /\ Aligned(b.first) /\ Aligned(b.second) /\ b.second > 0
     /\ Start <= b.first /\ b.first + b.second <= Start + Size}

Separate(b, c) == b.first + b.second <= c.first \/ c.first + c.second <= b.first

Apart(list) == \A i, j \in 1 .. Len(list) : i # j => Separate(list[i], list[j])

Joinless(list) ==
  \A i, j \in 1 .. Len(list) : list[i].first + list[i].second # list[j].first

Covered(list) == {u \in Region : \E i \in 1 .. Len(list) : u \in Units(list[i])}

LEMMA BlockParts ==
  ASSUME NEW b \in Blocks
  PROVE  /\ b = Buffer(b.first, b.second) /\ b \in BufferType
         /\ b.first \in Nat /\ b.second \in Nat
         /\ b.first \in Region /\ b.first \in Units(b)
         /\ Units(b) \subseteq Region
         /\ IsFiniteSet(Units(b)) /\ Cardinality(Units(b)) = b.second
<1>1. Start \in Nat /\ Size \in Nat
  BY RegionAssumption
<1>2. /\ b \in [first : Nat, second : Nat] /\ b.first \in Nat /\ b.second \in Nat
      /\ b.first % Alignment = 0 /\ b.second % Alignment = 0 /\ b.second > 0
      /\ Start <= b.first /\ b.first + b.second <= Start + Size
  BY DEF Blocks, Aligned
<1>3. b = Buffer(b.first, b.second)
  BY <1>2 DEF Buffer
<1>4. b \in BufferType
  <2>1. b.first \in Start .. Start + Size - 1 /\ b.second \in 1 .. Size
    BY <1>1, <1>2
  <2>2. b \in [first : Start .. Start + Size - 1, second : 1 .. Size]
    BY <1>2, <2>1
  <2> QED BY <1>2, <2>2 DEF BufferType
<1>5. Units(b) \subseteq Region /\ b.first \in Region /\ b.first \in Units(b)
  BY <1>1, <1>2 DEF Units, Region
<1>6. IsFiniteSet(Units(b)) /\ Cardinality(Units(b)) = b.second
  <2> DEFINE last == b.first + b.second - 1
  <2>1. last \in Int /\ last - b.first + 1 = b.second /\ b.first <= last /\ b.first \in Int
    BY <1>2
  <2>2. Units(b) = b.first .. last
    BY DEF Units
  <2>3. IsFiniteSet(b.first .. last)
        /\ Cardinality(b.first .. last) = IF b.first > last THEN 0 ELSE last - b.first + 1
    <3> HIDE DEF last
    <3> QED BY <2>1, FS_Interval
  <2> QED BY <2>1, <2>2, <2>3
<1> QED BY <1>2, <1>3, <1>4, <1>5, <1>6

(* Blocks without a unit in common are apart.                                *)
LEMMA SeparateUnits ==
  ASSUME NEW b \in Blocks, NEW c \in Blocks
  PROVE  /\ Separate(b, c) <=> Units(b) \cap Units(c) = {}
         /\ Separate(b, c) => b.first # c.first
<1>1. /\ b.first \in Nat /\ b.second \in Nat /\ b.second > 0
      /\ c.first \in Nat /\ c.second \in Nat /\ c.second > 0
  BY DEF Blocks
<1>2. Separate(b, c) => Units(b) \cap Units(c) = {}
  BY <1>1 DEF Separate, Units
<1>3. ASSUME ~Separate(b, c) PROVE Units(b) \cap Units(c) # {}
  <2>1. CASE b.first <= c.first
    <3>1. c.first \in Units(b) /\ c.first \in Units(c)
      BY <1>1, <1>3, <2>1 DEF Separate, Units
    <3> QED BY <3>1
  <2>2. CASE c.first < b.first
    <3>1. b.first \in Units(b) /\ b.first \in Units(c)
      BY <1>1, <1>3, <2>2 DEF Separate, Units
    <3> QED BY <3>1
  <2> QED BY <1>1, <2>1, <2>2
<1>4. Separate(b, c) => b.first # c.first
  BY <1>1 DEF Separate
<1> QED BY <1>2, <1>3, <1>4

(* The first part of a block, and the rest of a larger one.                  *)
LEMMA BlockSplit ==
  ASSUME NEW b \in Blocks, NEW size, Aligned(size), size > 0, size <= b.second
  PROVE  /\ Buffer(b.first, size) \in Blocks
         /\ Units(Buffer(b.first, size)) = b.first .. b.first + size - 1
         /\ size < b.second => Buffer(b.first + size, b.second - size) \in Blocks
<1>1. Start \in Nat /\ Size \in Nat /\ size \in Nat
  BY RegionAssumption DEF Aligned
<1>2. /\ b.first \in Nat /\ b.second \in Nat /\ Aligned(b.first) /\ Aligned(b.second)
      /\ Start <= b.first /\ b.first + b.second <= Start + Size
  BY DEF Blocks
<1>3. Buffer(b.first, size) \in Blocks
  <2>1. Buffer(b.first, size) \in [first : Nat, second : Nat]
    BY <1>1, <1>2 DEF Buffer
  <2>2. Start <= b.first /\ b.first + size <= Start + Size
    BY <1>1, <1>2
  <2> QED BY <1>2, <2>1, <2>2 DEF Blocks, Buffer
<1>4. ASSUME size < b.second PROVE Buffer(b.first + size, b.second - size) \in Blocks
  <2>1. Aligned(b.first + size) /\ Aligned(b.second - size)
    BY <1>2, <1>4, AlignedSum
  <2>2. b.first + size \in Nat /\ b.second - size \in Nat /\ b.second - size > 0
    BY <1>1, <1>2, <1>4
  <2>3. Buffer(b.first + size, b.second - size) \in [first : Nat, second : Nat]
    BY <2>2 DEF Buffer
  <2>4. /\ Start <= b.first + size
        /\ (b.first + size) + (b.second - size) <= Start + Size
    BY <1>1, <1>2
  <2> QED BY <2>1, <2>2, <2>3, <2>4 DEF Blocks, Buffer
<1> QED BY <1>3, <1>4 DEF Units, Buffer

-----------------------------------------------------------------------------
(* First fit *)

LEMMA FirstFitFits ==
  ASSUME NEW list \in Seq(Blocks), NEW size \in Nat
  PROVE  /\ FirstFit(list, size) \in 0 .. Len(list)
         /\ FirstFit(list, size) # 0 => list[FirstFit(list, size)].second >= size
<1> DEFINE I == {i \in 1 .. Len(list) : list[i].second >= size}
<1>1. FirstFit(list, size) = IF I # {} THEN Min(I) ELSE 0
  BY DEF FirstFit, SelectInSeq
<1>2. CASE I = {}
  BY <1>1, <1>2
<1>3. CASE I # {}
  <2>1. I \subseteq Nat
    OBVIOUS
  <2>2. \E n \in I : \A k \in I : ~(k < n)
    <3> HIDE DEF I
    <3> QED BY <1>3, <2>1, LeastNumber
  <2>3. \E n \in I : \A k \in I : n <= k
    BY <2>1, <2>2
  <2>4. Min(I) \in I
    <3> HIDE DEF I
    <3> QED BY <2>3 DEF Min
  <2> QED BY <1>1, <1>3, <2>4
<1> QED BY <1>2, <1>3

(* Blocks taken out of a list that is apart leave it apart.                  *)
LEMMA RemovedAt ==
  ASSUME NEW list \in Seq(Blocks), NEW i \in 1 .. Len(list)
  PROVE  /\ RemoveAt(list, i) \in Seq(Blocks)
         /\ Len(RemoveAt(list, i)) = Len(list) - 1
         /\ \A j \in 1 .. Len(list) - 1 :
              RemoveAt(list, i)[j] = IF j < i THEN list[j] ELSE list[j + 1]
<1> DEFINE n == Len(list)
           a == SubSeq(list, 1, i - 1)
           b == SubSeq(list, i + 1, n)
<1>1. /\ n \in Nat /\ i \in 1 .. n /\ i \in Int
      /\ \A j \in 1 .. n : list[j] \in Blocks
  OBVIOUS
<1>2. /\ a \in Seq(Blocks) /\ Len(a) = i - 1
      /\ \A j \in 1 .. i - 1 : a[j] = list[j]
  <2>1. /\ a \in Seq(Blocks) /\ Len(a) = IF 1 <= i - 1 THEN (i - 1) - 1 + 1 ELSE 0
        /\ \A j \in 1 .. (i - 1) - 1 + 1 : a[j] = list[1 + j - 1]
    BY <1>1, SubSeqProperties
  <2> HIDE DEF a
  <2> QED BY <1>1, <2>1
<1>3. /\ b \in Seq(Blocks) /\ Len(b) = n - i
      /\ \A j \in 1 .. n - i : b[j] = list[i + j]
  <2>1. /\ b \in Seq(Blocks) /\ Len(b) = IF i + 1 <= n THEN n - (i + 1) + 1 ELSE 0
        /\ \A j \in 1 .. n - (i + 1) + 1 : b[j] = list[(i + 1) + j - 1]
    BY <1>1, SubSeqProperties
  <2> HIDE DEF b
  <2> QED BY <1>1, <2>1
<1>4. RemoveAt(list, i) = a \o b
  BY DEF RemoveAt
<1> HIDE DEF a, b
<1>5. /\ a \o b \in Seq(Blocks) /\ Len(a \o b) = Len(a) + Len(b)
      /\ \A j \in 1 .. Len(a) + Len(b) :
           (a \o b)[j] = IF j <= Len(a) THEN a[j] ELSE b[j - Len(a)]
  <2>1. a \in Seq(Blocks) /\ b \in Seq(Blocks)
    BY <1>2, <1>3
  <2> QED BY <2>1, ConcatProperties
<1>6. Len(a) + Len(b) = n - 1
  BY <1>1, <1>2, <1>3
<1>7. ASSUME NEW j \in 1 .. n - 1
      PROVE  (a \o b)[j] = IF j < i THEN list[j] ELSE list[j + 1]
  <2>1. (a \o b)[j] = IF j <= i - 1 THEN a[j] ELSE b[j - (i - 1)]
    BY <1>2, <1>5, <1>6, <1>7
  <2>2. CASE j < i
    <3>1. j \in 1 .. i - 1
      BY <1>1, <1>7, <2>2
    <3> QED BY <1>2, <2>1, <2>2, <3>1
  <2>3. CASE ~(j < i)
    <3>1. j - (i - 1) \in 1 .. n - i /\ i + (j - (i - 1)) = j + 1 /\ ~(j <= i - 1)
      BY <1>1, <1>7, <2>3
    <3>2. b[j - (i - 1)] = list[j + 1]
      BY <1>3, <3>1
    <3> QED BY <2>1, <2>3, <3>1, <3>2
  <2> QED BY <2>2, <2>3
<1> QED BY <1>4, <1>5, <1>6, <1>7

LEMMA ReplacedAt ==
  ASSUME NEW list \in Seq(Blocks), NEW i \in 1 .. Len(list), NEW b \in Blocks
  PROVE  /\ ReplaceAt(list, i, b) \in Seq(Blocks)
         /\ Len(ReplaceAt(list, i, b)) = Len(list)
         /\ \A j \in 1 .. Len(list) :
              ReplaceAt(list, i, b)[j] = IF j = i THEN b ELSE list[j]
BY DEF ReplaceAt

(* What is taken is no longer covered, and everything else still is.         *)
LEMMA CarveRemoves ==
  ASSUME NEW list \in Seq(Blocks), Apart(list), NEW i \in 1 .. Len(list)
  PROVE  /\ Apart(RemoveAt(list, i))
         /\ Covered(RemoveAt(list, i)) = Covered(list) \ Units(list[i])
         /\ Joinless(list) => Joinless(RemoveAt(list, i))
<1> DEFINE c == RemoveAt(list, i)
           From(j) == IF j < i THEN j ELSE j + 1
<1>1. /\ Len(c) = Len(list) - 1 /\ Len(list) \in Nat
      /\ \A j \in 1 .. Len(c) : From(j) \in 1 .. Len(list) /\ c[j] = list[From(j)]
  <2>1. /\ Len(c) = Len(list) - 1
        /\ \A j \in 1 .. Len(list) - 1 : c[j] = IF j < i THEN list[j] ELSE list[j + 1]
    BY RemovedAt, Zenon
  <2>2. Len(list) \in Nat
    OBVIOUS
  <2> HIDE DEF c
  <2> QED BY <2>1, <2>2
<1>2. \A j, k \in 1 .. Len(c) : j # k => From(j) # From(k)
  BY <1>1
<1>3. \A j \in 1 .. Len(c) : From(j) # i
  BY <1>1
<1>4. \A j \in 1 .. Len(list) : j # i => \E k \in 1 .. Len(c) : From(k) = j
  <2> TAKE j \in 1 .. Len(list)
  <2>1. CASE j < i
    <3>1. j \in 1 .. Len(c) /\ From(j) = j
      BY <1>1, <2>1
    <3> QED BY <3>1
  <2>2. CASE j > i
    <3>1. j - 1 \in 1 .. Len(c) /\ From(j - 1) = j
      BY <1>1, <2>2
    <3> QED BY <3>1
  <2> QED BY <2>1, <2>2
<1> HIDE DEF c, From
<1>5. Apart(c)
  BY <1>1, <1>2 DEF Apart
<1>6. Joinless(list) => Joinless(c)
  BY <1>1 DEF Joinless
<1>7. \A j \in 1 .. Len(list) : list[j] \in Blocks
  OBVIOUS
<1>8. \A j \in 1 .. Len(list) : j # i => Units(list[j]) \cap Units(list[i]) = {}
  BY <1>7, SeparateUnits DEF Apart
<1>9. ASSUME NEW u \in Covered(c) PROVE u \in Covered(list) \ Units(list[i])
  BY <1>1, <1>3, <1>8 DEF Covered
<1>10. ASSUME NEW u \in Covered(list), u \notin Units(list[i]) PROVE u \in Covered(c)
  <2>1. PICK j \in 1 .. Len(list) : u \in Units(list[j])
    BY DEF Covered
  <2>2. PICK k \in 1 .. Len(c) : From(k) = j
    BY <1>4, <1>10, <2>1
  <2> QED BY <1>1, <2>1, <2>2 DEF Covered
<1>11. Covered(c) = Covered(list) \ Units(list[i])
  BY <1>9, <1>10
<1> QED BY <1>5, <1>6, <1>11 DEF c

LEMMA CarveShrinks ==
  ASSUME NEW list \in Seq(Blocks), Apart(list), NEW i \in 1 .. Len(list),
         NEW size, Aligned(size), size > 0, size < list[i].second,
         NEW rest, rest = Buffer(list[i].first + size, list[i].second - size)
  PROVE  /\ ReplaceAt(list, i, rest) \in Seq(Blocks)
         /\ Apart(ReplaceAt(list, i, rest))
         /\ Covered(ReplaceAt(list, i, rest))
              = Covered(list) \ Units(Buffer(list[i].first, size))
         /\ Joinless(list) => Joinless(ReplaceAt(list, i, rest))
<1> DEFINE c == ReplaceAt(list, i, rest)
<1>1. \A j \in 1 .. Len(list) : list[j] \in Blocks
  OBVIOUS
<1>2. size \in Nat /\ list[i].first \in Nat /\ list[i].second \in Nat
  BY <1>1 DEF Aligned, Blocks
<1>3. rest \in Blocks /\ rest.first = list[i].first + size
      /\ rest.second = list[i].second - size
  <2>1. rest.first = list[i].first + size /\ rest.second = list[i].second - size
    BY DEF Buffer
  <2>2. list[i] \in Blocks /\ size <= list[i].second
    BY <1>1, <1>2
  <2>3. rest \in Blocks
    BY <2>2, BlockSplit
  <2> QED BY <2>1, <2>3
<1>4. /\ c \in Seq(Blocks) /\ Len(c) = Len(list) /\ Len(list) \in Nat
      /\ \A j \in 1 .. Len(list) : c[j] = IF j = i THEN rest ELSE list[j]
  <2>1. rest \in Blocks /\ Len(list) \in Nat
    BY <1>3
  <2>2. /\ c \in Seq(Blocks) /\ Len(c) = Len(list)
        /\ \A j \in 1 .. Len(list) : c[j] = IF j = i THEN rest ELSE list[j]
    BY <2>1, ReplacedAt
  <2> QED BY <2>1, <2>2
<1> HIDE DEF c
<1>5. \A j \in 1 .. Len(list) : list[j].first \in Nat /\ list[j].second \in Nat
                                /\ list[j].second > 0
  BY <1>1 DEF Blocks
<1>6. \A j \in 1 .. Len(list) : j # i => Separate(list[j], list[i]) /\ Separate(list[i], list[j])
  BY DEF Apart
<1>7. ASSUME NEW j \in 1 .. Len(list), j # i
      PROVE  /\ Separate(list[j], rest) /\ Separate(rest, list[j])
             /\ list[j].first + list[j].second # rest.first
  <2>1. list[j].first \in Nat /\ list[j].second \in Nat /\ list[j].second > 0
    BY <1>5
  <2>2. Separate(list[j], list[i])
    BY <1>6, <1>7
  <2> QED BY <1>2, <1>3, <2>1, <2>2 DEF Separate
<1>8. Apart(c)
  <2> SUFFICES ASSUME NEW j \in 1 .. Len(list), NEW k \in 1 .. Len(list), j # k
               PROVE  Separate(c[j], c[k])
    BY <1>4 DEF Apart
  <2>1. CASE j # i /\ k # i
    BY <1>4, <2>1 DEF Apart
  <2>2. CASE j = i /\ k # i
    BY <1>4, <1>7, <2>2
  <2>3. CASE j # i /\ k = i
    BY <1>4, <1>7, <2>3
  <2> QED BY <2>1, <2>2, <2>3
<1>9. ASSUME Joinless(list) PROVE Joinless(c)
  <2> SUFFICES ASSUME NEW j \in 1 .. Len(list), NEW k \in 1 .. Len(list)
               PROVE  c[j].first + c[j].second # c[k].first
    BY <1>4 DEF Joinless
  <2>1. list[j].first + list[j].second # list[k].first
    BY <1>9 DEF Joinless
  <2>2. CASE j # i /\ k # i
    BY <1>4, <2>1, <2>2
  <2>3. CASE j = i /\ k # i
    BY <1>2, <1>3, <1>4, <2>1, <2>3
  <2>4. CASE j # i /\ k = i
    BY <1>4, <1>7, <2>4
  <2>5. CASE j = i /\ k = i
    BY <1>2, <1>3, <1>4, <2>5
  <2> QED BY <2>2, <2>3, <2>4, <2>5
<1> DEFINE front == Units(Buffer(list[i].first, size))
<1>10. /\ front \subseteq Units(list[i]) /\ front \cap Units(rest) = {}
       /\ Units(list[i]) = front \cup Units(rest)
  <2> DEFINE f == list[i].first
             n == list[i].second
  <2>1. f \in Nat /\ n \in Nat /\ size \in Nat /\ size < n /\ size > 0
    BY <1>2
  <2>2. /\ front = f .. f + size - 1 /\ Units(list[i]) = f .. f + n - 1
        /\ Units(rest) = f + size .. f + size + (n - size) - 1
    BY <1>3 DEF Units, Buffer
  <2> HIDE DEF f, n, front
  <2> QED BY <2>1, <2>2
<1>11. \A j \in 1 .. Len(list) : j # i => Units(list[j]) \cap Units(list[i]) = {}
  BY <1>1, <1>6, SeparateUnits
<1> HIDE DEF front
<1>12. ASSUME NEW u \in Covered(c) PROVE u \in Covered(list) \ front
  <2>1. PICK j \in 1 .. Len(list) : u \in Units(c[j])
    BY <1>4 DEF Covered
  <2>2. CASE j = i
    BY <1>4, <1>10, <2>1, <2>2 DEF Covered
  <2>3. CASE j # i
    BY <1>4, <1>10, <1>11, <2>1, <2>3 DEF Covered
  <2> QED BY <2>2, <2>3
<1>13. ASSUME NEW u \in Covered(list), u \notin front PROVE u \in Covered(c)
  <2>1. PICK j \in 1 .. Len(list) : u \in Units(list[j])
    BY DEF Covered
  <2>2. u \in Units(c[j])
    BY <1>4, <1>10, <1>13, <2>1
  <2> QED BY <1>4, <2>1, <2>2 DEF Covered
<1>14. Covered(c) = Covered(list) \ front
  BY <1>12, <1>13
<1> QED BY <1>4, <1>8, <1>9, <1>14 DEF c, front

LEMMA CarveTakes ==
  ASSUME NEW list \in Seq(Blocks), Apart(list), NEW i \in 1 .. Len(list),
         NEW size, Aligned(size), size > 0, size <= list[i].second
  PROVE  /\ Carve(list, i, size) \in Seq(Blocks)
         /\ Len(Carve(list, i, size)) <= Len(list)
         /\ Apart(Carve(list, i, size))
         /\ Covered(Carve(list, i, size))
              = Covered(list) \ Units(Buffer(list[i].first, size))
         /\ Joinless(list) => Joinless(Carve(list, i, size))
<1>1. /\ list[i] \in Blocks /\ Len(list) \in Nat /\ size \in Nat
      /\ list[i].second \in Nat /\ list[i] = Buffer(list[i].first, list[i].second)
  BY BlockParts DEF Aligned
<1> DEFINE rest == Buffer(list[i].first + size, list[i].second - size)
<1>2. CASE size < list[i].second
  <2>1. Carve(list, i, size) = ReplaceAt(list, i, rest)
    BY <1>1, <1>2 DEF Carve
  <2>2. rest \in Blocks
    BY <1>1, <1>2, BlockSplit
  <2> HIDE DEF rest
  <2>3. Len(ReplaceAt(list, i, rest)) = Len(list)
    BY <2>2, ReplacedAt
  <2> QED BY <1>1, <1>2, <2>1, <2>3, CarveShrinks DEF rest
<1>3. CASE size = list[i].second
  <2>1. Carve(list, i, size) = RemoveAt(list, i)
    BY <1>1, <1>3 DEF Carve
  <2>2. Len(RemoveAt(list, i)) = Len(list) - 1 /\ RemoveAt(list, i) \in Seq(Blocks)
    BY RemovedAt
  <2> QED BY <1>1, <1>3, <2>1, <2>2, CarveRemoves
<1> QED BY <1>1, <1>2, <1>3

-----------------------------------------------------------------------------
(* Sorting *)

(* In a list that is apart the entries differ in their addresses.            *)
LEMMA BeforeIsFirst ==
  ASSUME NEW list \in Seq(Blocks), Apart(list),
         NEW i \in 1 .. Len(list), NEW j \in 1 .. Len(list)
  PROVE  /\ Before(list, i, j) <=> list[i].first < list[j].first
         /\ i # j => list[i].first # list[j].first
         /\ list[i].first < list[j].first => list[i].first + list[i].second <= list[j].first
<1>1. /\ list[i] \in Blocks /\ list[i].first \in Nat /\ list[i].second \in Nat
      /\ list[i].second > 0
      /\ list[j] \in Blocks /\ list[j].first \in Nat /\ list[j].second \in Nat
      /\ list[j].second > 0
  BY DEF Blocks
<1>2. i # j => Separate(list[i], list[j])
  BY DEF Apart
<1>3. i # j => list[i].first # list[j].first
  BY <1>1, <1>2, SeparateUnits
<1>4. CASE i = j
  BY <1>1, <1>4 DEF Before, Less
<1>5. CASE i # j
  BY <1>1, <1>2, <1>3, <1>5 DEF Before, Less, Separate
<1> QED BY <1>3, <1>4, <1>5

LEMMA RankGrows ==
  ASSUME NEW list \in Seq(Blocks), Apart(list), NEW j \in 1 .. Len(list)
  PROVE  /\ Rank(list, j) \in 1 .. Len(list)
         /\ \A k \in 1 .. Len(list) :
              list[j].first < list[k].first => Rank(list, j) < Rank(list, k)
<1> DEFINE n == Len(list)
           B(k) == {i \in 1 .. n : Before(list, i, k)}
<1>1. n \in Nat /\ DOMAIN list = 1 .. n
  OBVIOUS
<1>2. \A k \in 1 .. n : Rank(list, k) = Cardinality(B(k)) + 1
  BY <1>1 DEF Rank
<1>3. \A i, k \in 1 .. n : i \in B(k) <=> list[i].first < list[k].first
  BY BeforeIsFirst
<1>4. \A k \in 1 .. n : list[k].first \in Nat
  <2> TAKE k \in 1 .. n
  <2>1. list[k] \in Blocks
    OBVIOUS
  <2> QED BY <2>1, BlockParts
<1>5. \A k \in 1 .. n : B(k) \subseteq 1 .. n
  OBVIOUS
<1> HIDE DEF n, B
<1>6. IsFiniteSet(1 .. n) /\ Cardinality(1 .. n) = n
  BY <1>1, FS_Interval
<1>7. \A k \in 1 .. n : IsFiniteSet(B(k)) /\ Cardinality(B(k)) \in Nat
  BY <1>5, <1>6, FS_Subset, FS_CardinalityType
<1>8. j \in 1 .. n /\ j \notin B(j)
  BY <1>3, <1>4 DEF n
<1>9. Cardinality(B(j) \cup {j}) = Cardinality(B(j)) + 1 /\ IsFiniteSet(B(j) \cup {j})
  BY <1>7, <1>8, FS_AddElement
<1>10. Rank(list, j) \in 1 .. n
  <2>1. B(j) \cup {j} \subseteq 1 .. n
    BY <1>5, <1>8
  <2>2. Cardinality(B(j) \cup {j}) <= n
    BY <1>6, <2>1, FS_Subset
  <2> QED BY <1>1, <1>2, <1>7, <1>8, <1>9, <2>2
<1>11. ASSUME NEW k \in 1 .. n, list[j].first < list[k].first
       PROVE  Rank(list, j) < Rank(list, k)
  <2>1. B(j) \cup {j} \subseteq B(k)
    <3> SUFFICES ASSUME NEW i \in B(j) \cup {j} PROVE i \in B(k)
      OBVIOUS
    <3>1. i \in 1 .. n
      BY <1>5, <1>8
    <3>2. CASE i = j
      BY <1>3, <1>8, <1>11, <3>2
    <3>3. CASE i \in B(j)
      <4>1. list[i].first < list[j].first
        BY <1>3, <1>8, <3>1, <3>3
      <4>2. list[i].first < list[k].first
        BY <1>4, <1>8, <1>11, <3>1, <4>1
      <4> QED BY <1>3, <1>11, <3>1, <4>2
    <3> QED BY <3>2, <3>3
  <2>2. Cardinality(B(j) \cup {j}) <= Cardinality(B(k))
    BY <1>7, <1>11, <2>1, FS_Subset
  <2> QED BY <1>2, <1>7, <1>8, <1>9, <1>11, <2>2
<1> QED BY <1>10, <1>11 DEF n

(* Ascending, and still apart: an entry ends before the next one starts.     *)
Ascends(list) ==
  \A i, j \in 1 .. Len(list) : i < j => list[i].first + list[i].second <= list[j].first

LEMMA SortedAscends ==
  ASSUME NEW list \in Seq(Blocks), Apart(list)
  PROVE  /\ Sorted(list) \in Seq(Blocks) /\ Len(Sorted(list)) = Len(list)
         /\ Ascends(Sorted(list)) /\ Covered(Sorted(list)) = Covered(list)
<1> DEFINE n == Len(list)
           rank == [j \in 1 .. n |-> Rank(list, j)]
           At(k) == CHOOSE j \in 1 .. n : Rank(list, j) = k
           s == Sorted(list)
<1>1. n \in Nat /\ DOMAIN list = 1 .. n /\ list \in [1 .. n -> Blocks]
  OBVIOUS
<1>2. IsFiniteSet(1 .. n) /\ Cardinality(1 .. n) = n
  BY <1>1, FS_Interval
<1>3. \A j \in 1 .. n : /\ Rank(list, j) \in 1 .. n
                        /\ list[j].first \in Nat
                        /\ \A k \in 1 .. n : list[j].first < list[k].first =>
                                               Rank(list, j) < Rank(list, k)
  <2> TAKE j \in 1 .. n
  <2>1. list[j].first \in Nat
    BY <1>1, BlockParts
  <2> QED BY <2>1, RankGrows
<1>4. \A j, k \in 1 .. n : j # k => list[j].first # list[k].first
  BY BeforeIsFirst
<1> HIDE DEF n
<1>5. \A j, k \in 1 .. n : Rank(list, j) = Rank(list, k) => j = k
  <2> SUFFICES ASSUME NEW j \in 1 .. n, NEW k \in 1 .. n, j # k
               PROVE  Rank(list, j) # Rank(list, k)
    OBVIOUS
  <2>1. list[j].first < list[k].first \/ list[k].first < list[j].first
    BY <1>3, <1>4
  <2> QED BY <1>1, <1>3, <2>1
<1>6. rank \in Injection(1 .. n, 1 .. n)
  BY <1>3, <1>5 DEF Injection, IsInjective
<1>7. rank \in Surjection(1 .. n, 1 .. n)
  <2> HIDE DEF rank
  <2> QED BY <1>2, <1>6, FS_Injection
<1>8. \A k \in 1 .. n : \E j \in 1 .. n : Rank(list, j) = k
  BY <1>7 DEF Surjection
<1>9. \A k \in 1 .. n : At(k) \in 1 .. n /\ Rank(list, At(k)) = k
  <2> TAKE k \in 1 .. n
  <2> QED BY <1>8
<1>10. s = [k \in 1 .. n |-> list[At(k)]]
  BY <1>1 DEF Sorted
<1> HIDE DEF At, s, rank
<1>11. s \in Seq(Blocks) /\ Len(s) = n /\ \A k \in 1 .. n : s[k] = list[At(k)]
  <2>1. \A k \in 1 .. n : list[At(k)] \in Blocks
    BY <1>1, <1>9
  <2>2. [k \in 1 .. n |-> list[At(k)]] \in Seq(Blocks)
    BY <1>1, <2>1
  <2>3. s \in Seq(Blocks) /\ DOMAIN s = 1 .. n /\ \A k \in 1 .. n : s[k] = list[At(k)]
    BY <1>10, <2>2, Zenon
  <2>4. Len(s) \in Nat /\ DOMAIN s = 1 .. Len(s)
    BY <2>3, LenProperties
  <2>5. Len(s) = n
    BY <1>1, <2>3, <2>4
  <2> QED BY <2>3, <2>5
<1>12. Ascends(s)
  <2> SUFFICES ASSUME NEW i \in 1 .. n, NEW j \in 1 .. n, i < j
               PROVE  s[i].first + s[i].second <= s[j].first
    BY <1>11 DEF Ascends
  <2>1. At(i) \in 1 .. n /\ At(j) \in 1 .. n /\ At(i) # At(j)
    BY <1>1, <1>9
  <2>2. PICK a \in 1 .. n, b \in 1 .. n :
           a = At(i) /\ b = At(j) /\ Rank(list, a) = i /\ Rank(list, b) = j
    BY <1>9, <2>1
  <2>3. list[a].first # list[b].first /\ list[a].first \in Nat /\ list[b].first \in Nat
    BY <1>3, <1>4, <2>1, <2>2
  <2>4. ~(list[b].first < list[a].first)
    <3> SUFFICES ASSUME list[b].first < list[a].first PROVE FALSE
      OBVIOUS
    <3>1. Rank(list, b) < Rank(list, a)
      BY <1>3
    <3> QED BY <1>1, <2>2, <3>1
  <2>5. list[a].first < list[b].first
    BY <2>3, <2>4
  <2>6. list[At(i)].first + list[At(i)].second <= list[At(j)].first
    BY <2>2, <2>5, BeforeIsFirst DEF n
  <2> QED BY <1>11, <2>6
<1>13. Covered(s) = Covered(list)
  <2>1. ASSUME NEW u \in Covered(s) PROVE u \in Covered(list)
    BY <1>9, <1>11 DEF Covered, n
  <2>2. ASSUME NEW u \in Covered(list) PROVE u \in Covered(s)
    <3>1. PICK j \in 1 .. n : u \in Units(list[j])
      BY DEF Covered, n
    <3>2. At(Rank(list, j)) = j /\ Rank(list, j) \in 1 .. n
      BY <1>3, <1>5, <1>9
    <3>3. s[Rank(list, j)] = list[j]
      BY <1>11, <3>2
    <3> QED BY <1>11, <3>1, <3>2, <3>3 DEF Covered
  <2> QED BY <2>1, <2>2
<1> QED BY <1>11, <1>12, <1>13 DEF s, n

-----------------------------------------------------------------------------
(* Merging *)

(* The recursive functions of the two loops over a list.                     *)
LEMMA MergedExists ==
  ASSUME NEW list, NEW n \in Nat
  PROVE  \E f : f = [k \in 0 .. n |-> IF k = 0 THEN <<>> ELSE Merge(f[k - 1], list[k])]
<1> DEFINE Upto(m) ==
             \E f : f = [k \in 0 .. m |-> IF k = 0 THEN <<>> ELSE Merge(f[k - 1], list[k])]
           T == {m \in Nat : ~Upto(m)}
<1>1. SUFFICES ASSUME T # {} PROVE FALSE
  OBVIOUS
<1>2. T \subseteq Nat
  OBVIOUS
<1>3. PICK m \in T : \A k \in T : ~(k < m)
  <2> HIDE DEF T
  <2> QED BY <1>1, <1>2, LeastNumber
<1>4. Upto(0)
  <2> DEFINE f == [k \in 0 .. 0 |-> <<>>]
  <2>1. f = [k \in 0 .. 0 |-> IF k = 0 THEN <<>> ELSE Merge(f[k - 1], list[k])]
    BY \A k \in 0 .. 0 : k = 0
  <2> QED BY <2>1
<1>5. m \in Nat /\ m # 0 /\ m - 1 \in Nat /\ m - 1 < m
  <2> HIDE DEF Upto
  <2>1. m \in Nat /\ ~Upto(m)
    BY <1>3
  <2>2. m # 0
    BY <1>4, <2>1
  <2> QED BY <2>1, <2>2
<1>6. Upto(m - 1)
  <2> HIDE DEF Upto
  <2>1. m - 1 \notin T
    <3> HIDE DEF T
    <3> QED BY <1>3, <1>5
  <2> QED BY <1>5, <2>1
<1>7. PICK g : g = [k \in 0 .. m - 1 |-> IF k = 0 THEN <<>> ELSE Merge(g[k - 1], list[k])]
  BY <1>6
<1> DEFINE f == [k \in 0 .. m |-> IF k = m THEN Merge(g[m - 1], list[m]) ELSE g[k]]
<1>8. \A k \in 0 .. m : f[k] = IF k = 0 THEN <<>> ELSE Merge(f[k - 1], list[k])
  <2> TAKE k \in 0 .. m
  <2>1. CASE k = 0
    <3>1. g[0] = <<>>
      BY <1>5, <1>7
    <3> QED BY <1>5, <2>1, <3>1
  <2>2. CASE k = m
    <3>1. f[m - 1] = g[m - 1] /\ f[m] = Merge(g[m - 1], list[m])
      BY <1>5
    <3> QED BY <1>5, <2>2, <3>1
  <2>3. CASE k # 0 /\ k # m
    <3>1. k \in 0 .. m - 1 /\ k - 1 \in 0 .. m - 1 /\ k - 1 # m
      BY <1>5, <2>3
    <3>2. f[k] = g[k] /\ f[k - 1] = g[k - 1]
      BY <1>5, <2>3, <3>1
    <3>3. g[k] = Merge(g[k - 1], list[k])
      BY <1>7, <2>3, <3>1
    <3> QED BY <2>3, <3>2, <3>3
  <2> QED BY <2>1, <2>2, <2>3
<1>9. f = [k \in 0 .. m |-> IF k = 0 THEN <<>> ELSE Merge(f[k - 1], list[k])]
  <2>1. PICK h : h = [k \in 0 .. m |-> IF k = 0 THEN <<>> ELSE Merge(f[k - 1], list[k])]
    OBVIOUS
  <2>2. f = h
    <3> HIDE DEF Upto, T
    <3> QED BY <1>8, <2>1
  <2> QED BY <2>1, <2>2
<1>10. Upto(m)
  BY <1>9
<1> QED BY <1>3, <1>10

LEMMA SumExists ==
  ASSUME NEW list, NEW n \in Nat
  PROVE  \E f : f = [k \in 0 .. n |-> IF k = 0 THEN 0 ELSE f[k - 1] + list[k].second]
<1> DEFINE Upto(m) ==
             \E f : f = [k \in 0 .. m |-> IF k = 0 THEN 0 ELSE f[k - 1] + list[k].second]
           T == {m \in Nat : ~Upto(m)}
<1>1. SUFFICES ASSUME T # {} PROVE FALSE
  OBVIOUS
<1>2. T \subseteq Nat
  OBVIOUS
<1>3. PICK m \in T : \A k \in T : ~(k < m)
  <2> HIDE DEF T
  <2> QED BY <1>1, <1>2, LeastNumber
<1>4. Upto(0)
  <2> DEFINE f == [k \in 0 .. 0 |-> 0]
  <2>1. f = [k \in 0 .. 0 |-> IF k = 0 THEN 0 ELSE f[k - 1] + list[k].second]
    BY \A k \in 0 .. 0 : k = 0
  <2> QED BY <2>1
<1>5. m \in Nat /\ m # 0 /\ m - 1 \in Nat /\ m - 1 < m
  <2> HIDE DEF Upto
  <2>1. m \in Nat /\ ~Upto(m)
    BY <1>3
  <2>2. m # 0
    BY <1>4, <2>1
  <2> QED BY <2>1, <2>2
<1>6. Upto(m - 1)
  <2> HIDE DEF Upto
  <2>1. m - 1 \notin T
    <3> HIDE DEF T
    <3> QED BY <1>3, <1>5
  <2> QED BY <1>5, <2>1
<1>7. PICK g : g = [k \in 0 .. m - 1 |-> IF k = 0 THEN 0 ELSE g[k - 1] + list[k].second]
  BY <1>6
<1> DEFINE f == [k \in 0 .. m |-> IF k = m THEN g[m - 1] + list[m].second ELSE g[k]]
<1>8. \A k \in 0 .. m : f[k] = IF k = 0 THEN 0 ELSE f[k - 1] + list[k].second
  <2> TAKE k \in 0 .. m
  <2>1. CASE k = 0
    <3>1. g[0] = 0
      BY <1>5, <1>7
    <3> QED BY <1>5, <2>1, <3>1
  <2>2. CASE k = m
    <3>1. f[m - 1] = g[m - 1] /\ f[m] = g[m - 1] + list[m].second
      BY <1>5
    <3> QED BY <1>5, <2>2, <3>1
  <2>3. CASE k # 0 /\ k # m
    <3>1. k \in 0 .. m - 1 /\ k - 1 \in 0 .. m - 1 /\ k - 1 # m
      BY <1>5, <2>3
    <3>2. f[k] = g[k] /\ f[k - 1] = g[k - 1]
      BY <1>5, <2>3, <3>1
    <3>3. g[k] = g[k - 1] + list[k].second
      BY <1>7, <2>3, <3>1
    <3> QED BY <2>3, <3>2, <3>3
  <2> QED BY <2>1, <2>2, <2>3
<1>9. f = [k \in 0 .. m |-> IF k = 0 THEN 0 ELSE f[k - 1] + list[k].second]
  <2>1. PICK h : h = [k \in 0 .. m |-> IF k = 0 THEN 0 ELSE f[k - 1] + list[k].second]
    OBVIOUS
  <2>2. f = h
    <3> HIDE DEF Upto, T
    <3> QED BY <1>8, <2>1
  <2> QED BY <2>1, <2>2
<1>10. Upto(m)
  BY <1>9
<1> QED BY <1>3, <1>10

(* Every entry starts after the end of the one before.                       *)
Gaps(list) ==
  \A i, j \in 1 .. Len(list) : i < j => list[i].first + list[i].second < list[j].first

LEMMA MergeKeepsGaps ==
  ASSUME NEW list \in Seq(Blocks), Gaps(list), NEW b \in Blocks,
         \A i \in 1 .. Len(list) : list[i].first + list[i].second <= b.first
  PROVE  /\ Merge(list, b) \in Seq(Blocks) /\ Gaps(Merge(list, b))
         /\ \A i \in 1 .. Len(Merge(list, b)) :
              Merge(list, b)[i].first + Merge(list, b)[i].second <= b.first + b.second
         /\ Covered(Merge(list, b)) = Covered(list) \cup Units(b)
<1> DEFINE n == Len(list)
           e == list[n]
<1>1. n \in Nat /\ (list # <<>> <=> n \in 1 .. n)
  OBVIOUS
<1>2. \A i \in 1 .. n : /\ list[i] \in Blocks /\ list[i].first \in Nat
                        /\ list[i].second \in Nat /\ list[i].second > 0
  <2> TAKE i \in 1 .. n
  <2>1. list[i] \in Blocks
    OBVIOUS
  <2> QED BY <2>1 DEF Blocks
<1>3. b.first \in Nat /\ b.second \in Nat /\ b.second > 0 /\ Units(b) \subseteq Region
  BY BlockParts DEF Blocks
<1>4. CASE list # <<>> /\ e.first + e.second = b.first
  <2> DEFINE new == Buffer(e.first, e.second + b.second)
             m == Merge(list, b)
  <2>1. m = ReplaceAt(list, n, new)
    BY <1>4 DEF Merge, Last
  <2>2. n \in 1 .. n /\ e \in Blocks /\ e.first \in Nat /\ e.second \in Nat /\ e.second > 0
    BY <1>1, <1>2, <1>4
  <2>3. new.first = e.first /\ new.second = e.second + b.second
    BY DEF Buffer
  <2>4. new \in Blocks
    <3>1. Aligned(e.first) /\ Aligned(e.second) /\ Aligned(b.second) /\ Start <= e.first
          /\ b.first + b.second <= Start + Size
      BY <2>2 DEF Blocks
    <3>2. Aligned(e.second + b.second)
      BY <3>1, AlignedSum
    <3>3. new \in [first : Nat, second : Nat]
      BY <1>3, <2>2 DEF Buffer
    <3>4. new.second > 0 /\ new.first + new.second <= Start + Size
      <4>1. Start \in Nat /\ Size \in Nat
        BY RegionAssumption
      <4> HIDE DEF new, e
      <4> QED BY <1>3, <1>4, <2>2, <2>3, <3>1, <4>1
    <3> HIDE DEF new, e
    <3> QED BY <2>3, <3>1, <3>2, <3>3, <3>4 DEF Blocks
  <2> HIDE DEF new
  <2>5. /\ m \in Seq(Blocks) /\ Len(m) = n
        /\ \A i \in 1 .. n : m[i] = IF i = n THEN new ELSE list[i]
    <3> HIDE DEF m, e
    <3>1. /\ ReplaceAt(list, n, new) \in Seq(Blocks) /\ Len(ReplaceAt(list, n, new)) = n
          /\ \A i \in 1 .. n : ReplaceAt(list, n, new)[i] = IF i = n THEN new ELSE list[i]
      <4>1. n \in 1 .. Len(list) /\ n = Len(list)
        BY <2>2
      <4>2. PICK i \in 1 .. Len(list) : i = n
        BY <4>1
      <4>3. /\ ReplaceAt(list, i, new) \in Seq(Blocks)
            /\ Len(ReplaceAt(list, i, new)) = Len(list)
            /\ \A j \in 1 .. Len(list) :
                 ReplaceAt(list, i, new)[j] = IF j = i THEN new ELSE list[j]
        <5> HIDE DEF n
        <5> QED BY <2>4, ReplacedAt
      <4> HIDE DEF n
      <4> QED BY <4>1, <4>2, <4>3
    <3> QED BY <2>1, <3>1
  <2> HIDE DEF m
  <2>6. Gaps(m)
    <3> SUFFICES ASSUME NEW i \in 1 .. n, NEW j \in 1 .. n, i < j
                 PROVE  m[i].first + m[i].second < m[j].first
      BY <2>5 DEF Gaps
    <3>1. list[i].first + list[i].second < list[j].first
      BY DEF Gaps
    <3>2. m[i] = list[i] /\ m[j].first = list[j].first
      BY <1>1, <2>3, <2>5
    <3> QED BY <3>1, <3>2
  <2>7. \A i \in 1 .. n : m[i].first + m[i].second <= b.first + b.second
    <3> TAKE i \in 1 .. n
    <3>1. CASE i = n
      BY <1>3, <1>4, <2>2, <2>3, <2>5, <3>1
    <3>2. CASE i # n
      <4>1. list[i].first + list[i].second <= b.first /\ m[i] = list[i]
        BY <2>5, <3>2
      <4> QED BY <1>2, <1>3, <4>1
    <3> QED BY <3>1, <3>2
  <2>8. Units(new) = Units(e) \cup Units(b)
    <3> DEFINE x == e.first
               y == e.second
               z == b.first
               w == b.second
    <3>1. /\ x \in Nat /\ y \in Nat /\ z \in Nat /\ w \in Nat /\ y > 0 /\ w > 0 /\ x + y = z
      BY <1>3, <1>4, <2>2
    <3>2. /\ Units(new) = x .. x + (y + w) - 1
          /\ Units(e) = x .. x + y - 1 /\ Units(b) = z .. z + w - 1
      BY <2>3 DEF Units
    <3> HIDE DEF x, y, z, w, e
    <3> QED BY <3>1, <3>2
  <2> HIDE DEF e
  <2>9. ASSUME NEW u \in Covered(m) PROVE u \in Covered(list) \cup Units(b)
    <3>1. PICK i \in 1 .. n : u \in Units(m[i])
      BY <2>5 DEF Covered
    <3>2. CASE i = n
      BY <2>2, <2>5, <2>8, <3>1, <3>2 DEF Covered, e
    <3>3. CASE i # n
      BY <2>5, <3>1, <3>3 DEF Covered
    <3> QED BY <3>2, <3>3
  <2>10. ASSUME NEW u \in Covered(list) \cup Units(b) PROVE u \in Covered(m)
    <3>1. u \in Region
      BY <1>3 DEF Covered
    <3>2. CASE u \in Units(b)
      BY <2>2, <2>5, <2>8, <3>1, <3>2 DEF Covered
    <3>3. CASE u \in Covered(list)
      <4>1. PICK i \in 1 .. n : u \in Units(list[i])
        BY <3>3 DEF Covered
      <4>2. u \in Units(m[i])
        BY <2>5, <2>8, <4>1 DEF e
      <4> QED BY <2>5, <3>1, <4>2 DEF Covered
    <3> QED BY <3>2, <3>3
  <2>11. Covered(m) = Covered(list) \cup Units(b)
    BY <2>9, <2>10
  <2> QED BY <2>5, <2>6, <2>7, <2>11 DEF m
<1>5. CASE ~(list # <<>> /\ e.first + e.second = b.first)
  <2> DEFINE m == Merge(list, b)
  <2>1. m = Append(list, b)
    BY <1>5 DEF Merge, Last
  <2>2. /\ m \in Seq(Blocks) /\ Len(m) = n + 1
        /\ \A i \in 1 .. n : m[i] = list[i]
        /\ m[n + 1] = b
    BY <2>1
  <2>3. \A i \in 1 .. n : list[i].first + list[i].second < b.first
    <3> TAKE i \in 1 .. n
    <3>1. n \in 1 .. n /\ list # <<>>
      BY <1>1
    <3>2. CASE i = n
      <4>1. list[i].first + list[i].second # b.first
        BY <1>5, <3>1, <3>2
      <4>2. list[i].first + list[i].second <= b.first
        OBVIOUS
      <4>3. list[i].first + list[i].second \in Nat
        BY <1>2
      <4> QED BY <1>3, <4>1, <4>2, <4>3
    <3>3. CASE i # n
      <4>1. list[i].first + list[i].second < e.first
        BY <1>1, <3>1, <3>3 DEF Gaps
      <4>2. e.first + e.second <= b.first
        BY <3>1
      <4>3. /\ list[i].first \in Nat /\ list[i].second \in Nat
            /\ e.first \in Nat /\ e.second \in Nat
        BY <1>2, <3>1
      <4>4. list[i].first + list[i].second \in Nat
        BY <4>3
      <4> HIDE DEF e
      <4> QED BY <1>3, <4>1, <4>2, <4>3, <4>4
    <3> QED BY <3>2, <3>3
  <2> HIDE DEF m, e
  <2>4. Gaps(m)
    <3> SUFFICES ASSUME NEW i \in 1 .. n + 1, NEW j \in 1 .. n + 1, i < j
                 PROVE  m[i].first + m[i].second < m[j].first
      BY <2>2 DEF Gaps
    <3>1. i \in 1 .. n /\ m[i] = list[i]
      BY <1>1, <2>2
    <3>2. CASE j \in 1 .. n
      BY <2>2, <3>1, <3>2 DEF Gaps
    <3>3. CASE j = n + 1
      BY <2>2, <2>3, <3>1, <3>3
    <3> QED BY <1>1, <3>2, <3>3
  <2>5. \A i \in 1 .. n + 1 : m[i].first + m[i].second <= b.first + b.second
    <3> TAKE i \in 1 .. n + 1
    <3>1. CASE i \in 1 .. n
      <4>1. list[i].first + list[i].second < b.first /\ m[i] = list[i]
        BY <2>2, <2>3, <3>1
      <4> QED BY <1>2, <1>3, <3>1, <4>1
    <3>2. CASE i = n + 1
      BY <1>3, <2>2, <3>2
    <3> QED BY <1>1, <3>1, <3>2
  <2>6. Covered(m) = Covered(list) \cup Units(b)
    <3>1. ASSUME NEW u \in Covered(m) PROVE u \in Covered(list) \cup Units(b)
      <4>1. PICK i \in 1 .. n + 1 : u \in Units(m[i])
        BY <2>2 DEF Covered
      <4>2. CASE i \in 1 .. n
        BY <2>2, <4>1, <4>2 DEF Covered
      <4>3. CASE i = n + 1
        BY <2>2, <4>1, <4>3
      <4> QED BY <1>1, <4>2, <4>3
    <3>2. ASSUME NEW u \in Covered(list) \cup Units(b) PROVE u \in Covered(m)
      <4>1. u \in Region
        BY <1>3 DEF Covered
      <4>2. CASE u \in Units(b)
        <5>1. n + 1 \in 1 .. Len(m)
          BY <1>1, <2>2
        <5> QED BY <2>2, <4>1, <4>2, <5>1 DEF Covered
      <4>3. CASE u \in Covered(list)
        <5>1. PICK i \in 1 .. n : u \in Units(list[i])
          BY <4>3 DEF Covered
        <5>2. i \in 1 .. Len(m)
          BY <1>1, <2>2
        <5> QED BY <2>2, <4>1, <5>1, <5>2 DEF Covered
      <4> QED BY <4>2, <4>3
    <3> QED BY <3>1, <3>2
  <2> QED BY <2>2, <2>4, <2>5, <2>6 DEF m
<1> QED BY <1>4, <1>5

(* The loop over a list that ascends.                                        *)
LEMMA MergeAllKeeps ==
  ASSUME NEW s \in Seq(Blocks), Ascends(s)
  PROVE  MergeAll(s) \in Seq(Blocks) /\ Gaps(MergeAll(s)) /\ Covered(MergeAll(s)) = Covered(s)
<1> DEFINE n == Len(s)
           Prefix(k) == {u \in Region : \E i \in 1 .. k : u \in Units(s[i])}
<1>1. n \in Nat
  OBVIOUS
<1>2. PICK f : /\ f = [k \in 0 .. n |-> IF k = 0 THEN <<>> ELSE Merge(f[k - 1], s[k])]
               /\ MergeAll(s) = f[n]
  <2>1. \E f : f = [k \in 0 .. n |-> IF k = 0 THEN <<>> ELSE Merge(f[k - 1], s[k])]
    BY <1>1, MergedExists
  <2> QED BY <2>1 DEF MergeAll
<1>3. f[0] = <<>> /\ \A k \in 1 .. n : f[k] = Merge(f[k - 1], s[k])
  BY <1>1, <1>2
<1>4. \A i \in 1 .. n : /\ s[i] \in Blocks /\ s[i].first \in Nat /\ s[i].second \in Nat
                        /\ Units(s[i]) \subseteq Region
  <2> TAKE i \in 1 .. n
  <2>1. s[i] \in Blocks
    OBVIOUS
  <2> QED BY <2>1, BlockParts
<1> HIDE DEF n
<1> DEFINE Good(k) == /\ f[k] \in Seq(Blocks) /\ Gaps(f[k])
                      /\ \A i \in 1 .. Len(f[k]), j \in k + 1 .. n :
                           f[k][i].first + f[k][i].second <= s[j].first
                      /\ Covered(f[k]) = Prefix(k)
           T == {k \in 0 .. n : ~Good(k)}
<1>5. Good(0)
  <2>1. f[0] \in Seq(Blocks) /\ Len(f[0]) = 0
    BY <1>3
  <2>2. 1 .. 0 = {}
    OBVIOUS
  <2>3. Covered(f[0]) = {} /\ Prefix(0) = {}
    BY <2>1, <2>2 DEF Covered
  <2>4. Gaps(f[0])
    BY <2>1, <2>2 DEF Gaps
  <2> QED BY <2>1, <2>2, <2>3, <2>4
<1>6. ASSUME NEW k \in 1 .. n, Good(k - 1) PROVE Good(k)
  <2> DEFINE g == f[k - 1]
  <2>1. k \in Nat /\ (k - 1) + 1 = k /\ k \in k .. n /\ s[k] \in Blocks
    BY <1>1, <1>4, <1>6
  <2>2. /\ g \in Seq(Blocks) /\ Gaps(g) /\ Covered(g) = Prefix(k - 1)
        /\ \A i \in 1 .. Len(g), j \in (k - 1) + 1 .. n : g[i].first + g[i].second <= s[j].first
    BY <1>6
  <2> HIDE DEF g
  <2>3. \A i \in 1 .. Len(g) : g[i].first + g[i].second <= s[k].first
    BY <2>1, <2>2
  <2>4. f[k] = Merge(g, s[k])
    BY <1>3, <1>6 DEF g
  <2>5. /\ f[k] \in Seq(Blocks) /\ Gaps(f[k])
        /\ \A i \in 1 .. Len(f[k]) :
             f[k][i].first + f[k][i].second <= s[k].first + s[k].second
        /\ Covered(f[k]) = Covered(g) \cup Units(s[k])
    BY <2>1, <2>2, <2>3, <2>4, MergeKeepsGaps
  <2>6. ASSUME NEW i \in 1 .. Len(f[k]), NEW j \in k + 1 .. n
        PROVE  f[k][i].first + f[k][i].second <= s[j].first
    <3>1. j \in 1 .. n /\ k < j
      BY <1>1, <2>1
    <3>2. s[k].first + s[k].second <= s[j].first
      BY <3>1 DEF Ascends, n
    <3>3. /\ f[k][i] \in Blocks /\ s[j].first \in Nat
          /\ s[k].first \in Nat /\ s[k].second \in Nat
      BY <1>4, <2>5, <3>1
    <3>4. f[k][i].first \in Nat /\ f[k][i].second \in Nat
      BY <3>3, BlockParts
    <3>5. f[k][i].first + f[k][i].second <= s[k].first + s[k].second
      BY <2>5
    <3> DEFINE x == f[k][i].first + f[k][i].second
               y == s[k].first + s[k].second
    <3>6. x \in Nat
      BY <3>4, NatSum, Zenon
    <3>7. y \in Nat /\ s[j].first \in Nat
      BY <3>3, NatSum, Zenon
    <3>8. x <= y /\ y <= s[j].first
      BY <3>2, <3>5, Zenon
    <3> HIDE DEF x, y
    <3>9. x <= s[j].first
      BY <3>6, <3>7, <3>8
    <3> QED BY <3>9 DEF x
  <2>7. Prefix(k) = Prefix(k - 1) \cup Units(s[k])
    <3>1. \A i : i \in 1 .. k <=> i \in 1 .. k - 1 \/ i = k
      BY <2>1
    <3>2. Units(s[k]) \subseteq Region
      BY <1>4
    <3> QED BY <3>1, <3>2
  <2>8. Covered(f[k]) = Prefix(k)
    BY <2>2, <2>5, <2>7
  <2> HIDE DEF Prefix
  <2> QED BY <2>5, <2>6, <2>8
<1>7. T = {}
  <2> SUFFICES ASSUME T # {} PROVE FALSE
    OBVIOUS
  <2>1. T \subseteq Nat /\ T \subseteq 0 .. n
    OBVIOUS
  <2>2. PICK k \in T : \A j \in T : ~(j < k)
    <3> HIDE DEF T
    <3> QED BY <2>1, LeastNumber
  <2> HIDE DEF Good
  <2>3. k \in 0 .. n /\ ~Good(k)
    BY <2>2
  <2>4. k \in 1 .. n /\ k - 1 \in 0 .. n /\ k - 1 < k
    BY <1>1, <1>5, <2>3
  <2>5. k - 1 \notin T
    <3> HIDE DEF T
    <3> QED BY <2>2, <2>4
  <2>6. Good(k - 1)
    BY <2>4, <2>5
  <2> QED BY <1>6, <2>3, <2>4, <2>6
<1>8. Good(n)
  <2> HIDE DEF Good
  <2>1. n \in 0 .. n
    BY <1>1
  <2> QED BY <1>7, <2>1
<1>9. Prefix(n) = Covered(s)
  BY DEF Covered, n
<1> QED BY <1>2, <1>8, <1>9

(* coalesce keeps what is free, and then no entry starts where another ends. *)
THEOREM CoalesceKeeps ==
  ASSUME NEW list \in Seq(Blocks), Apart(list)
  PROVE  /\ Coalesce(list) \in Seq(Blocks) /\ Apart(Coalesce(list))
         /\ Joinless(Coalesce(list)) /\ Covered(Coalesce(list)) = Covered(list)
<1> DEFINE c == Coalesce(list)
<1>1. /\ Sorted(list) \in Seq(Blocks) /\ Ascends(Sorted(list))
      /\ Covered(Sorted(list)) = Covered(list)
  BY SortedAscends
<1>2. c \in Seq(Blocks) /\ Gaps(c) /\ Covered(c) = Covered(list)
  BY <1>1, MergeAllKeeps DEF Coalesce
<1> HIDE DEF c
<1>3. \A i \in 1 .. Len(c) : c[i].first \in Nat /\ c[i].second \in Nat /\ c[i].second > 0
  <2> TAKE i \in 1 .. Len(c)
  <2>1. c[i] \in Blocks
    BY <1>2
  <2> QED BY <2>1 DEF Blocks
<1>4. ASSUME NEW i \in 1 .. Len(c), NEW j \in 1 .. Len(c)
      PROVE  /\ i # j => Separate(c[i], c[j])
             /\ c[i].first + c[i].second # c[j].first
  <2>1. /\ c[i].first \in Nat /\ c[i].second \in Nat /\ c[i].second > 0
        /\ c[j].first \in Nat /\ c[j].second \in Nat /\ c[j].second > 0
    BY <1>3
  <2>2. CASE i < j
    <3>1. c[i].first + c[i].second < c[j].first
      BY <1>2, <2>2 DEF Gaps
    <3> QED BY <2>1, <3>1 DEF Separate
  <2>3. CASE j < i
    <3>1. c[j].first + c[j].second < c[i].first
      BY <1>2, <2>3 DEF Gaps
    <3> QED BY <2>1, <3>1 DEF Separate
  <2>4. CASE i = j
    BY <2>1, <2>4
  <2> QED BY <2>2, <2>3, <2>4
<1> QED BY <1>2, <1>4 DEF Apart, Joinless, c

(* Where nothing is twice in it, the size of a free list is what it covers.  *)
LEMMA FreeBytesCovered ==
  ASSUME NEW m, m.free \in Seq(Blocks), Apart(m.free)
  PROVE  FreeBytes(m) = Cardinality(Covered(m.free)) /\ IsFiniteSet(Covered(m.free))
<1> DEFINE s == m.free
           n == Len(s)
           Prefix(k) == {u \in Region : \E i \in 1 .. k : u \in Units(s[i])}
<1>1. n \in Nat
  OBVIOUS
<1>2. PICK f : /\ f = [k \in 0 .. n |-> IF k = 0 THEN 0 ELSE f[k - 1] + s[k].second]
               /\ FreeBytes(m) = f[n]
  <2>1. \E f : f = [k \in 0 .. n |-> IF k = 0 THEN 0 ELSE f[k - 1] + s[k].second]
    BY <1>1, SumExists
  <2> QED BY <2>1 DEF FreeBytes
<1> HIDE DEF s
<1>3. f[0] = 0 /\ \A k \in 1 .. n : f[k] = f[k - 1] + s[k].second
  <2>1. f = [k \in 0 .. n |-> IF k = 0 THEN 0 ELSE f[k - 1] + s[k].second]
    BY <1>2
  <2> HIDE DEF n
  <2>2. 0 \in 0 .. n /\ \A k \in 1 .. n : k \in 0 .. n /\ k # 0
    BY <1>1
  <2>3. f[0] = 0
    BY <2>1, <2>2
  <2>4. ASSUME NEW k \in 1 .. n PROVE f[k] = f[k - 1] + s[k].second
    <3>1. k \in 0 .. n /\ k # 0
      BY <2>2
    <3>2. f[k] = IF k = 0 THEN 0 ELSE f[k - 1] + s[k].second
      BY <2>1, <3>1, Zenon
    <3> QED BY <3>1, <3>2
  <2> QED BY <2>3, <2>4
<1> USE DEF s
<1>4. \A i \in 1 .. n : /\ Units(s[i]) \subseteq Region /\ IsFiniteSet(Units(s[i]))
                        /\ Cardinality(Units(s[i])) = s[i].second /\ s[i].second \in Nat
  <2> TAKE i \in 1 .. n
  <2>1. s[i] \in Blocks
    OBVIOUS
  <2> QED BY <2>1, BlockParts
<1>5. \A i, j \in 1 .. n : i # j => Units(s[i]) \cap Units(s[j]) = {}
  <2> TAKE i, j \in 1 .. n
  <2>1. s[i] \in Blocks /\ s[j] \in Blocks
    OBVIOUS
  <2>2. i # j => Separate(s[i], s[j])
    BY DEF Apart
  <2> QED BY <2>1, <2>2, SeparateUnits
<1> HIDE DEF n, s
<1> DEFINE Good(k) == IsFiniteSet(Prefix(k)) /\ f[k] = Cardinality(Prefix(k))
           T == {k \in 0 .. n : ~Good(k)}
<1>6. Good(0)
  <2>1. Prefix(0) = {}
    OBVIOUS
  <2> HIDE DEF Prefix
  <2> QED BY <1>3, <2>1, FS_EmptySet
<1>7. ASSUME NEW k \in 1 .. n, Good(k - 1) PROVE Good(k)
  <2>1. k \in Nat /\ \A i : i \in 1 .. k <=> i \in 1 .. k - 1 \/ i = k
    BY <1>1
  <2>2. Prefix(k) = Prefix(k - 1) \cup Units(s[k])
    BY <1>4, <2>1
  <2>3. Prefix(k - 1) \cap Units(s[k]) = {}
    <3>1. \A i \in 1 .. k - 1 : i \in 1 .. n /\ i # k
      BY <1>1
    <3> QED BY <1>5, <3>1
  <2>4. f[k] = f[k - 1] + s[k].second
    BY <1>3
  <2> HIDE DEF Prefix
  <2>5. IsFiniteSet(Prefix(k - 1)) /\ f[k - 1] = Cardinality(Prefix(k - 1))
    BY <1>7
  <2>6. IsFiniteSet(Units(s[k])) /\ Cardinality(Units(s[k])) = s[k].second /\ s[k].second \in Nat
    BY <1>4
  <2>7. /\ IsFiniteSet(Prefix(k))
        /\ Cardinality(Prefix(k)) = Cardinality(Prefix(k - 1)) + s[k].second - Cardinality({})
    BY <2>2, <2>3, <2>5, <2>6, FS_Union
  <2>8. Cardinality({}) = 0 /\ Cardinality(Prefix(k - 1)) \in Nat
    BY <2>5, FS_EmptySet, FS_CardinalityType
  <2> QED BY <2>4, <2>5, <2>6, <2>7, <2>8
<1>8. T = {}
  <2> SUFFICES ASSUME T # {} PROVE FALSE
    OBVIOUS
  <2>1. T \subseteq Nat /\ T \subseteq 0 .. n
    OBVIOUS
  <2>2. PICK k \in T : \A j \in T : ~(j < k)
    <3> HIDE DEF T
    <3> QED BY <2>1, LeastNumber
  <2> HIDE DEF Good
  <2>3. k \in 0 .. n /\ ~Good(k)
    BY <2>2
  <2>4. k \in 1 .. n /\ k - 1 \in 0 .. n /\ k - 1 < k
    BY <1>1, <1>6, <2>3
  <2>5. k - 1 \notin T
    <3> HIDE DEF T
    <3> QED BY <2>2, <2>4
  <2>6. Good(k - 1)
    BY <2>4, <2>5
  <2> QED BY <1>7, <2>3, <2>4, <2>6
<1>9. Good(n)
  <2> HIDE DEF Good
  <2>1. n \in 0 .. n
    BY <1>1
  <2> QED BY <1>8, <2>1
<1>10. Prefix(n) = Covered(s)
  BY DEF Covered, n
<1> QED BY <1>2, <1>9, <1>10 DEF s

-----------------------------------------------------------------------------
(* The manager *)

(* Its blocks are apart, cover the region, and are counted.                  *)
ManagerInv(m) ==
  /\ m.free \in Seq(Blocks) /\ m.busy \subseteq Blocks
  /\ Apart(m.free)
  /\ \A b, c \in m.busy : b # c => Separate(b, c)
  /\ \A b \in m.busy : Units(b) \cap Covered(m.free) = {}
  /\ \A u \in Region : u \in Covered(m.free) \/ \E b \in m.busy : u \in Units(b)
  /\ m.freeSize = Cardinality(Covered(m.free))
  /\ Len(m.free) > Threshold => Joinless(m.free)

LEMMA CoveredFinite ==
  ASSUME NEW list
  PROVE  IsFiniteSet(Covered(list)) /\ Cardinality(Covered(list)) \in 0 .. Size
<1>1. Start \in Nat /\ Size \in Nat
  BY RegionAssumption
<1> DEFINE last == Start + Size - 1
<1>2. last \in Int /\ last - Start + 1 = Size /\ Region = Start .. last /\ Start \in Int
  BY <1>1 DEF Region
<1> HIDE DEF last
<1>3. IsFiniteSet(Region) /\ Cardinality(Region) = IF Start > last THEN 0 ELSE last - Start + 1
  BY <1>2, FS_Interval
<1>4. Cardinality(Region) <= Size /\ Cardinality(Region) \in Nat
  BY <1>1, <1>2, <1>3
<1>5. Covered(list) \in SUBSET Region
  BY DEF Covered
<1>6. IsFiniteSet(Covered(list)) /\ Cardinality(Covered(list)) <= Cardinality(Region)
  BY <1>3, <1>5, FS_Subset
<1>7. Cardinality(Covered(list)) \in Nat
  BY <1>6, FS_CardinalityType
<1> QED BY <1>1, <1>4, <1>6, <1>7

(* A list of one block, and a block at the end of a list.                    *)
LEMMA CoveredAppend ==
  ASSUME NEW list \in Seq(Blocks), Apart(list), NEW b \in Blocks,
         Units(b) \cap Covered(list) = {}
  PROVE  /\ Append(list, b) \in Seq(Blocks) /\ Apart(Append(list, b))
         /\ Covered(Append(list, b)) = Covered(list) \cup Units(b)
<1> DEFINE n == Len(list)
           m == Append(list, b)
<1>1. n \in Nat /\ Units(b) \subseteq Region
  BY BlockParts
<1>2. /\ m \in Seq(Blocks) /\ Len(m) = n + 1 /\ m[n + 1] = b
      /\ \A i \in 1 .. n : m[i] = list[i]
  OBVIOUS
<1>3. \A i \in 1 .. n : list[i] \in Blocks /\ Units(list[i]) \subseteq Region
  <2> TAKE i \in 1 .. n
  <2>1. list[i] \in Blocks
    OBVIOUS
  <2> QED BY <2>1, BlockParts
<1>4. \A i \in 1 .. n : Separate(list[i], b) /\ Separate(b, list[i])
  <2> TAKE i \in 1 .. n
  <2>1. Units(list[i]) \cap Units(b) = {}
    BY <1>3 DEF Covered
  <2> QED BY <1>3, <2>1, SeparateUnits
<1> HIDE DEF m
<1>5. Apart(m)
  <2> SUFFICES ASSUME NEW i \in 1 .. n + 1, NEW j \in 1 .. n + 1, i # j
               PROVE  Separate(m[i], m[j])
    BY <1>2 DEF Apart
  <2>1. CASE i \in 1 .. n /\ j \in 1 .. n
    BY <1>2, <2>1 DEF Apart
  <2>2. CASE i \in 1 .. n /\ j = n + 1
    BY <1>2, <1>4, <2>2
  <2>3. CASE i = n + 1 /\ j \in 1 .. n
    BY <1>2, <1>4, <2>3
  <2> QED BY <1>1, <2>1, <2>2, <2>3
<1>6. \A i : i \in 1 .. n + 1 <=> i \in 1 .. n \/ i = n + 1
  BY <1>1
<1>7. Covered(m) = Covered(list) \cup Units(b)
  BY <1>1, <1>2, <1>6 DEF Covered
<1> QED BY <1>2, <1>5, <1>7 DEF m

LEMMA NewManagerInv == ManagerInv(NewManager)
<1> DEFINE b == Buffer(Start, Size)
           m == NewManager
<1>1. /\ Start \in Nat /\ Size \in Nat /\ Threshold \in Nat /\ Size > 0
      /\ Aligned(Start) /\ Aligned(Size)
  BY RegionAssumption DEF Aligned
<1>2. b.first = Start /\ b.second = Size
  BY DEF Buffer
<1>3. b \in Blocks
  <2>1. b \in [first : Nat, second : Nat]
    BY <1>1 DEF Buffer
  <2> QED BY <1>1, <1>2, <2>1 DEF Blocks
<1>4. m.free = <<b>> /\ m.busy = {} /\ m.freeSize = Size
  BY DEF NewManager
<1>5. /\ IsFiniteSet(Units(b)) /\ Cardinality(Units(b)) = Size
      /\ Units(b) = Region
  BY <1>2, <1>3, BlockParts DEF Units, Region
<1> HIDE DEF b
<1>6. /\ <<b>> \in Seq(Blocks) /\ Len(<<b>>) = 1 /\ <<b>>[1] = b
      /\ \A i \in 1 .. 1 : i = 1
  BY <1>3
<1>7. Apart(<<b>>)
  BY <1>6 DEF Apart
<1>8. Covered(<<b>>) = Region
  BY <1>5, <1>6 DEF Covered
<1>9. Joinless(<<b>>)
  BY <1>1, <1>2, <1>6 DEF Joinless
<1> QED BY <1>4, <1>5, <1>6, <1>7, <1>8, <1>9 DEF ManagerInv

(* alloc gives out a block of the right size that nobody has, or changes     *)
(* nothing.                                                                  *)
THEOREM AllocKeeps ==
  ASSUME NEW m, ManagerInv(m), NEW size \in Nat,
         NEW first, first = AllocResult(m, size),
         NEW b, b = Buffer(first, Padded(size))
  PROVE  /\ ManagerInv(Alloc(m, size))
         /\ \/ first = Null /\ Alloc(m, size) = m
            \/ /\ first # Null /\ first \in Region /\ b \in Blocks
               /\ \A c \in m.busy : Separate(b, c) /\ c # b
               /\ Alloc(m, size).busy = m.busy \cup {b}
<1> DEFINE list == m.free
           padded == Padded(size)
           i == FirstFit(list, padded)
           n == Alloc(m, size)
<1>1. /\ list \in Seq(Blocks) /\ m.busy \subseteq Blocks /\ Apart(list)
      /\ \A c, d \in m.busy : c # d => Separate(c, d)
      /\ \A c \in m.busy : Units(c) \cap Covered(list) = {}
      /\ \A u \in Region : u \in Covered(list) \/ \E c \in m.busy : u \in Units(c)
      /\ m.freeSize = Cardinality(Covered(list))
      /\ Len(list) > Threshold => Joinless(list)
  BY DEF ManagerInv
<1>2. Aligned(padded) /\ padded \in Nat /\ padded > 0
  BY PaddedUnits DEF Aligned
<1>3. CASE i = 0
  <2>1. n = m /\ first = Null
    BY <1>3 DEF Alloc, AllocResult
  <2> QED BY <2>1
<1>4. CASE i # 0
  <2>1. i \in 1 .. Len(list) /\ padded <= list[i].second
    <3> HIDE DEF list, padded
    <3>1. i \in 0 .. Len(list) /\ Len(list) \in Nat /\ list[i].second >= padded
      BY <1>1, <1>2, <1>4, FirstFitFits
    <3>2. i \in 1 .. Len(list)
      <4> HIDE DEF i
      <4> QED BY <1>4, <3>1
    <3>3. list[i] \in Blocks
      <4> HIDE DEF i
      <4> QED BY <1>1, <3>2
    <3>4. list[i].second \in Nat
      BY <3>3, BlockParts
    <3> HIDE DEF i
    <3> QED BY <1>2, <3>1, <3>2, <3>4
  <2>2. first = list[i].first
    BY <1>4 DEF AllocResult
  <2>3. n = [free |-> Carve(list, i, padded), busy |-> m.busy \cup {b},
             freeSize |-> m.freeSize - padded]
    BY <1>4, <2>2 DEF Alloc
  <2> DEFINE rest == Carve(list, i, padded)
  <2>4. n.free = rest /\ n.busy = m.busy \cup {b} /\ n.freeSize = m.freeSize - padded
    BY <2>3
  <2> HIDE DEF n, i, list, padded
  <2>5. list[i] \in Blocks
    BY <1>1, <2>1
  <2>6. b = Buffer(list[i].first, padded)
    BY <2>2 DEF padded
  <2>7. b \in Blocks /\ Units(b) \subseteq Units(list[i])
    <3>1. b \in Blocks /\ Units(b) = list[i].first .. list[i].first + padded - 1
      <4> DEFINE x == list[i]
      <4>1. x \in Blocks /\ padded <= x.second /\ b = Buffer(x.first, padded)
        BY <2>1, <2>5, <2>6
      <4> HIDE DEF x
      <4>2. /\ Buffer(x.first, padded) \in Blocks
            /\ Units(Buffer(x.first, padded)) = x.first .. x.first + padded - 1
        BY <1>2, <4>1, BlockSplit
      <4> QED BY <4>1, <4>2 DEF x
    <3>2. list[i].first \in Nat /\ list[i].second \in Nat
      BY <2>5, BlockParts
    <3>3. Units(list[i]) = list[i].first .. list[i].first + list[i].second - 1
      BY DEF Units
    <3> DEFINE f == list[i].first
               l == list[i].second
    <3>4. f .. f + padded - 1 \subseteq f .. f + l - 1
      <4>1. f \in Nat /\ l \in Nat /\ padded <= l
        BY <2>1, <3>2
      <4> HIDE DEF f, l
      <4> QED BY <1>2, <4>1
    <3> QED BY <3>1, <3>3, <3>4
  <2>8. /\ Units(b) \subseteq Covered(list) /\ IsFiniteSet(Units(b))
        /\ Cardinality(Units(b)) = padded
    <3>1. IsFiniteSet(Units(b)) /\ Cardinality(Units(b)) = b.second /\ Units(b) \subseteq Region
      BY <2>7, BlockParts
    <3>2. b.second = padded
      BY <2>6 DEF Buffer
    <3> QED BY <2>1, <2>7, <3>1, <3>2 DEF Covered
  <2>9. /\ rest \in Seq(Blocks) /\ Len(rest) <= Len(list) /\ Apart(rest)
        /\ Covered(rest) = Covered(list) \ Units(b)
        /\ Joinless(list) => Joinless(rest)
    BY <1>1, <1>2, <2>1, <2>6, CarveTakes
  <2> HIDE DEF rest
  <2>10. first \in Region /\ first # Null /\ b.first \in Units(b)
    <3>1. b.first = first
      BY DEF Buffer
    <3>2. b.first \in Region /\ b.first \in Nat /\ b.first \in Units(b)
      BY <2>7, BlockParts
    <3> QED BY <3>1, <3>2 DEF Null
  <2>11. \A c \in m.busy : Units(b) \cap Units(c) = {} /\ c # b
    BY <1>1, <2>8, <2>10
  <2>12. \A c \in m.busy : Separate(b, c) /\ Separate(c, b) /\ c # b
    BY <1>1, <2>7, <2>11, SeparateUnits
  <2>13. Cardinality(Covered(rest)) = Cardinality(Covered(list)) - padded
    <3>1. Covered(list) \cap Units(b) = Units(b)
      BY <2>8
    <3>2. IsFiniteSet(Covered(list))
      BY CoveredFinite
    <3>3. Cardinality(Covered(list) \ Units(b))
            = Cardinality(Covered(list)) - Cardinality(Covered(list) \cap Units(b))
      BY <3>2, FS_Difference
    <3> QED BY <2>8, <2>9, <3>1, <3>3
  <2>14. Len(rest) > Threshold => Joinless(rest)
    <3>1. Len(rest) \in Nat /\ Len(list) \in Nat /\ Threshold \in Nat
      BY <1>1, <2>9, RegionAssumption
    <3> QED BY <1>1, <2>9, <3>1
  <2>15. ManagerInv(n)
    <3>1. n.busy \subseteq Blocks
      BY <1>1, <2>4, <2>7
    <3>2. \A c, d \in n.busy : c # d => Separate(c, d)
      BY <1>1, <2>4, <2>12
    <3>3. \A c \in n.busy : Units(c) \cap Covered(rest) = {}
      BY <1>1, <2>4, <2>9
    <3>4. \A u \in Region : u \in Covered(rest) \/ \E c \in n.busy : u \in Units(c)
      BY <1>1, <2>4, <2>9
    <3>5. n.freeSize = Cardinality(Covered(rest))
      BY <1>1, <2>4, <2>13
    <3> QED BY <2>4, <2>9, <2>14, <3>1, <3>2, <3>3, <3>4, <3>5 DEF ManagerInv
  <2> QED BY <2>4, <2>7, <2>10, <2>12, <2>15 DEF n
<1> QED BY <1>3, <1>4

(* free takes back the block that starts at an address, if there is one.     *)
THEOREM FreeKeeps ==
  ASSUME NEW m, ManagerInv(m), NEW buf
  PROVE  /\ ManagerInv(Free(m, buf))
         /\ Free(m, buf).busy = {b \in m.busy : b.first # buf}
         /\ \/ Free(m, buf).busy = m.busy
            \/ \E b \in m.busy : b.first = buf /\ Free(m, buf).busy = m.busy \ {b}
<1> DEFINE found == {b \in m.busy : b.first = buf}
           n == Free(m, buf)
<1>1. /\ m.free \in Seq(Blocks) /\ m.busy \subseteq Blocks /\ Apart(m.free)
      /\ \A c, d \in m.busy : c # d => Separate(c, d)
      /\ \A c \in m.busy : Units(c) \cap Covered(m.free) = {}
      /\ \A u \in Region : u \in Covered(m.free) \/ \E c \in m.busy : u \in Units(c)
      /\ m.freeSize = Cardinality(Covered(m.free))
      /\ Len(m.free) > Threshold => Joinless(m.free)
  BY DEF ManagerInv
<1>2. CASE found = {}
  <2>1. n = m
    BY <1>2 DEF Free
  <2> QED BY <1>2, <2>1
<1>3. CASE found # {}
  <2> DEFINE b == CHOOSE b \in found : TRUE
             list == Append(m.free, b)
             free == IF Len(list) > Threshold THEN Coalesce(list) ELSE list
  <2>1. b \in m.busy /\ b.first = buf
    BY <1>3
  <2>2. n = [free |-> free, busy |-> m.busy \ {b}, freeSize |-> m.freeSize + b.second]
    BY <1>3 DEF Free
  <2>3. n.free = free /\ n.busy = m.busy \ {b} /\ n.freeSize = m.freeSize + b.second
    BY <2>2
  <2> HIDE DEF n, b
  <2>4. b \in Blocks
    BY <1>1, <2>1
  <2>5. /\ list \in Seq(Blocks) /\ Apart(list)
        /\ Covered(list) = Covered(m.free) \cup Units(b)
    BY <1>1, <2>1, <2>4, CoveredAppend
  <2> HIDE DEF list
  <2>6. /\ free \in Seq(Blocks) /\ Apart(free) /\ Covered(free) = Covered(list)
        /\ Len(free) > Threshold => Joinless(free)
    <3>1. CASE Len(list) > Threshold
      BY <2>5, <3>1, CoalesceKeeps
    <3>2. CASE ~(Len(list) > Threshold)
      BY <2>5, <3>2
    <3> QED BY <3>1, <3>2
  <2> HIDE DEF free
  <2>7. \A c \in m.busy \ {b} : Units(c) \cap Units(b) = {} /\ c.first # b.first
    <3> TAKE c \in m.busy \ {b}
    <3>1. Separate(c, b) /\ c \in Blocks
      BY <1>1, <2>1
    <3> QED BY <2>4, <3>1, SeparateUnits
  <2>8. n.freeSize = Cardinality(Covered(free))
    <3>1. /\ IsFiniteSet(Units(b)) /\ Cardinality(Units(b)) = b.second /\ b.second \in Nat
      BY <2>4, BlockParts
    <3>2. IsFiniteSet(Covered(m.free)) /\ Cardinality(Covered(m.free)) \in Nat
      BY CoveredFinite
    <3>3. Covered(m.free) \cap Units(b) = {}
      BY <1>1, <2>1
    <3>4. Cardinality(Covered(m.free) \cup Units(b))
            = Cardinality(Covered(m.free)) + b.second - Cardinality({})
      BY <3>1, <3>2, <3>3, FS_Union
    <3>5. Cardinality({}) = 0
      BY FS_EmptySet
    <3> QED BY <1>1, <2>3, <2>5, <2>6, <3>1, <3>2, <3>4, <3>5
  <2>9. ManagerInv(n)
    <3>1. n.busy \subseteq Blocks
      BY <1>1, <2>3
    <3>2. \A c, d \in n.busy : c # d => Separate(c, d)
      BY <1>1, <2>3
    <3>3. \A c \in n.busy : Units(c) \cap Covered(free) = {}
      BY <1>1, <2>3, <2>5, <2>6, <2>7
    <3>4. \A u \in Region : u \in Covered(free) \/ \E c \in n.busy : u \in Units(c)
      BY <1>1, <2>3, <2>5, <2>6
    <3> QED BY <2>3, <2>6, <2>8, <3>1, <3>2, <3>3, <3>4 DEF ManagerInv
  <2>10. n.busy = {c \in m.busy : c.first # buf}
    BY <2>1, <2>3, <2>7
  <2> QED BY <2>1, <2>3, <2>9, <2>10 DEF n
<1> QED BY <1>2, <1>3

(* What the model-checked invariants say of a manager.                       *)
THEOREM ManagerIsRight ==
  ASSUME NEW m, ManagerInv(m)
  PROVE  WellTyped(m) /\ Partitioned(m) /\ Coalesced(m) /\ m.freeSize = FreeBytes(m)
<1>1. /\ m.free \in Seq(Blocks) /\ m.busy \subseteq Blocks /\ Apart(m.free)
      /\ \A c, d \in m.busy : c # d => Separate(c, d)
      /\ \A c \in m.busy : Units(c) \cap Covered(m.free) = {}
      /\ \A u \in Region : u \in Covered(m.free) \/ \E c \in m.busy : u \in Units(c)
      /\ m.freeSize = Cardinality(Covered(m.free))
      /\ Len(m.free) > Threshold => Joinless(m.free)
  BY DEF ManagerInv
<1> DEFINE list == m.free
           n == Len(list)
<1>2. n \in Nat /\ DOMAIN list = 1 .. n /\ \A i \in 1 .. n : list[i] \in Blocks
  BY <1>1
<1>3. WellTyped(m)
  <2>1. \A b \in Blocks : b \in BufferType
    BY BlockParts
  <2>2. m.free \in Seq(BufferType)
    BY <1>1, <2>1
  <2>3. m.freeSize \in 0 .. Size
    BY <1>1, CoveredFinite
  <2> QED BY <1>1, <2>1, <2>2, <2>3 DEF WellTyped
<1>4. Coalesced(m)
  BY <1>1, <1>2 DEF Coalesced, Joinless
<1>5. m.freeSize = FreeBytes(m)
  BY <1>1, FreeBytesCovered
<1>6. Partitioned(m)
  <2> SUFFICES ASSUME NEW u \in Region
               PROVE  Cardinality({i \in DOMAIN list : u \in Units(list[i])})
                      + Cardinality({b \in m.busy : u \in Units(b)}) = 1
    BY DEF Partitioned, Region
  <2> DEFINE frees == {i \in DOMAIN list : u \in Units(list[i])}
             busys == {b \in m.busy : u \in Units(b)}
  <2> HIDE DEF list
  <2>1. CASE u \in Covered(list)
    <3>1. PICK i \in 1 .. n : u \in Units(list[i])
      BY <2>1 DEF Covered
    <3>2. \A j \in 1 .. n : u \in Units(list[j]) => j = i
      <4> SUFFICES ASSUME NEW j \in 1 .. n, u \in Units(list[j]), j # i PROVE FALSE
        OBVIOUS
      <4>1. Separate(list[i], list[j])
        BY <1>1 DEF Apart, list
      <4>2. Units(list[i]) \cap Units(list[j]) = {}
        BY <1>2, <4>1, SeparateUnits
      <4> QED BY <3>1, <4>2
    <3>3. frees = {i}
      BY <1>2, <3>1, <3>2
    <3>4. busys = {}
      BY <1>1, <2>1 DEF list
    <3>5. Cardinality(frees) = 1 /\ Cardinality(busys) = 0
      <4> HIDE DEF frees, busys
      <4> QED BY <3>3, <3>4, FS_EmptySet, FS_Singleton
    <3> QED BY <3>5
  <2>2. CASE u \notin Covered(list)
    <3>1. PICK b \in m.busy : u \in Units(b)
      BY <1>1, <2>2 DEF list
    <3>2. \A c \in m.busy : u \in Units(c) => c = b
      <4> SUFFICES ASSUME NEW c \in m.busy, u \in Units(c), c # b PROVE FALSE
        OBVIOUS
      <4>1. Separate(b, c) /\ b \in Blocks /\ c \in Blocks
        BY <1>1
      <4> QED BY <3>1, <4>1, SeparateUnits
    <3>3. busys = {b}
      BY <3>1, <3>2
    <3>4. frees = {}
      BY <1>2, <2>2 DEF Covered
    <3>5. Cardinality(frees) = 0 /\ Cardinality(busys) = 1
      <4> HIDE DEF frees, busys
      <4> QED BY <3>3, <3>4, FS_EmptySet, FS_Singleton
    <3> QED BY <3>5
  <2> QED BY <2>1, <2>2
<1> QED BY <1>3, <1>4, <1>5, <1>6

-----------------------------------------------------------------------------
(* The pods *)

MemoryInv == DOMAIN memory = Pods /\ \A p \in Pods : ManagerInv(memory[p])

(* A step of the allocator that each pod's manager implements.               *)
AllocatorStep == \A p \in Pods : Contract(p)!Next \/ UNCHANGED memory[p].busy

LEMMA MallocStep ==
  ASSUME MemoryInv, NEW pods, NEW size \in Nat, MallocOn(pods, size)
  PROVE  MemoryInv' /\ AllocatorStep
<1>1. memory' = [p \in Pods |-> IF p \in pods THEN Alloc(memory[p], size) ELSE memory[p]]
  BY DEF MallocOn
<1>2. ASSUME NEW p \in Pods
      PROVE  /\ ManagerInv(memory'[p])
             /\ Contract(p)!Next \/ memory'[p].busy = memory[p].busy
  <2>1. ManagerInv(memory[p])
    BY DEF MemoryInv
  <2>2. CASE p \notin pods
    BY <1>1, <2>1, <2>2
  <2>3. CASE p \in pods
    <3> DEFINE m == memory[p]
               first == AllocResult(m, size)
               b == Buffer(first, Padded(size))
    <3>1. memory'[p] = Alloc(m, size)
      BY <1>1, <2>3
    <3> HIDE DEF m, first, b
    <3>2. /\ ManagerInv(Alloc(m, size))
          /\ \/ first = Null /\ Alloc(m, size) = m
             \/ /\ first # Null /\ first \in Region /\ b \in Blocks
                /\ \A c \in m.busy : Separate(b, c) /\ c # b
                /\ Alloc(m, size).busy = m.busy \cup {b}
      BY <2>1, AllocKeeps DEF m, first, b
    <3>3. CASE Alloc(m, size) = m
      BY <3>1, <3>2, <3>3 DEF m
    <3>4. CASE /\ b \in Blocks /\ \A c \in m.busy : Separate(b, c) /\ c # b
               /\ Alloc(m, size).busy = m.busy \cup {b}
      <4>1. m.busy \subseteq Blocks
        BY <2>1 DEF ManagerInv, m
      <4>2. \A c \in m.busy : Units(b) \cap Units(c) = {}
        BY <3>4, <4>1, SeparateUnits
      <4>3. /\ b = [first |-> b.first, second |-> b.second] /\ b \in BufferType
            /\ Units(b) \subseteq Region
        BY <3>4, BlockParts DEF Buffer
      <4>4. b.first \in Start .. Start + Size - 1 /\ b.second \in 1 .. Size
            /\ b.first % Alignment = 0 /\ b.second % Alignment = 0
        BY <4>3 DEF BufferType
      <4>5. Contract(p)!Allocate(b)
        <5>1. b.second > 0
          BY <4>4
        <5>2. memory'[p].busy = memory[p].busy \cup {b}
          BY <3>1, <3>4 DEF m
        <5>3. Contract(p)!Block(b)
          BY <4>3, <4>4, <5>1 DEF Contract!Block, Contract!Units, Units, Region
        <5>4. \A c \in memory[p].busy : Contract(p)!Units(b) \cap Contract(p)!Units(c) = {}
          BY <4>2 DEF Contract!Units, Units, m
        <5> QED BY <5>2, <5>3, <5>4 DEF Contract!Allocate
      <4>6. Contract(p)!Next
        BY <4>3, <4>4, <4>5 DEF Contract!Next
      <4> QED BY <3>1, <3>2, <4>6
    <3> QED BY <3>2, <3>3, <3>4
  <2> QED BY <2>2, <2>3
<1>3. DOMAIN memory' = Pods
  BY <1>1
<1> QED BY <1>2, <1>3 DEF MemoryInv, AllocatorStep

LEMMA FreeStep ==
  ASSUME MemoryInv, NEW pods, NEW eva, FreeOn(pods, eva)
  PROVE  MemoryInv' /\ AllocatorStep
<1>1. memory' = [p \in Pods |-> IF p \in pods THEN Free(memory[p], eva) ELSE memory[p]]
  BY DEF FreeOn
<1>2. ASSUME NEW p \in Pods
      PROVE  /\ ManagerInv(memory'[p])
             /\ Contract(p)!Next \/ memory'[p].busy = memory[p].busy
  <2>1. ManagerInv(memory[p])
    BY DEF MemoryInv
  <2>2. CASE p \notin pods
    BY <1>1, <2>1, <2>2
  <2>3. CASE p \in pods
    <3>1. memory'[p] = Free(memory[p], eva)
      BY <1>1, <2>3
    <3>2. /\ ManagerInv(memory'[p])
          /\ \/ memory'[p].busy = memory[p].busy
             \/ \E b \in memory[p].busy : memory'[p].busy = memory[p].busy \ {b}
      BY <2>1, <3>1, FreeKeeps
    <3>3. ASSUME NEW b \in memory[p].busy, memory'[p].busy = memory[p].busy \ {b}
          PROVE  Contract(p)!Next
      BY <3>3 DEF Contract!Next, Contract!Release
    <3> QED BY <3>2, <3>3
  <2> QED BY <2>2, <2>3
<1>3. DOMAIN memory' = Pods
  BY <1>1
<1> QED BY <1>2, <1>3 DEF MemoryInv, AllocatorStep

LEMMA RenewStep ==
  ASSUME MemoryInv, NEW pods, Renew(pods)
  PROVE  MemoryInv' /\ AllocatorStep
<1>1. memory' = [p \in Pods |-> IF p \in pods THEN NewManager ELSE memory[p]]
  BY DEF Renew
<1>2. ASSUME NEW p \in Pods
      PROVE  /\ ManagerInv(memory'[p])
             /\ Contract(p)!Next \/ memory'[p].busy = memory[p].busy
  <2>1. ManagerInv(memory[p])
    BY DEF MemoryInv
  <2>2. CASE p \notin pods
    BY <1>1, <2>1, <2>2
  <2>3. CASE p \in pods
    <3>1. memory'[p] = NewManager
      BY <1>1, <2>3
    <3>2. memory'[p].busy = {}
      BY <3>1 DEF NewManager
    <3>3. Contract(p)!Next
      BY <3>2 DEF Contract!Next, Contract!Clear
    <3> QED BY <3>1, <3>3, NewManagerInv
  <2> QED BY <2>2, <2>3
<1>3. DOMAIN memory' = Pods
  BY <1>1
<1> QED BY <1>2, <1>3 DEF MemoryInv, AllocatorStep

-----------------------------------------------------------------------------
(* Every step of the device is a step of the pods' allocators. *)

DeviceInv ==
  /\ MemoryInv
  /\ program \in [Pods -> {"none", "set", "loaded"}]
  /\ \A p \in Pods : program[p] = "none" => memory[p].busy = {}
  /\ todo \in [Pods -> Nat] /\ failed \in Nat
  /\ \A p \in Pods : todo[p] > 0 => executing
  /\ executing => \A p \in Pods : program[p] = "loaded"

LEMMA DefaultPod == Default \in Pods /\ \A p \in Pods : p \in Nat
BY PodAssumption DEF Default, Pods

LEMMA DeviceInit == Init => DeviceInv
<1> SUFFICES ASSUME Init PROVE DeviceInv
  OBVIOUS
<1>1. /\ memory = [p \in Pods |-> NewManager] /\ program = [p \in Pods |-> "none"]
      /\ held = {} /\ executing = FALSE /\ failed = 0
      /\ todo = [p \in Pods |-> 0] /\ argv = [p \in Pods |-> {}]
  BY DEF Init, PodsInit
<1>2. MemoryInv
  BY <1>1, NewManagerInv DEF MemoryInv
<1>3. NewManager.busy = {}
  BY DEF NewManager
<1>4. program \in [Pods -> {"none", "set", "loaded"}] /\ todo \in [Pods -> Nat]
  BY <1>1
<1>5. \A p \in Pods : todo[p] = 0 /\ memory[p].busy = {}
  BY <1>1, <1>3
<1> QED BY <1>1, <1>2, <1>4, <1>5 DEF DeviceInv

(* Memory in use in a pod without a program could only come from a malloc.   *)
LEMMA MallocDevice ==
  ASSUME DeviceInv, NEW pods, NEW size \in Nat, MallocOn(pods, size),
         \A p \in Pods \cap pods : program[p] # "none"
  PROVE  /\ MemoryInv' /\ AllocatorStep /\ program' = program
         /\ \A p \in Pods : program[p] = "none" => memory'[p].busy = {}
<1>1. /\ memory' = [p \in Pods |-> IF p \in pods THEN Alloc(memory[p], size) ELSE memory[p]]
      /\ program' = program
  BY DEF MallocOn
<1>2. ASSUME NEW p \in Pods, program[p] = "none" PROVE memory'[p].busy = {}
  <2>1. memory'[p] = memory[p]
    BY <1>1, <1>2
  <2> QED BY <1>2, <2>1 DEF DeviceInv
<1> QED BY <1>1, <1>2, MallocStep DEF DeviceInv

LEMMA FreeDevice ==
  ASSUME DeviceInv, NEW pods, NEW eva, FreeOn(pods, eva)
  PROVE  /\ MemoryInv' /\ AllocatorStep /\ program' = program
         /\ \A p \in Pods : program[p] = "none" => memory'[p].busy = {}
<1>1. /\ memory' = [p \in Pods |-> IF p \in pods THEN Free(memory[p], eva) ELSE memory[p]]
      /\ program' = program
  BY DEF FreeOn
<1>2. ASSUME NEW p \in Pods, program[p] = "none" PROVE memory'[p].busy = {}
  <2>1. ManagerInv(memory[p]) /\ memory[p].busy = {}
    BY <1>2 DEF DeviceInv, MemoryInv
  <2>2. Free(memory[p], eva).busy = {}
    BY <2>1, FreeKeeps
  <2> QED BY <1>1, <2>1, <2>2
<1> QED BY <1>1, <1>2, FreeStep DEF DeviceInv

LEMMA RenewDevice ==
  ASSUME DeviceInv, NEW pods, Renew(pods)
  PROVE  /\ MemoryInv' /\ AllocatorStep
         /\ \A p \in Pods : p \in pods \/ program[p] = "none" => memory'[p].busy = {}
<1>1. memory' = [p \in Pods |-> IF p \in pods THEN NewManager ELSE memory[p]]
  BY DEF Renew
<1>2. ASSUME NEW p \in Pods, p \in pods \/ program[p] = "none" PROVE memory'[p].busy = {}
  <2>1. NewManager.busy = {}
    BY DEF NewManager
  <2>2. program[p] = "none" => memory[p].busy = {}
    BY DEF DeviceInv
  <2> QED BY <1>1, <1>2, <2>1, <2>2
<1> QED BY <1>2, RenewStep DEF DeviceInv

LEMMA DeviceStep ==
  ASSUME DeviceInv, [Next]_vars
  PROVE  DeviceInv' /\ (AllocatorStep \/ UNCHANGED memory)
<1>0. /\ MemoryInv
      /\ program \in [Pods -> {"none", "set", "loaded"}]
      /\ \A p \in Pods : program[p] = "none" => memory[p].busy = {}
      /\ todo \in [Pods -> Nat] /\ failed \in Nat
      /\ \A p \in Pods : todo[p] > 0 => executing
      /\ executing => \A p \in Pods : program[p] = "loaded"
  BY DEF DeviceInv
<1>sizes. Requests \subseteq Nat /\ ArgvSize \in Nat /\ Groups \in Nat /\ MaxFailed \in Nat
  BY ReplicateAssumption
<1>reached. \A p \in Reached : p \in Pods /\ program[p] # "none"
  <2> TAKE p \in Reached
  <2>1. p \in Pods /\ p \in 0 .. p
    BY DefaultPod DEF Reached
  <2> QED BY <2>1 DEF Reached
<1>1. CASE ProgramInit
  <2>1. /\ Renew(Pods) /\ ~executing /\ program' = [p \in Pods |-> "loaded"]
        /\ argv' = [p \in Pods |-> {}] /\ held' = {} /\ failed' = 0
        /\ executing' = executing /\ todo' = todo
    BY <1>1 DEF ProgramInit
  <2>2. MemoryInv' /\ AllocatorStep
    BY <2>1, RenewDevice
  <2>3. /\ program' \in [Pods -> {"none", "set", "loaded"}]
        /\ \A p \in Pods : program'[p] # "none"
    BY <2>1
  <2> QED BY <1>0, <2>1, <2>2, <2>3 DEF DeviceInv
<1>2. CASE ProgramFinish
  <2>1. /\ Renew({Default}) /\ ~executing /\ program' = [program EXCEPT ![Default] = "none"]
        /\ argv' = [argv EXCEPT ![Default] = {}] /\ held' = {}
        /\ executing' = executing /\ todo' = todo /\ failed' = failed
    BY <1>2 DEF ProgramFinish
  <2>2. /\ MemoryInv' /\ AllocatorStep
        /\ \A p \in Pods : p = Default \/ program[p] = "none" => memory'[p].busy = {}
    BY <2>1, RenewDevice
  <2>3. program' \in [Pods -> {"none", "set", "loaded"}]
    BY <1>0, <2>1
  <2>5. \A p \in Pods : program'[p] = "none" => p = Default \/ program[p] = "none"
    BY <1>0, <2>1
  <2> QED BY <1>0, <2>1, <2>2, <2>3, <2>5 DEF DeviceInv
<1>3. CASE \E p \in Pods, late \in BOOLEAN : ProgramInitFails(p, late)
  <2>1. PICK failing \in Pods, late \in BOOLEAN : ProgramInitFails(failing, late)
    BY <1>3
  <2> DEFINE renewed == {p \in Pods : p < failing \/ (p = failing /\ late)}
  <2>2. /\ Renew(renewed) /\ ~executing /\ failed' = failed + 1 /\ held' = {}
        /\ program' = [p \in Pods |->
                         IF p < failing THEN "loaded"
                         ELSE IF p \in renewed /\ program[p] = "none" THEN "set"
                         ELSE program[p]]
        /\ argv' = [p \in Pods |-> IF p \in renewed THEN {} ELSE argv[p]]
        /\ executing' = executing /\ todo' = todo
    BY <2>1 DEF ProgramInitFails, Fails
  <2> HIDE DEF renewed
  <2>3. /\ MemoryInv' /\ AllocatorStep
        /\ \A p \in Pods : p \in renewed \/ program[p] = "none" => memory'[p].busy = {}
    BY <2>2, RenewDevice
  <2>4. program' \in [Pods -> {"none", "set", "loaded"}]
    BY <1>0, <2>2
  <2>6. \A p \in Pods : program'[p] = "none" => program[p] = "none"
    BY <2>2
  <2>7. failed' \in Nat
    BY <1>0, <2>2
  <2> QED BY <1>0, <2>2, <2>3, <2>4, <2>6, <2>7 DEF DeviceInv
<1>4. CASE \E size \in Requests : Malloc(size)
  <2>1. PICK size \in Requests : Malloc(size)
    BY <1>4
  <2>2. /\ MallocOn(Reached, size) /\ failed' \in {failed, failed + 1}
        /\ executing' = executing /\ todo' = todo /\ argv' = argv
    BY <2>1 DEF Malloc, Fails, execVars
  <2>3. size \in Nat
    BY <1>sizes
  <2>4. /\ MemoryInv' /\ AllocatorStep /\ program' = program
        /\ \A p \in Pods : program[p] = "none" => memory'[p].busy = {}
    BY <1>reached, <2>2, <2>3, MallocDevice
  <2>8. failed' \in Nat
    BY <1>0, <2>2
  <2> QED BY <1>0, <2>2, <2>4, <2>8 DEF DeviceInv
<1>5. CASE \E block \in held : FreeHeld(block)
  <2>1. PICK block \in held : FreeHeld(block)
    BY <1>5
  <2>2. /\ FreeOn(Reached, block.eva) /\ failed' \in {failed, failed + 1}
        /\ executing' = executing /\ todo' = todo /\ argv' = argv
        /\ held' = held \ {block}
    BY <2>1 DEF FreeHeld, FreeAll, Fails, execVars
  <2>3. /\ MemoryInv' /\ AllocatorStep /\ program' = program
        /\ \A p \in Pods : program[p] = "none" => memory'[p].busy = {}
    BY <2>2, FreeDevice
  <2>4. failed' \in Nat
    BY <1>0, <2>2
  <2> QED BY <1>0, <2>2, <2>3, <2>4 DEF DeviceInv
<1>6. CASE Execute
  <2>1. /\ \A p \in Pods : program[p] = "loaded"
        /\ executing' = TRUE /\ todo' = [p \in Pods |-> Groups]
        /\ memory' = memory /\ program' = program
        /\ held' = held /\ argv' = argv /\ failed' = failed
    BY <1>6 DEF Execute, podVars
  <2>2. todo' \in [Pods -> Nat]
    BY <1>sizes, <2>1
  <2>3. MemoryInv'
    BY <1>0, <2>1 DEF MemoryInv
  <2> QED BY <1>0, <2>1, <2>2, <2>3 DEF DeviceInv
<1>7. CASE ExecuteReturns
  <2>1. /\ \A p \in Pods : todo[p] = 0
        /\ executing' = FALSE /\ todo' = todo
        /\ memory' = memory /\ program' = program
        /\ held' = held /\ argv' = argv /\ failed' = failed
    BY <1>7 DEF ExecuteReturns, podVars
  <2>2. MemoryInv'
    BY <1>0, <2>1 DEF MemoryInv
  <2> QED BY <1>0, <2>1, <2>2 DEF DeviceInv
<1>8. CASE \E p \in Pods : Launch(p)
  <2>1. PICK p \in Pods : Launch(p)
    BY <1>8
  <2>2. /\ todo[p] > 0 /\ MallocOn({p}, ArgvSize)
        /\ argv' = [argv EXCEPT ![p] = argv[p] \cup {Given(p, ArgvSize)}]
        /\ todo' = [todo EXCEPT ![p] = todo[p] - 1]
        /\ held' = held /\ executing' = executing /\ failed' = failed
    BY <2>1 DEF Launch
  <2>3. program[p] # "none"
    BY <1>0, <2>2
  <2>4. /\ MemoryInv' /\ AllocatorStep /\ program' = program
        /\ \A q \in Pods : program[q] = "none" => memory'[q].busy = {}
    BY <1>sizes, <2>2, <2>3, MallocDevice
  <2>7. todo' \in [Pods -> Nat] /\ \A q \in Pods : todo'[q] > 0 => todo[q] > 0
    BY <1>0, <2>2
  <2> QED BY <1>0, <2>2, <2>4, <2>7 DEF DeviceInv
<1>9. CASE \E p \in Pods : LaunchFails(p)
  <2>1. /\ todo' = [q \in Pods |-> 0] /\ executing' = FALSE /\ failed' = failed + 1
        /\ memory' = memory /\ program' = program /\ held' = held /\ argv' = argv
    BY <1>9 DEF LaunchFails, Fails, podVars
  <2>2. MemoryInv'
    BY <1>0, <2>1 DEF MemoryInv
  <2>3. /\ todo' \in [Pods -> Nat] /\ failed' \in Nat
        /\ \A q \in Pods : ~(todo'[q] > 0)
    BY <1>0, <2>1
  <2> QED BY <1>0, <2>1, <2>2, <2>3 DEF DeviceInv
<1>10. CASE \E p \in Pods : \E eva \in argv[p] : GroupExit(p, eva)
  <2>0. PICK p \in Pods : \E eva \in argv[p] : GroupExit(p, eva)
    BY <1>10
  <2>1. PICK eva \in argv[p] : GroupExit(p, eva)
    BY <2>0
  <2>2. /\ FreeOn({p}, eva) /\ argv' = [argv EXCEPT ![p] = argv[p] \ {eva}]
        /\ held' = held /\ executing' = executing /\ todo' = todo /\ failed' = failed
    BY <2>1 DEF GroupExit
  <2>3. /\ MemoryInv' /\ AllocatorStep /\ program' = program
        /\ \A q \in Pods : program[q] = "none" => memory'[q].busy = {}
    BY <2>2, FreeDevice
  <2> QED BY <1>0, <2>2, <2>3 DEF DeviceInv
<1>11. CASE UNCHANGED vars
  <2>1. /\ memory' = memory /\ program' = program /\ held' = held
        /\ executing' = executing /\ todo' = todo /\ argv' = argv /\ failed' = failed
    BY <1>11 DEF vars, podVars, execVars
  <2>2. MemoryInv'
    BY <1>0, <2>1 DEF MemoryInv
  <2> QED BY <1>0, <2>1, <2>2 DEF DeviceInv
<1> QED BY <1>1, <1>2, <1>3, <1>4, <1>5, <1>6, <1>7, <1>8, <1>9, <1>10, <1>11 DEF Next

-----------------------------------------------------------------------------
(* What the client and the groups hold *)

(* Every address of the region is an EVA, and none is the one that stands    *)
(* for a failure.                                                            *)
RegionFits == Start + Size < 2 ^ EvaBits

HeldInv ==
  /\ DOMAIN argv = Pods
  /\ SuccessIsEverywhere
  /\ \A b, c \in held : b.eva # Eva(Null) /\ b.eva = c.eva => b = c
  /\ \A p \in Pods : \A eva \in argv[p] :
       Block(eva, ArgvSize) \in memory[p].busy /\ \A b \in held : b.eva # eva
  /\ NothingStranded

LEMMA EvaIsAddress ==
  ASSUME RegionFits, NEW a \in Region
  PROVE  Eva(a) = a /\ a # Eva(Null)
<1> DEFINE N == 2 ^ EvaBits
<1>1. N \in Int /\ Start + Size < N /\ Start \in Nat /\ Size \in Nat
  BY PodAssumption, RegionAssumption DEF RegionFits
<1>2. a \in Nat /\ a < Start + Size
  BY <1>1 DEF Region
<1>3. Eva(a) = a % N /\ Eva(Null) = (-1) % N
  BY DEF Eva, Null
<1> HIDE DEF N
<1>4. N \in Nat /\ N > 0 /\ a < N - 1
  BY <1>1, <1>2
<1>5. a % N = a
  BY <1>2, <1>4
<1>6. (-1) % N = N - 1
  BY <1>4
<1> QED BY <1>2, <1>3, <1>4, <1>5, <1>6

(* What a pod's malloc gives, as an EVA.                                     *)
LEMMA GivenBlock ==
  ASSUME RegionFits, MemoryInv, NEW p \in Pods, NEW size \in Nat
  PROVE  \/ /\ Given(p, size) = Eva(Null) /\ AllocResult(memory[p], size) = Null
            /\ Alloc(memory[p], size) = memory[p]
         \/ /\ Given(p, size) # Eva(Null) /\ AllocResult(memory[p], size) # Null
            /\ \A c \in memory[p].busy : c.first # Given(p, size)
            /\ Alloc(memory[p], size).busy
                 = memory[p].busy \cup {Block(Given(p, size), size)}
<1>1. PICK m, first : m = memory[p] /\ first = AllocResult(m, size)
  OBVIOUS
<1>2. PICK b : b = Buffer(first, Padded(size))
  OBVIOUS
<1>3. ManagerInv(m)
  BY <1>1 DEF MemoryInv
<1>4. \/ first = Null /\ Alloc(m, size) = m
      \/ /\ first # Null /\ first \in Region /\ b \in Blocks
         /\ \A c \in m.busy : Separate(b, c) /\ c # b
         /\ Alloc(m, size).busy = m.busy \cup {b}
  BY <1>1, <1>2, <1>3, AllocKeeps
<1>5. Given(p, size) = Eva(first)
  BY <1>1 DEF Given
<1>6. CASE first = Null /\ Alloc(m, size) = m
  BY <1>1, <1>5, <1>6
<1>7. CASE /\ first # Null /\ first \in Region /\ b \in Blocks
           /\ \A c \in m.busy : Separate(b, c) /\ c # b
           /\ Alloc(m, size).busy = m.busy \cup {b}
  <2>1. Given(p, size) = first /\ first # Eva(Null)
    BY <1>5, <1>7, EvaIsAddress
  <2>2. ASSUME NEW c \in m.busy PROVE c.first # first
    <3>1. c \in Blocks /\ Separate(b, c)
      BY <1>3, <1>7 DEF ManagerInv
    <3>2. /\ b.first \in Nat /\ b.second \in Nat /\ b.second > 0
          /\ c.first \in Nat /\ c.second \in Nat /\ c.second > 0
      BY <1>7, <3>1 DEF Blocks
    <3>3. b.first = first
      BY <1>2 DEF Buffer
    <3> QED BY <3>1, <3>2, <3>3 DEF Separate
  <2>3. Block(first, size) = b
    BY <1>2 DEF Block
  <2> QED BY <1>1, <1>7, <2>1, <2>2, <2>3
<1> QED BY <1>4, <1>6, <1>7

(* A free takes the block with that address and no other.                    *)
LEMMA FreedBlock ==
  ASSUME MemoryInv, NEW p \in Pods, NEW eva
  PROVE  Free(memory[p], eva).busy = {b \in memory[p].busy : b.first # eva}
<1>1. ManagerInv(memory[p])
  BY DEF MemoryInv
<1> QED BY <1>1, FreeKeeps

LEMMA BlockFirst == \A eva, size : Block(eva, size).first = eva
BY DEF Block, Buffer

LEMMA BusyIsNotNull ==
  ASSUME RegionFits, MemoryInv, NEW p \in Pods, NEW b \in memory[p].busy
  PROVE  b.first # Eva(Null)
<1>1. b \in Blocks
  BY DEF MemoryInv, ManagerInv
<1>2. b.first \in Region
  BY <1>1, BlockParts
<1> QED BY <1>2, EvaIsAddress

LEMMA HeldInit == Init => HeldInv
<1> SUFFICES ASSUME Init PROVE HeldInv
  OBVIOUS
<1>1. /\ memory = [p \in Pods |-> NewManager] /\ held = {}
      /\ argv = [p \in Pods |-> {}]
  BY DEF Init, PodsInit
<1>2. \A p \in Pods : memory[p].busy = {} /\ argv[p] = {}
  BY <1>1 DEF NewManager
<1>3. SuccessIsEverywhere
  BY <1>1 DEF SuccessIsEverywhere
<1>4. NothingStranded
  BY <1>1, <1>2 DEF NothingStranded
<1> QED BY <1>1, <1>2, <1>3, <1>4 DEF HeldInv

(* An agreed malloc gives the same block in every pod, or fails in all.      *)
LEMMA HeldMalloc ==
  ASSUME RegionFits, DeviceInv, HeldInv, NEW size \in Nat, Malloc(size)
  PROVE  HeldInv'
<1>0. MemoryInv /\ failed \in Nat
  BY DEF DeviceInv
<1>1. /\ DOMAIN argv = Pods
      /\ \A b \in held, p \in Pods :
           b.eva # Eva(Null) => Block(b.eva, b.size) \in memory[p].busy
      /\ \A b, c \in held : b.eva # Eva(Null) /\ b.eva = c.eva => b = c
      /\ \A p \in Pods : \A eva \in argv[p] :
           Block(eva, ArgvSize) \in memory[p].busy /\ \A b \in held : b.eva # eva
  BY DEF HeldInv, SuccessIsEverywhere
<1>2. /\ memory' = [p \in Pods |->
                      IF p \in Reached THEN Alloc(memory[p], size) ELSE memory[p]]
      /\ held' = IF Agreed(size)
                   THEN held \cup {[eva |-> Given(Default, size), size |-> size]} ELSE held
      /\ IF Agreed(size) THEN failed' = failed ELSE Fails
      /\ argv' = argv /\ program' = program
  BY DEF Malloc, MallocOn, execVars
<1>grow. ASSUME NEW p \in Pods, NEW b \in memory[p].busy PROVE b \in memory'[p].busy
  <2>1. \/ Alloc(memory[p], size).busy = memory[p].busy
        \/ Alloc(memory[p], size).busy
             = memory[p].busy \cup {Block(Given(p, size), size)}
    BY <1>0, GivenBlock
  <2> QED BY <1>2, <2>1
<1>3. CASE ~Agreed(size)
  <2>1. held' = held /\ failed' # 0
    BY <1>0, <1>2, <1>3 DEF Fails
  <2>2. SuccessIsEverywhere'
    BY <1>1, <1>grow, <2>1 DEF SuccessIsEverywhere
  <2>3. NothingStranded'
    BY <2>1 DEF NothingStranded
  <2>4. \A p \in Pods : \A eva \in argv'[p] :
          Block(eva, ArgvSize) \in memory'[p].busy /\ \A b \in held' : b.eva # eva
    BY <1>1, <1>2, <1>grow, <2>1
  <2> QED BY <1>1, <1>2, <2>1, <2>2, <2>3, <2>4 DEF HeldInv
<1>4. CASE Agreed(size)
  <2>0. PICK e : e = Given(Default, size)
    OBVIOUS
  <2> DEFINE new == [eva |-> e, size |-> size]
  <2>1. /\ held' = held \cup {new} /\ failed' = failed
        /\ \A p \in Pods : Given(p, size) = e /\ memory'[p] = Alloc(memory[p], size)
    BY <1>2, <1>4, <2>0 DEF Agreed
  <2>2. new.eva = e /\ new.size = size
    OBVIOUS
  <2> HIDE DEF new
  <2>3. ASSUME NEW p \in Pods
        PROVE  /\ e = Eva(Null) => memory'[p].busy = memory[p].busy
               /\ e # Eva(Null) =>
                    /\ \A c \in memory[p].busy : c.first # e
                    /\ memory'[p].busy = memory[p].busy \cup {Block(e, size)}
    BY <1>0, <2>1, GivenBlock
  <2>4. SuccessIsEverywhere'
    <3>1. \A p \in Pods : e # Eva(Null) => Block(new.eva, new.size) \in memory'[p].busy
      BY <2>2, <2>3
    <3> QED BY <1>1, <1>grow, <2>1, <2>2, <3>1 DEF SuccessIsEverywhere
  <2>5. ASSUME NEW b \in held, e # Eva(Null) PROVE b.eva # e
    <3>1. CASE b.eva # Eva(Null)
      <4>1. Block(b.eva, b.size) \in memory[Default].busy
        BY <1>1, <3>1, DefaultPod
      <4> QED BY <2>3, <2>5, <4>1, BlockFirst, DefaultPod
    <3> QED BY <2>5, <3>1
  <2>6. \A b, c \in held' : b.eva # Eva(Null) /\ b.eva = c.eva => b = c
    BY <1>1, <2>1, <2>2, <2>5
  <2>7. ASSUME NEW p \in Pods, NEW eva \in argv[p]
        PROVE  /\ Block(eva, ArgvSize) \in memory'[p].busy
               /\ \A b \in held' : b.eva # eva
    <3>1. Block(eva, ArgvSize) \in memory[p].busy /\ \A b \in held : b.eva # eva
      BY <1>1
    <3>2. eva # Eva(Null)
      BY <1>0, <3>1, BlockFirst, BusyIsNotNull
    <3>3. e # eva
      BY <2>3, <3>1, <3>2, BlockFirst
    <3> QED BY <1>grow, <2>1, <2>2, <3>1, <3>3
  <2>8. NothingStranded'
    <3> SUFFICES ASSUME failed' = 0, \A p \in Pods : program'[p] = "loaded",
                        NEW p \in Pods
                 PROVE  memory'[p].busy
                          = {Block(b.eva, b.size) : b \in {c \in held' : c.eva # Eva(Null)}}
                            \cup {Block(eva, ArgvSize) : eva \in argv'[p]}
      BY DEF NothingStranded
    <3>1. memory[p].busy
            = {Block(b.eva, b.size) : b \in {c \in held : c.eva # Eva(Null)}}
              \cup {Block(eva, ArgvSize) : eva \in argv[p]}
      BY <1>2, <2>1 DEF HeldInv, NothingStranded
    <3>2. CASE e = Eva(Null)
      <4>1. {c \in held' : c.eva # Eva(Null)} = {c \in held : c.eva # Eva(Null)}
        BY <2>1, <2>2, <3>2
      <4> QED BY <1>2, <2>3, <3>1, <3>2, <4>1
    <3>3. CASE e # Eva(Null)
      <4>1. {c \in held' : c.eva # Eva(Null)} = {c \in held : c.eva # Eva(Null)} \cup {new}
        BY <2>1, <2>2, <3>3
      <4>2. {Block(b.eva, b.size) : b \in {c \in held' : c.eva # Eva(Null)}}
              = {Block(b.eva, b.size) : b \in {c \in held : c.eva # Eva(Null)}}
                \cup {Block(e, size)}
        BY <2>2, <4>1
      <4>3. memory'[p].busy = memory[p].busy \cup {Block(e, size)}
        BY <2>3, <3>3
      <4> QED BY <1>2, <3>1, <4>2, <4>3
    <3> QED BY <3>2, <3>3
  <2> QED BY <1>1, <1>2, <2>4, <2>6, <2>7, <2>8 DEF HeldInv
<1> QED BY <1>3, <1>4

(* A free of what the client holds takes that block from every pod it        *)
(* reaches, and leaves every other.                                          *)
LEMMA HeldFree ==
  ASSUME RegionFits, DeviceInv, HeldInv, NEW block \in held, FreeHeld(block)
  PROVE  HeldInv'
<1>0. MemoryInv /\ failed \in Nat
  BY DEF DeviceInv
<1>1. /\ DOMAIN argv = Pods
      /\ \A b \in held, p \in Pods :
           b.eva # Eva(Null) => Block(b.eva, b.size) \in memory[p].busy
      /\ \A b, c \in held : b.eva # Eva(Null) /\ b.eva = c.eva => b = c
      /\ \A p \in Pods : \A eva \in argv[p] :
           Block(eva, ArgvSize) \in memory[p].busy /\ \A b \in held : b.eva # eva
  BY DEF HeldInv, SuccessIsEverywhere
<1>2. /\ memory' = [p \in Pods |->
                      IF p \in Reached THEN Free(memory[p], block.eva) ELSE memory[p]]
      /\ held' = held \ {block}
      /\ IF Reached = Pods THEN failed' = failed ELSE Fails
      /\ argv' = argv /\ program' = program
  BY DEF FreeHeld, FreeAll, FreeOn, execVars
<1>3. ASSUME NEW p \in Pods, NEW b \in memory[p].busy, b.first # block.eva
      PROVE  b \in memory'[p].busy
  BY <1>0, <1>2, <1>3, FreedBlock
<1>4. ASSUME NEW b \in held', b.eva # Eva(Null) PROVE b.eva # block.eva
  BY <1>1, <1>2, <1>4
<1>5. SuccessIsEverywhere'
  BY <1>1, <1>2, <1>3, <1>4, BlockFirst DEF SuccessIsEverywhere
<1>6. \A p \in Pods : \A eva \in argv'[p] :
        Block(eva, ArgvSize) \in memory'[p].busy /\ \A b \in held' : b.eva # eva
  BY <1>1, <1>2, <1>3, BlockFirst
<1>7. NothingStranded'
  <2> SUFFICES ASSUME failed' = 0, \A p \in Pods : program'[p] = "loaded",
                      NEW p \in Pods
               PROVE  memory'[p].busy
                        = {Block(b.eva, b.size) : b \in {c \in held' : c.eva # Eva(Null)}}
                          \cup {Block(eva, ArgvSize) : eva \in argv'[p]}
    BY DEF NothingStranded
  <2>1. Reached = Pods /\ failed = 0
    BY <1>0, <1>2 DEF Fails
  <2>2. memory[p].busy
          = {Block(b.eva, b.size) : b \in {c \in held : c.eva # Eva(Null)}}
            \cup {Block(eva, ArgvSize) : eva \in argv[p]}
    BY <1>2, <2>1 DEF HeldInv, NothingStranded
  <2>3. memory'[p].busy = {b \in memory[p].busy : b.first # block.eva}
    BY <1>0, <1>2, <2>1, FreedBlock
  <2>4. ASSUME NEW x \in memory'[p].busy
        PROVE  \/ \E b \in held' : b.eva # Eva(Null) /\ x = Block(b.eva, b.size)
               \/ \E eva \in argv'[p] : x = Block(eva, ArgvSize)
    BY <1>2, <2>2, <2>3, BlockFirst
  <2>5. ASSUME NEW b \in held', b.eva # Eva(Null)
        PROVE  Block(b.eva, b.size) \in memory'[p].busy
    BY <1>5, <2>5 DEF SuccessIsEverywhere
  <2> QED BY <1>6, <2>4, <2>5
<1> QED BY <1>1, <1>2, <1>5, <1>6, <1>7 DEF HeldInv

(* The argument vector of a group has an address that no client holds.       *)
LEMMA HeldLaunch ==
  ASSUME RegionFits, DeviceInv, HeldInv, NEW q \in Pods, Launch(q)
  PROVE  HeldInv'
<1>0. MemoryInv /\ failed \in Nat /\ ArgvSize \in Nat
  BY ReplicateAssumption DEF DeviceInv
<1>1. /\ DOMAIN argv = Pods
      /\ \A b \in held, p \in Pods :
           b.eva # Eva(Null) => Block(b.eva, b.size) \in memory[p].busy
      /\ \A b, c \in held : b.eva # Eva(Null) /\ b.eva = c.eva => b = c
      /\ \A p \in Pods : \A eva \in argv[p] :
           Block(eva, ArgvSize) \in memory[p].busy /\ \A b \in held : b.eva # eva
  BY DEF HeldInv, SuccessIsEverywhere
<1>2. PICK e : e = Given(q, ArgvSize)
  OBVIOUS
<1>3. /\ AllocResult(memory[q], ArgvSize) # Null
      /\ memory' = [p \in Pods |->
                      IF p \in {q} THEN Alloc(memory[p], ArgvSize) ELSE memory[p]]
      /\ argv' = [argv EXCEPT ![q] = argv[q] \cup {e}]
      /\ held' = held /\ failed' = failed /\ program' = program
  BY <1>2 DEF Launch, MallocOn
<1>4. /\ e # Eva(Null) /\ \A c \in memory[q].busy : c.first # e
      /\ memory'[q].busy = memory[q].busy \cup {Block(e, ArgvSize)}
  BY <1>0, <1>2, <1>3, GivenBlock
<1>5. /\ DOMAIN argv' = Pods /\ argv'[q] = argv[q] \cup {e}
      /\ \A p \in Pods \ {q} : argv'[p] = argv[p] /\ memory'[p] = memory[p]
  BY <1>1, <1>3
<1>6. SuccessIsEverywhere'
  BY <1>1, <1>3, <1>4, <1>5 DEF SuccessIsEverywhere
<1>7. ASSUME NEW b \in held PROVE b.eva # e
  <2>1. CASE b.eva # Eva(Null)
    <3>1. Block(b.eva, b.size) \in memory[q].busy
      BY <1>1, <2>1
    <3> QED BY <1>4, <3>1, BlockFirst
  <2> QED BY <1>4, <2>1
<1>8. ASSUME NEW p \in Pods, NEW eva \in argv'[p]
      PROVE  Block(eva, ArgvSize) \in memory'[p].busy /\ \A b \in held : b.eva # eva
  <2>1. CASE p = q
    BY <1>1, <1>4, <1>5, <1>7, <2>1
  <2>2. CASE p # q
    BY <1>1, <1>5, <2>2
  <2> QED BY <2>1, <2>2
<1>9. NothingStranded'
  <2> SUFFICES ASSUME failed' = 0, \A p \in Pods : program'[p] = "loaded",
                      NEW p \in Pods
               PROVE  memory'[p].busy
                        = {Block(b.eva, b.size) : b \in {c \in held' : c.eva # Eva(Null)}}
                          \cup {Block(eva, ArgvSize) : eva \in argv'[p]}
    BY DEF NothingStranded
  <2>1. memory[p].busy
          = {Block(b.eva, b.size) : b \in {c \in held : c.eva # Eva(Null)}}
            \cup {Block(eva, ArgvSize) : eva \in argv[p]}
    BY <1>3 DEF HeldInv, NothingStranded
  <2>2. CASE p = q
    <3>1. {Block(eva, ArgvSize) : eva \in argv'[p]}
            = {Block(eva, ArgvSize) : eva \in argv[p]} \cup {Block(e, ArgvSize)}
      BY <1>5, <2>2
    <3> QED BY <1>3, <1>4, <2>1, <2>2, <3>1
  <2>3. CASE p # q
    BY <1>3, <1>5, <2>1, <2>3
  <2> QED BY <2>2, <2>3
<1> QED BY <1>1, <1>3, <1>5, <1>6, <1>8, <1>9 DEF HeldInv

LEMMA HeldExit ==
  ASSUME DeviceInv, HeldInv, NEW q \in Pods, NEW e \in argv[q], GroupExit(q, e)
  PROVE  HeldInv'
<1>0. MemoryInv
  BY DEF DeviceInv
<1>1. /\ DOMAIN argv = Pods
      /\ \A b \in held, p \in Pods :
           b.eva # Eva(Null) => Block(b.eva, b.size) \in memory[p].busy
      /\ \A b, c \in held : b.eva # Eva(Null) /\ b.eva = c.eva => b = c
      /\ \A p \in Pods : \A eva \in argv[p] :
           Block(eva, ArgvSize) \in memory[p].busy /\ \A b \in held : b.eva # eva
  BY DEF HeldInv, SuccessIsEverywhere
<1>2. /\ memory' = [p \in Pods |->
                      IF p \in {q} THEN Free(memory[p], e) ELSE memory[p]]
      /\ argv' = [argv EXCEPT ![q] = argv[q] \ {e}]
      /\ held' = held /\ failed' = failed /\ program' = program
  BY DEF GroupExit, FreeOn
<1>3. memory'[q].busy = {b \in memory[q].busy : b.first # e}
  BY <1>0, <1>2, FreedBlock
<1>4. /\ DOMAIN argv' = Pods /\ argv'[q] = argv[q] \ {e}
      /\ \A p \in Pods \ {q} : argv'[p] = argv[p] /\ memory'[p] = memory[p]
  BY <1>1, <1>2
<1>5. ASSUME NEW b \in held, NEW p \in Pods, b.eva # Eva(Null)
      PROVE  Block(b.eva, b.size) \in memory'[p].busy
  <2>1. Block(b.eva, b.size) \in memory[p].busy /\ b.eva # e
    BY <1>1, <1>5
  <2> QED BY <1>3, <1>4, <2>1, BlockFirst
<1>6. SuccessIsEverywhere'
  BY <1>2, <1>5 DEF SuccessIsEverywhere
<1>7. ASSUME NEW p \in Pods, NEW eva \in argv'[p]
      PROVE  Block(eva, ArgvSize) \in memory'[p].busy /\ \A b \in held : b.eva # eva
  <2>1. CASE p = q
    <3>1. Block(eva, ArgvSize) \in memory[q].busy /\ eva # e
      BY <1>1, <1>4, <2>1
    <3> QED BY <1>1, <1>3, <1>4, <2>1, <3>1, BlockFirst
  <2>2. CASE p # q
    BY <1>1, <1>4, <2>2
  <2> QED BY <2>1, <2>2
<1>8. NothingStranded'
  <2> SUFFICES ASSUME failed' = 0, \A p \in Pods : program'[p] = "loaded",
                      NEW p \in Pods
               PROVE  memory'[p].busy
                        = {Block(b.eva, b.size) : b \in {c \in held' : c.eva # Eva(Null)}}
                          \cup {Block(eva, ArgvSize) : eva \in argv'[p]}
    BY DEF NothingStranded
  <2>1. memory[p].busy
          = {Block(b.eva, b.size) : b \in {c \in held : c.eva # Eva(Null)}}
            \cup {Block(eva, ArgvSize) : eva \in argv[p]}
    BY <1>2 DEF HeldInv, NothingStranded
  <2>2. CASE p = q
    <3>1. ASSUME NEW x \in memory'[p].busy
          PROVE  \/ \E b \in held' : b.eva # Eva(Null) /\ x = Block(b.eva, b.size)
                 \/ \E eva \in argv'[p] : x = Block(eva, ArgvSize)
      <4>1. x \in memory[p].busy /\ x.first # e
        BY <1>3, <2>2
      <4> QED BY <1>2, <1>4, <2>1, <2>2, <4>1, BlockFirst
    <3> QED BY <1>2, <1>5, <1>7, <3>1
  <2>3. CASE p # q
    BY <1>2, <1>4, <2>1, <2>3
  <2> QED BY <2>2, <2>3
<1> QED BY <1>1, <1>2, <1>4, <1>6, <1>7, <1>8 DEF HeldInv

LEMMA HeldStep ==
  ASSUME RegionFits, DeviceInv, HeldInv, [Next]_vars
  PROVE  HeldInv'
<1>0. /\ failed \in Nat /\ Requests \subseteq Nat
      /\ DOMAIN argv = Pods
      /\ \A b \in held, p \in Pods :
           b.eva # Eva(Null) => Block(b.eva, b.size) \in memory[p].busy
      /\ \A b, c \in held : b.eva # Eva(Null) /\ b.eva = c.eva => b = c
      /\ \A p \in Pods : \A eva \in argv[p] :
           Block(eva, ArgvSize) \in memory[p].busy /\ \A b \in held : b.eva # eva
  BY ReplicateAssumption DEF DeviceInv, HeldInv, SuccessIsEverywhere
(* What a step that leaves the client nothing has to say for itself.         *)
<1>nothing. ASSUME held' = {}, DOMAIN argv' = Pods,
                   \A p \in Pods : argv'[p] = {} \/ (argv'[p] = argv[p] /\ memory'[p] = memory[p]),
                   NothingStranded'
            PROVE  HeldInv'
  <2>1. SuccessIsEverywhere'
    BY <1>nothing DEF SuccessIsEverywhere
  <2>2. \A p \in Pods : \A eva \in argv'[p] : Block(eva, ArgvSize) \in memory'[p].busy
    BY <1>0, <1>nothing
  <2> QED BY <1>nothing, <2>1, <2>2 DEF HeldInv
<1>same. ASSUME memory' = memory, held' = held, argv' = argv, program' = program,
                failed' = failed \/ failed' # 0
         PROVE  HeldInv'
  <2>1. SuccessIsEverywhere'
    BY <1>same DEF HeldInv, SuccessIsEverywhere
  <2>2. NothingStranded'
    BY <1>same DEF HeldInv, NothingStranded
  <2> QED BY <1>0, <1>same, <2>1, <2>2 DEF HeldInv
<1>1. CASE ProgramInit
  <2>1. /\ memory' = [p \in Pods |-> IF p \in Pods THEN NewManager ELSE memory[p]]
        /\ argv' = [p \in Pods |-> {}] /\ held' = {}
    BY <1>1 DEF ProgramInit, Renew
  <2>2. \A p \in Pods : memory'[p].busy = {} /\ argv'[p] = {}
    BY <2>1 DEF NewManager
  <2>3. NothingStranded'
    BY <2>1, <2>2 DEF NothingStranded
  <2>4. DOMAIN argv' = Pods
    BY <2>1
  <2> QED BY <1>nothing, <2>1, <2>2, <2>3, <2>4
<1>2. CASE ProgramFinish
  <2>1. /\ memory' = [p \in Pods |-> IF p \in {Default} THEN NewManager ELSE memory[p]]
        /\ program' = [program EXCEPT ![Default] = "none"]
        /\ argv' = [argv EXCEPT ![Default] = {}] /\ held' = {}
    BY <1>2 DEF ProgramFinish, Renew
  <2>2. DOMAIN program = Pods
    BY DEF DeviceInv
  <2>3. program'[Default] # "loaded"
    BY <2>1, <2>2, DefaultPod
  <2>4. NothingStranded'
    BY <2>3, DefaultPod DEF NothingStranded
  <2>5. /\ DOMAIN argv' = Pods
        /\ \A p \in Pods : argv'[p] = {} \/ (argv'[p] = argv[p] /\ memory'[p] = memory[p])
    BY <1>0, <2>1
  <2> QED BY <1>nothing, <2>1, <2>4, <2>5
<1>3. CASE \E p \in Pods, late \in BOOLEAN : ProgramInitFails(p, late)
  <2>1. PICK failing \in Pods, late \in BOOLEAN : ProgramInitFails(failing, late)
    BY <1>3
  <2>2. PICK renewed : renewed = {p \in Pods : p < failing \/ (p = failing /\ late)}
    OBVIOUS
  <2>3. /\ memory' = [p \in Pods |-> IF p \in renewed THEN NewManager ELSE memory[p]]
        /\ argv' = [p \in Pods |-> IF p \in renewed THEN {} ELSE argv[p]]
        /\ held' = {} /\ failed' = failed + 1
    BY <2>1, <2>2 DEF ProgramInitFails, Renew, Fails
  <2>4. NothingStranded'
    <3>1. failed' # 0
      BY <1>0, <2>3
    <3> QED BY <3>1 DEF NothingStranded
  <2>5. /\ DOMAIN argv' = Pods
        /\ \A p \in Pods : argv'[p] = {} \/ (argv'[p] = argv[p] /\ memory'[p] = memory[p])
    BY <2>3
  <2> QED BY <1>nothing, <2>3, <2>4, <2>5
<1>4. CASE \E size \in Requests : Malloc(size)
  <2>1. PICK size \in Nat : Malloc(size)
    BY <1>0, <1>4
  <2> QED BY <2>1, HeldMalloc
<1>5. CASE \E block \in held : FreeHeld(block)
  BY <1>5, HeldFree
<1>6. CASE Execute
  BY <1>6, <1>same DEF Execute, podVars
<1>7. CASE ExecuteReturns
  BY <1>7, <1>same DEF ExecuteReturns, podVars
<1>8. CASE \E p \in Pods : Launch(p)
  BY <1>8, HeldLaunch
<1>9. CASE \E p \in Pods : LaunchFails(p)
  <2>1. /\ memory' = memory /\ program' = program /\ held' = held /\ argv' = argv
        /\ failed' = failed + 1
    BY <1>9 DEF LaunchFails, Fails, podVars
  <2>2. failed' # 0
    BY <1>0, <2>1
  <2> QED BY <1>same, <2>1, <2>2
<1>10. CASE \E p \in Pods : \E eva \in argv[p] : GroupExit(p, eva)
  BY <1>10, HeldExit
<1>11. CASE UNCHANGED vars
  BY <1>11, <1>same DEF vars, podVars, execVars
<1> QED BY <1>1, <1>2, <1>3, <1>4, <1>5, <1>6, <1>7, <1>8, <1>9, <1>10, <1>11 DEF Next

-----------------------------------------------------------------------------
(* The properties *)

(* After any sequence of mallocs, frees, executes and restarts, complete or  *)
(* stopped half way, the manager of each pod has its region in buffers that  *)
(* do not overlap, and every group that runs holds its own vector.           *)
THEOREM DeviceInvariant == Spec => []DeviceInv
<1>1. Init => DeviceInv
  BY DeviceInit
<1>2. DeviceInv /\ [Next]_vars => DeviceInv'
  BY DeviceStep
<1> QED BY <1>1, <1>2, PTL DEF Spec

LEMMA DeviceIsRight ==
  ASSUME DeviceInv
  PROVE  MemoryTypeOK /\ Partition /\ LongListCoalesced /\ FreeSizeExact
<1>1. /\ DOMAIN memory = Pods /\ program \in [Pods -> {"none", "set", "loaded"}]
      /\ \A p \in Pods : program[p] = "none" => memory[p].busy = {}
  BY DEF DeviceInv, MemoryInv
<1>2. ASSUME NEW p \in Pods
      PROVE  /\ WellTyped(memory[p]) /\ Partitioned(memory[p]) /\ Coalesced(memory[p])
             /\ memory[p].freeSize = FreeBytes(memory[p])
  <2>1. ManagerInv(memory[p])
    BY DEF DeviceInv, MemoryInv
  <2> QED BY <2>1, ManagerIsRight
<1> QED BY <1>1, <1>2 DEF MemoryTypeOK, Partition, LongListCoalesced, FreeSizeExact

(* Addresses and sizes are whole units of the region in every reachable      *)
(* state, and a pod without a program (program_finish, a failed              *)
(* program_init) has no memory in use.                                       *)
THEOREM MemoryTyped == Spec => []MemoryTypeOK
<1>1. DeviceInv => MemoryTypeOK
  BY DeviceIsRight
<1> QED BY <1>1, DeviceInvariant, PTL

(* alloc, free and the coalescing of the free list neither lose memory nor   *)
(* give a unit out twice, in any pod and after any sequence of calls.        *)
THEOREM MemoryPartitioned == Spec => []Partition
<1>1. DeviceInv => Partition
  BY DeviceIsRight
<1> QED BY <1>1, DeviceInvariant, PTL

(* A free list above the threshold has no two entries that could be merged:  *)
(* sorting before the one pass over the neighbours finds them all.           *)
THEOREM MemoryCoalesced == Spec => []LongListCoalesced
<1>1. DeviceInv => LongListCoalesced
  BY DeviceIsRight
<1> QED BY <1>1, DeviceInvariant, PTL

(* The counter of free bytes that alloc and free update is the sum of the    *)
(* sizes in the free list.                                                   *)
THEOREM MemoryCounted == Spec => []FreeSizeExact
<1>1. DeviceInv => FreeSizeExact
  BY DeviceIsRight
<1> QED BY <1>1, DeviceInvariant, PTL

(* The memory manager of every pod implements the allocator: the blocks that *)
(* are in use are given out and taken back one at a time, none overlaps      *)
(* another, and otherwise they only go all at once with their program.       *)
THEOREM MemoryImplementsAllocator == Spec => ImplementsAllocator
<1>1. Init => \A p \in Pods : Contract(p)!Init
  BY DEF Init, PodsInit, NewManager, Contract!Init
<1>2. DeviceInv /\ [Next]_vars => [AllocatorStep]_memory
  BY DeviceStep
<1>3. ASSUME AllocatorStep
      PROVE  \A p \in Pods : Contract(p)!Next \/ UNCHANGED memory[p].busy
  BY <1>3 DEF AllocatorStep
<1> QED BY <1>1, <1>2, DeviceInvariant, PTL DEF Spec, ImplementsAllocator, AllocatorStep

LEMMA HeldInvariant == ASSUME RegionFits PROVE Spec => []HeldInv
<1>1. Init => HeldInv
  BY HeldInit
<1>2. DeviceInv /\ HeldInv /\ [Next]_vars => HeldInv'
  BY HeldStep
<1> QED BY <1>1, <1>2, DeviceInvariant, PTL DEF Spec

(* An address that the replicated malloc reports is the address of a block   *)
(* of the size that was asked for in every pod, until it is freed, in        *)
(* whatever order the groups of the pods give their vectors back.            *)
THEOREM SuccessEverywhere == ASSUME RegionFits PROVE Spec => []SuccessIsEverywhere
<1>1. HeldInv => SuccessIsEverywhere
  BY DEF HeldInv
<1> QED BY <1>1, HeldInvariant, PTL

(* As long as no call fails, every block in use is one that the client holds *)
(* or the vector of a group that runs: no free takes another's block, and    *)
(* none is forgotten.                                                        *)
THEOREM StrandsNothing == ASSUME RegionFits PROVE Spec => []NothingStranded
<1>1. HeldInv => NothingStranded
  BY DEF HeldInv
<1> QED BY <1>1, HeldInvariant, PTL

=============================================================================

--------------------------- MODULE DramMapProofs ---------------------------
(***************************************************************************)
(* The striping of the DRAM is a bijection whose segments are contiguous,  *)
(* for every size of stripe, number of columns and size of DRAM.           *)
(***************************************************************************)
EXTENDS DramMap, TLAPS

(* Quotient and remainder, and that they are the only ones.                  *)
LEMMA DivMod ==
  ASSUME NEW a \in Nat, NEW b \in Nat, b > 0
  PROVE  /\ a \div b \in Nat /\ a % b \in 0 .. b - 1
         /\ a = b * (a \div b) + (a % b)
OBVIOUS

LEMMA DivUnique ==
  ASSUME NEW b \in Nat, b > 0, NEW q \in Nat, NEW r \in 0 .. b - 1
  PROVE  (b * q + r) \div b = q /\ (b * q + r) % b = r
OBVIOUS

LEMMA TimesNat ==
  ASSUME NEW a \in Nat, NEW b \in Nat
  PROVE  a * b \in Nat
OBVIOUS

LEMMA Sizes ==
  /\ Stripe \in Nat /\ Stripe > 0
  /\ ColSpan \in Nat /\ ColSpan > 0
  /\ MaxEpa \in Nat
BY DramAssumption

(* The parts of an EVA.                                                      *)
LEMMA BlockParts ==
  ASSUME NEW w \in Nat
  PROVE  /\ Block(w) \in Nat /\ w % Stripe \in 0 .. Stripe - 1
         /\ w = Stripe * Block(w) + (w % Stripe)
BY Sizes, DivMod DEF Block

LEMMA RowParts ==
  ASSUME NEW w \in Nat
  PROVE  /\ Row(w) \in Nat /\ Column(w) \in 0 .. ColSpan - 1
         /\ Block(w) = ColSpan * Row(w) + Column(w)
<1>1. Block(w) \in Nat
  BY BlockParts
<1> QED BY <1>1, Sizes, DivMod DEF Row, Column

LEMMA SouthParts ==
  ASSUME NEW w \in Nat
  PROVE  /\ South(w) \in {0, 1} /\ Row(w) \div 2 \in Nat
         /\ Row(w) = 2 * (Row(w) \div 2) + South(w)
<1> DEFINE n == Row(w)
<1>1. n \in Nat
  BY RowParts
<1>2. /\ n % 2 \in 0 .. 1 /\ n \div 2 \in Nat
      /\ n = 2 * (n \div 2) + (n % 2)
  <2> HIDE DEF n
  <2> QED BY <1>1
<1> QED BY <1>2 DEF South

LEMMA EpaParts ==
  ASSUME NEW w \in Nat
  PROVE  /\ Epa(w) \in Nat
         /\ Epa(w) \div Stripe = Row(w) \div 2 /\ Epa(w) % Stripe = w % Stripe
<1> DEFINE q == Row(w) \div 2
           r == w % Stripe
<1>1. q \in Nat /\ r \in 0 .. Stripe - 1 /\ Epa(w) = Stripe * q + r
  BY BlockParts, SouthParts DEF Epa
<1>2. Stripe * q \in Nat
  BY <1>1, Sizes, TimesNat
<1> HIDE DEF q, r
<1>3. Epa(w) \div Stripe = q /\ Epa(w) % Stripe = r
  BY <1>1, Sizes, DivUnique
<1>4. Epa(w) \in Nat
  BY <1>1, <1>2, Sizes
<1> QED BY <1>3, <1>4 DEF q, r

(* default_npa_to_eva_dram undoes default_eva_to_npa_dram.                   *)
THEOREM RoundTrip == \A w \in Nat : NpaToEva(Home(w)) = w
<1> SUFFICES ASSUME NEW w \in Nat PROVE NpaToEva(Home(w)) = w
  OBVIOUS
<1>1. NpaToEva(Home(w))
        = (w % Stripe) + Stripe * (Column(w) + ColSpan * (South(w) + 2 * (Row(w) \div 2)))
  BY EpaParts DEF NpaToEva, Home
<1>2. South(w) + 2 * (Row(w) \div 2) = Row(w)
  BY SouthParts, RowParts
<1>3. Column(w) + ColSpan * Row(w) = Block(w)
  <2>1. ColSpan * Row(w) \in Nat
    BY Sizes, RowParts, TimesNat
  <2> QED BY <2>1, RowParts, Sizes
<1>4. (w % Stripe) + Stripe * Block(w) = w
  <2> DEFINE p == Stripe * Block(w)
             r == w % Stripe
  <2>1. p \in Nat /\ r \in Nat /\ w = p + r
    BY Sizes, BlockParts, TimesNat
  <2>2. r + p = w
    <3> HIDE DEF p, r
    <3> QED BY <2>1
  <2> QED BY <2>2
<1> QED BY <1>1, <1>2, <1>3, <1>4

(* ... and the other way round, for every word behind the caches of the pod. *)
THEOREM NpaRoundTrip ==
  ASSUME NEW c \in 0 .. ColSpan - 1, NEW y \in {0, 1}, NEW e \in Nat
  PROVE  /\ NpaToEva(<<<<c, y>>, e>>) \in Nat
         /\ Home(NpaToEva(<<<<c, y>>, e>>)) = <<<<c, y>>, e>>
<1> DEFINE l == e \div Stripe
           r == e % Stripe
           row == 2 * l + y
           q == ColSpan * row + c
           w == NpaToEva(<<<<c, y>>, e>>)
<1>1. l \in Nat /\ r \in 0 .. Stripe - 1 /\ e = Stripe * l + r
  BY Sizes, DivMod
<1>2. row \in Nat /\ row \div 2 = l /\ row % 2 = y
  <2> HIDE DEF l
  <2> QED BY <1>1
<1>3. q \in Nat /\ q \div ColSpan = row /\ q % ColSpan = c
  <2> HIDE DEF row
  <2>1. ColSpan * row \in Nat
    BY <1>2, Sizes, TimesNat
  <2> QED BY <1>2, <2>1, Sizes, DivUnique
<1>4. w = Stripe * q + r /\ w \in Nat
  <2>1. w = r + Stripe * (c + ColSpan * (y + 2 * l))
    BY DEF NpaToEva
  <2>2. y + 2 * l = row
    <3> HIDE DEF l
    <3> QED BY <1>1
  <2>3. c + ColSpan * row = q
    <3>1. ColSpan * row \in Nat
      BY <1>2, Sizes, TimesNat
    <3> HIDE DEF row
    <3> QED BY <3>1
  <2>4. Stripe * q \in Nat
    BY <1>3, Sizes, TimesNat
  <2>5. w = r + Stripe * q
    BY <2>1, <2>2, <2>3
  <2> HIDE DEF q, w, r
  <2> QED BY <2>4, <2>5, <1>1, Sizes
<1>5. w \div Stripe = q /\ w % Stripe = r
  <2> HIDE DEF q, w, r
  <2> QED BY <1>1, <1>3, <1>4, Sizes, DivUnique
<1>6. Block(w) = q /\ Row(w) = row /\ Column(w) = c /\ South(w) = y
  BY <1>5, <1>3, <1>2 DEF Block, Row, Column, South
<1>7. Epa(w) = Stripe * l + r
  BY <1>6, <1>5, <1>2 DEF Epa
<1> HIDE DEF l, r, row, q, w
<1>8. Home(w) = <<<<c, y>>, e>>
  BY <1>1, <1>6, <1>7 DEF Home
<1> QED BY <1>4, <1>8 DEF w

(* Two words of an EVA range never share a place in DRAM.                    *)
THEOREM HomeInjective ==
  \A v, w \in Nat : Home(v) = Home(w) => v = w
BY RoundTrip

(* The words that Room promises follow on the same cache at consecutive      *)
(* addresses, and when the first of them is valid they all are: translating  *)
(* the start of each segment is enough.                                      *)
THEOREM SegmentContiguous ==
  ASSUME NEW w \in Nat, NEW i \in 0 .. Room(w) - 1
  PROVE  /\ Home(w + i) = <<<<Column(w), South(w)>>, Epa(w) + i>>
         /\ ValidEva(w) => ValidEva(w + i)
<1> DEFINE r == w % Stripe
           q == Block(w)
           h == Row(w) \div 2
           k == MaxEpa \div Stripe
<1>1. /\ q \in Nat /\ r \in 0 .. Stripe - 1 /\ w = Stripe * q + r
      /\ r + i \in 0 .. Stripe - 1 /\ i \in Nat
  <2>1. q \in Nat /\ r \in 0 .. Stripe - 1 /\ w = Stripe * q + r
    BY BlockParts
  <2>2. i \in 0 .. Stripe - r - 1
    BY DEF Room
  <2>3. r + i \in 0 .. Stripe - 1 /\ i \in Nat
    <3> HIDE DEF r
    <3> QED BY <2>1, <2>2, Sizes
  <2> QED BY <2>1, <2>3
<1>2. w + i = Stripe * q + (r + i)
  <2>1. Stripe * q \in Nat
    BY <1>1, Sizes, TimesNat
  <2> HIDE DEF q, r
  <2> QED BY <2>1, <1>1
<1>3. Block(w + i) = q /\ (w + i) % Stripe = r + i
  <2>1. (Stripe * q + (r + i)) \div Stripe = q /\ (Stripe * q + (r + i)) % Stripe = r + i
    <3> HIDE DEF q, r
    <3> QED BY <1>1, Sizes, DivUnique
  <2> QED BY <2>1, <1>2 DEF Block
<1>4. Column(w + i) = Column(w) /\ Row(w + i) = Row(w) /\ South(w + i) = South(w)
  BY <1>3 DEF Column, Row, South
<1>5. h \in Nat /\ Stripe * h \in Nat /\ Epa(w) = Stripe * h + r
  BY BlockParts, SouthParts, Sizes, TimesNat DEF Epa
<1>6. Epa(w + i) = Epa(w) + i
  <2>1. Epa(w + i) = Stripe * h + (r + i)
    BY <1>3, <1>4 DEF Epa
  <2> HIDE DEF q, r, h
  <2> QED BY <2>1, <1>5, <1>1
<1>7. ASSUME Epa(w) < MaxEpa
      PROVE  Epa(w + i) < MaxEpa
  <2>1. k \in Nat /\ MaxEpa = Stripe * k
    BY DramAssumption, DivMod, Sizes
  <2> HIDE DEF q, r, h, k
  <2>2. Stripe * h < Stripe * k
    BY <2>1, <1>7, <1>5, <1>1, Sizes
  <2>3. h + 1 <= k
    BY <2>1, <2>2, <1>5, Sizes
  <2>4. Stripe * h + Stripe <= Stripe * k
    BY <2>1, <2>3, <1>5, Sizes
  <2>5. Epa(w + i) = Stripe * h + (r + i)
    BY <1>6, <1>5, <1>1
  <2> QED BY <2>1, <2>4, <2>5, <1>1, <1>5, Sizes
<1> QED BY <1>4, <1>6, <1>7 DEF Home, ValidEva
=============================================================================

------------------------- MODULE DeviceCopiesProofs -------------------------
(***************************************************************************)
(* Copies are coherent for every shape of caches and DRAM, every sequence  *)
(* of calls and every order in which the caches serve what is under way.   *)
(***************************************************************************)
EXTENDS DeviceCopies, DramMapProofs

-----------------------------------------------------------------------------
(* Addresses. *)

LEMMA AddressParts ==
  ASSUME NEW a \in Npas
  PROVE  /\ a = <<a[1], a[2]>> /\ a[1] \in Caches
         /\ a[2] \in 0 .. MaxEpa - 1 /\ a[2] \in Nat
BY Sizes DEF Npas

(* EVAs are the words that the map translates, each to a place of its own.   *)
LEMMA EvaHome ==
  /\ Evas \subseteq Nat
  /\ \A w \in Evas : Home(w) \in Npas
  /\ \A v, w \in Evas : Home(v) = Home(w) => v = w
  /\ \A w \in Nat : ValidEva(w) => w \in Evas
<1>1. ASSUME NEW a \in Npas
      PROVE  NpaToEva(a) \in Nat /\ Home(NpaToEva(a)) = a
  <2>1. PICK c \in 0 .. Cols - 1, y \in {0, 1}, e \in 0 .. MaxEpa - 1 : a = <<<<c, y>>, e>>
    BY DEF Npas, Caches
  <2>2. c \in 0 .. ColSpan - 1 /\ e \in Nat
    BY DramAssumption
  <2> QED BY <2>1, <2>2, NpaRoundTrip
<1>2. Evas \subseteq Nat /\ \A w \in Evas : Home(w) \in Npas
  BY <1>1 DEF Evas
<1>3. ASSUME NEW w \in Nat, ValidEva(w)
      PROVE  w \in Evas
  <2>1. Column(w) \in 0 .. Cols - 1 /\ South(w) \in {0, 1} /\ Epa(w) \in 0 .. MaxEpa - 1
    <3>1. Column(w) \in Nat /\ Column(w) < Cols /\ Epa(w) \in Nat /\ Epa(w) < MaxEpa
      BY <1>3, RowParts, EpaParts, Sizes DEF ValidEva
    <3> QED BY <3>1, SouthParts, Sizes, DramAssumption
  <2>2. Home(w) \in Npas
    BY <2>1 DEF Home, Npas, Caches
  <2> QED BY <2>2, RoundTrip DEF Evas
<1> QED BY <1>2, <1>3, HomeInjective

(* A line and an offset in it determine the address.                         *)
LEMMA LineParts ==
  ASSUME NEW a \in Npas
  PROVE  /\ Line(a) \in Nat /\ Offset(a) \in 0 .. LineWords - 1
         /\ a = <<a[1], Line(a) * LineWords + Offset(a)>>
         /\ \A i \in 0 .. LineWords - 1 : <<a[1], Line(a) * LineWords + i>> \in Npas
<1> DEFINE e == a[2]
           l == e \div LineWords
           o == e % LineWords
           k == MaxEpa \div LineWords
<1>1. a = <<a[1], e>> /\ a[1] \in Caches /\ e \in Nat /\ e < MaxEpa
  BY AddressParts, Sizes
<1>2. LineWords \in Nat /\ LineWords > 0
  BY CopiesAssumption
<1>3. l \in Nat /\ o \in 0 .. LineWords - 1 /\ e = LineWords * l + o
  <2> HIDE DEF e
  <2> QED BY <1>1, <1>2, DivMod
<1>4. k \in Nat /\ MaxEpa = LineWords * k
  BY CopiesAssumption, <1>2, Sizes, DivMod
<1>5. l * LineWords = LineWords * l /\ LineWords * l \in Nat
  <2> HIDE DEF l
  <2> QED BY <1>2, <1>3
<1>6. LineWords * l + LineWords <= MaxEpa
  <2> HIDE DEF l, k, e, o
  <2>1. LineWords * l < LineWords * k
    BY <1>1, <1>2, <1>3, <1>4, <1>5
  <2>2. l + 1 <= k
    BY <2>1, <1>2, <1>3, <1>4
  <2>3. LineWords * l + LineWords <= LineWords * k
    BY <2>2, <1>2, <1>3, <1>4
  <2> QED BY <2>3, <1>4
<1>7. \A i \in 0 .. LineWords - 1 : l * LineWords + i \in 0 .. MaxEpa - 1
  <2> HIDE DEF l, k, e, o
  <2> QED BY <1>5, <1>6, <1>2, Sizes
<1>8. a = <<a[1], l * LineWords + o>>
  <2>1. e = l * LineWords + o
    BY <1>3, <1>5
  <2> QED BY <2>1, <1>1
<1> QED BY <1>1, <1>3, <1>7, <1>8 DEF Line, Offset, Npas

LEMMA SameAddress ==
  ASSUME NEW a \in Npas, NEW b \in Npas,
         a[1] = b[1], Line(a) = Line(b), Offset(a) = Offset(b)
  PROVE  a = b
BY LineParts

LEMMA SlotParts ==
  \A s \in Slots : s[1] \in Caches
BY DEF Slots

-----------------------------------------------------------------------------
(* The caches. *)

MemType ==
  /\ tag \in [Slots -> Nat \cup {NoLine}]
  /\ block \in [Slots -> [0 .. LineWords - 1 -> Vals]]
  /\ dram \in [Npas -> Vals] /\ latest \in [Evas -> Vals]
  /\ dirty \subseteq Slots /\ inv \subseteq Slots /\ torn \subseteq Evas

(* Lines that need not be written back agree with the DRAM.                  *)
Clean ==
  \A s \in Slots \ (dirty \cup inv) : \A w \in Evas \ torn :
    InSlot(s, Home(w)) => block[s][Offset(Home(w))] = dram[Home(w)]

MemInv == MemType /\ LinesPlaced /\ Coherent /\ Clean /\ InvalidationLosesNothing

(* What Coherent says of a word, without the existential.                    *)
LEMMA CoherentWord ==
  ASSUME MemType, LinesPlaced, Coherent, NEW w \in Evas \ torn
  PROVE  /\ \A s \in Slots \ inv : InSlot(s, Home(w)) => block[s][Offset(Home(w))] = latest[w]
         /\ (\A s \in Slots \ inv : ~InSlot(s, Home(w))) => dram[Home(w)] = latest[w]
<1> DEFINE a == Home(w)
<1>1. a \in Npas
  BY EvaHome
<1>2. ASSUME NEW s \in Slots, NEW t \in Slots, InSlot(s, a), InSlot(t, a)
      PROVE  s = t
  <2>1. s[1] = t[1] /\ tag[s] = tag[t] /\ tag[t] \in Nat
    BY <1>1, <1>2, LineParts DEF InSlot
  <2>2. tag[t] # NoLine
    BY <2>1 DEF NoLine
  <2> QED BY <2>1, <2>2 DEF LinesPlaced
<1>3. \/ \E s \in Slots \ inv : InSlot(s, a) /\ block[s][Offset(a)] = latest[w]
      \/ (\A s \in Slots \ inv : ~InSlot(s, a)) /\ dram[a] = latest[w]
  BY DEF Coherent
<1> QED BY <1>2, <1>3

(* The slot that takes a line is in the line's set, and no other has it.     *)
LEMMA TakesParts ==
  ASSUME MemType, LinesPlaced, NEW a \in Npas, NEW s \in Slots, Takes(s, a)
  PROVE  /\ s[1] = a[1] /\ s[2] = Line(a) % Sets
         /\ \A t \in Slots : InSlot(t, a) => t = s
<1>1. s[1] = a[1] /\ s[2] = Line(a) % Sets
  BY DEF Takes, SlotsFor
<1>2. ASSUME NEW t \in Slots, InSlot(t, a)
      PROVE  t = s
  <2>1. t[1] = a[1] /\ tag[t] = Line(a) /\ Line(a) \in Nat
    BY <1>2, LineParts DEF InSlot
  <2>2. tag[t] # NoLine
    BY <2>1 DEF NoLine
  <2>3. t[2] = Line(a) % Sets
    BY <2>1, <2>2 DEF LinesPlaced
  <2>4. t \in SlotsFor(a)
    BY <2>1, <2>3 DEF SlotsFor
  <2>5. InSlot(s, a)
    BY <2>4, <1>2 DEF Takes
  <2>6. tag[s] = tag[t] /\ s[1] = t[1]
    BY <2>5, <2>1 DEF InSlot
  <2> QED BY <2>6, <2>2 DEF LinesPlaced
<1> QED BY <1>1, <1>2

(* The line in s after it took a, and the DRAM after it gave up another.     *)
LEMMA FilledParts ==
  ASSUME MemType, NEW a \in Npas, NEW s \in Slots
  PROVE  /\ Filled(s, a) \in [0 .. LineWords - 1 -> Vals]
         /\ WrittenBack(s) \in [Npas -> Vals]
         /\ ~InSlot(s, a) => \A b \in Npas : b[1] = a[1] /\ Line(b) = Line(a)
                                             => Filled(s, a)[Offset(b)] = dram[b]
         /\ \A b \in Npas : ~InSlot(s, b) => WrittenBack(s)[b] = dram[b]
         /\ \A b \in Npas : InSlot(s, b) /\ s \in dirty => WrittenBack(s)[b] = block[s][Offset(b)]
         /\ s \notin dirty => WrittenBack(s) = dram
<1>1. Filled(s, a) \in [0 .. LineWords - 1 -> Vals]
  <2>1. \A i \in 0 .. LineWords - 1 : dram[<<a[1], Line(a) * LineWords + i>>] \in Vals
    BY LineParts DEF MemType
  <2> QED BY <2>1 DEF Filled, MemType
<1>2. ASSUME NEW b \in Npas, b[1] = a[1], Line(b) = Line(a), ~InSlot(s, a)
      PROVE  Filled(s, a)[Offset(b)] = dram[b]
  <2>1. b = <<a[1], Line(a) * LineWords + Offset(b)>> /\ Offset(b) \in 0 .. LineWords - 1
    BY <1>2, LineParts
  <2> QED BY <2>1, <1>2 DEF Filled
<1>3. WrittenBack(s) \in [Npas -> Vals]
  <2>1. \A b \in Npas : block[s][Offset(b)] \in Vals
    BY LineParts DEF MemType
  <2> QED BY <2>1 DEF WrittenBack, MemType
<1> QED BY <1>1, <1>2, <1>3 DEF WrittenBack

(* A load or a store of a through s: U are the words that are overwritten, B *)
(* the words of the line afterwards.                                         *)
Access(s, a, U, B) ==
  /\ Takes(s, a)
  /\ \A u \in U : Home(u) = a /\ B[Offset(a)] = latest'[u]
  /\ \A b \in Npas : (\A u \in U : Home(u) # b) /\ b[1] = a[1] /\ Line(b) = Line(a)
                     => B[Offset(b)] = Filled(s, a)[Offset(b)]
  /\ tag' = [tag EXCEPT ![s] = Line(a)]
  /\ block' = [block EXCEPT ![s] = B]
  /\ \/ dirty' = dirty \cup {s}
     \/ U = {} /\ dirty' = IF InSlot(s, a) THEN dirty ELSE dirty \ {s}
  /\ dram' = IF InSlot(s, a) THEN dram ELSE WrittenBack(s)
  /\ inv' = inv /\ torn' = torn \ U
  /\ latest' \in [Evas -> Vals] /\ \A w \in Evas \ U : latest'[w] = latest[w]

(* It keeps all other words as coherent as they were.                        *)
LEMMA AccessKeeps ==
  ASSUME MemInv, NEW s \in Slots, NEW a \in Npas, s \notin inv,
         NEW U \in SUBSET Evas, NEW B \in [0 .. LineWords - 1 -> Vals],
         Access(s, a, U, B)
  PROVE  MemInv'
<1> USE DEF Access
<1> USE DEF MemInv
<1>1. /\ s[1] = a[1] /\ s[2] = Line(a) % Sets
      /\ \A t \in Slots : InSlot(t, a) => t = s
  BY TakesParts
<1>2. Line(a) \in Nat /\ Line(a) # NoLine
  BY LineParts DEF NoLine
<1>3. MemType'
  BY <1>2, FilledParts DEF MemType
<1>4. LinesPlaced'
  <2> SUFFICES ASSUME NEW t \in Slots, tag'[t] # NoLine
               PROVE  /\ t[2] = tag'[t] % Sets
                      /\ \A r \in Slots : r[1] = t[1] /\ tag'[r] = tag'[t] => r = t
    BY DEF LinesPlaced
  <2>1. tag'[s] = Line(a) /\ \A r \in Slots : r # s => tag'[r] = tag[r]
    BY DEF MemType
  <2>2. \A r \in Slots : r # s /\ r[1] = s[1] => tag[r] # Line(a)
    BY <1>1 DEF InSlot
  <2>3. CASE t = s
    BY <2>1, <2>2, <2>3, <1>1
  <2>4. CASE t # s
    BY <2>1, <2>2, <2>4, <1>1 DEF LinesPlaced
  <2> QED BY <2>3, <2>4
(* Where another word is now: in its old slot, in s, or written back.        *)
<1>5. ASSUME NEW w \in Evas, NEW t \in Slots, t # s
      PROVE  /\ InSlot(t, Home(w))' <=> InSlot(t, Home(w))
             /\ block'[t] = block[t] /\ t \in dirty' <=> t \in dirty
             /\ InSlot(t, Home(w)) => dram'[Home(w)] = dram[Home(w)]
  <2>1. Home(w) \in Npas
    BY EvaHome
  <2>2. InSlot(t, Home(w))' <=> InSlot(t, Home(w))
    BY <1>5 DEF InSlot, MemType
  <2>3. ASSUME InSlot(t, Home(w))
        PROVE  dram'[Home(w)] = dram[Home(w)]
    <3>1. ~InSlot(s, Home(w))
      <4>1. tag[t] = Line(Home(w)) /\ t[1] = Home(w)[1] /\ tag[t] # NoLine
        BY <2>3, <2>1, LineParts DEF InSlot, NoLine
      <4> QED BY <4>1, <1>5 DEF InSlot, LinesPlaced
    <3> QED BY <3>1, <2>1, FilledParts
  <2> QED BY <2>2, <2>3, <1>5 DEF MemType
<1>6. ASSUME NEW w \in Evas \ torn', w \notin U, InSlot(s, Home(w))'
      PROVE  /\ block'[s][Offset(Home(w))] = latest'[w]
             /\ s \notin dirty' => block'[s][Offset(Home(w))] = dram'[Home(w)]
  <2> DEFINE b == Home(w)
  <2>1. b \in Npas /\ w \in Evas \ torn /\ latest'[w] = latest[w]
    BY <1>6, EvaHome
  <2>2. b[1] = a[1] /\ Line(b) = Line(a)
    BY <1>6, <1>1 DEF InSlot, MemType
  <2>3. \A u \in U : Home(u) # b
    BY <1>6, EvaHome
  <2>4. block'[s][Offset(b)] = Filled(s, a)[Offset(b)]
    BY <2>1, <2>2, <2>3 DEF MemType
  <2>5. \A t \in Slots : InSlot(t, b) <=> InSlot(t, a)
    BY <2>2 DEF InSlot
  <2>6. CASE InSlot(s, a)
    <3>1. Filled(s, a) = block[s] /\ dram' = dram
      BY <2>6 DEF Filled
    <3>2. block[s][Offset(b)] = latest[w]
      BY <2>1, <2>5, <2>6, CoherentWord
    <3>3. s \notin dirty' => s \notin dirty
      BY <2>6
    <3>4. s \notin dirty => block[s][Offset(b)] = dram[b]
      BY <2>1, <2>5, <2>6 DEF Clean
    <3> QED BY <3>1, <3>2, <3>3, <3>4, <2>1, <2>4
  <2>7. CASE ~InSlot(s, a)
    <3>1. Filled(s, a)[Offset(b)] = dram[b] /\ dram'[b] = dram[b]
      BY <2>1, <2>2, <2>5, <2>7, FilledParts
    <3>2. dram[b] = latest[w]
      <4>1. \A t \in Slots : ~InSlot(t, b)
        BY <1>1, <2>5, <2>7
      <4> QED BY <4>1, <2>1, CoherentWord
    <3> QED BY <3>1, <3>2, <2>1, <2>4
  <2> QED BY <2>6, <2>7
<1>7. ASSUME NEW w \in Evas \ torn', w \notin U, \A t \in Slots \ inv' : ~InSlot(t, Home(w))'
      PROVE  dram'[Home(w)] = latest'[w]
  <2> DEFINE b == Home(w)
  <2>1. b \in Npas /\ w \in Evas \ torn /\ latest'[w] = latest[w]
    BY <1>7, EvaHome
  <2>2. ASSUME NEW t \in Slots \ inv, t # s
        PROVE  ~InSlot(t, b)
    BY <2>2, <1>5, <1>7
  <2>3. CASE InSlot(s, b)
    <3>1. ~InSlot(s, a)
      BY <2>3, <1>7 DEF InSlot, MemType
    <3>2. block[s][Offset(b)] = latest[w]
      BY <2>1, <2>3, CoherentWord
    <3>3. CASE s \in dirty
      BY <3>1, <3>2, <3>3, <2>1, <2>3, FilledParts
    <3>4. CASE s \notin dirty
      <4>1. block[s][Offset(b)] = dram[b]
        BY <3>4, <2>1, <2>3 DEF Clean
      <4> QED BY <3>1, <3>2, <3>4, <4>1, <2>1, FilledParts
    <3> QED BY <3>3, <3>4
  <2>4. CASE ~InSlot(s, b)
    <3>1. dram[b] = latest[w]
      BY <2>1, <2>2, <2>4, CoherentWord
    <3> QED BY <3>1, <2>1, <2>4, FilledParts
  <2> QED BY <2>3, <2>4
<1>8. Coherent'
  <2> SUFFICES ASSUME NEW w \in Evas \ torn'
               PROVE  \/ \E t \in Slots \ inv' : InSlot(t, Home(w))' /\ block'[t][Offset(Home(w))] = latest'[w]
                      \/ (\A t \in Slots \ inv' : ~InSlot(t, Home(w))') /\ dram'[Home(w)] = latest'[w]
    BY DEF Coherent
  <2>1. CASE w \in U
    BY <2>1, <1>1 DEF InSlot, MemType
  <2>2. CASE w \notin U /\ InSlot(s, Home(w))'
    BY <2>2, <1>6
  <2>3. CASE w \notin U /\ \E t \in Slots \ inv' : t # s /\ InSlot(t, Home(w))'
    <3>1. PICK t \in Slots \ inv : t # s /\ InSlot(t, Home(w))'
      BY <2>3
    <3>2. InSlot(t, Home(w)) /\ block'[t] = block[t] /\ w \in Evas \ torn /\ latest'[w] = latest[w]
      BY <3>1, <2>3, <1>5
    <3>3. block[t][Offset(Home(w))] = latest[w]
      BY <3>1, <3>2, CoherentWord
    <3> QED BY <3>1, <3>2, <3>3
  <2>4. CASE w \notin U /\ \A t \in Slots \ inv' : ~InSlot(t, Home(w))'
    BY <2>4, <1>7
  <2> QED BY <2>1, <2>2, <2>3, <2>4
<1>9. Clean'
  <2> SUFFICES ASSUME NEW t \in Slots \ (dirty' \cup inv'), NEW w \in Evas \ torn',
                      InSlot(t, Home(w))'
               PROVE  block'[t][Offset(Home(w))] = dram'[Home(w)]
    BY DEF Clean
  <2>1. CASE t = s
    <3>1. U = {}
      BY <2>1
    <3> QED BY <2>1, <3>1, <1>6
  <2>2. CASE t # s
    <3>1. /\ InSlot(t, Home(w)) /\ block'[t] = block[t] /\ t \notin dirty
          /\ dram'[Home(w)] = dram[Home(w)]
      BY <2>2, <1>5
    <3>2. w \notin U
      <4>1. ASSUME w \in U PROVE FALSE
        <5>1. Home(w) = a
          BY <4>1
        <5>2. InSlot(t, a)
          BY <5>1, <3>1 DEF InSlot
        <5> QED BY <5>2, <1>1, <2>2
      <4> QED BY <4>1
    <3>3. w \in Evas \ torn /\ t \in Slots \ (dirty \cup inv)
      BY <3>1, <3>2
    <3>4. block[t][Offset(Home(w))] = dram[Home(w)]
      BY <3>1, <3>3 DEF Clean
    <3> QED BY <3>1, <3>4
  <2> QED BY <2>1, <2>2
<1>10. InvalidationLosesNothing'
  BY DEF InvalidationLosesNothing
<1> QED BY <1>3, <1>4, <1>8, <1>9, <1>10

LEMMA LoadKeeps ==
  ASSUME MemInv, NEW s \in Slots, NEW a \in Npas, s \notin inv, Load(s, a),
         UNCHANGED <<inv, latest, torn>>
  PROVE  MemInv' /\ dirty' \subseteq dirty
<1>1. Filled(s, a) \in [0 .. LineWords - 1 -> Vals]
  BY FilledParts DEF MemInv
<1>2. /\ torn' = torn \ {} /\ latest' \in [Evas -> Vals]
      /\ \A w \in Evas \ {} : latest'[w] = latest[w]
  BY DEF MemInv, MemType
<1> DEFINE B == Filled(s, a)
<1>3. /\ Takes(s, a) /\ tag' = [tag EXCEPT ![s] = Line(a)]
      /\ block' = [block EXCEPT ![s] = B]
      /\ dirty' = IF InSlot(s, a) THEN dirty ELSE dirty \ {s}
      /\ dram' = IF InSlot(s, a) THEN dram ELSE WrittenBack(s)
  BY DEF Load
<1>4. \A b \in Npas : B[Offset(b)] = Filled(s, a)[Offset(b)]
  OBVIOUS
<1>5. {} \in SUBSET Evas /\ B \in [0 .. LineWords - 1 -> Vals]
  BY <1>1
<1>6. dirty' \subseteq dirty
  BY <1>3
<1> HIDE DEF B
<1>7. Access(s, a, {}, B)
  BY <1>2, <1>3, <1>4 DEF Access
<1>8. MemInv'
  BY <1>5, <1>7, AccessKeeps
<1> QED BY <1>6, <1>8

LEMMA StoreKeeps ==
  ASSUME MemInv, NEW s \in Slots, NEW w \in Evas, NEW v \in Vals, s \notin inv,
         Store(s, Home(w), v), inv' = inv,
         latest' = [latest EXCEPT ![w] = v], torn' = torn \ {w}
  PROVE  MemInv'
<1> DEFINE a == Home(w)
           B == [Filled(s, a) EXCEPT ![Offset(a)] = v]
<1>1. a \in Npas /\ Offset(a) \in 0 .. LineWords - 1
  BY EvaHome, LineParts
<1>2. Filled(s, a) \in [0 .. LineWords - 1 -> Vals]
  BY <1>1, FilledParts DEF MemInv
<1>3. B \in [0 .. LineWords - 1 -> Vals] /\ B[Offset(a)] = v
  BY <1>1, <1>2
<1>4. /\ latest' \in [Evas -> Vals] /\ latest'[w] = v
      /\ \A u \in Evas \ {w} : latest'[u] = latest[u]
  BY DEF MemInv, MemType
<1>5. ASSUME NEW b \in Npas, b # a, b[1] = a[1], Line(b) = Line(a)
      PROVE  B[Offset(b)] = Filled(s, a)[Offset(b)]
  <2>1. Offset(b) # Offset(a) /\ Offset(b) \in 0 .. LineWords - 1
    BY <1>1, <1>5, SameAddress, LineParts
  <2> QED BY <1>1, <1>2, <2>1
<1> HIDE DEF a, B
<1>6. /\ Takes(s, a) /\ tag' = [tag EXCEPT ![s] = Line(a)]
      /\ block' = [block EXCEPT ![s] = B] /\ dirty' = dirty \cup {s}
      /\ dram' = IF InSlot(s, a) THEN dram ELSE WrittenBack(s)
  BY DEF Store, a, B
<1>7. (\A u \in {w} : Home(u) = a) /\ \A u \in {w} : B[Offset(a)] = latest'[u]
  BY <1>3, <1>4 DEF a
<1>8. \A b \in Npas : (\A u \in {w} : Home(u) # b) /\ b[1] = a[1] /\ Line(b) = Line(a)
                      => B[Offset(b)] = Filled(s, a)[Offset(b)]
  BY <1>5 DEF a
<1>9. {w} \in SUBSET Evas
  OBVIOUS
<1>10. Access(s, a, {w}, B)
  BY <1>4, <1>6, <1>7, <1>8 DEF Access
<1> QED BY <1>1, <1>3, <1>9, <1>10, AccessKeeps

(* What a load returns.                                                      *)
LEMMA LoadReturns ==
  ASSUME MemInv, NEW s \in Slots, NEW w \in Evas, s \notin inv, Takes(s, Home(w))
  PROVE  /\ Filled(s, Home(w))[Offset(Home(w))] \in Vals
         /\ w \notin torn => Filled(s, Home(w))[Offset(Home(w))] = latest[w]
<1> DEFINE a == Home(w)
<1>1. a \in Npas /\ Offset(a) \in 0 .. LineWords - 1
  BY EvaHome, LineParts
<1>2. Filled(s, a)[Offset(a)] \in Vals
  BY <1>1, FilledParts DEF MemInv
<1>3. ASSUME w \notin torn
      PROVE  Filled(s, a)[Offset(a)] = latest[w]
  <2>1. CASE InSlot(s, a)
    BY <2>1, <1>3, CoherentWord DEF MemInv, Filled
  <2>2. CASE ~InSlot(s, a)
    <3>1. \A t \in Slots : ~InSlot(t, a)
      BY <2>2, <1>1, TakesParts DEF MemInv
    <3>2. dram[a] = latest[w]
      BY <3>1, <1>3, CoherentWord DEF MemInv
    <3> QED BY <3>2, <2>2, <1>1, FilledParts DEF MemInv
  <2> QED BY <2>1, <2>2
<1> QED BY <1>2, <1>3

LEMMA InvalidateKeeps ==
  ASSUME MemInv, NEW s \in Slots, ServeInvalidate(s)
  PROVE  MemInv' /\ dirty' = dirty
<1> USE DEF MemInv
<1>1. /\ s \in inv /\ s \notin dirty /\ inv' = inv \ {s} /\ dirty' = dirty
      /\ dram' = dram /\ latest' = latest /\ torn' = torn
  BY DEF ServeInvalidate, InvalidationLosesNothing
<1>2. MemType'
  <2>1. NoWord \in Vals
    BY CopiesAssumption DEF NoWord
  <2> QED BY <1>1, <2>1 DEF MemType, ServeInvalidate
<1>3. \A t \in Slots : t # s => tag'[t] = tag[t] /\ block'[t] = block[t]
  BY DEF ServeInvalidate, MemType
<1>4. tag'[s] = NoLine
  BY DEF ServeInvalidate, MemType
<1>5. LinesPlaced'
  BY <1>3, <1>4 DEF LinesPlaced
<1>6. \A w \in Evas : ~InSlot(s, Home(w))'
  BY <1>4, EvaHome, LineParts DEF InSlot, NoLine
<1>7. \A w \in Evas, t \in Slots : t # s => (InSlot(t, Home(w))' <=> InSlot(t, Home(w)))
  BY <1>3 DEF InSlot
<1>8. Coherent'
  BY <1>1, <1>3, <1>6, <1>7 DEF Coherent
<1>9. Clean'
  BY <1>1, <1>3, <1>6, <1>7 DEF Clean
<1> QED BY <1>1, <1>2, <1>5, <1>8, <1>9 DEF InvalidationLosesNothing

LEMMA FlushKeeps ==
  ASSUME MemInv, NEW s \in Slots, ServeFlush(s)
  PROVE  MemInv' /\ dirty' = dirty \ {s}
<1> USE DEF MemInv
<1>1. /\ s \notin inv /\ inv' = inv /\ dirty' = dirty \ {s} /\ dram' = WrittenBack(s)
      /\ latest' = latest /\ torn' = torn /\ tag' = tag /\ block' = block
  BY DEF ServeFlush
<1>2. WrittenBack(s) \in [Npas -> Vals]
  <2>1. \A b \in Npas : block[s][Offset(b)] \in Vals
    BY LineParts DEF MemType
  <2> QED BY <2>1 DEF WrittenBack, MemType
<1>3. MemType' /\ LinesPlaced'
  BY <1>1, <1>2 DEF MemType, LinesPlaced
<1>4. \A w \in Evas, t \in Slots : InSlot(t, Home(w))' <=> InSlot(t, Home(w))
  BY <1>1 DEF InSlot
<1>5. ASSUME NEW w \in Evas, NEW t \in Slots, t # s, InSlot(t, Home(w))
      PROVE  ~InSlot(s, Home(w))
  <2>1. tag[t] = Line(Home(w)) /\ t[1] = Home(w)[1] /\ tag[t] # NoLine
    BY <1>5, EvaHome, LineParts DEF InSlot, NoLine
  <2> QED BY <2>1, <1>5 DEF InSlot, LinesPlaced
<1>6. \A w \in Evas : ~InSlot(s, Home(w)) => dram'[Home(w)] = dram[Home(w)]
  BY <1>1, EvaHome DEF WrittenBack, MemType
<1>7. ASSUME NEW w \in Evas \ torn, InSlot(s, Home(w))
      PROVE  dram'[Home(w)] = block[s][Offset(Home(w))]
  <2>1. CASE s \in dirty
    BY <2>1, <1>1, <1>7, EvaHome DEF WrittenBack
  <2>2. CASE s \notin dirty
    BY <2>2, <1>1, <1>7 DEF WrittenBack, Clean
  <2> QED BY <2>1, <2>2
<1>8. Coherent'
  <2> SUFFICES ASSUME NEW w \in Evas \ torn
               PROVE  \/ \E t \in Slots \ inv : InSlot(t, Home(w)) /\ block[t][Offset(Home(w))] = latest[w]
                      \/ (\A t \in Slots \ inv : ~InSlot(t, Home(w))) /\ dram'[Home(w)] = latest[w]
    BY <1>1, <1>4 DEF Coherent
  <2> QED BY <1>1, <1>6 DEF Coherent
<1>9. Clean'
  <2> SUFFICES ASSUME NEW t \in Slots \ (dirty' \cup inv), NEW w \in Evas \ torn, InSlot(t, Home(w))
               PROVE  block[t][Offset(Home(w))] = dram'[Home(w)]
    BY <1>1, <1>4 DEF Clean
  <2>1. CASE t = s
    BY <2>1, <1>7
  <2>2. CASE t # s
    BY <2>2, <1>1, <1>5, <1>6 DEF Clean
  <2> QED BY <2>1, <2>2
<1> QED BY <1>1, <1>3, <1>8, <1>9 DEF InvalidationLosesNothing

-----------------------------------------------------------------------------
(* The host. *)

Dma == {"dma_in", "dma_out"}

(* Where the host is, by kind of call.                                       *)
Control ==
  /\ CopiesTypeOK
  /\ call.kind \notin {"launch", "none"} => job \in DOMAIN call.jobs
  /\ pc # "xfer" => left = 0
  /\ pc = "flush" => call.kind \in Dma /\ job = 1 /\ moved = 0
  /\ pc \in {"head", "xfer"} => call.kind \notin {"launch", "none"}
  /\ pc = "fence" => call.kind = "memcpy_in"
  /\ pc \in {"launch", "kernel"} => call.kind = "launch"
  /\ pc = "kernel" => inv = {} /\ fl = {}

(* The rest of a segment is next to where the host is, on the same cache.    *)
InTransfer ==
  pc = "xfer" =>
    /\ left > 0 /\ npa \in Npas
    /\ \A k \in 0 .. left - 1 :
         LET w == Job.eva + moved + k
         IN ValidEva(w) /\ Home(w) = <<npa[1], npa[2] + k>>

(* The caches that have been read from have written everything back.         *)
Flushing ==
  pc = "flush" =>
    /\ dirty \subseteq fl
    /\ \A c \in Caches \ rb : CaughtUp(c)

(* The words that the DMA in progress has sent.                              *)
Sent == {w \in Evas : \E j \in DOMAIN call.jobs :
           \/ j < job /\ w - call.jobs[j].eva \in 0 .. call.jobs[j].n - 1
           \/ j = job /\ w - call.jobs[j].eva \in 0 .. moved - 1}

SentArrived ==
  call.kind = "dma_in" /\ pc \in {"head", "xfer"} =>
    \A w \in Sent : dram[Home(w)] = latest[w]

DataRead ==
  IF call.kind \in {"memcpy_out", "dma_out"} THEN Len(data) = moved ELSE data = <<>>

IInv ==
  /\ MemInv /\ Control /\ InTransfer /\ Flushing /\ FlushedForDma
  /\ SentArrived /\ DataRead /\ ReadsReturnLatest

LEMMA JobParts ==
  ASSUME IInv, call.kind \notin {"launch", "none"}
  PROVE  /\ job \in DOMAIN call.jobs /\ job \in Nat /\ call \in Calls
         /\ call.jobs \in Seq({call.jobs[j] : j \in DOMAIN call.jobs})
         /\ DOMAIN call.jobs = 1 .. Len(call.jobs) /\ Len(call.jobs) \in Nat
         /\ \A j \in DOMAIN call.jobs : call.jobs[j].eva \in Nat /\ call.jobs[j].n \in Nat
         /\ Job.n \in Nat /\ Job.eva \in Nat
         /\ moved \in Nat /\ left \in Nat /\ moved + left <= Job.n
         /\ call.kind \in {"memcpy_in", "dma_in"} => Job.vals \in [1 .. Job.n -> Vals]
<1>1. job \in DOMAIN call.jobs /\ call \in Calls
  BY DEF IInv, Control, CopiesTypeOK, NoCall
<1>2. /\ call.jobs \in Seq({call.jobs[j] : j \in DOMAIN call.jobs})
      /\ \A j \in DOMAIN call.jobs : call.jobs[j].eva \in Nat /\ call.jobs[j].n \in Nat
      /\ call.kind \in {"memcpy_in", "dma_in"} =>
           \A j \in DOMAIN call.jobs : call.jobs[j].vals \in [1 .. call.jobs[j].n -> Vals]
  BY <1>1, CopiesAssumption
<1>3. DOMAIN call.jobs = 1 .. Len(call.jobs) /\ Len(call.jobs) \in Nat
  BY <1>2
<1>4. moved \in Nat /\ left \in Nat /\ job \in Nat /\ moved + left <= Job.n
  BY <1>1 DEF IInv, Control, CopiesTypeOK
<1> QED BY <1>1, <1>2, <1>3, <1>4 DEF Job

LEMMA MemStays ==
  ASSUME MemInv, UNCHANGED <<caches, dram, inv, latest, torn>>
  PROVE  MemInv'
BY DEF MemInv, MemType, LinesPlaced, Coherent, Clean, InvalidationLosesNothing, InSlot, caches

LEMMA CallStep ==
  ASSUME IInv, NEW c \in Calls, Call(c)
  PROVE  IInv'
<1>1. /\ pc = "idle" /\ call' = c /\ job' = 1 /\ moved' = 0 /\ data' = <<>>
      /\ left = 0 /\ left' = 0
      /\ UNCHANGED <<npa, caches, dram, inv, latest, torn>>
  BY DEF Call, IInv, Control
<1>2. MemInv'
  BY <1>1, MemStays DEF IInv
<1>3. /\ c.kind \in Kinds /\ c.jobs \in Seq({c.jobs[j] : j \in DOMAIN c.jobs})
      /\ c.kind # "launch" => c.jobs # <<>>
      /\ \A j \in DOMAIN c.jobs : c.jobs[j].n \in Nat
  BY CopiesAssumption
<1>4. c.kind # "launch" => 1 \in DOMAIN c.jobs
  BY <1>3
<1>5. \/ c.kind \in Dma /\ pc' = "flush" /\ fl' = Slots /\ rb' = Caches
      \/ c.kind \notin Dma /\ c.kind # "launch" /\ pc' = "head" /\ fl' = fl /\ rb' = rb
      \/ c.kind = "launch" /\ pc' = "launch" /\ fl' = fl /\ rb' = rb
  BY DEF Call, Flushes, Dma
<1>6. CopiesTypeOK'
  <2>1. job' \in DOMAIN call'.jobs => moved' + left' <= Job'.n
    BY <1>1, <1>3 DEF Job
  <2>2. pc' \in {"flush", "head", "launch"} /\ fl' \subseteq Slots /\ rb' \subseteq Caches
    BY <1>5 DEF IInv, Control, CopiesTypeOK
  <2> QED BY <1>1, <1>2, <2>1, <2>2 DEF CopiesTypeOK, MemInv, MemType
<1>7. Control'
  BY <1>1, <1>3, <1>4, <1>5, <1>6 DEF Control, Kinds, Dma
<1>8. InTransfer' /\ FlushedForDma'
  BY <1>1, <1>5 DEF InTransfer, FlushedForDma, Dma
<1>9. Flushing'
  BY <1>1, <1>2, <1>5 DEF Flushing, MemInv, MemType
<1>10. SentArrived' /\ DataRead' /\ ReadsReturnLatest'
  BY <1>1, <1>5 DEF SentArrived, DataRead, ReadsReturnLatest, Dma
<1> QED BY <1>2, <1>7, <1>8, <1>9, <1>10 DEF IInv

(* Actions of the host that touch nothing but where it is.                   *)
LEMMA ControlStep ==
  ASSUME IInv, Translate \/ TranslateFails \/ NextJob \/ Fence \/ Launch \/ KernelEnds
  PROVE  IInv'
<1>1. UNCHANGED <<call, caches, dram, pending, latest, torn>>
  BY DEF Translate, TranslateFails, NextJob, Fence, Launch, KernelEnds
<1>2. MemInv'
  BY <1>1, MemStays DEF IInv, pending
<1>3. CASE Translate
  <2> DEFINE w == Job.eva + moved
  <2>1. /\ pc = "head" /\ moved < Job.n /\ ValidEva(w)
        /\ npa' = Home(w) /\ left' = Segment(w) /\ pc' = "xfer"
        /\ UNCHANGED <<job, moved, data>>
    BY <1>3 DEF Translate
  <2>2. call.kind \notin {"launch", "none"}
    BY <2>1 DEF IInv, Control
  <2>3. Job.n \in Nat /\ Job.eva \in Nat /\ moved \in Nat /\ w \in Nat
    BY <2>2, JobParts
  <2>4. Room(w) \in Nat /\ Room(w) > 0
    <3>1. w % Stripe \in 0 .. Stripe - 1
      BY <2>3, BlockParts
    <3> QED BY <3>1, Sizes DEF Room
  <2>5. left' \in Nat /\ left' > 0 /\ left' <= Room(w) /\ moved + left' <= Job.n
    BY <2>1, <2>3, <2>4 DEF Segment
  <2>6. CopiesTypeOK'
    BY <1>1, <2>1, <2>5 DEF CopiesTypeOK, IInv, Control, Job, pending, caches
  <2>7. Control'
    BY <1>1, <2>1, <2>6 DEF Control, IInv
  <2>8. InTransfer'
    <3> SUFFICES ASSUME NEW k \in 0 .. left' - 1
                 PROVE  /\ ValidEva(Job.eva + moved + k)
                        /\ Home(Job.eva + moved + k) = <<npa'[1], npa'[2] + k>>
      <4>1. npa' \in Npas
        BY <2>1, <2>3, EvaHome
      <4> QED BY <1>1, <2>1, <2>5, <4>1 DEF InTransfer, Job
    <3> DEFINE r == Room(w)
               l == left'
    <3>1. k \in 0 .. r - 1
      <4>1. r \in Nat /\ l \in Nat /\ l <= r /\ k \in 0 .. l - 1
        BY <2>4, <2>5
      <4> HIDE DEF r, l
      <4> QED BY <4>1
    <3>2. /\ Home(w + k) = <<<<Column(w), South(w)>>, Epa(w) + k>> /\ ValidEva(w + k)
      BY <2>1, <2>3, <3>1, SegmentContiguous
    <3>3. npa' = <<<<Column(w), South(w)>>, Epa(w)>>
      BY <2>1 DEF Home
    <3> QED BY <3>2, <3>3
  <2>9. Flushing' /\ FlushedForDma' /\ SentArrived' /\ DataRead' /\ ReadsReturnLatest'
    BY <1>1, <2>1 DEF IInv, Flushing, FlushedForDma, SentArrived, Sent, DataRead,
                     ReadsReturnLatest, Job, pending, caches
  <2> QED BY <1>2, <2>7, <2>8, <2>9 DEF IInv
<1>4. CASE TranslateFails \/ Fence \/ Launch \/ KernelEnds
  <2>1. UNCHANGED <<job, moved, left, data>> /\ pc # "xfer" /\ pc' \in {"idle", "head", "kernel"}
    BY <1>4 DEF TranslateFails, Fence, Launch, KernelEnds
  <2>2. CopiesTypeOK'
    BY <1>1, <2>1 DEF CopiesTypeOK, IInv, Control, Job, pending, caches
  <2>3. /\ pc' = "head" => pc = "fence"
        /\ pc' = "kernel" => pc = "launch" /\ inv = {} /\ fl = {}
    BY <1>4 DEF TranslateFails, Fence, Launch, KernelEnds
  <2>4. Control'
    BY <1>1, <2>1, <2>2, <2>3 DEF Control, IInv, pending
  <2>5. InTransfer' /\ Flushing' /\ FlushedForDma' /\ SentArrived'
    BY <1>1, <2>1, <2>3 DEF IInv, Control, InTransfer, Flushing, FlushedForDma, SentArrived
  <2>6. DataRead' /\ ReadsReturnLatest'
    BY <1>1, <2>1 DEF IInv, DataRead, ReadsReturnLatest, Job
  <2> QED BY <1>2, <2>4, <2>5, <2>6 DEF IInv
<1>5. CASE NextJob
  <2>1. /\ pc = "head" /\ moved = Job.n /\ job < Len(call.jobs) /\ left = 0
        /\ job' = job + 1 /\ moved' = 0 /\ data' = <<>> /\ UNCHANGED <<pc, npa, left>>
    BY <1>5 DEF NextJob, IInv, Control
  <2>2. call.kind \notin {"launch", "none"}
    BY <2>1 DEF IInv, Control
  <2>3. job' \in DOMAIN call.jobs /\ call.jobs[job'].n \in Nat /\ job \in Nat /\ moved \in Nat
    BY <2>1, <2>2, JobParts
  <2>4. CopiesTypeOK'
    BY <1>1, <2>1, <2>3 DEF CopiesTypeOK, IInv, Control, Job, pending, caches
  <2>5. Control'
    BY <1>1, <2>1, <2>2, <2>3, <2>4 DEF Control, IInv
  <2>6. Sent' = Sent
    <3>1. \A j \in DOMAIN call.jobs : j \in Int
      BY <2>2, JobParts
    <3>2. Sent' = {w \in Evas : \E j \in DOMAIN call.jobs :
                     \/ j < job + 1 /\ w - call.jobs[j].eva \in 0 .. call.jobs[j].n - 1
                     \/ j = job + 1 /\ w - call.jobs[j].eva \in 0 .. -1}
      BY <1>1, <2>1 DEF Sent, Evas
    <3>3. \A j \in DOMAIN call.jobs : j < job + 1 <=> (j < job \/ j = job)
      BY <3>1, <2>3
    <3>4. \A j \in DOMAIN call.jobs : j = job => call.jobs[j].n = moved
      BY <2>1 DEF Job
    <3> QED BY <3>2, <3>3, <3>4 DEF Sent
  <2>7. InTransfer' /\ Flushing' /\ FlushedForDma' /\ SentArrived'
    BY <1>1, <2>1, <2>6 DEF IInv, InTransfer, Flushing, FlushedForDma, SentArrived,
                           pending, caches
  <2>8. DataRead' /\ ReadsReturnLatest'
    BY <2>1 DEF DataRead, ReadsReturnLatest
  <2> QED BY <1>2, <2>5, <2>7, <2>8 DEF IInv
<1> QED BY <1>3, <1>4, <1>5

(* The next word of a transfer.                                              *)
LEMMA NextWord ==
  ASSUME IInv, pc = "xfer"
  PROVE  /\ left \in Nat /\ left > 0 /\ moved \in Nat /\ moved < Job.n
         /\ Job.n \in Nat /\ Job.eva \in Nat
         /\ npa \in Npas /\ Job.eva + moved \in Evas /\ Home(Job.eva + moved) = npa
         /\ \A s \in Slots : CaughtUp(npa[1]) /\ Takes(s, npa) => s \notin inv
<1> DEFINE w == Job.eva + moved
<1>1. call.kind \notin {"launch", "none"}
  BY DEF IInv, Control
<1>2. /\ w \in Nat /\ left \in Nat /\ left > 0 /\ npa \in Npas
      /\ moved \in Nat /\ moved < Job.n /\ Job.n \in Nat /\ Job.eva \in Nat
  BY <1>1, JobParts DEF IInv, InTransfer
<1>3. ValidEva(w + 0) /\ Home(w + 0) = <<npa[1], npa[2] + 0>>
  BY <1>2 DEF IInv, InTransfer
<1>4. w + 0 = w /\ npa[2] + 0 = npa[2] /\ npa = <<npa[1], npa[2]>>
  BY <1>2, AddressParts
<1>5. w \in Evas /\ Home(w) = npa
  BY <1>2, <1>3, <1>4, EvaHome
<1> QED BY <1>2, <1>5 DEF CaughtUp, Takes, SlotsFor

LEMMA AdvanceStep ==
  ASSUME IInv, pc = "xfer", NEW next, Advance(next), UNCHANGED <<call, job>>
  PROVE  /\ moved' \in Nat /\ left' \in Nat /\ moved' + left' <= Job.n
         /\ moved' = moved + 1
         /\ pc' \in {"xfer", next} /\ (next # "xfer" => InTransfer')
         /\ next # "xfer" /\ pc' # "xfer" => left' = 0
<1>1. /\ npa' = <<npa[1], npa[2] + 1>> /\ left' = left - 1 /\ moved' = moved + 1
      /\ pc' = IF left = 1 THEN next ELSE "xfer"
  BY DEF Advance
<1>2. /\ left \in Nat /\ left > 0 /\ moved \in Nat /\ Job.n \in Nat /\ Job.eva \in Nat
      /\ npa \in Npas
  BY NextWord
<1>3. moved + left <= Job.n
  <2>1. call.kind \notin {"launch", "none"}
    BY DEF IInv, Control
  <2> QED BY <2>1, JobParts
<1>4. ASSUME next # "xfer", pc' = "xfer"
      PROVE  InTransfer'
  <2> DEFINE w(k) == Job.eva + moved + k
  <2>1. left > 1 /\ left' > 0
    BY <1>1, <1>2, <1>4
  <2>2. npa[2] \in Nat
    BY <1>2, AddressParts
  <2>3. ASSUME NEW k \in 0 .. left' - 1
        PROVE  /\ ValidEva(Job.eva + moved' + k)
               /\ Home(Job.eva + moved' + k) = <<npa'[1], npa'[2] + k>>
    <3>1. k + 1 \in 0 .. left - 1
      BY <1>1, <1>2
    <3>2. ValidEva(w(k + 1)) /\ Home(w(k + 1)) = <<npa[1], npa[2] + (k + 1)>>
      BY <3>1 DEF IInv, InTransfer
    <3>3. w(k + 1) = Job.eva + moved' + k /\ npa[2] + (k + 1) = npa'[2] + k
      BY <1>1, <1>2, <2>2
    <3> QED BY <1>1, <3>2, <3>3
  <2>4. npa' \in Npas
    <3>1. 0 \in 0 .. left' - 1
      BY <1>1, <1>2, <2>1
    <3>2. ValidEva(Job.eva + moved' + 0) /\ Home(Job.eva + moved' + 0) = <<npa'[1], npa'[2] + 0>>
      BY <2>3, <3>1
    <3>3. Job.eva + moved' + 0 \in Nat /\ npa'[2] + 0 = npa'[2] /\ npa' = <<npa'[1], npa'[2]>>
      BY <1>1, <1>2, <2>2
    <3> QED BY <3>2, <3>3, EvaHome
  <2>5. Job' = Job
    BY DEF Job
  <2> QED BY <2>1, <2>3, <2>4, <2>5 DEF InTransfer
<1>5. pc' # "xfer" => InTransfer'
  BY DEF InTransfer
<1> QED BY <1>1, <1>2, <1>3, <1>4, <1>5

LEMMA StoreWordStep ==
  ASSUME IInv, StoreWord
  PROVE  IInv'
<1> DEFINE w == Job.eva + moved
           v == Job.vals[moved + 1]
<1>1. /\ pc = "xfer" /\ call.kind = "memcpy_in" /\ CaughtUp(npa[1])
      /\ latest' = [latest EXCEPT ![w] = v] /\ torn' = torn \ {w}
      /\ Advance("fence") /\ UNCHANGED <<call, job, data, pending>>
  BY DEF StoreWord
<1>2. PICK s \in Slots : Store(s, npa, v)
  BY DEF StoreWord
<1>3. w \in Evas /\ Home(w) = npa /\ s \notin inv
  BY <1>1, <1>2, NextWord DEF Store
<1>4. v \in Vals
  <2>1. Job.vals \in [1 .. Job.n -> Vals] /\ moved + 1 \in 1 .. Job.n
    BY <1>1, NextWord, JobParts
  <2> QED BY <2>1
<1>5. MemInv'
  <2>1. Store(s, Home(w), v) /\ inv' = inv
    BY <1>1, <1>2, <1>3 DEF pending
  <2> HIDE DEF w, v
  <2> QED BY <2>1, <1>1, <1>3, <1>4, StoreKeeps DEF IInv
<1>6. /\ moved' \in Nat /\ left' \in Nat /\ moved' + left' <= Job.n
      /\ pc' \in {"xfer", "fence"} /\ InTransfer' /\ (pc' # "xfer" => left' = 0)
  BY <1>1, AdvanceStep
<1>7. CopiesTypeOK'
  BY <1>1, <1>5, <1>6 DEF CopiesTypeOK, MemInv, MemType, IInv, Control, Job, pending
<1>8. Control'
  BY <1>1, <1>6, <1>7 DEF Control, IInv
<1>9. Flushing' /\ FlushedForDma' /\ SentArrived'
  BY <1>1, <1>6 DEF Flushing, FlushedForDma, SentArrived
<1>10. DataRead' /\ ReadsReturnLatest'
  BY <1>1 DEF IInv, DataRead, ReadsReturnLatest
<1> QED BY <1>5, <1>6, <1>8, <1>9, <1>10 DEF IInv

LEMMA LoadWordStep ==
  ASSUME IInv, LoadWord
  PROVE  IInv'
<1> DEFINE w == Job.eva + moved
<1>1. /\ pc = "xfer" /\ call.kind = "memcpy_out" /\ CaughtUp(npa[1])
      /\ Advance("head") /\ UNCHANGED <<call, job, pending, latest, torn>>
  BY DEF LoadWord
<1>2. PICK s \in Slots : Load(s, npa) /\ data' = Append(data, Filled(s, npa)[Offset(npa)])
  BY DEF LoadWord
<1> DEFINE v == Filled(s, npa)[Offset(npa)]
<1>3. w \in Evas /\ Home(w) = npa /\ npa \in Npas /\ s \notin inv /\ Takes(s, npa)
  BY <1>1, <1>2, NextWord DEF Load
<1>4. MemInv'
  BY <1>1, <1>2, <1>3, LoadKeeps DEF IInv, pending
<1>5. v \in Vals /\ (w \notin torn => v = latest[w])
  <2>1. \A u \in Evas : Home(u) = npa => v \in Vals /\ (u \notin torn => v = latest[u])
    BY <1>3, LoadReturns DEF IInv
  <2> QED BY <2>1, <1>3
<1>6. /\ moved' \in Nat /\ left' \in Nat /\ moved' + left' <= Job.n /\ moved' = moved + 1
      /\ pc' \in {"xfer", "head"} /\ InTransfer' /\ (pc' # "xfer" => left' = 0)
  BY <1>1, AdvanceStep
<1> HIDE DEF v
<1>7. data' = Append(data, v) /\ data \in Seq(Vals) /\ Len(data) = moved
  BY <1>1, <1>2 DEF IInv, Control, CopiesTypeOK, DataRead, v
<1>8. data' \in Seq(Vals) /\ DataRead'
  BY <1>1, <1>5, <1>6, <1>7 DEF DataRead
<1>9. CopiesTypeOK'
  BY <1>1, <1>4, <1>6, <1>8 DEF CopiesTypeOK, MemInv, MemType, IInv, Control, Job, pending
<1>10. Control'
  BY <1>1, <1>6, <1>9 DEF Control, IInv
<1>11. Flushing' /\ FlushedForDma' /\ SentArrived'
  BY <1>1, <1>6 DEF Flushing, FlushedForDma, SentArrived
<1>12. ReadsReturnLatest'
  <2> SUFFICES ASSUME NEW i \in DOMAIN data', Job.eva + i - 1 \in Evas \ torn
               PROVE  data'[i] = latest[Job.eva + i - 1]
    BY <1>1 DEF ReadsReturnLatest, Job
  <2>1. moved \in Nat /\ Job.eva \in Nat
    BY <1>1, NextWord
  <2>2. CASE i \in DOMAIN data
    <3>1. data'[i] = data[i]
      BY <2>2, <1>5, <1>7
    <3> QED BY <3>1, <2>2 DEF IInv, ReadsReturnLatest
  <2>3. CASE i = moved + 1
    <3>1. data'[i] = v /\ Job.eva + i - 1 = w
      BY <2>1, <2>3, <1>5, <1>7
    <3> QED BY <3>1, <1>5
  <2>4. i \in DOMAIN data \/ i = moved + 1
    BY <1>5, <1>7
  <2> QED BY <2>2, <2>3, <2>4
<1> QED BY <1>4, <1>6, <1>8, <1>10, <1>11, <1>12 DEF IInv

(* The host reads from a cache that has flushed.                             *)
LEMMA ReadBackStep ==
  ASSUME IInv, NEW c \in Caches, ReadBack(c)
  PROVE  IInv'
<1>1. /\ pc = "flush" /\ c \in rb /\ CaughtUp(c) /\ rb' = rb \ {c}
      /\ pc' = IF rb' = {} THEN "head" ELSE "flush"
      /\ UNCHANGED <<call, job, moved, npa, left, data, inv, fl, latest, torn>>
  BY DEF ReadBack
<1>2. PICK s \in Slots : Load(s, <<c, 0>>)
  BY DEF ReadBack
<1>3. <<c, 0>> \in Npas
  BY DramAssumption DEF Npas
<1>4. s \notin inv
  BY <1>1, <1>2 DEF Load, Takes, SlotsFor, CaughtUp
<1>5. MemInv' /\ dirty' \subseteq dirty
  BY <1>1, <1>2, <1>3, <1>4, LoadKeeps DEF IInv
<1>6. /\ call.kind \in Dma /\ job = 1 /\ moved = 0 /\ left = 0 /\ job \in DOMAIN call.jobs
      /\ dirty \subseteq fl /\ \A d \in Caches \ rb : CaughtUp(d)
  BY <1>1 DEF IInv, Control, Flushing, Dma
<1>7. CopiesTypeOK'
  BY <1>1, <1>5 DEF CopiesTypeOK, MemInv, MemType, IInv, Control, Job
<1>8. Control'
  BY <1>1, <1>6, <1>7 DEF Control, Dma
<1>9. Flushing'
  BY <1>1, <1>5, <1>6 DEF Flushing, CaughtUp
<1>10. FlushedForDma'
  <2> SUFFICES ASSUME rb' = {} PROVE dirty' = {} /\ inv = {} /\ fl = {}
    BY <1>1 DEF FlushedForDma
  <2>1. \A d \in Caches : CaughtUp(d)
    BY <1>1, <1>6
  <2>2. inv = {} /\ fl = {}
    BY <2>1, SlotParts DEF CaughtUp, IInv, Control, CopiesTypeOK
  <2> QED BY <2>2, <1>5, <1>6
<1>11. SentArrived'
  <2>1. \A j \in DOMAIN call.jobs : j \in Nat /\ j > 0
    BY <1>6, JobParts DEF Dma
  <2>2. Sent' = {}
    BY <1>1, <1>6, <2>1 DEF Sent
  <2> QED BY <2>2 DEF SentArrived
<1>12. InTransfer' /\ DataRead' /\ ReadsReturnLatest'
  BY <1>1 DEF IInv, InTransfer, DataRead, ReadsReturnLatest, Job
<1> QED BY <1>5, <1>8, <1>9, <1>10, <1>11, <1>12 DEF IInv

LEMMA ServeStep ==
  ASSUME IInv, NEW s \in Slots, ServeInvalidate(s) \/ ServeFlush(s)
  PROVE  IInv'
<1>1. UNCHANGED <<host, rb, latest, torn>>
  BY DEF ServeInvalidate, ServeFlush
<1>2. /\ inv' \subseteq inv /\ fl' \subseteq fl
      /\ \/ fl' = fl /\ inv # {}
         \/ fl' = fl \ {s} /\ fl # {}
  BY DEF ServeInvalidate, ServeFlush
<1>3. /\ MemInv'
      /\ \/ dirty' = dirty /\ fl' = fl
         \/ dirty' = dirty \ {s} /\ fl' = fl \ {s}
  <2>1. CASE ServeInvalidate(s)
    <3>1. fl' = fl
      BY <2>1 DEF ServeInvalidate
    <3> QED BY <3>1, <2>1, InvalidateKeeps DEF IInv
  <2>2. CASE ServeFlush(s)
    <3>1. fl' = fl \ {s}
      BY <2>2 DEF ServeFlush
    <3> QED BY <3>1, <2>2, FlushKeeps DEF IInv
  <2> QED BY <2>1, <2>2
<1>4. CopiesTypeOK'
  BY <1>1, <1>2, <1>3 DEF CopiesTypeOK, MemInv, MemType, IInv, Control, Job, host
<1>5. Control'
  BY <1>1, <1>2, <1>4 DEF Control, IInv, host
<1>6. Flushing'
  BY <1>1, <1>2, <1>3 DEF IInv, Flushing, CaughtUp, host
(* A DMA that moves words has nothing under way: the step is not taken.      *)
<1>7. FlushedForDma' /\ SentArrived'
  BY <1>1, <1>2 DEF IInv, FlushedForDma, SentArrived, host
<1>8. InTransfer' /\ DataRead' /\ ReadsReturnLatest'
  BY <1>1 DEF IInv, InTransfer, DataRead, ReadsReturnLatest, Job, host
<1> QED BY <1>3, <1>5, <1>6, <1>7, <1>8 DEF IInv

LEMMA TileStep ==
  ASSUME IInv, NEW w \in TileWords, TileLoad(w) \/ \E v \in Vals : TileStore(w, v)
  PROVE  IInv'
<1>1. pc = "kernel" /\ UNCHANGED <<host, pending>>
  BY DEF TileLoad, TileStore
<1>2. w \in Evas /\ Home(w) \in Npas
  BY CopiesAssumption, EvaHome
<1>3. inv = {} /\ call.kind = "launch"
  BY <1>1 DEF IInv, Control
<1>4. MemInv'
  <2>1. CASE TileLoad(w)
    <3>1. PICK s \in Slots : Load(s, Home(w))
      BY <2>1 DEF TileLoad
    <3>2. s \notin inv /\ UNCHANGED <<inv, latest, torn>>
      BY <2>1, <1>3 DEF TileLoad, pending
    <3> QED BY <3>1, <3>2, <1>2, LoadKeeps DEF IInv
  <2>2. ASSUME NEW v \in Vals, TileStore(w, v)
        PROVE  MemInv'
    <3>1. PICK s \in Slots : Store(s, Home(w), v)
      BY <2>2 DEF TileStore
    <3>2. /\ s \notin inv /\ inv' = inv
          /\ latest' = [latest EXCEPT ![w] = v] /\ torn' = torn \ {w}
      BY <2>2, <1>3 DEF TileStore, pending
    <3> QED BY <3>1, <3>2, <1>2, StoreKeeps DEF IInv
  <2> QED BY <2>1, <2>2
<1>5. CopiesTypeOK'
  BY <1>1, <1>4 DEF CopiesTypeOK, MemInv, MemType, IInv, Control, Job, host, pending
<1>6. Control'
  BY <1>1, <1>5 DEF Control, IInv, host, pending
<1>7. InTransfer' /\ Flushing' /\ FlushedForDma' /\ SentArrived'
  BY <1>1 DEF InTransfer, Flushing, FlushedForDma, SentArrived, host
<1>8. DataRead' /\ ReadsReturnLatest'
  BY <1>1, <1>3 DEF IInv, DataRead, ReadsReturnLatest, host
<1> QED BY <1>4, <1>6, <1>7, <1>8 DEF IInv

(* Between DMA segments no word is in a cache alone.                         *)
LEMMA AllInDram ==
  ASSUME IInv, pc \in {"head", "xfer"}, call.kind \in Dma
  PROVE  /\ dirty = {} /\ inv = {} /\ fl = {}
         /\ \A w \in Evas \ torn : dram[Home(w)] = latest[w]
<1>1. dirty = {} /\ inv = {} /\ fl = {}
  BY DEF IInv, FlushedForDma, Dma
<1>2. ASSUME NEW w \in Evas \ torn
      PROVE  dram[Home(w)] = latest[w]
  <2>1. CASE \E s \in Slots : InSlot(s, Home(w))
    <3>1. PICK s \in Slots : InSlot(s, Home(w))
      BY <2>1
    <3>2. block[s][Offset(Home(w))] = latest[w]
      BY <3>1, <1>1, CoherentWord DEF IInv, MemInv
    <3>3. block[s][Offset(Home(w))] = dram[Home(w)]
      BY <3>1, <1>1 DEF IInv, MemInv, Clean
    <3> QED BY <3>2, <3>3
  <2>2. CASE \A s \in Slots : ~InSlot(s, Home(w))
    BY <2>2, CoherentWord DEF IInv, MemInv
  <2> QED BY <2>1, <2>2
<1> QED BY <1>1, <1>2

LEMMA ReturnStep ==
  ASSUME IInv, Return
  PROVE  IInv'
<1>1. /\ pc = "head" /\ moved = Job.n /\ job = Len(call.jobs) /\ pc' = "idle"
      /\ inv' = (IF call.kind = "dma_in" THEN Slots ELSE inv)
      /\ torn' = (IF call.kind = "dma_in" THEN torn \ Owed ELSE torn)
      /\ UNCHANGED <<call, job, moved, npa, left, data, caches, dram, fl, rb, latest>>
  BY DEF Return, Invalidates
<1>2. call.kind \notin {"launch", "none"}
  BY <1>1 DEF IInv, Control
<1>3. CASE call.kind = "dma_in"
  <2>1. dirty = {} /\ \A w \in Evas \ torn : dram[Home(w)] = latest[w]
    BY <1>1, <1>3, AllInDram DEF Dma
  <2>2. Owed \subseteq Sent
    <3> SUFFICES ASSUME NEW w \in Evas, NEW j \in DOMAIN call.jobs,
                        w - call.jobs[j].eva \in 0 .. call.jobs[j].n - 1
                 PROVE  w \in Sent
      BY DEF Owed
    <3>1. j \in Nat /\ job \in Nat /\ j <= job
      BY <1>1, <1>2, JobParts
    <3>2. j = job => call.jobs[j].n = moved
      BY <1>1 DEF Job
    <3> QED BY <3>1, <3>2 DEF Sent
  <2>3. \A w \in Evas \ torn' : dram'[Home(w)] = latest'[w]
    BY <1>1, <1>3, <2>1, <2>2 DEF IInv, SentArrived
  <2>4. MemType' /\ LinesPlaced'
    BY <1>1, <1>3 DEF IInv, MemInv, MemType, LinesPlaced, caches
  <2>5. Coherent' /\ Clean' /\ InvalidationLosesNothing'
    BY <1>1, <1>3, <2>1, <2>3 DEF Coherent, Clean, InvalidationLosesNothing, caches
  <2>6. MemInv'
    BY <2>4, <2>5 DEF MemInv
  <2>7. data = <<>>
    BY <1>3 DEF IInv, DataRead
  <2>8. CopiesTypeOK'
    BY <1>1, <2>6 DEF CopiesTypeOK, MemInv, MemType, IInv, Control, Job
  <2>9. Control'
    BY <1>1, <2>8 DEF Control, IInv
  <2>10. InTransfer' /\ Flushing' /\ FlushedForDma' /\ SentArrived'
    BY <1>1 DEF InTransfer, Flushing, FlushedForDma, SentArrived
  <2>11. DataRead' /\ ReadsReturnLatest'
    BY <1>1, <1>3, <2>7 DEF DataRead, ReadsReturnLatest
  <2> QED BY <2>6, <2>9, <2>10, <2>11 DEF IInv
<1>4. CASE call.kind # "dma_in"
  <2>1. UNCHANGED <<inv, torn>>
    BY <1>1, <1>4
  <2>2. MemInv'
    BY <1>1, <2>1, MemStays DEF IInv
  <2>3. CopiesTypeOK'
    BY <1>1, <2>2 DEF CopiesTypeOK, MemInv, MemType, IInv, Control, Job
  <2>4. Control'
    BY <1>1, <2>3 DEF Control, IInv
  <2>5. InTransfer' /\ Flushing' /\ FlushedForDma' /\ SentArrived'
    BY <1>1 DEF InTransfer, Flushing, FlushedForDma, SentArrived
  <2>6. DataRead' /\ ReadsReturnLatest'
    BY <1>1, <2>1 DEF IInv, DataRead, ReadsReturnLatest, Job
  <2> QED BY <2>2, <2>4, <2>5, <2>6 DEF IInv
<1> QED BY <1>3, <1>4

(* A segment that a DMA moves at once: word k of it is where the segment is  *)
(* plus k, and no other word is there.                                       *)
LEMMA SegmentWords ==
  ASSUME IInv, pc = "xfer"
  PROVE  /\ \A k \in 0 .. left - 1 :
              LET w == Job.eva + moved + k
              IN w \in Evas /\ Home(w) = <<npa[1], npa[2] + k>> /\ Home(w) \in Npas
         /\ \A w \in Evas : InSegment(Home(w)) <=> w - Job.eva - moved \in 0 .. left - 1
<1>1. /\ left \in Nat /\ moved \in Nat /\ Job.eva \in Nat /\ npa \in Npas
  BY NextWord
<1>2. npa[2] \in Nat
  BY <1>1, AddressParts
<1>3. ASSUME NEW k \in 0 .. left - 1
      PROVE  LET w == Job.eva + moved + k
             IN w \in Evas /\ Home(w) = <<npa[1], npa[2] + k>> /\ Home(w) \in Npas
  <2>1. Job.eva + moved + k \in Nat
    BY <1>1
  <2>2. /\ ValidEva(Job.eva + moved + k)
        /\ Home(Job.eva + moved + k) = <<npa[1], npa[2] + k>>
    BY DEF IInv, InTransfer
  <2> QED BY <2>1, <2>2, EvaHome
<1>4. ASSUME NEW w \in Evas
      PROVE  InSegment(Home(w)) <=> w - Job.eva - moved \in 0 .. left - 1
  <2>1. w \in Nat /\ Home(w) \in Npas
    BY EvaHome
  <2>2. ASSUME InSegment(Home(w))
        PROVE  w - Job.eva - moved \in 0 .. left - 1
    <3> DEFINE k == Home(w)[2] - npa[2]
    <3>1. Home(w)[1] = npa[1] /\ k \in 0 .. left - 1
      BY <2>2 DEF InSegment
    <3>2. Home(w) = <<npa[1], npa[2] + k>>
      <4>1. Home(w) = <<Home(w)[1], Home(w)[2]>> /\ Home(w)[2] \in Nat
        BY <2>1, AddressParts
      <4>2. npa[2] + k = Home(w)[2]
        BY <4>1, <1>2
      <4> QED BY <4>1, <4>2, <3>1
    <3> HIDE DEF k
    <3>3. Home(Job.eva + moved + k) = Home(w) /\ Job.eva + moved + k \in Evas
      BY <3>1, <3>2, <1>3
    <3>4. Job.eva + moved + k = w
      BY <3>3, EvaHome
    <3> QED BY <3>1, <3>4, <1>1
  <2>3. ASSUME w - Job.eva - moved \in 0 .. left - 1
        PROVE  InSegment(Home(w))
    <3> DEFINE k == w - Job.eva - moved
    <3>1. Job.eva + moved + k = w /\ k \in 0 .. left - 1
      BY <1>1, <2>1, <2>3
    <3>2. Home(w) = <<npa[1], npa[2] + k>>
      BY <3>1, <1>3
    <3> HIDE DEF k
    <3> QED BY <3>1, <3>2, <1>2 DEF InSegment
  <2> QED BY <2>2, <2>3
<1> QED BY <1>3, <1>4

(* What is left of a job after a segment.                                    *)
LEMMA EndSegmentStep ==
  ASSUME IInv, pc = "xfer", EndSegment, call.kind \in Dma
  PROVE  /\ pc' = "head" /\ moved' \in Nat /\ left' = 0 /\ moved' <= Job.n
         /\ moved' = moved + left /\ UNCHANGED <<call, job, npa>>
<1>1. /\ moved \in Nat /\ left \in Nat /\ moved + left <= Job.n
  BY JobParts DEF Dma
<1> QED BY <1>1 DEF EndSegment

LEMMA DmaReadStep ==
  ASSUME IInv, DmaRead
  PROVE  IInv'
<1>1. /\ pc = "xfer" /\ call.kind = "dma_out" /\ EndSegment
      /\ data' = data \o [i \in 1 .. left |-> dram[<<npa[1], npa[2] + i - 1>>]]
      /\ UNCHANGED <<caches, dram, pending, latest, torn>>
  BY DEF DmaRead
<1>2. MemInv'
  BY <1>1, MemStays DEF IInv, pending
<1>3. /\ pc' = "head" /\ moved' \in Nat /\ left' = 0 /\ moved' <= Job.n
      /\ moved' = moved + left /\ UNCHANGED <<call, job, npa>>
  BY <1>1, EndSegmentStep DEF Dma
<1>4. left \in Nat /\ moved \in Nat /\ Job.eva \in Nat /\ npa \in Npas /\ npa[2] \in Nat
  BY <1>1, NextWord, AddressParts
<1> DEFINE word(i) == dram[<<npa[1], npa[2] + i - 1>>]
           rest == [i \in 1 .. left |-> word(i)]
<1>5. ASSUME NEW i \in 1 .. left
      PROVE  LET w == Job.eva + moved + (i - 1)
             IN w \in Evas /\ word(i) \in Vals /\ (w \notin torn => word(i) = latest[w])
  <2> DEFINE w == Job.eva + moved + (i - 1)
  <2>1. i - 1 \in 0 .. left - 1 /\ npa[2] + (i - 1) = npa[2] + i - 1
    BY <1>4
  <2>2. w \in Evas /\ Home(w) = <<npa[1], npa[2] + (i - 1)>> /\ Home(w) \in Npas
    BY <1>1, <2>1, SegmentWords
  <2>3. word(i) = dram[Home(w)]
    BY <2>1, <2>2
  <2> HIDE DEF w
  <2>4. w \notin torn => dram[Home(w)] = latest[w]
    BY <1>1, <2>2, AllInDram DEF Dma
  <2>5. dram[Home(w)] \in Vals
    BY <2>2 DEF IInv, MemInv, MemType
  <2> QED BY <2>2, <2>3, <2>4, <2>5 DEF w
<1> HIDE DEF word
<1>6. rest \in Seq(Vals) /\ Len(rest) = left /\ \A i \in 1 .. left : rest[i] = word(i)
  BY <1>4, <1>5
<1>7. data' = data \o rest /\ data \in Seq(Vals) /\ Len(data) = moved
  BY <1>1 DEF IInv, Control, CopiesTypeOK, DataRead, word
<1> HIDE DEF rest
<1>8. data' \in Seq(Vals) /\ Len(data') = moved'
  BY <1>3, <1>6, <1>7
<1>9. CopiesTypeOK'
  BY <1>1, <1>2, <1>3, <1>8 DEF CopiesTypeOK, MemInv, MemType, IInv, Control, Job, pending
<1>10. Control'
  BY <1>1, <1>3, <1>9 DEF Control, IInv
<1>11. InTransfer' /\ Flushing' /\ SentArrived' /\ DataRead'
  BY <1>1, <1>3, <1>8 DEF InTransfer, Flushing, SentArrived, DataRead
<1>12. FlushedForDma'
  BY <1>1, <1>3 DEF IInv, FlushedForDma, pending, caches
<1>13. ReadsReturnLatest'
  <2> SUFFICES ASSUME NEW i \in DOMAIN data', Job.eva + i - 1 \in Evas \ torn
               PROVE  data'[i] = latest[Job.eva + i - 1]
    BY <1>1, <1>3 DEF ReadsReturnLatest, Job
  <2>1. i \in 1 .. moved + left
    BY <1>3, <1>8, <1>7, <1>6
  <2>2. CASE i \in 1 .. moved
    <3>1. data'[i] = data[i] /\ i \in DOMAIN data
      BY <2>2, <1>7, <1>6
    <3> QED BY <3>1, <2>2 DEF IInv, ReadsReturnLatest
  <2>3. CASE i \notin 1 .. moved
    <3> DEFINE m == i - moved
    <3>1. m \in 1 .. left /\ Job.eva + moved + (m - 1) = Job.eva + i - 1
      BY <2>1, <2>3, <1>4
    <3>2. data'[i] = rest[m]
      BY <2>1, <2>3, <1>6, <1>7
    <3> HIDE DEF m
    <3>3. word(m) = latest[Job.eva + i - 1]
      BY <3>1, <1>5
    <3> QED BY <3>1, <3>2, <3>3, <1>6
  <2> QED BY <2>2, <2>3
<1> QED BY <1>2, <1>10, <1>11, <1>12, <1>13 DEF IInv

LEMMA DmaWriteStep ==
  ASSUME IInv, DmaWrite
  PROVE  IInv'
<1> DEFINE At(w) == w - Job.eva - moved
<1>1. /\ pc = "xfer" /\ call.kind = "dma_in" /\ EndSegment
      /\ dram' = [a \in Npas |-> IF InSegment(a) THEN Job.vals[moved + 1 + a[2] - npa[2]]
                                 ELSE dram[a]]
      /\ latest' = [w \in Evas |-> IF At(w) \in 0 .. left - 1 THEN Job.vals[moved + 1 + At(w)]
                                   ELSE latest[w]]
      /\ torn' = torn \cup {w \in Evas : At(w) \in 0 .. left - 1}
      /\ UNCHANGED <<data, caches, pending>>
  BY DEF DmaWrite
<1>2. /\ pc' = "head" /\ moved' \in Nat /\ left' = 0 /\ moved' <= Job.n
      /\ moved' = moved + left /\ UNCHANGED <<call, job, npa>>
  BY <1>1, EndSegmentStep DEF Dma
<1>3. /\ left \in Nat /\ moved \in Nat /\ Job.eva \in Nat /\ Job.n \in Nat
      /\ npa \in Npas /\ npa[2] \in Nat
  BY <1>1, NextWord, AddressParts
<1>4. /\ dirty = {} /\ inv = {} /\ fl = {}
      /\ \A w \in Evas \ torn : dram[Home(w)] = latest[w]
  BY <1>1, AllInDram DEF Dma
<1>5. Job.vals \in [1 .. Job.n -> Vals] /\ moved + left <= Job.n
  BY <1>1, JobParts
<1>6. dram' \in [Npas -> Vals]
  <2> SUFFICES ASSUME NEW a \in Npas, InSegment(a)
               PROVE  Job.vals[moved + 1 + a[2] - npa[2]] \in Vals
    BY <1>1 DEF IInv, MemInv, MemType
  <2>1. moved + 1 + a[2] - npa[2] \in 1 .. Job.n
    BY <1>3, <1>5, AddressParts DEF InSegment
  <2> QED BY <2>1, <1>5
<1>7. latest' \in [Evas -> Vals]
  <2> SUFFICES ASSUME NEW w \in Evas, At(w) \in 0 .. left - 1
               PROVE  Job.vals[moved + 1 + At(w)] \in Vals
    BY <1>1 DEF IInv, MemInv, MemType
  <2> HIDE DEF At
  <2>1. moved + 1 + At(w) \in 1 .. Job.n
    BY <1>3, <1>5
  <2> QED BY <2>1, <1>5
<1>8. ASSUME NEW w \in Evas, At(w) \notin 0 .. left - 1
      PROVE  dram'[Home(w)] = dram[Home(w)] /\ latest'[w] = latest[w]
  <2>1. Home(w) \in Npas /\ ~InSegment(Home(w))
    BY <1>1, <1>8, EvaHome, SegmentWords
  <2> QED BY <2>1, <1>1, <1>8
<1>9. ASSUME NEW w \in Evas, At(w) \in 0 .. left - 1
      PROVE  dram'[Home(w)] = latest'[w]
  <2> DEFINE k == At(w)
  <2>1. Job.eva + moved + k = w
    BY <1>3, EvaHome
  <2>2. Home(w) = <<npa[1], npa[2] + k>> /\ Home(w) \in Npas
    BY <1>1, <1>9, <2>1, SegmentWords
  <2>3. InSegment(Home(w))
    BY <1>1, <1>9, SegmentWords
  <2>4. latest'[w] = Job.vals[moved + 1 + k]
    BY <1>1, <1>9
  <2>5. dram'[Home(w)] = Job.vals[moved + 1 + Home(w)[2] - npa[2]]
    BY <1>1, <2>2, <2>3
  <2>6. k \in Int
    BY <1>9
  <2> HIDE DEF k
  <2>7. moved + 1 + Home(w)[2] - npa[2] = moved + 1 + k
    BY <2>2, <2>6, <1>3
  <2> QED BY <2>4, <2>5, <2>7
<1>10. \A w \in Evas \ torn' : w \in Evas \ torn /\ At(w) \notin 0 .. left - 1
  BY <1>1
<1> HIDE DEF At
<1>11. MemType' /\ LinesPlaced'
  <2>1. torn' \subseteq Evas
    BY <1>1 DEF IInv, MemInv, MemType
  <2> QED BY <1>1, <1>6, <1>7, <2>1 DEF IInv, MemInv, MemType, LinesPlaced, caches, pending
<1>12. Coherent'
  <2> SUFFICES ASSUME NEW w \in Evas \ torn'
               PROVE  \/ \E s \in Slots \ inv : InSlot(s, Home(w)) /\ block[s][Offset(Home(w))] = latest'[w]
                      \/ (\A s \in Slots \ inv : ~InSlot(s, Home(w))) /\ dram'[Home(w)] = latest'[w]
    BY <1>1 DEF Coherent, InSlot, caches, pending
  <2>1. w \in Evas \ torn /\ dram'[Home(w)] = dram[Home(w)] /\ latest'[w] = latest[w]
    BY <1>8, <1>10
  <2> QED BY <2>1 DEF IInv, MemInv, Coherent
<1>13. Clean'
  <2> SUFFICES ASSUME NEW s \in Slots \ (dirty \cup inv), NEW w \in Evas \ torn', InSlot(s, Home(w))
               PROVE  block[s][Offset(Home(w))] = dram'[Home(w)]
    BY <1>1 DEF Clean, InSlot, caches, pending
  <2>1. w \in Evas \ torn /\ dram'[Home(w)] = dram[Home(w)]
    BY <1>8, <1>10
  <2> QED BY <2>1 DEF IInv, MemInv, Clean
<1>14. MemInv'
  BY <1>1, <1>4, <1>11, <1>12, <1>13 DEF MemInv, InvalidationLosesNothing, caches, pending
<1>15. CopiesTypeOK'
  BY <1>1, <1>2, <1>14 DEF CopiesTypeOK, MemInv, MemType, IInv, Control, Job, pending
<1>16. Control'
  BY <1>1, <1>2, <1>15 DEF Control, IInv
<1>17. InTransfer' /\ Flushing' /\ DataRead' /\ ReadsReturnLatest'
  BY <1>1, <1>2 DEF IInv, InTransfer, Flushing, DataRead, ReadsReturnLatest
<1>18. FlushedForDma'
  BY <1>1, <1>4 DEF FlushedForDma, caches, pending
<1>19. SentArrived'
  <2> SUFFICES ASSUME NEW w \in Sent'
               PROVE  dram'[Home(w)] = latest'[w]
    BY DEF SentArrived
  <2>1. w \in Evas
    BY DEF Sent, Evas
  <2>2. CASE w \in Sent
    <3>1. dram[Home(w)] = latest[w]
      BY <1>1, <2>2 DEF IInv, SentArrived
    <3> QED BY <3>1, <2>1, <1>8, <1>9
  <2>3. CASE w \notin Sent
    <3> DEFINE SentBy(c, m, n) ==
                 \E j \in DOMAIN c.jobs :
                   \/ j < m /\ w - c.jobs[j].eva \in 0 .. c.jobs[j].n - 1
                   \/ j = m /\ w - c.jobs[j].eva \in 0 .. n - 1
    <3>0. SentBy(call, job, moved + left)
      <4>1. SentBy(call', job', moved')
        BY DEF Sent
      <4>2. call' = call /\ job' = job /\ moved' = moved + left
        BY <1>2
      <4> HIDE DEF SentBy
      <4> QED BY <4>1, <4>2
    <3>1. PICK j \in DOMAIN call.jobs :
            \/ j < job /\ w - call.jobs[j].eva \in 0 .. call.jobs[j].n - 1
            \/ j = job /\ w - call.jobs[j].eva \in 0 .. (moved + left) - 1
      BY <3>0
    <3>2. ~SentBy(call, job, moved)
      BY <2>1, <2>3 DEF Sent
    <3>3. w - Job.eva \in 0 .. (moved + left) - 1 /\ w - Job.eva \notin 0 .. moved - 1
      <4>1. j = job
        BY <3>1, <3>2
      <4> QED BY <4>1, <3>1, <3>2 DEF Job
    <3>4. At(w) \in 0 .. left - 1
      BY <3>3, <2>1, <1>3, EvaHome DEF At
    <3> QED BY <3>4, <2>1, <1>9
  <2> QED BY <2>2, <2>3
<1> QED BY <1>14, <1>16, <1>17, <1>18, <1>19 DEF IInv

LEMMA InitHolds == Init => IInv
<1> SUFFICES ASSUME Init PROVE IInv
  OBVIOUS
<1>1. NoWord \in Vals
  BY CopiesAssumption DEF NoWord
<1>2. MemType /\ inv = {} /\ dirty = {} /\ \A s \in Slots : tag[s] = NoLine
  BY <1>1 DEF Init, MemType
<1>3. \A s \in Slots, w \in Evas : ~InSlot(s, Home(w))
  BY <1>2, EvaHome, LineParts DEF InSlot, NoLine
<1>4. \A w \in Evas : dram[Home(w)] = latest[w]
  BY EvaHome DEF Init
<1>5. MemInv
  BY <1>2, <1>3, <1>4 DEF MemInv, LinesPlaced, Coherent, Clean, InvalidationLosesNothing
<1>6. /\ pc = "idle" /\ call = NoCall /\ job = 1 /\ moved = 0 /\ left = 0 /\ data = <<>>
      /\ fl = {} /\ rb = {}
  BY DEF Init
<1>7. call.kind = "none" /\ call.jobs = <<>>
  BY <1>6 DEF NoCall
<1>8. CopiesTypeOK
  <2>1. job \notin DOMAIN call.jobs
    BY <1>7
  <2>2. data \in Seq(Vals)
    BY <1>6
  <2> QED BY <1>2, <1>6, <2>1, <2>2 DEF CopiesTypeOK, MemType
<1>9. Control
  BY <1>6, <1>7, <1>8 DEF Control
<1>10. /\ InTransfer /\ Flushing /\ FlushedForDma /\ SentArrived /\ DataRead
       /\ ReadsReturnLatest
  BY <1>6, <1>7 DEF InTransfer, Flushing, FlushedForDma, SentArrived, DataRead, ReadsReturnLatest
<1> QED BY <1>5, <1>9, <1>10 DEF IInv

LEMMA StepHolds == IInv /\ [Next]_vars => IInv'
<1> SUFFICES ASSUME IInv, [Next]_vars PROVE IInv'
  OBVIOUS
<1>1. CASE \E c \in Calls : Call(c)
  BY <1>1, CallStep
<1>2. CASE HostStep
  <2>1. CASE \E c \in Caches : ReadBack(c)
    BY <2>1, ReadBackStep
  <2>2. CASE Translate \/ TranslateFails \/ NextJob \/ Fence \/ Launch
    BY <2>2, ControlStep
  <2>3. CASE Return
    BY <2>3, ReturnStep
  <2>4. CASE StoreWord
    BY <2>4, StoreWordStep
  <2>5. CASE LoadWord
    BY <2>5, LoadWordStep
  <2>6. CASE DmaWrite
    BY <2>6, DmaWriteStep
  <2>7. CASE DmaRead
    BY <2>7, DmaReadStep
  <2> QED BY <1>2, <2>1, <2>2, <2>3, <2>4, <2>5, <2>6, <2>7 DEF HostStep
<1>3. CASE Serve
  BY <1>3, ServeStep DEF Serve
<1>4. CASE KernelEnds
  BY <1>4, ControlStep
<1>5. CASE \E w \in TileWords : TileLoad(w) \/ \E v \in Vals : TileStore(w, v)
  BY <1>5, TileStep
<1>6. CASE UNCHANGED vars
  <2>1. UNCHANGED <<pc, call, job, moved, npa, left, data, fl, rb, caches, dram, inv, latest, torn>>
    BY <1>6 DEF vars, host, pending
  <2>2. MemInv'
    BY <2>1, MemStays DEF IInv
  <2>3. CopiesTypeOK' /\ Control'
    BY <2>1 DEF IInv, Control, CopiesTypeOK, Job, caches
  <2>4. Flushing' /\ FlushedForDma' /\ SentArrived'
    BY <2>1 DEF IInv, Flushing, FlushedForDma, SentArrived, Sent, CaughtUp, caches
  <2>5. InTransfer' /\ DataRead' /\ ReadsReturnLatest'
    BY <2>1 DEF IInv, InTransfer, DataRead, ReadsReturnLatest, Job
  <2> QED BY <2>2, <2>3, <2>4, <2>5 DEF IInv
<1> QED BY <1>1, <1>2, <1>3, <1>4, <1>5, <1>6 DEF Next

-----------------------------------------------------------------------------
LEMMA Invariance == Spec => []IInv
BY InitHolds, StepHolds, PTL DEF Spec

(* Every variable has its type, and no transfer leaves its job.              *)
THEOREM CopiesTyped == Spec => []CopiesTypeOK
<1>1. IInv => CopiesTypeOK
  BY DEF IInv, Control
<1> QED BY <1>1, Invariance, PTL

(* Once the invalidations under way are served, every load finds the word    *)
(* last written by memcpy, DMA or a kernel (eva_write, dma_to_device).       *)
THEOREM CachesCoherent == Spec => []Coherent
<1>1. IInv => Coherent
  BY DEF IInv, MemInv
<1> QED BY <1>1, Invariance, PTL

(* The invalidation at the end of a DMA to the device, which is not waited   *)
(* for, drops no word that only a cache has.                                 *)
THEOREM NothingLost == Spec => []InvalidationLosesNothing
<1>1. IInv => InvalidationLosesNothing
  BY DEF IInv, MemInv
<1> QED BY <1>1, Invariance, PTL

(* Reading a word of each cache back is enough to know it has flushed        *)
(* (pod_flush_vcache).                                                       *)
THEOREM DmaSeesDram == Spec => []FlushedForDma
<1>1. IInv => FlushedForDma
  BY DEF IInv
<1> QED BY <1>1, Invariance, PTL

(* Copies to the host return what was last written.                          *)
THEOREM CopiesOutLatest == Spec => []ReadsReturnLatest
<1>1. IInv => ReadsReturnLatest
  BY DEF IInv
<1> QED BY <1>1, Invariance, PTL
=============================================================================

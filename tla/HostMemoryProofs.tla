-------------------------- MODULE HostMemoryProofs --------------------------
(***************************************************************************)
(* The memory functions of the manycore interface keep their promises for  *)
(* any number of nodes, words, load ids and credits, and for FIFOs of any  *)
(* depth.                                                                  *)
(***************************************************************************)
EXTENDS HostMemory, FiniteSetTheorems, FunctionTheorems, SequenceTheorems,
        WellFoundedInduction, TLAPS

-----------------------------------------------------------------------------
(* Marked entries of the queues: how many there are while the queues move *)

Lists(f) == \A q \in Queues : Len(f[q]) \in Nat /\ DOMAIN f[q] = 1 .. Len(f[q])

(* The places where the entries of a set m of pairs <<queue, entry>> are.    *)
Marked(f, m) ==
  UNION {{q} \X {i \in DOMAIN f[q] : <<q, f[q][i]>> \in m} : q \in Queues}

LEMMA MarkedIs ==
  ASSUME NEW f, NEW m
  PROVE  /\ \A q, i : <<q, i>> \in Marked(f, m)
                      <=> q \in Queues /\ i \in DOMAIN f[q] /\ <<q, f[q][i]>> \in m
         /\ \A x \in Marked(f, m) : x = <<x[1], x[2]>>
<1>1. ASSUME NEW q, NEW i
      PROVE  <<q, i>> \in Marked(f, m)
             <=> q \in Queues /\ i \in DOMAIN f[q] /\ <<q, f[q][i]>> \in m
  <2>1. ASSUME <<q, i>> \in Marked(f, m)
        PROVE  q \in Queues /\ i \in DOMAIN f[q] /\ <<q, f[q][i]>> \in m
    <3>1. PICK p \in Queues : <<q, i>> \in {p} \X {j \in DOMAIN f[p] : <<p, f[p][j]>> \in m}
      BY <2>1 DEF Marked
    <3>2. q = p /\ i \in {j \in DOMAIN f[p] : <<p, f[p][j]>> \in m}
      BY <3>1
    <3> QED BY <3>2
  <2>2. ASSUME q \in Queues, i \in DOMAIN f[q], <<q, f[q][i]>> \in m
        PROVE  <<q, i>> \in Marked(f, m)
    <3>1. <<q, i>> \in {q} \X {j \in DOMAIN f[q] : <<q, f[q][j]>> \in m}
      BY <2>2
    <3> QED BY <2>2, <3>1 DEF Marked
  <2> QED BY <2>1, <2>2
<1>2. ASSUME NEW x \in Marked(f, m) PROVE x = <<x[1], x[2]>>
  <2>1. PICK q \in Queues : x \in {q} \X {i \in DOMAIN f[q] : <<q, f[q][i]>> \in m}
    BY DEF Marked
  <2> QED BY <2>1
<1> QED BY <1>1, <1>2

LEMMA QueuesFinite == IsFiniteSet(Queues)
<1>1. IsFiniteSet({"ids", "tx", "rx"}) /\ IsFiniteSet({"net", "back"})
  <2>1. {"ids", "tx", "rx"} = {"ids"} \cup {"tx"} \cup {"rx"}
        /\ {"net", "back"} = {"net"} \cup {"back"}
    OBVIOUS
  <2>2. \A x : IsFiniteSet({x})
    BY FS_Singleton
  <2>3. IsFiniteSet({"ids"} \cup {"tx"}) /\ IsFiniteSet({"net"} \cup {"back"})
    BY <2>2, FS_Union
  <2>4. IsFiniteSet({"ids"} \cup {"tx"} \cup {"rx"})
    BY <2>2, <2>3, FS_Union
  <2> QED BY <2>1, <2>3, <2>4
<1>2. IsFiniteSet({"host"}) /\ IsFiniteSet(Nodes)
  BY FS_Singleton, MemoryAssumption
<1>3. /\ IsFiniteSet({"ids", "tx", "rx"} \X {"host"})
      /\ IsFiniteSet({"net", "back"} \X Nodes)
  BY <1>1, <1>2, FS_Product
<1> QED BY <1>3, FS_Union DEF Queues

LEMMA MarkedFinite ==
  ASSUME NEW f, NEW m, Lists(f)
  PROVE  IsFiniteSet(Marked(f, m)) /\ Cardinality(Marked(f, m)) \in Nat
<1> DEFINE At(q) == {q} \X {i \in DOMAIN f[q] : <<q, f[q][i]>> \in m}
           all == {At(q) : q \in Queues}
           at == [q \in Queues |-> At(q)]
<1>1. IsFiniteSet(all)
  <2>1. at \in Surjection(Queues, all)
    <3>1. at \in [Queues -> all]
      OBVIOUS
    <3>2. \A x \in all : \E q \in Queues : at[q] = x
      OBVIOUS
    <3> QED BY <3>1, <3>2 DEF Surjection
  <2> HIDE DEF all, at
  <2> QED BY <2>1, QueuesFinite, FS_Surjection
<1>2. ASSUME NEW x \in all PROVE IsFiniteSet(x)
  <2>1. PICK q \in Queues : x = At(q)
    OBVIOUS
  <2>2. Len(f[q]) \in Nat /\ DOMAIN f[q] = 1 .. Len(f[q])
    BY DEF Lists
  <2>3. IsFiniteSet(1 .. Len(f[q]))
    BY <2>2, FS_Interval
  <2> DEFINE here == {i \in DOMAIN f[q] : <<q, f[q][i]>> \in m}
  <2>4. here \subseteq 1 .. Len(f[q])
    BY <2>2
  <2> HIDE DEF here
  <2>5. IsFiniteSet(here)
    BY <2>3, <2>4, FS_Subset
  <2>6. IsFiniteSet({q} \X here)
    BY <2>5, FS_Singleton, FS_Product
  <2> QED BY <2>1, <2>6 DEF here
<1>3. Marked(f, m) = UNION all
  BY DEF Marked
<1> HIDE DEF all
<1>4. IsFiniteSet(Marked(f, m))
  BY <1>1, <1>2, <1>3, FS_UNION
<1> QED BY <1>4, FS_CardinalityType

(* Queue t loses its first entry, or gets a new last one.                    *)
Shorter(f, g, t) ==
  /\ t \in Queues /\ \A q \in Queues : q # t => g[q] = f[q]
  /\ Len(f[t]) > 0 /\ Len(g[t]) = Len(f[t]) - 1
  /\ \A i \in 1 .. Len(g[t]) : g[t][i] = f[t][i + 1]

Longer(f, g, t) ==
  /\ t \in Queues /\ \A q \in Queues : q # t => g[q] = f[q]
  /\ Len(g[t]) = Len(f[t]) + 1
  /\ \A i \in 1 .. Len(f[t]) : g[t][i] = f[t][i]

(* Taking the first entry of a queue shifts the others.                      *)
LEMMA MarkedTail ==
  ASSUME NEW f, NEW g, NEW m, Lists(f), Lists(g), NEW t, Shorter(f, g, t)
  PROVE  /\ <<t, f[t][1]>> \in m =>
              Cardinality(Marked(g, m)) = Cardinality(Marked(f, m)) - 1
         /\ <<t, f[t][1]>> \notin m =>
              Cardinality(Marked(g, m)) = Cardinality(Marked(f, m))
<1> USE DEF Shorter
<1> DEFINE F == Marked(f, m)
           G == Marked(g, m)
           first == <<t, 1>>
           Shift(x) == IF x[1] = t THEN <<t, x[2] + 1>> ELSE x
           shift == [x \in G |-> Shift(x)]
<1>0. /\ Len(f[t]) \in Nat /\ Len(g[t]) \in Nat
      /\ DOMAIN f[t] = 1 .. Len(f[t]) /\ DOMAIN g[t] = 1 .. Len(g[t])
  BY DEF Lists
<1>1. /\ \A q, i : <<q, i>> \in F
                   <=> q \in Queues /\ i \in DOMAIN f[q] /\ <<q, f[q][i]>> \in m
      /\ \A x \in F : x = <<x[1], x[2]>>
      /\ \A q, i : <<q, i>> \in G
                   <=> q \in Queues /\ i \in DOMAIN g[q] /\ <<q, g[q][i]>> \in m
      /\ \A x \in G : x = <<x[1], x[2]>>
  BY MarkedIs
<1>2. IsFiniteSet(F) /\ IsFiniteSet(G) /\ Cardinality(F) \in Nat
  BY MarkedFinite
<1>3. first \in F <=> <<t, f[t][1]>> \in m
  <2>1. 1 \in DOMAIN f[t]
    BY <1>0
  <2> QED BY <1>1, <2>1
<1> HIDE DEF F, G
<1>4. ASSUME NEW x \in G
      PROVE  /\ Shift(x) \in F \ {first}
             /\ x[1] = t => x[2] \in Int
  <2>1. /\ x = <<x[1], x[2]>> /\ x[1] \in Queues /\ x[2] \in DOMAIN g[x[1]]
        /\ <<x[1], g[x[1]][x[2]]>> \in m
    <3>1. x = <<x[1], x[2]>>
      BY <1>1
    <3> QED BY <1>1, <3>1
  <2>2. CASE x[1] = t
    <3>1. x[2] \in 1 .. Len(g[t]) /\ x[2] + 1 \in DOMAIN f[t] /\ x[2] + 1 # 1
          /\ x[2] \in Int
      BY <1>0, <2>1, <2>2
    <3>2. <<t, f[t][x[2] + 1]>> \in m
      BY <2>1, <2>2, <3>1
    <3>3. <<t, x[2] + 1>> \in F
      BY <1>1, <3>1, <3>2
    <3> QED BY <2>2, <3>1, <3>3
  <2>3. CASE x[1] # t
    <3>1. x \in F
      BY <1>1, <2>1, <2>3
    <3> QED BY <2>3, <3>1
  <2> QED BY <2>2, <2>3
<1>5. ASSUME NEW x \in G, NEW y \in G, Shift(x) = Shift(y) PROVE x = y
  <2>1. x = <<x[1], x[2]>> /\ y = <<y[1], y[2]>>
    BY <1>1
  <2>2. CASE x[1] = t /\ y[1] = t
    <3>1. x[2] \in Int /\ y[2] \in Int /\ x[2] + 1 = y[2] + 1
      BY <1>4, <1>5, <2>2
    <3>2. x[2] = y[2]
      BY <3>1
    <3> QED BY <2>1, <2>2, <3>2
  <2>3. CASE x[1] = t /\ y[1] # t
    BY <1>5, <2>3
  <2>4. CASE x[1] # t /\ y[1] = t
    BY <1>5, <2>4
  <2>5. CASE x[1] # t /\ y[1] # t
    BY <1>5, <2>5
  <2> QED BY <2>2, <2>3, <2>4, <2>5
<1>6. ASSUME NEW y \in F \ {first} PROVE \E x \in G : Shift(x) = y
  <2>1. /\ y = <<y[1], y[2]>> /\ y[1] \in Queues /\ y[2] \in DOMAIN f[y[1]]
        /\ <<y[1], f[y[1]][y[2]]>> \in m
    <3>1. y = <<y[1], y[2]>>
      BY <1>1
    <3> QED BY <1>1, <3>1
  <2>2. CASE y[1] = t
    <3>1. y[2] # 1
      BY <2>1, <2>2
    <3>2. PICK i : i = y[2] - 1
      OBVIOUS
    <3>3. i \in 1 .. Len(g[t]) /\ i + 1 = y[2] /\ i \in DOMAIN g[t]
      BY <1>0, <2>1, <2>2, <3>1, <3>2
    <3>4. <<t, g[t][i]>> \in m
      BY <2>1, <2>2, <3>3
    <3>5. <<t, i>> \in G
      BY <1>1, <3>3, <3>4
    <3>6. Shift(<<t, i>>) = y
      BY <2>1, <2>2, <3>3
    <3> QED BY <3>5, <3>6
  <2>3. CASE y[1] # t
    <3>1. y \in G
      BY <1>1, <2>1, <2>3
    <3> QED BY <2>3, <3>1
  <2> QED BY <2>2, <2>3
<1>7. shift \in Bijection(G, F \ {first})
  <2>1. shift \in [G -> F \ {first}]
    BY <1>4
  <2>2. \A x, y \in G : shift[x] = shift[y] => x = y
    BY <1>5
  <2>3. \A y \in F \ {first} : \E x \in G : shift[x] = y
    BY <1>6
  <2> HIDE DEF shift
  <2> QED BY <2>1, <2>2, <2>3, Fun_IsBij
<1>8. Cardinality(F \ {first}) = Cardinality(G)
  BY <1>2, <1>7, FS_Bijection DEF ExistsBijection
<1>9. Cardinality(F \ {first})
        = IF first \in F THEN Cardinality(F) - 1 ELSE Cardinality(F)
  BY <1>2, FS_RemoveElement
<1> QED BY <1>3, <1>8, <1>9 DEF F, G

(* A new last entry of a queue is one more, if it is marked.                 *)
LEMMA MarkedAppend ==
  ASSUME NEW f, NEW g, NEW m, Lists(f), Lists(g), NEW t, Longer(f, g, t)
  PROVE  /\ <<t, g[t][Len(g[t])]>> \in m =>
              Cardinality(Marked(g, m)) = Cardinality(Marked(f, m)) + 1
         /\ <<t, g[t][Len(g[t])]>> \notin m =>
              Cardinality(Marked(g, m)) = Cardinality(Marked(f, m))
<1> USE DEF Longer
<1> DEFINE F == Marked(f, m)
           G == Marked(g, m)
           n == Len(g[t])
           last == <<t, n>>
<1>0. /\ Len(f[t]) \in Nat /\ n \in Nat
      /\ DOMAIN f[t] = 1 .. Len(f[t]) /\ DOMAIN g[t] = 1 .. n
  BY DEF Lists
<1>1. /\ \A q, i : <<q, i>> \in F
                   <=> q \in Queues /\ i \in DOMAIN f[q] /\ <<q, f[q][i]>> \in m
      /\ \A x \in F : x = <<x[1], x[2]>>
      /\ \A q, i : <<q, i>> \in G
                   <=> q \in Queues /\ i \in DOMAIN g[q] /\ <<q, g[q][i]>> \in m
      /\ \A x \in G : x = <<x[1], x[2]>>
  BY MarkedIs
<1>2. IsFiniteSet(F) /\ Cardinality(F) \in Nat
  BY MarkedFinite
<1> HIDE DEF F, G, n
<1>3. n \in DOMAIN g[t] /\ n \notin DOMAIN f[t] /\ DOMAIN g[t] = DOMAIN f[t] \cup {n}
  BY <1>0 DEF n
<1>4. last \notin F
  BY <1>1, <1>3
<1>5. ASSUME NEW q, NEW i
      PROVE  <<q, i>> \in G <=> (<<q, i>> \in F \/ (<<q, i>> = last /\ <<t, g[t][n]>> \in m))
  <2>1. CASE q # t
    BY <1>1, <2>1
  <2>2. CASE q = t
    <3>1. CASE i = n
      BY <1>1, <1>3, <2>2, <3>1
    <3>2. CASE i # n
      <4>1. i \in DOMAIN g[t] <=> i \in DOMAIN f[t]
        BY <1>3, <3>2
      <4>2. i \in DOMAIN f[t] => g[t][i] = f[t][i]
        BY <1>0
      <4> QED BY <1>1, <2>2, <3>2, <4>1, <4>2
    <3> QED BY <3>1, <3>2
  <2> QED BY <2>1, <2>2
<1>6. CASE <<t, g[t][n]>> \in m
  <2>1. G = F \cup {last}
    <3>1. ASSUME NEW x \in G PROVE x \in F \cup {last}
      <4>1. x = <<x[1], x[2]>>
        BY <1>1
      <4> QED BY <1>5, <4>1
    <3>2. ASSUME NEW x \in F PROVE x \in G
      <4>1. x = <<x[1], x[2]>>
        BY <1>1
      <4> QED BY <1>5, <4>1
    <3>3. last \in G
      BY <1>5, <1>6
    <3> QED BY <3>1, <3>2, <3>3
  <2>2. Cardinality(G) = Cardinality(F) + 1
    BY <1>2, <1>4, <2>1, FS_AddElement
  <2> QED BY <1>6, <2>2 DEF F, G, n
<1>7. CASE <<t, g[t][n]>> \notin m
  <2>1. G = F
    <3>1. ASSUME NEW x \in G PROVE x \in F
      <4>1. x = <<x[1], x[2]>>
        BY <1>1
      <4> QED BY <1>5, <1>7, <4>1
    <3>2. ASSUME NEW x \in F PROVE x \in G
      <4>1. x = <<x[1], x[2]>>
        BY <1>1
      <4> QED BY <1>5, <4>1
    <3> QED BY <3>1, <3>2
  <2> QED BY <1>7, <2>1 DEF F, G, n
<1> QED BY <1>6, <1>7

(* An entry goes from the head of one queue to the end of another.           *)
LEMMA MarkedMove ==
  ASSUME NEW f, NEW h, NEW g, NEW m, Lists(f), Lists(h), Lists(g), NEW s, NEW t,
         Shorter(f, h, s), Longer(h, g, t),
         <<s, f[s][1]>> \in m <=> <<t, g[t][Len(g[t])]>> \in m
  PROVE  Cardinality(Marked(g, m)) = Cardinality(Marked(f, m))
<1>1. /\ <<s, f[s][1]>> \in m => Cardinality(Marked(h, m)) = Cardinality(Marked(f, m)) - 1
      /\ <<s, f[s][1]>> \notin m => Cardinality(Marked(h, m)) = Cardinality(Marked(f, m))
  BY MarkedTail
<1>2. /\ <<t, g[t][Len(g[t])]>> \in m => Cardinality(Marked(g, m)) = Cardinality(Marked(h, m)) + 1
      /\ <<t, g[t][Len(g[t])]>> \notin m => Cardinality(Marked(g, m)) = Cardinality(Marked(h, m))
  BY MarkedAppend
<1>3. Cardinality(Marked(f, m)) \in Nat /\ Cardinality(Marked(h, m)) \in Nat
  BY MarkedFinite
<1> QED BY <1>1, <1>2, <1>3

(* Or to the head of another.                                                *)
LEMMA MarkedBack ==
  ASSUME NEW f, NEW h, NEW g, NEW m, Lists(f), Lists(h), Lists(g), NEW s, NEW t,
         Shorter(f, h, s), Shorter(g, h, t),
         <<s, f[s][1]>> \in m <=> <<t, g[t][1]>> \in m
  PROVE  Cardinality(Marked(g, m)) = Cardinality(Marked(f, m))
<1>1. /\ <<s, f[s][1]>> \in m => Cardinality(Marked(h, m)) = Cardinality(Marked(f, m)) - 1
      /\ <<s, f[s][1]>> \notin m => Cardinality(Marked(h, m)) = Cardinality(Marked(f, m))
  BY MarkedTail
<1>2. /\ <<t, g[t][1]>> \in m => Cardinality(Marked(h, m)) = Cardinality(Marked(g, m)) - 1
      /\ <<t, g[t][1]>> \notin m => Cardinality(Marked(h, m)) = Cardinality(Marked(g, m))
  BY MarkedTail
<1>3. Cardinality(Marked(f, m)) \in Nat /\ Cardinality(Marked(g, m)) \in Nat
  BY MarkedFinite
<1> QED BY <1>1, <1>2, <1>3

(* A queue without marked entries may change at will.                        *)
LEMMA MarkedElsewhere ==
  ASSUME NEW f, NEW g, NEW m, NEW t \in Queues,
         \A q \in Queues : q # t => g[q] = f[q],
         \A x : <<t, x>> \notin m
  PROVE  Marked(g, m) = Marked(f, m)
<1>1. /\ \A q, i : <<q, i>> \in Marked(f, m)
                   <=> q \in Queues /\ i \in DOMAIN f[q] /\ <<q, f[q][i]>> \in m
      /\ \A x \in Marked(f, m) : x = <<x[1], x[2]>>
      /\ \A q, i : <<q, i>> \in Marked(g, m)
                   <=> q \in Queues /\ i \in DOMAIN g[q] /\ <<q, g[q][i]>> \in m
      /\ \A x \in Marked(g, m) : x = <<x[1], x[2]>>
  BY MarkedIs
<1>2. ASSUME NEW q, NEW i PROVE <<q, i>> \in Marked(g, m) <=> <<q, i>> \in Marked(f, m)
  <2>1. CASE q = t
    <3>1. <<q, f[q][i]>> \notin m /\ <<q, g[q][i]>> \notin m
      BY <2>1
    <3> QED BY <1>1, <3>1
  <2>2. CASE q # t
    <3>1. q \in Queues => g[q] = f[q]
      BY <2>2
    <3> QED BY <1>1, <3>1
  <2> QED BY <2>1, <2>2
<1>3. ASSUME NEW x \in Marked(f, m) PROVE x \in Marked(g, m)
  <2>1. x = <<x[1], x[2]>>
    BY <1>1
  <2> QED BY <1>2, <2>1
<1>4. ASSUME NEW x \in Marked(g, m) PROVE x \in Marked(f, m)
  <2>1. x = <<x[1], x[2]>>
    BY <1>1
  <2> QED BY <1>2, <2>1
<1> QED BY <1>3, <1>4

(* No marked entries, or one.                                                *)
LEMMA MarkedNone ==
  ASSUME NEW f, NEW m, Lists(f)
  PROVE  Cardinality(Marked(f, m)) = 0
         <=> \A q \in Queues : \A i \in DOMAIN f[q] : <<q, f[q][i]>> \notin m
<1>1. /\ \A q, i : <<q, i>> \in Marked(f, m)
                   <=> q \in Queues /\ i \in DOMAIN f[q] /\ <<q, f[q][i]>> \in m
      /\ \A x \in Marked(f, m) : x = <<x[1], x[2]>>
  BY MarkedIs
<1>2. Cardinality(Marked(f, m)) = 0 <=> Marked(f, m) = {}
  BY MarkedFinite, FS_EmptySet
<1>3. ASSUME Marked(f, m) = {}, NEW q \in Queues, NEW i \in DOMAIN f[q]
      PROVE  <<q, f[q][i]>> \notin m
  <2>1. <<q, i>> \notin Marked(f, m)
    BY <1>3
  <2> QED BY <1>1, <2>1
<1>4. ASSUME \A q \in Queues : \A i \in DOMAIN f[q] : <<q, f[q][i]>> \notin m
      PROVE  Marked(f, m) = {}
  <2> SUFFICES ASSUME NEW x \in Marked(f, m) PROVE FALSE
    OBVIOUS
  <2>1. x = <<x[1], x[2]>>
    BY <1>1
  <2>2. x[1] \in Queues /\ x[2] \in DOMAIN f[x[1]] /\ <<x[1], f[x[1]][x[2]]>> \in m
    BY <1>1, <2>1
  <2> QED BY <1>4, <2>2
<1> QED BY <1>2, <1>3, <1>4

LEMMA MarkedOnce ==
  ASSUME NEW f, NEW m, Lists(f), Cardinality(Marked(f, m)) = 1,
         NEW q \in Queues, NEW i \in DOMAIN f[q], <<q, f[q][i]>> \in m,
         NEW p \in Queues, NEW j \in DOMAIN f[p], <<p, f[p][j]>> \in m
  PROVE  q = p /\ i = j
<1>1. <<q, i>> \in Marked(f, m) /\ <<p, j>> \in Marked(f, m)
  BY MarkedIs
<1>2. IsFiniteSet(Marked(f, m))
  BY MarkedFinite
<1>3. PICK x : Marked(f, m) = {x}
  BY <1>2, FS_Singleton
<1> QED BY <1>1, <1>3

-----------------------------------------------------------------------------
(* Sequences *)

LEMMA HeadTail ==
  ASSUME NEW E, NEW s \in Seq(E), s # <<>>
  PROVE  /\ Len(s) \in Nat /\ Len(s) > 0 /\ DOMAIN s = 1 .. Len(s)
         /\ Head(s) = s[1] /\ Head(s) \in E
         /\ Tail(s) \in Seq(E) /\ Len(Tail(s)) = Len(s) - 1
         /\ DOMAIN Tail(s) = 1 .. Len(s) - 1
         /\ \A i \in 1 .. Len(s) - 1 : Tail(s)[i] = s[i + 1]
OBVIOUS

LEMMA Appended ==
  ASSUME NEW E, NEW s \in Seq(E), NEW x \in E
  PROVE  /\ Len(s) \in Nat /\ DOMAIN s = 1 .. Len(s)
         /\ Append(s, x) \in Seq(E) /\ Len(Append(s, x)) = Len(s) + 1
         /\ DOMAIN Append(s, x) = 1 .. Len(s) + 1
         /\ \A i \in 1 .. Len(s) : Append(s, x)[i] = s[i]
         /\ Append(s, x)[Len(s) + 1] = x
OBVIOUS

LEMMA Pushed ==
  ASSUME NEW E, NEW s \in Seq(E), NEW x \in E
  PROVE  /\ <<x>> \o s \in Seq(E) /\ Len(<<x>> \o s) = Len(s) + 1
         /\ DOMAIN (<<x>> \o s) = 1 .. Len(s) + 1
         /\ (<<x>> \o s)[1] = x
         /\ \A i \in 1 .. Len(s) : (<<x>> \o s)[i + 1] = s[i]
<1>1. <<x>> \in Seq(E) /\ Len(<<x>>) = 1 /\ Len(s) \in Nat
  OBVIOUS
<1>2. <<x>> \o s \in Seq(E) /\ Len(<<x>> \o s) = 1 + Len(s)
  BY <1>1
<1>3. (<<x>> \o s)[1] = x
  BY <1>1
<1>4. ASSUME NEW i \in 1 .. Len(s) PROVE (<<x>> \o s)[i + 1] = s[i]
  BY <1>1
<1> QED BY <1>1, <1>2, <1>3, <1>4

-----------------------------------------------------------------------------
(* Calls and packets *)

Kinds == {"write", "store", "amoadd", "load", "read"}
Rqst == [kind : Kinds, addr : Addrs, val : Words, id : Ids]
Rsp == [kind : Kinds, id : Ids, val : Words]
Data == [id : Ids, val : Words]

LEMMA LenIs ==
  ASSUME NEW k \in Nat, NEW s, DOMAIN s = 1 .. k, s = [i \in 1 .. k |-> s[i]]
  PROVE  Len(s) = k
<1> DEFINE E == {s[i] : i \in 1 .. k}
<1>1. s \in [1 .. k -> E]
  OBVIOUS
<1> HIDE DEF E
<1>2. s \in Seq(E)
  BY <1>1, SeqDef
<1>3. DOMAIN s = 1 .. Len(s) /\ Len(s) \in Nat
  BY <1>2, LenProperties
<1> QED BY <1>3

LEMMA CallFacts ==
  ASSUME NEW c \in Calls
  PROVE  /\ c.kind \in Kinds
         /\ Len(c.addrs) \in 1 .. MaxWords /\ DOMAIN c.addrs = 1 .. Len(c.addrs)
         /\ c.kind # "read" => \A i \in 1 .. Len(c.addrs) : c.addrs[i] \in Addrs
         /\ c.kind \in {"store", "amoadd", "load"} => Len(c.addrs) = 1
         /\ c.kind \in {"write", "store", "amoadd"} =>
              \A i \in 1 .. Len(c.addrs) : c.vals[i] \in Words
         /\ c.kind = "write" =>
              \A i, j \in 1 .. Len(c.addrs) : c.addrs[i] = c.addrs[j] => i = j
<1>1. CASE c \in Writes
  <2> DEFINE Run(a, k) == [i \in 1 .. k |-> <<a[1], a[2] + i - 1>>]
           Runs(k) == {Run(a, k) : a \in {b \in Addrs : Range(Run(b, k)) \subseteq Addrs}}
  <2>1. PICK k \in 1 .. MaxWords : c \in Transfers("write", Runs(k), [1 .. k -> Words])
    BY <1>1 DEF Writes
  <2>2. PICK a \in Addrs, v \in [1 .. k -> Words] :
          /\ Range(Run(a, k)) \subseteq Addrs
          /\ c = [kind |-> "write", addrs |-> Run(a, k), vals |-> v]
    <3> HIDE DEF Runs
    <3>1. PICK r \in Runs(k), v \in [1 .. k -> Words] :
            c = [kind |-> "write", addrs |-> r, vals |-> v]
      BY <2>1 DEF Transfers
    <3>2. PICK a \in {b \in Addrs : Range(Run(b, k)) \subseteq Addrs} : r = Run(a, k)
      BY <3>1 DEF Runs
    <3> HIDE DEF Run
    <3> QED BY <3>1, <3>2
  <2>3. k \in Nat /\ a[2] \in Nat
    BY MemoryAssumption
  <2>4. /\ DOMAIN c.addrs = 1 .. k
        /\ \A i \in 1 .. k : c.addrs[i] = <<a[1], a[2] + i - 1>>
    BY <2>2
  <2>5. PICK r : r = c.addrs
    OBVIOUS
  <2>6. Len(c.addrs) = k
    <3>1. DOMAIN r = 1 .. k /\ r = [i \in 1 .. k |-> r[i]]
      BY <2>2, <2>4, <2>5
    <3>2. Len(r) = k
      BY <2>3, <3>1, LenIs
    <3> QED BY <2>5, <3>2
  <2>7. \A i \in 1 .. k : c.addrs[i] \in Addrs
    BY <2>2 DEF Range
  <2>8. ASSUME NEW i \in 1 .. k, NEW j \in 1 .. k, c.addrs[i] = c.addrs[j] PROVE i = j
    <3>1. a[2] + i - 1 = a[2] + j - 1
      BY <2>4, <2>8
    <3> QED BY <2>3, <3>1
  <2> QED BY <2>2, <2>3, <2>4, <2>6, <2>7, <2>8 DEF Kinds
<1>2. CASE c \in Transfers("store", [1 .. 1 -> Addrs], [1 .. 1 -> Words])
  <2>1. PICK a \in [1 .. 1 -> Addrs], v \in [1 .. 1 -> Words] :
          c = [kind |-> "store", addrs |-> a, vals |-> v]
    BY <1>2 DEF Transfers
  <2>2. Len(a) = 1
    BY LenIs
  <2>3. 1 \in 1 .. MaxWords
    BY MemoryAssumption
  <2>4. /\ c.addrs = a /\ c.vals = v /\ DOMAIN a = 1 .. 1
        /\ c.kind = "store"
    BY <2>1
  <2>5. \A i \in 1 .. 1 : a[i] \in Addrs
    OBVIOUS
  <2> QED BY <2>2, <2>3, <2>4, <2>5 DEF Kinds
<1>3. CASE c \in Transfers("amoadd", [1 .. 1 -> {a \in Addrs : a[1] \in Drams}], [1 .. 1 -> Words])
  <2>1. PICK a \in [1 .. 1 -> Addrs], v \in [1 .. 1 -> Words] :
          c = [kind |-> "amoadd", addrs |-> a, vals |-> v]
    BY <1>3 DEF Transfers
  <2>2. Len(a) = 1
    BY LenIs
  <2>3. 1 \in 1 .. MaxWords
    BY MemoryAssumption
  <2>4. /\ c.addrs = a /\ c.vals = v /\ DOMAIN a = 1 .. 1
        /\ c.kind = "amoadd"
    BY <2>1
  <2>5. \A i \in 1 .. 1 : a[i] \in Addrs
    OBVIOUS
  <2> QED BY <2>2, <2>3, <2>4, <2>5 DEF Kinds
<1>4. CASE c \in Transfers("load", [1 .. 1 -> Addrs], {<<>>})
  <2>1. PICK a \in [1 .. 1 -> Addrs], v \in {<<>>} :
          c = [kind |-> "load", addrs |-> a, vals |-> v]
    BY <1>4 DEF Transfers
  <2>2. Len(a) = 1
    BY LenIs
  <2>3. 1 \in 1 .. MaxWords
    BY MemoryAssumption
  <2>4. /\ c.addrs = a /\ c.vals = v /\ DOMAIN a = 1 .. 1
        /\ c.kind = "load"
    BY <2>1
  <2>5. \A i \in 1 .. 1 : a[i] \in Addrs
    OBVIOUS
  <2> QED BY <2>2, <2>3, <2>4, <2>5 DEF Kinds
<1>5. CASE c \in Transfers("read", ReadLists, {<<>>})
  <2>1. PICK a \in ReadLists, v \in {<<>>} : c = [kind |-> "read", addrs |-> a, vals |-> v]
    BY <1>5 DEF Transfers
  <2>2. PICK k \in 1 .. MaxWords : a \in [1 .. k -> Addrs \cup (BadNodes \X Nat)]
    BY <2>1, MemoryAssumption
  <2>3. k \in Nat
    BY MemoryAssumption
  <2>4. Len(a) = k
    BY <2>2, <2>3, LenIs
  <2> QED BY <2>1, <2>2, <2>3, <2>4 DEF Kinds
<1> QED BY <1>1, <1>2, <1>3, <1>4, <1>5 DEF Calls

-----------------------------------------------------------------------------
(* The queues, and where the host is *)

QueuesInv ==
  /\ tx \in Seq(Rqst) /\ Len(tx) <= TxDepth /\ rx \in Seq(Data)
  /\ net \in [Nodes -> Seq(Rqst)] /\ back \in [Nodes -> Seq(Rsp)]
  /\ \A n \in Nodes : \A i \in 1 .. Len(net[n]) : net[n][i].addr[1] = n
  /\ mem \in [Addrs -> Words]

Stage ==
  \/ pc = "idle" /\ call = NoCall /\ rqst_i = 0 /\ rsp_i = 0
  \/ /\ pc = "store" /\ call \in Calls /\ call.kind \in {"write", "store"}
     /\ rqst_i \in 0 .. Count - 1 /\ rsp_i = 0
  \/ /\ pc = "stored" /\ call \in Calls /\ call.kind \in {"write", "store"}
     /\ rqst_i = Count /\ rsp_i = 0
  \/ /\ pc = "single" /\ call \in Calls /\ call.kind \in {"amoadd", "load"}
     /\ rqst_i = 0 /\ rsp_i = 0
  \/ /\ pc = "answer" /\ call \in Calls /\ call.kind \in {"amoadd", "load"}
     /\ rqst_i = 1 /\ rsp_i = 0
  \/ /\ pc = "request" /\ call \in Calls /\ call.kind = "read"
     /\ rqst_i \in 0 .. Count - 1 /\ rsp_i \in 0 .. rqst_i
  \/ /\ pc = "receive" /\ call \in Calls /\ call.kind = "read"
     /\ rqst_i \in 1 .. Count /\ rsp_i \in 0 .. rqst_i - 1

HostInv ==
  /\ Stage
  /\ ids \in Seq(Ids) /\ DOMAIN id_to_rsp_i \subseteq Ids
  /\ \A id \in DOMAIN id_to_rsp_i : id_to_rsp_i[id] \in 1 .. rqst_i
  /\ pc \notin {"request", "receive"} => ids = AllIds /\ id_to_rsp_i = <<>>
  /\ PartialWords(result)
  /\ pc \notin {"idle", "request", "receive"} => result = <<>>
  /\ broken \in BOOLEAN

LEMMA Consts ==
  /\ Cap \in Nat /\ Cap > 0 /\ TxDepth \in Nat /\ TxDepth > 0 /\ WordMod \in Nat /\ WordMod > 0
  /\ MaxWords \in Nat /\ MaxWords > 0 /\ 0 \in Ids /\ 0 \in Words
  /\ Words \subseteq Nat /\ Ids \subseteq Nat
BY MemoryAssumption DEF Ids, Words

LEMMA AllIdsType == AllIds \in Seq(Ids) /\ Len(AllIds) = Cap
<1>1. Cap \in Nat
  BY Consts
<1>2. AllIds \in [1 .. Cap -> Ids]
  BY <1>1 DEF AllIds, Ids
<1>3. Len(AllIds) = Cap
  BY <1>1 DEF AllIds
<1> QED BY <1>1, <1>2, <1>3, SeqDef

LEMMA CallRange ==
  ASSUME call \in Calls
  PROVE  Count \in 1 .. MaxWords /\ Count \in Nat
<1>1. Len(call.addrs) \in 1 .. MaxWords
  BY CallFacts
<1> QED BY <1>1, Consts DEF Count

LEMMA ModRange ==
  \A a, b \in Nat : b > 0 => a % b \in 0 .. b - 1
OBVIOUS

LEMMA EffectType ==
  ASSUME NEW w \in Words, NEW rqst \in Rqst
  PROVE  Effect(w, rqst) \in Words
<1>1. rqst.val \in Words /\ rqst.kind \in Kinds
  BY DEF Rqst
<1>2. CASE rqst.kind \in {"write", "store"}
  BY <1>1, <1>2 DEF Effect
<1>3. CASE rqst.kind = "amoadd"
  <2>1. Effect(w, rqst) = (w + rqst.val) % WordMod
    BY <1>3 DEF Effect
  <2>2. w + rqst.val \in Nat /\ WordMod \in Nat /\ WordMod > 0
    <3>1. w \in Nat /\ rqst.val \in Nat
      BY <1>1, Consts
    <3> QED BY <3>1, Consts
  <2>3. (w + rqst.val) % WordMod \in 0 .. WordMod - 1
    BY <2>2, ModRange
  <2> QED BY <2>1, <2>3 DEF Words
<1>4. CASE rqst.kind \in {"load", "read"}
  BY <1>4 DEF Effect
<1> QED BY <1>1, <1>2, <1>3, <1>4 DEF Kinds

(* What each request of the host looks like.                                 *)
LEMMA StoreRqst ==
  ASSUME HostInv, Store
  PROVE  [kind |-> call.kind, addr |-> call.addrs[rqst_i + 1],
          val |-> call.vals[rqst_i + 1], id |-> 0] \in Rqst
<1>1. call \in Calls /\ call.kind \in {"write", "store"} /\ rqst_i \in 0 .. Count - 1
  BY DEF HostInv, Stage, Store
<1>2. rqst_i + 1 \in 1 .. Len(call.addrs)
  BY <1>1, CallRange DEF Count
<1>3. call.kind \in Kinds
  BY <1>1, CallFacts
<1>4. call.kind # "read" /\ call.kind \in {"write", "store", "amoadd"}
  BY <1>1
<1>5. call.addrs[rqst_i + 1] \in Addrs
  BY <1>1, <1>2, <1>4, CallFacts
<1>6. call.vals[rqst_i + 1] \in Words
  BY <1>1, <1>2, <1>4, CallFacts
<1> QED BY <1>3, <1>5, <1>6, Consts DEF Rqst

LEMMA SingleRqst ==
  ASSUME HostInv, SendSingle
  PROVE  [kind |-> call.kind, addr |-> call.addrs[1], id |-> 0,
          val |-> IF call.kind = "amoadd" THEN call.vals[1] ELSE 0] \in Rqst
<1>1. call \in Calls /\ call.kind \in {"amoadd", "load"}
  BY DEF HostInv, Stage, SendSingle
<1>2. 1 \in 1 .. Len(call.addrs)
  BY <1>1, CallRange DEF Count
<1>3. call.kind \in Kinds
  BY <1>1, CallFacts
<1>4. call.addrs[1] \in Addrs
  <2>1. call.kind # "read"
    BY <1>1
  <2> QED BY <1>1, <1>2, <2>1, CallFacts
<1>5. call.kind = "amoadd" => call.vals[1] \in Words
  <2>1. call.kind = "amoadd" => call.kind \in {"write", "store", "amoadd"}
    OBVIOUS
  <2> QED BY <1>1, <1>2, <2>1, CallFacts
<1> QED BY <1>3, <1>4, <1>5, Consts DEF Rqst

LEMMA ReadRqst ==
  ASSUME HostInv, Request
  PROVE  /\ [kind |-> "read", addr |-> call.addrs[rqst_i + 1], id |-> Head(ids), val |-> 0] \in Rqst
         /\ Head(ids) \in Ids
<1>1. ids \in Seq(Ids) /\ ids # <<>> /\ call.addrs[rqst_i + 1] \in Addrs
  BY DEF HostInv, Request
<1>2. Head(ids) \in Ids
  BY <1>1, HeadTail
<1> QED BY <1>1, <1>2, Consts DEF Rqst, Kinds

LEMMA QueuesInit == Init => QueuesInv /\ HostInv
<1> SUFFICES ASSUME Init PROVE QueuesInv /\ HostInv
  OBVIOUS
<1>1. /\ pc = "idle" /\ call = NoCall /\ rqst_i = 0 /\ rsp_i = 0
      /\ ids = AllIds /\ id_to_rsp_i = <<>> /\ result = <<>>
      /\ tx = <<>> /\ rx = <<>>
      /\ net = [n \in Nodes |-> <<>>] /\ back = [n \in Nodes |-> <<>>]
      /\ mem \in [Addrs -> Words] /\ broken = FALSE
  BY DEF Init
<1>2. \A E : <<>> \in Seq(E)
  OBVIOUS
<1>3. net \in [Nodes -> Seq(Rqst)] /\ back \in [Nodes -> Seq(Rsp)]
  BY <1>1, <1>2
<1>4. \A n \in Nodes : Len(net[n]) = 0
  BY <1>1
<1>5. QueuesInv
  BY <1>1, <1>2, <1>3, <1>4, Consts DEF QueuesInv
<1>6. PartialWords(<<>>) /\ DOMAIN <<>> = {}
  BY DEF PartialWords
<1> QED BY <1>1, <1>5, <1>6, AllIdsType DEF HostInv, Stage

LEMMA TransmitQueues ==
  ASSUME QueuesInv, NEW rqst \in Rqst, Transmit(rqst), UNCHANGED <<device, rx>>
  PROVE  QueuesInv'
<1>1. tx' = Append(tx, rqst) /\ Len(tx) < TxDepth
  BY DEF Transmit
<1>2. tx' \in Seq(Rqst) /\ Len(tx') = Len(tx) + 1 /\ Len(tx) \in Nat
  BY <1>1, Appended DEF QueuesInv
<1>3. Len(tx') <= TxDepth
  BY <1>1, <1>2, Consts
<1> QED BY <1>2, <1>3 DEF QueuesInv, device

LEMMA ReceiveQueues ==
  ASSUME QueuesInv, Receive, UNCHANGED <<tx, device>>
  PROVE  QueuesInv' /\ Head(rx) \in Data
<1>1. rx \in Seq(Data) /\ rx # <<>> /\ rx' = Tail(rx)
  BY DEF Receive, QueuesInv
<1>2. rx' \in Seq(Data) /\ Head(rx) \in Data
  BY <1>1, HeadTail
<1> QED BY <1>2 DEF QueuesInv, device

LEMMA InjectFacts ==
  ASSUME QueuesInv, Inject
  PROVE  /\ tx # <<>> /\ Head(tx) \in Rqst /\ Head(tx).addr[1] \in Nodes
         /\ tx' = Tail(tx)
         /\ net' = [net EXCEPT ![Head(tx).addr[1]] = Append(net[Head(tx).addr[1]], Head(tx))]
         /\ UNCHANGED <<host, back, mem, rx, pending, broken>>
         /\ QueuesInv'
<1>1. /\ tx # <<>> /\ tx' = Tail(tx)
      /\ net' = [net EXCEPT ![Head(tx).addr[1]] = Append(net[Head(tx).addr[1]], Head(tx))]
      /\ UNCHANGED <<host, back, mem, rx, pending, broken>>
  BY DEF Inject
<1>2. /\ Head(tx) \in Rqst /\ tx' \in Seq(Rqst) /\ Len(tx') = Len(tx) - 1 /\ Len(tx) \in Nat
  BY <1>1, HeadTail DEF QueuesInv
<1>3. Len(tx') <= TxDepth
  BY <1>2, Consts DEF QueuesInv
<1>4. PICK n : n = Head(tx).addr[1]
  OBVIOUS
<1>5. n \in Nodes
  BY <1>2, <1>4, MemoryAssumption DEF Rqst
<1>6. net[n] \in Seq(Rqst)
  BY <1>5 DEF QueuesInv
<1>7. /\ Append(net[n], Head(tx)) \in Seq(Rqst)
      /\ Len(net[n]) \in Nat /\ Len(Append(net[n], Head(tx))) = Len(net[n]) + 1
      /\ \A i \in 1 .. Len(net[n]) : Append(net[n], Head(tx))[i] = net[n][i]
      /\ Append(net[n], Head(tx))[Len(net[n]) + 1] = Head(tx)
  BY <1>2, <1>6, Appended
<1>8. net' \in [Nodes -> Seq(Rqst)]
  BY <1>1, <1>4, <1>5, <1>7 DEF QueuesInv
<1>9. ASSUME NEW k \in Nodes, NEW i \in 1 .. Len(net'[k]) PROVE net'[k][i].addr[1] = k
  <2>1. CASE k = n
    <3>1. net'[n] = Append(net[n], Head(tx))
      BY <1>1, <1>4, <1>5 DEF QueuesInv
    <3>2. i \in 1 .. Len(net[n]) \/ i = Len(net[n]) + 1
      BY <1>7, <2>1, <3>1
    <3> QED BY <1>4, <1>5, <1>7, <2>1, <3>1, <3>2 DEF QueuesInv
  <2>2. CASE k # n
    <3>1. net'[k] = net[k]
      BY <1>1, <1>4, <2>2 DEF QueuesInv
    <3> QED BY <3>1 DEF QueuesInv
  <2> QED BY <2>1, <2>2
<1>10. QueuesInv'
  BY <1>1, <1>2, <1>3, <1>8, <1>9 DEF QueuesInv
<1> QED BY <1>1, <1>2, <1>4, <1>5, <1>10

LEMMA ServeFacts ==
  ASSUME QueuesInv, NEW n \in Nodes, Serve(n),
         NEW rqst, rqst = Head(net[n]),
         NEW rsp, rsp = [kind |-> rqst.kind, id |-> rqst.id, val |-> mem[rqst.addr]]
  PROVE  /\ net[n] \in Seq(Rqst) /\ net[n] # <<>> /\ rqst \in Rqst /\ rqst.addr[1] = n
         /\ rsp \in Rsp /\ back[n] \in Seq(Rsp)
         /\ mem' = [mem EXCEPT ![rqst.addr] = Effect(mem[rqst.addr], rqst)]
         /\ back' = [back EXCEPT ![n] = Append(back[n], rsp)]
         /\ net' = [net EXCEPT ![n] = Tail(net[n])]
         /\ UNCHANGED <<host, tx, rx, pending, broken>>
         /\ QueuesInv'
<1>1. /\ net[n] # <<>>
      /\ mem' = [mem EXCEPT ![rqst.addr] = Effect(mem[rqst.addr], rqst)]
      /\ back' = [back EXCEPT ![n] = Append(back[n], rsp)]
      /\ net' = [net EXCEPT ![n] = Tail(net[n])]
      /\ UNCHANGED <<host, tx, rx, pending, broken>>
  BY DEF Serve
<1>2. net[n] \in Seq(Rqst) /\ back[n] \in Seq(Rsp)
  BY DEF QueuesInv
<1>3. /\ rqst \in Rqst /\ rqst = net[n][1] /\ 1 \in 1 .. Len(net[n])
      /\ Tail(net[n]) \in Seq(Rqst) /\ Len(Tail(net[n])) = Len(net[n]) - 1
      /\ Len(net[n]) \in Nat
      /\ \A i \in 1 .. Len(net[n]) - 1 : Tail(net[n])[i] = net[n][i + 1]
  BY <1>1, <1>2, HeadTail
<1>4. rqst.addr[1] = n
  BY <1>3 DEF QueuesInv
<1>5. rqst.addr \in Addrs /\ rqst.kind \in Kinds /\ rqst.id \in Ids
  BY <1>3 DEF Rqst
<1>6. mem[rqst.addr] \in Words
  BY <1>5 DEF QueuesInv
<1>7. rsp \in Rsp
  BY <1>5, <1>6 DEF Rsp
<1>8. mem' \in [Addrs -> Words]
  <2>1. Effect(mem[rqst.addr], rqst) \in Words
    BY <1>3, <1>6, EffectType
  <2> QED BY <1>1, <2>1 DEF QueuesInv
<1>9. Append(back[n], rsp) \in Seq(Rsp)
  BY <1>2, <1>7, Appended
<1>10. back' \in [Nodes -> Seq(Rsp)]
  BY <1>1, <1>9 DEF QueuesInv
<1>11. net' \in [Nodes -> Seq(Rqst)]
  BY <1>1, <1>3 DEF QueuesInv
<1>12. ASSUME NEW k \in Nodes, NEW i \in 1 .. Len(net'[k]) PROVE net'[k][i].addr[1] = k
  <2>1. CASE k = n
    <3>1. net'[n] = Tail(net[n])
      BY <1>1 DEF QueuesInv
    <3>2. i \in 1 .. Len(net[n]) - 1 /\ i + 1 \in 1 .. Len(net[n])
      BY <1>3, <2>1, <3>1
    <3>3. net'[n][i] = net[n][i + 1]
      BY <1>3, <3>1, <3>2
    <3> QED BY <2>1, <3>2, <3>3 DEF QueuesInv
  <2>2. CASE k # n
    <3>1. net'[k] = net[k]
      BY <1>1, <2>2 DEF QueuesInv
    <3> QED BY <3>1 DEF QueuesInv
  <2> QED BY <2>1, <2>2
<1>13. QueuesInv'
  BY <1>1, <1>8, <1>10, <1>11, <1>12 DEF QueuesInv
<1> QED BY <1>1, <1>2, <1>3, <1>4, <1>7, <1>13

LEMMA GiveBackFacts ==
  ASSUME QueuesInv, NEW n \in Nodes, GiveBack(n), NEW rsp, rsp = Head(back[n])
  PROVE  /\ back[n] \in Seq(Rsp) /\ back[n] # <<>> /\ rsp \in Rsp
         /\ ExpectsResponse(rsp.kind) =>
              /\ rx' = Append(rx, [id |-> rsp.id, val |-> rsp.val])
              /\ [id |-> rsp.id, val |-> rsp.val] \in Data
         /\ ~ExpectsResponse(rsp.kind) => rx' = rx
         /\ back' = [back EXCEPT ![n] = Tail(back[n])]
         /\ UNCHANGED <<host, tx, net, mem, pending, broken>>
         /\ QueuesInv'
<1>1. /\ back[n] # <<>>
      /\ rx' = IF ExpectsResponse(rsp.kind)
                 THEN Append(rx, [id |-> rsp.id, val |-> rsp.val]) ELSE rx
      /\ back' = [back EXCEPT ![n] = Tail(back[n])]
      /\ UNCHANGED <<host, tx, net, mem, pending, broken>>
  BY DEF GiveBack
<1>2. back[n] \in Seq(Rsp)
  BY DEF QueuesInv
<1>3. rsp \in Rsp /\ Tail(back[n]) \in Seq(Rsp)
  BY <1>1, <1>2, HeadTail
<1>4. [id |-> rsp.id, val |-> rsp.val] \in Data
  BY <1>3 DEF Rsp, Data
<1>5. back' \in [Nodes -> Seq(Rsp)]
  BY <1>1, <1>3 DEF QueuesInv
<1>6. rx' \in Seq(Data)
  <2>1. Append(rx, [id |-> rsp.id, val |-> rsp.val]) \in Seq(Data)
    BY <1>4, Appended DEF QueuesInv
  <2> QED BY <1>1, <2>1 DEF QueuesInv
<1>7. QueuesInv'
  BY <1>1, <1>5, <1>6 DEF QueuesInv
<1> QED BY <1>1, <1>2, <1>3, <1>4, <1>7

LEMMA QueuesStep ==
  ASSUME QueuesInv, HostInv, [Next]_vars
  PROVE  QueuesInv'
<1>same. ASSUME UNCHANGED <<tx, device, rx>> PROVE QueuesInv'
  BY <1>same DEF QueuesInv, device
<1>1. CASE \E c \in Calls : Begin(c)
  BY <1>1, <1>same DEF Begin
<1>2. CASE Store
  <2>1. PICK r \in Rqst : Transmit(r) /\ UNCHANGED <<device, rx>>
    BY <1>2, StoreRqst DEF Store
  <2> QED BY <2>1, TransmitQueues
<1>3. CASE StoreReturns
  BY <1>3, <1>same DEF StoreReturns
<1>4. CASE SendSingle
  <2>1. PICK r \in Rqst : Transmit(r) /\ UNCHANGED <<device, rx>>
    BY <1>4, SingleRqst DEF SendSingle
  <2> QED BY <2>1, TransmitQueues
<1>5. CASE TakeSingle
  BY <1>5, ReceiveQueues DEF TakeSingle
<1>6. CASE Request
  <2>1. PICK r \in Rqst : Transmit(r) /\ UNCHANGED <<device, rx>>
    BY <1>6, ReadRqst DEF Request
  <2> QED BY <2>1, TransmitQueues
<1>7. CASE RequestFails
  BY <1>7, <1>same DEF RequestFails
<1>8. CASE Respond
  BY <1>8, ReceiveQueues DEF Respond
<1>9. CASE Inject
  BY <1>9, InjectFacts
<1>10. CASE \E n \in Nodes : Serve(n)
  BY <1>10, ServeFacts
<1>11. CASE \E n \in Nodes : GiveBack(n)
  BY <1>11, GiveBackFacts
<1>12. CASE UNCHANGED vars
  BY <1>12, <1>same DEF vars, host
<1> QED BY <1>1, <1>2, <1>3, <1>4, <1>5, <1>6, <1>7, <1>8, <1>9, <1>10, <1>11, <1>12 DEF Next

-----------------------------------------------------------------------------
(* The host thread *)

LEMMA CallKinds ==
  ASSUME NEW c \in Calls
  PROVE  /\ \/ c.kind \in {"write", "store"} /\ Start(c) = "store"
            \/ c.kind = "read" /\ Start(c) = "request"
            \/ c.kind \in {"amoadd", "load"} /\ Start(c) = "single"
         /\ c.kind # "none"
<1>1. c.kind \in Kinds
  BY CallFacts
<1>2. CASE c.kind \in {"write", "store"}
  BY <1>2 DEF Start
<1>3. CASE c.kind = "read"
  <2>1. c.kind \notin {"write", "store"}
    BY <1>3
  <2>2. Start(c) = "request"
    BY <1>3, <2>1 DEF Start
  <2> QED BY <1>3, <2>2
<1>4. CASE c.kind \in {"amoadd", "load"}
  <2>1. c.kind \notin {"write", "store"} /\ c.kind # "read"
    BY <1>4
  <2>2. Start(c) = "single"
    BY <2>1 DEF Start
  <2> QED BY <1>4, <2>2
<1> QED BY <1>1, <1>2, <1>3, <1>4 DEF Kinds

LEMMA NotACall == NoCall \notin Calls /\ NoCall.kind = "none" /\ Len(NoCall.addrs) = 0
<1>1. NoCall.kind = "none" /\ Len(NoCall.addrs) = 0
  BY DEF NoCall
<1> QED BY <1>1, CallKinds

LEMMA LeaveHost ==
  ASSUME HostInv, NEW r, PartialWords(r), LeaveWith(r), broken' \in BOOLEAN
  PROVE  HostInv'
<1>1. /\ pc' = "idle" /\ call' = NoCall /\ result' = r
      /\ rqst_i' = 0 /\ rsp_i' = 0 /\ ids' = AllIds /\ id_to_rsp_i' = <<>>
  BY DEF LeaveWith
<1>2. PartialWords(result')
  BY <1>1
<1>3. PartialWords(result)'
  BY <1>2 DEF PartialWords
<1>4. DOMAIN <<>> = {}
  OBVIOUS
<1>5. AllIds' = AllIds
  BY DEF AllIds
<1>6. Stage'
  BY <1>1 DEF Stage, NoCall
<1> QED BY <1>1, <1>3, <1>4, <1>5, <1>6, AllIdsType DEF HostInv

LEMMA BeginHost ==
  ASSUME HostInv, NEW c \in Calls, Begin(c)
  PROVE  HostInv'
<1>1. /\ pc = "idle" /\ pc' = Start(c) /\ call' = c /\ result' = <<>>
      /\ UNCHANGED <<rqst_i, rsp_i, ids, id_to_rsp_i, broken>>
  BY DEF Begin
<1>2. rqst_i = 0 /\ rsp_i = 0 /\ ids = AllIds /\ id_to_rsp_i = <<>>
  BY <1>1 DEF HostInv, Stage
<1>3. Len(c.addrs) \in Nat /\ Len(c.addrs) >= 1
  BY CallFacts, Consts
<1>4. 0 \in 0 .. Len(c.addrs) - 1
  BY <1>3
<1>5. Stage'
  BY <1>1, <1>2, <1>4, CallKinds DEF Stage, Count
<1>6. PartialWords(result)'
  BY <1>1 DEF PartialWords
<1> QED BY <1>1, <1>2, <1>5, <1>6 DEF HostInv, AllIds

LEMMA StoreHost ==
  ASSUME HostInv, Store
  PROVE  HostInv'
<1>1. /\ pc = "store" /\ rqst_i' = rqst_i + 1
      /\ pc' = IF rqst_i + 1 < Count THEN "store" ELSE "stored"
      /\ UNCHANGED <<call, rsp_i, ids, id_to_rsp_i, result, broken>>
  BY DEF Store
<1>2. /\ call \in Calls /\ call.kind \in {"write", "store"}
      /\ rqst_i \in 0 .. Count - 1 /\ rsp_i = 0
  BY <1>1 DEF HostInv, Stage
<1>3. Count' = Count /\ Count \in Nat
  BY <1>1, <1>2, CallRange DEF Count
<1>4. \/ pc' = "store" /\ rqst_i' \in 0 .. Count - 1
      \/ pc' = "stored" /\ rqst_i' = Count
  BY <1>1, <1>2, <1>3
<1>5. Stage'
  BY <1>1, <1>2, <1>3, <1>4 DEF Stage
<1>6. PartialWords(result)'
  BY <1>1 DEF HostInv, PartialWords
<1>7. /\ ids = AllIds /\ id_to_rsp_i = <<>> /\ result = <<>> /\ ids \in Seq(Ids)
      /\ broken \in BOOLEAN
  BY <1>1 DEF HostInv
<1> QED BY <1>1, <1>4, <1>5, <1>6, <1>7 DEF HostInv, AllIds

LEMMA SendHost ==
  ASSUME HostInv, SendSingle
  PROVE  HostInv'
<1>1. /\ pc = "single" /\ rqst_i' = 1 /\ pc' = "answer"
      /\ UNCHANGED <<call, rsp_i, ids, id_to_rsp_i, result, broken>>
  BY DEF SendSingle
<1>2. call \in Calls /\ call.kind \in {"amoadd", "load"} /\ rsp_i = 0
  BY <1>1 DEF HostInv, Stage
<1>5. Stage'
  BY <1>1, <1>2 DEF Stage
<1>6. PartialWords(result)'
  BY <1>1 DEF HostInv, PartialWords
<1>7. /\ ids = AllIds /\ id_to_rsp_i = <<>> /\ result = <<>> /\ ids \in Seq(Ids)
      /\ broken \in BOOLEAN
  BY <1>1 DEF HostInv
<1> QED BY <1>1, <1>5, <1>6, <1>7 DEF HostInv, AllIds

LEMMA TakeHost ==
  ASSUME QueuesInv, HostInv, TakeSingle
  PROVE  HostInv'
<1>1. rx # <<>> /\ LeaveWith(<<Head(rx).val>>) /\ broken' = broken
  BY DEF TakeSingle, Receive
<1>2. Head(rx) \in Data
  BY <1>1, HeadTail DEF QueuesInv
<1>3. PICK v : v = Head(rx).val
  OBVIOUS
<1>4. v \in Words
  BY <1>2, <1>3 DEF Data
<1>5. PartialWords(<<v>>)
  BY <1>4, Consts DEF PartialWords
<1>6. broken' \in BOOLEAN
  BY <1>1 DEF HostInv
<1> QED BY <1>1, <1>3, <1>5, <1>6, LeaveHost

(* A request of a read: one load id fewer on the stack, one more in use.     *)
LEMMA RequestFacts ==
  ASSUME HostInv, Request
  PROVE  /\ pc = "request" /\ ids # <<>> /\ call \in Calls /\ call.kind = "read"
         /\ rqst_i \in 0 .. Count - 1 /\ rsp_i \in 0 .. rqst_i /\ Count \in Nat
         /\ Head(ids) \in Ids /\ ids' = Tail(ids) /\ rqst_i' = rqst_i + 1
         /\ id_to_rsp_i' = Put(id_to_rsp_i, Head(ids), rqst_i + 1)
         /\ pc' \in {"request", "receive"} /\ (pc' = "request" => rqst_i + 1 < Count)
         /\ Transmit([kind |-> "read", addr |-> call.addrs[rqst_i + 1],
                      id |-> Head(ids), val |-> 0])
         /\ UNCHANGED <<call, rsp_i, result, device, rx, broken>>
<1>1. /\ pc = "request" /\ ids # <<>> /\ ids' = Tail(ids) /\ rqst_i' = rqst_i + 1
      /\ id_to_rsp_i' = Put(id_to_rsp_i, Head(ids), rqst_i + 1)
      /\ pc' = IF rqst_i + 1 < Count /\ Tail(ids) # <<>> THEN "request" ELSE "receive"
      /\ Transmit([kind |-> "read", addr |-> call.addrs[rqst_i + 1],
                   id |-> Head(ids), val |-> 0])
      /\ UNCHANGED <<call, rsp_i, result, device, rx, broken>>
  BY DEF Request
<1>2. /\ call \in Calls /\ call.kind = "read"
      /\ rqst_i \in 0 .. Count - 1 /\ rsp_i \in 0 .. rqst_i
  BY <1>1 DEF HostInv, Stage
<1>3. Count \in Nat
  BY <1>2, CallRange
<1>4. Head(ids) \in Ids
  BY <1>1, HeadTail DEF HostInv
<1>5. pc' \in {"request", "receive"} /\ (pc' = "request" => rqst_i + 1 < Count)
  BY <1>1
<1> QED BY <1>1, <1>2, <1>3, <1>4, <1>5

LEMMA RequestHost ==
  ASSUME HostInv, Request
  PROVE  HostInv'
<1> DEFINE id == Head(ids)
<1>1. /\ pc = "request" /\ ids # <<>> /\ call \in Calls /\ call.kind = "read"
      /\ rqst_i \in 0 .. Count - 1 /\ rsp_i \in 0 .. rqst_i /\ Count \in Nat
      /\ id \in Ids /\ ids' = Tail(ids) /\ rqst_i' = rqst_i + 1
      /\ id_to_rsp_i' = Put(id_to_rsp_i, id, rqst_i + 1)
      /\ pc' \in {"request", "receive"} /\ (pc' = "request" => rqst_i + 1 < Count)
      /\ UNCHANGED <<call, rsp_i, result, broken>>
  BY RequestFacts
<1> HIDE DEF id
<1>2. Count' = Count
  BY <1>1 DEF Count
<1>3. /\ pc' = "request" => rqst_i' \in 0 .. Count - 1 /\ rsp_i \in 0 .. rqst_i'
      /\ rqst_i' \in 1 .. Count /\ rsp_i \in 0 .. rqst_i' - 1
  BY <1>1
<1>4. Stage'
  BY <1>1, <1>2, <1>3 DEF Stage
<1>5. ids' \in Seq(Ids)
  BY <1>1, HeadTail DEF HostInv
<1>6. /\ DOMAIN id_to_rsp_i' = DOMAIN id_to_rsp_i \cup {id}
      /\ id_to_rsp_i'[id] = rqst_i + 1
      /\ \A j \in DOMAIN id_to_rsp_i : j # id => id_to_rsp_i'[j] = id_to_rsp_i[j]
  <2>1. PICK k : k = rqst_i + 1
    OBVIOUS
  <2>2. id_to_rsp_i' = Put(id_to_rsp_i, id, k)
    BY <1>1, <2>1
  <2>3. id_to_rsp_i' = [j \in DOMAIN id_to_rsp_i \cup {id} |-> IF j = id THEN k ELSE id_to_rsp_i[j]]
    BY <2>2 DEF Put
  <2> QED BY <2>1, <2>3
<1>7. ASSUME NEW j \in DOMAIN id_to_rsp_i' PROVE id_to_rsp_i'[j] \in 1 .. rqst_i'
  <2>0. rqst_i' \in 1 .. rqst_i' /\ \A x \in 1 .. rqst_i : x \in 1 .. rqst_i'
    BY <1>1
  <2>1. CASE j = id
    <3>1. id_to_rsp_i'[j] = rqst_i'
      BY <1>1, <1>6, <2>1
    <3> QED BY <2>0, <3>1
  <2>2. CASE j # id
    <3>1. j \in DOMAIN id_to_rsp_i /\ id_to_rsp_i'[j] = id_to_rsp_i[j]
      BY <1>6, <2>2
    <3>2. id_to_rsp_i[j] \in 1 .. rqst_i
      BY <3>1 DEF HostInv
    <3> QED BY <2>0, <3>1, <3>2
  <2> QED BY <2>1, <2>2
<1>8. PartialWords(result)'
  BY <1>1 DEF HostInv, PartialWords
<1>9. broken' \in BOOLEAN /\ DOMAIN id_to_rsp_i' \subseteq Ids
  BY <1>1, <1>6 DEF HostInv
<1> QED BY <1>1, <1>4, <1>5, <1>7, <1>8, <1>9 DEF HostInv

(* The response of a read: the last one returns, another frees its load id.  *)
LEMMA RespondFacts ==
  ASSUME QueuesInv, HostInv, Respond,
         NEW d, d = Head(rx), NEW data, data = Put(result, Slot(d.id), d.val)
  PROVE  /\ pc = "receive" /\ call \in Calls /\ call.kind = "read" /\ Count \in Nat
         /\ rqst_i \in 1 .. Count /\ rsp_i \in 0 .. rqst_i - 1
         /\ rx # <<>> /\ d \in Data /\ rx' = Tail(rx) /\ pending' = pending - 1
         /\ UNCHANGED <<tx, device, broken>>
         /\ \/ d.id \notin DOMAIN id_to_rsp_i /\ LeaveWith(<<>>)
            \/ d.id \in DOMAIN id_to_rsp_i /\ rsp_i + 1 = Count /\ LeaveWith(data)
            \/ /\ d.id \in DOMAIN id_to_rsp_i /\ rsp_i + 1 # Count
               /\ pc' = IF rsp_i + 1 < rqst_i THEN "receive" ELSE "request"
               /\ result' = data /\ rsp_i' = rsp_i + 1 /\ ids' = Recycle(d.id)
               /\ UNCHANGED <<call, rqst_i, id_to_rsp_i>>
<1>1. /\ pc = "receive" /\ rx # <<>> /\ rx' = Tail(rx) /\ pending' = pending - 1
      /\ UNCHANGED <<tx, device, broken>>
  BY DEF Respond, Receive
<1>2. \/ d.id \notin DOMAIN id_to_rsp_i /\ LeaveWith(<<>>)
      \/ d.id \in DOMAIN id_to_rsp_i /\ rsp_i + 1 = Count /\ LeaveWith(data)
      \/ /\ d.id \in DOMAIN id_to_rsp_i /\ rsp_i + 1 # Count
         /\ pc' = IF rsp_i + 1 < rqst_i THEN "receive" ELSE "request"
         /\ result' = data /\ rsp_i' = rsp_i + 1 /\ ids' = Recycle(d.id)
         /\ UNCHANGED <<call, rqst_i, id_to_rsp_i>>
  BY DEF Respond
<1>3. /\ call \in Calls /\ call.kind = "read"
      /\ rqst_i \in 1 .. Count /\ rsp_i \in 0 .. rqst_i - 1
  BY <1>1 DEF HostInv, Stage
<1>4. Count \in Nat
  BY <1>3, CallRange
<1>5. d \in Data
  BY <1>1, HeadTail DEF QueuesInv
<1> QED BY <1>1, <1>2, <1>3, <1>4, <1>5

LEMMA RespondHost ==
  ASSUME QueuesInv, HostInv, Respond
  PROVE  HostInv'
<1>0. PICK d, data : d = Head(rx) /\ data = Put(result, Slot(d.id), d.val)
  OBVIOUS
<1>1. /\ pc = "receive" /\ call \in Calls /\ call.kind = "read" /\ Count \in Nat
      /\ rqst_i \in 1 .. Count /\ rsp_i \in 0 .. rqst_i - 1 /\ d \in Data
      /\ broken' = broken
      /\ \/ d.id \notin DOMAIN id_to_rsp_i /\ LeaveWith(<<>>)
         \/ d.id \in DOMAIN id_to_rsp_i /\ rsp_i + 1 = Count /\ LeaveWith(data)
         \/ /\ d.id \in DOMAIN id_to_rsp_i /\ rsp_i + 1 # Count
            /\ pc' = IF rsp_i + 1 < rqst_i THEN "receive" ELSE "request"
            /\ result' = data /\ rsp_i' = rsp_i + 1 /\ ids' = Recycle(d.id)
            /\ UNCHANGED <<call, rqst_i, id_to_rsp_i>>
  BY <1>0, RespondFacts
<1>2. d.id \in Ids /\ d.val \in Words
  BY <1>1 DEF Data
<1>3. broken' \in BOOLEAN
  BY <1>1 DEF HostInv
<1>4. ASSUME d.id \in DOMAIN id_to_rsp_i PROVE PartialWords(data)
  <2>1. PICK k : k = Slot(d.id)
    OBVIOUS
  <2>2. data = [j \in DOMAIN result \cup {k} |-> IF j = k THEN d.val ELSE result[j]]
    BY <1>0, <2>1 DEF Put
  <2>3. k \in 1 .. rqst_i
    BY <1>4, <2>1 DEF HostInv, Slot
  <2>4. k \in 1 .. MaxWords
    <3>1. Count \in 1 .. MaxWords /\ MaxWords \in Nat
      BY <1>1, CallRange, Consts
    <3> QED BY <1>1, <2>3, <3>1
  <2>5. DOMAIN result \subseteq 1 .. MaxWords /\ \A i \in DOMAIN result : result[i] \in Words
    BY DEF HostInv, PartialWords
  <2> QED BY <1>2, <2>2, <2>4, <2>5 DEF PartialWords
<1>5. CASE d.id \notin DOMAIN id_to_rsp_i /\ LeaveWith(<<>>)
  <2>1. PartialWords(<<>>)
    BY DEF PartialWords
  <2> QED BY <1>3, <1>5, <2>1, LeaveHost
<1>6. CASE d.id \in DOMAIN id_to_rsp_i /\ LeaveWith(data)
  BY <1>3, <1>4, <1>6, LeaveHost
<1>7. CASE /\ d.id \in DOMAIN id_to_rsp_i /\ rsp_i + 1 # Count
           /\ pc' = IF rsp_i + 1 < rqst_i THEN "receive" ELSE "request"
           /\ result' = data /\ rsp_i' = rsp_i + 1 /\ ids' = Recycle(d.id)
           /\ UNCHANGED <<call, rqst_i, id_to_rsp_i>>
  <2>1. Count' = Count
    BY <1>7 DEF Count
  <2>2. /\ pc' = "receive" => rsp_i' \in 0 .. rqst_i - 1
        /\ pc' = "request" => rqst_i \in 0 .. Count - 1 /\ rsp_i' \in 0 .. rqst_i
        /\ pc' \in {"receive", "request"}
    BY <1>1, <1>7
  <2>3. Stage'
    BY <1>1, <1>7, <2>1, <2>2 DEF Stage
  <2>4. ids' \in Seq(Ids)
    BY <1>2, <1>7, Pushed DEF HostInv, Recycle
  <2>5. PartialWords(result)'
    BY <1>4, <1>7 DEF PartialWords
  <2> QED BY <1>1, <1>7, <2>2, <2>3, <2>4, <2>5 DEF HostInv
<1> QED BY <1>1, <1>5, <1>6, <1>7

LEMMA SameHost ==
  ASSUME HostInv, UNCHANGED <<host, broken>>
  PROVE  HostInv'
<1>1. /\ UNCHANGED <<pc, call, rqst_i, rsp_i, ids, id_to_rsp_i, result, broken>>
  BY DEF host
<1>2. Stage'
  BY <1>1 DEF HostInv, Stage, Count
<1>3. PartialWords(result)'
  BY <1>1 DEF HostInv, PartialWords
<1> QED BY <1>1, <1>2, <1>3 DEF HostInv, AllIds

LEMMA HostStep ==
  ASSUME QueuesInv, HostInv, [Next]_vars
  PROVE  HostInv'
<1>0. PartialWords(<<>>)
  BY DEF PartialWords
<1>1. CASE \E c \in Calls : Begin(c)
  BY <1>1, BeginHost
<1>2. CASE Store
  BY <1>2, StoreHost
<1>3. CASE StoreReturns
  <2>1. LeaveWith(<<>>) /\ broken' \in BOOLEAN
    BY <1>3 DEF StoreReturns, HostInv
  <2> QED BY <1>0, <2>1, LeaveHost
<1>4. CASE SendSingle
  BY <1>4, SendHost
<1>5. CASE TakeSingle
  BY <1>5, TakeHost
<1>6. CASE Request
  BY <1>6, RequestHost
<1>7. CASE RequestFails
  <2>1. LeaveWith(<<>>) /\ broken' \in BOOLEAN
    BY <1>7 DEF RequestFails, HostInv
  <2> QED BY <1>0, <2>1, LeaveHost
<1>8. CASE Respond
  BY <1>8, RespondHost
<1>9. CASE Inject
  BY <1>9, SameHost DEF Inject
<1>10. CASE \E n \in Nodes : Serve(n)
  BY <1>10, SameHost DEF Serve
<1>11. CASE \E n \in Nodes : GiveBack(n)
  BY <1>11, SameHost DEF GiveBack
<1>12. CASE UNCHANGED vars
  BY <1>12, SameHost DEF vars
<1> QED BY <1>1, <1>2, <1>3, <1>4, <1>5, <1>6, <1>7, <1>8, <1>9, <1>10, <1>11, <1>12 DEF Next

-----------------------------------------------------------------------------
(* The queues of a state *)

IdsAt == <<"ids", "host">>
TxAt == <<"tx", "host">>
RxAt == <<"rx", "host">>
NetAt(k) == <<"net", k>>
BackAt(k) == <<"back", k>>

LEMMA QueueNames ==
  /\ IdsAt \in Queues /\ TxAt \in Queues /\ RxAt \in Queues
  /\ \A k \in Nodes : NetAt(k) \in Queues /\ BackAt(k) \in Queues
  /\ \A q \in Queues :
       \/ q = IdsAt \/ q = TxAt \/ q = RxAt
       \/ \E k \in Nodes : q = NetAt(k) \/ q = BackAt(k)
<1>1. ASSUME NEW q \in Queues
      PROVE  \/ q = IdsAt \/ q = TxAt \/ q = RxAt
             \/ \E k \in Nodes : q = NetAt(k) \/ q = BackAt(k)
  <2>1. CASE q \in {"ids", "tx", "rx"} \X {"host"}
    BY <2>1 DEF IdsAt, TxAt, RxAt
  <2>2. CASE q \in {"net", "back"} \X Nodes
    <3>1. q = <<q[1], q[2]>> /\ q[2] \in Nodes /\ (q[1] = "net" \/ q[1] = "back")
      BY <2>2
    <3> QED BY <3>1 DEF NetAt, BackAt
  <2> QED BY <2>1, <2>2 DEF Queues
<1>2. IdsAt \in Queues /\ TxAt \in Queues /\ RxAt \in Queues
  BY DEF Queues, IdsAt, TxAt, RxAt
<1>3. \A k \in Nodes : NetAt(k) \in Queues /\ BackAt(k) \in Queues
  BY DEF Queues, NetAt, BackAt
<1> QED BY <1>1, <1>2, <1>3

LEMMA NamesDiffer ==
  /\ IdsAt # TxAt /\ IdsAt # RxAt /\ TxAt # RxAt
  /\ \A k, l : /\ NetAt(k) # BackAt(l)
               /\ NetAt(k) = NetAt(l) => k = l
               /\ BackAt(k) = BackAt(l) => k = l
  /\ \A k : /\ NetAt(k) # IdsAt /\ NetAt(k) # TxAt /\ NetAt(k) # RxAt
           /\ BackAt(k) # IdsAt /\ BackAt(k) # TxAt /\ BackAt(k) # RxAt
BY DEF IdsAt, TxAt, RxAt, NetAt, BackAt

(* The queues f are these stacks, FIFOs and links, and of the right types.   *)
Are(f, i, t, r, n, b) ==
  /\ f[IdsAt] = i /\ f[TxAt] = t /\ f[RxAt] = r
  /\ \A k \in Nodes : f[NetAt(k)] = n[k] /\ f[BackAt(k)] = b[k]

Typed(i, t, r, n, b) ==
  /\ i \in Seq(Ids) /\ t \in Seq(Rqst) /\ r \in Seq(Data)
  /\ n \in [Nodes -> Seq(Rqst)] /\ b \in [Nodes -> Seq(Rsp)]

LEMMA TypedLists ==
  ASSUME NEW i, NEW t, NEW r, NEW n, NEW b, Typed(i, t, r, n, b),
         NEW f, Are(f, i, t, r, n, b)
  PROVE  Lists(f)
<1>1. /\ f[IdsAt] \in Seq(Ids) /\ f[TxAt] \in Seq(Rqst) /\ f[RxAt] \in Seq(Data)
      /\ \A k \in Nodes : f[NetAt(k)] \in Seq(Rqst) /\ f[BackAt(k)] \in Seq(Rsp)
  BY DEF Are, Typed
<1>2. \A E : \A s \in Seq(E) : Len(s) \in Nat /\ DOMAIN s = 1 .. Len(s)
  OBVIOUS
<1>3. ASSUME NEW q \in Queues PROVE Len(f[q]) \in Nat /\ DOMAIN f[q] = 1 .. Len(f[q])
  <2>1. \E E : f[q] \in Seq(E)
    BY <1>1, QueueNames
  <2> QED BY <1>2, <2>1
<1> QED BY <1>3 DEF Lists

LEMMA ShorterIs ==
  ASSUME NEW E, NEW s \in Seq(E), s # <<>>, NEW f, NEW g, NEW t \in Queues,
         f[t] = s, g[t] = Tail(s), \A q \in Queues : q # t => g[q] = f[q]
  PROVE  Shorter(f, g, t)
BY HeadTail DEF Shorter

LEMMA LongerIs ==
  ASSUME NEW E, NEW s \in Seq(E), NEW x \in E, NEW f, NEW g, NEW t \in Queues,
         f[t] = s, g[t] = Append(s, x), \A q \in Queues : q # t => g[q] = f[q]
  PROVE  Longer(f, g, t) /\ g[t][Len(g[t])] = x
BY Appended DEF Longer

LEMMA PushedIs ==
  ASSUME NEW E, NEW s \in Seq(E), NEW x \in E, NEW f, NEW g, NEW t \in Queues,
         f[t] = s, g[t] = <<x>> \o s, \A q \in Queues : q # t => g[q] = f[q]
  PROVE  Shorter(g, f, t) /\ g[t][1] = x
<1>1. /\ Len(g[t]) = Len(s) + 1 /\ Len(s) \in Nat /\ g[t][1] = x
      /\ \A i \in 1 .. Len(s) : g[t][i + 1] = s[i]
  BY Pushed
<1> QED BY <1>1 DEF Shorter

LEMMA IdsPop ==
  ASSUME NEW i, NEW t, NEW r, NEW n, NEW b, Typed(i, t, r, n, b), i # <<>>,
         NEW f, Are(f, i, t, r, n, b), NEW g, Are(g, Tail(i), t, r, n, b)
  PROVE  Shorter(f, g, IdsAt) /\ f[IdsAt][1] = Head(i)
<1>1. i \in Seq(Ids) /\ IdsAt \in Queues
  BY QueueNames DEF Typed
<1>2. f[IdsAt] = i /\ g[IdsAt] = Tail(i)
  BY DEF Are, Typed
<1>3. ASSUME NEW q \in Queues, q # IdsAt PROVE g[q] = f[q]
  BY <1>3, QueueNames DEF Are
<1> QED BY <1>1, <1>2, <1>3, ShorterIs, HeadTail

LEMMA IdsPush ==
  ASSUME NEW i, NEW t, NEW r, NEW n, NEW b, Typed(i, t, r, n, b), NEW x \in Ids,
         NEW f, Are(f, i, t, r, n, b), NEW g, Are(g, <<x>> \o i, t, r, n, b)
  PROVE  Shorter(g, f, IdsAt) /\ g[IdsAt][1] = x
<1>1. i \in Seq(Ids) /\ IdsAt \in Queues
  BY QueueNames DEF Typed
<1>2. f[IdsAt] = i /\ g[IdsAt] = <<x>> \o i
  BY DEF Are, Typed
<1>3. ASSUME NEW q \in Queues, q # IdsAt PROVE g[q] = f[q]
  BY <1>3, QueueNames DEF Are
<1> QED BY <1>1, <1>2, <1>3, PushedIs

LEMMA TxPop ==
  ASSUME NEW i, NEW t, NEW r, NEW n, NEW b, Typed(i, t, r, n, b), t # <<>>,
         NEW f, Are(f, i, t, r, n, b), NEW g, Are(g, i, Tail(t), r, n, b)
  PROVE  Shorter(f, g, TxAt) /\ f[TxAt][1] = Head(t)
<1>1. t \in Seq(Rqst) /\ TxAt \in Queues
  BY QueueNames DEF Typed
<1>2. f[TxAt] = t /\ g[TxAt] = Tail(t)
  BY DEF Are, Typed
<1>3. ASSUME NEW q \in Queues, q # TxAt PROVE g[q] = f[q]
  BY <1>3, QueueNames DEF Are
<1> QED BY <1>1, <1>2, <1>3, ShorterIs, HeadTail

LEMMA TxAdd ==
  ASSUME NEW i, NEW t, NEW r, NEW n, NEW b, Typed(i, t, r, n, b), NEW x \in Rqst,
         NEW f, Are(f, i, t, r, n, b), NEW g, Are(g, i, Append(t, x), r, n, b)
  PROVE  Longer(f, g, TxAt) /\ g[TxAt][Len(g[TxAt])] = x
<1>1. t \in Seq(Rqst) /\ TxAt \in Queues
  BY QueueNames DEF Typed
<1>2. f[TxAt] = t /\ g[TxAt] = Append(t, x)
  BY DEF Are, Typed
<1>3. ASSUME NEW q \in Queues, q # TxAt PROVE g[q] = f[q]
  BY <1>3, QueueNames DEF Are
<1> QED BY <1>1, <1>2, <1>3, LongerIs

LEMMA RxPop ==
  ASSUME NEW i, NEW t, NEW r, NEW n, NEW b, Typed(i, t, r, n, b), r # <<>>,
         NEW f, Are(f, i, t, r, n, b), NEW g, Are(g, i, t, Tail(r), n, b)
  PROVE  Shorter(f, g, RxAt) /\ f[RxAt][1] = Head(r)
<1>1. r \in Seq(Data) /\ RxAt \in Queues
  BY QueueNames DEF Typed
<1>2. f[RxAt] = r /\ g[RxAt] = Tail(r)
  BY DEF Are, Typed
<1>3. ASSUME NEW q \in Queues, q # RxAt PROVE g[q] = f[q]
  BY <1>3, QueueNames DEF Are
<1> QED BY <1>1, <1>2, <1>3, ShorterIs, HeadTail

LEMMA RxAdd ==
  ASSUME NEW i, NEW t, NEW r, NEW n, NEW b, Typed(i, t, r, n, b), NEW x \in Data,
         NEW f, Are(f, i, t, r, n, b), NEW g, Are(g, i, t, Append(r, x), n, b)
  PROVE  Longer(f, g, RxAt) /\ g[RxAt][Len(g[RxAt])] = x
<1>1. r \in Seq(Data) /\ RxAt \in Queues
  BY QueueNames DEF Typed
<1>2. f[RxAt] = r /\ g[RxAt] = Append(r, x)
  BY DEF Are, Typed
<1>3. ASSUME NEW q \in Queues, q # RxAt PROVE g[q] = f[q]
  BY <1>3, QueueNames DEF Are
<1> QED BY <1>1, <1>2, <1>3, LongerIs

LEMMA NetPop ==
  ASSUME NEW i, NEW t, NEW r, NEW n, NEW b, Typed(i, t, r, n, b), NEW k \in Nodes, n[k] # <<>>,
         NEW n2, n2[k] = Tail(n[k]), \A l \in Nodes : l # k => n2[l] = n[l],
         NEW f, Are(f, i, t, r, n, b), NEW g, Are(g, i, t, r, n2, b)
  PROVE  Shorter(f, g, NetAt(k)) /\ f[NetAt(k)][1] = Head(n[k])
<1>1. n[k] \in Seq(Rqst) /\ NetAt(k) \in Queues
  BY QueueNames DEF Typed
<1>2. f[NetAt(k)] = n[k] /\ g[NetAt(k)] = Tail(n[k])
  BY DEF Are, Typed
<1>3. ASSUME NEW q \in Queues, q # NetAt(k) PROVE g[q] = f[q]
  <2>1. \A l \in Nodes : q = NetAt(l) => l # k
    BY <1>3
  <2> QED BY <2>1, QueueNames DEF Are
<1> QED BY <1>1, <1>2, <1>3, ShorterIs, HeadTail

LEMMA NetAdd ==
  ASSUME NEW i, NEW t, NEW r, NEW n, NEW b, Typed(i, t, r, n, b), NEW k \in Nodes, NEW x \in Rqst,
         NEW n2, n2[k] = Append(n[k], x), \A l \in Nodes : l # k => n2[l] = n[l],
         NEW f, Are(f, i, t, r, n, b), NEW g, Are(g, i, t, r, n2, b)
  PROVE  Longer(f, g, NetAt(k)) /\ g[NetAt(k)][Len(g[NetAt(k)])] = x
<1>1. n[k] \in Seq(Rqst) /\ NetAt(k) \in Queues
  BY QueueNames DEF Typed
<1>2. f[NetAt(k)] = n[k] /\ g[NetAt(k)] = Append(n[k], x)
  BY DEF Are, Typed
<1>3. ASSUME NEW q \in Queues, q # NetAt(k) PROVE g[q] = f[q]
  <2>1. \A l \in Nodes : q = NetAt(l) => l # k
    BY <1>3
  <2> QED BY <2>1, QueueNames DEF Are
<1> QED BY <1>1, <1>2, <1>3, LongerIs

LEMMA BackPop ==
  ASSUME NEW i, NEW t, NEW r, NEW n, NEW b, Typed(i, t, r, n, b), NEW k \in Nodes, b[k] # <<>>,
         NEW b2, b2[k] = Tail(b[k]), \A l \in Nodes : l # k => b2[l] = b[l],
         NEW f, Are(f, i, t, r, n, b), NEW g, Are(g, i, t, r, n, b2)
  PROVE  Shorter(f, g, BackAt(k)) /\ f[BackAt(k)][1] = Head(b[k])
<1>1. b[k] \in Seq(Rsp) /\ BackAt(k) \in Queues
  BY QueueNames DEF Typed
<1>2. f[BackAt(k)] = b[k] /\ g[BackAt(k)] = Tail(b[k])
  BY DEF Are, Typed
<1>3. ASSUME NEW q \in Queues, q # BackAt(k) PROVE g[q] = f[q]
  <2>1. \A l \in Nodes : q = BackAt(l) => l # k
    BY <1>3
  <2> QED BY <2>1, QueueNames DEF Are
<1> QED BY <1>1, <1>2, <1>3, ShorterIs, HeadTail

LEMMA BackAdd ==
  ASSUME NEW i, NEW t, NEW r, NEW n, NEW b, Typed(i, t, r, n, b), NEW k \in Nodes, NEW x \in Rsp,
         NEW b2, b2[k] = Append(b[k], x), \A l \in Nodes : l # k => b2[l] = b[l],
         NEW f, Are(f, i, t, r, n, b), NEW g, Are(g, i, t, r, n, b2)
  PROVE  Longer(f, g, BackAt(k)) /\ g[BackAt(k)][Len(g[BackAt(k)])] = x
<1>1. b[k] \in Seq(Rsp) /\ BackAt(k) \in Queues
  BY QueueNames DEF Typed
<1>2. f[BackAt(k)] = b[k] /\ g[BackAt(k)] = Append(b[k], x)
  BY DEF Are, Typed
<1>3. ASSUME NEW q \in Queues, q # BackAt(k) PROVE g[q] = f[q]
  <2>1. \A l \in Nodes : q = BackAt(l) => l # k
    BY <1>3
  <2> QED BY <2>1, QueueNames DEF Are
<1> QED BY <1>1, <1>2, <1>3, LongerIs

-----------------------------------------------------------------------------
(* What is under way *)

(* Entries of the queues: load ids, requests, responses and received words.  *)
Entries == Queues \X (Ids \cup Rqst \cup Rsp \cup Data)

(* Entries that are or will become a response of the response FIFO.          *)
Waiting ==
  {e \in Entries :
     \/ e[1][1] = "rx"
     \/ e[1][1] \in {"tx", "net", "back"} /\ ExpectsResponse(e[2].kind)}

(* Those on their way that are of another kind than a call.                  *)
Foreign(kind) ==
  {e \in Entries : /\ e[1][1] \in {"tx", "net", "back"}
                   /\ ExpectsResponse(e[2].kind) /\ e[2].kind # kind}

Carrying(id) == {e \in Entries : Carries(e[1], e[2], id)}

Number(m) == Cardinality(Marked(Queue, m))

Owed ==
  IF pc = "answer" THEN 1 ELSE IF call.kind = "read" THEN rqst_i - rsp_i ELSE 0

(* The responses counted are those under way, and unless a read has failed,  *)
(* these answer requests of the call in progress.                            *)
WaitInv ==
  /\ pending = Number(Waiting) /\ pending <= Cap
  /\ ~broken => pending = Owed /\ Number(Foreign(call.kind)) = 0

(* A load id is in one place; before its first use, this is the stack.       *)
IdsInv ==
  call.kind = "read" /\ ~broken =>
    \A id \in Ids : /\ Number(Carrying(id)) = 1
                    /\ id \notin DOMAIN id_to_rsp_i => \E i \in DOMAIN ids : ids[i] = id

LEMMA QueueIs ==
  ASSUME QueuesInv, HostInv
  PROVE  Typed(ids, tx, rx, net, back) /\ Are(Queue, ids, tx, rx, net, back)
<1>1. Typed(ids, tx, rx, net, back)
  BY DEF Typed, QueuesInv, HostInv
<1>2. Queue[IdsAt] = ids /\ Queue[TxAt] = tx /\ Queue[RxAt] = rx
  BY QueueNames DEF Queue, IdsAt, TxAt, RxAt
<1>3. ASSUME NEW k \in Nodes PROVE Queue[NetAt(k)] = net[k] /\ Queue[BackAt(k)] = back[k]
  <2>1. NetAt(k) \in Queues /\ BackAt(k) \in Queues
    BY QueueNames
  <2> QED BY <2>1 DEF Queue, NetAt, BackAt
<1> QED BY <1>1, <1>2, <1>3 DEF Are

LEMMA QueueIsNext ==
  ASSUME QueuesInv', HostInv'
  PROVE  Typed(ids', tx', rx', net', back') /\ Are(Queue', ids', tx', rx', net', back')
<1>1. Typed(ids', tx', rx', net', back')
  BY DEF Typed, QueuesInv, HostInv
<1>2. Queue'[IdsAt] = ids' /\ Queue'[TxAt] = tx' /\ Queue'[RxAt] = rx'
  BY QueueNames DEF Queue, IdsAt, TxAt, RxAt
<1>3. ASSUME NEW k \in Nodes PROVE Queue'[NetAt(k)] = net'[k] /\ Queue'[BackAt(k)] = back'[k]
  <2>1. NetAt(k) \in Queues /\ BackAt(k) \in Queues
    BY QueueNames
  <2> QED BY <2>1 DEF Queue, NetAt, BackAt
<1> QED BY <1>1, <1>2, <1>3 DEF Are

(* Between two queues that change there is a state with only one changed.    *)
LEMMA SomeQueues ==
  ASSUME NEW i, NEW t, NEW r, NEW n, NEW b
  PROVE  \E f : Are(f, i, t, r, n, b)
<1> DEFINE f == [q \in Queues |-> IF q = IdsAt THEN i ELSE IF q = TxAt THEN t
                                  ELSE IF q = RxAt THEN r
                                  ELSE IF q[1] = "net" THEN n[q[2]] ELSE b[q[2]]]
<1>1. f[IdsAt] = i /\ f[TxAt] = t /\ f[RxAt] = r
  BY QueueNames, NamesDiffer
<1>2. ASSUME NEW k \in Nodes PROVE f[NetAt(k)] = n[k] /\ f[BackAt(k)] = b[k]
  <2>1. /\ NetAt(k)[1] = "net" /\ NetAt(k)[2] = k
        /\ BackAt(k)[1] = "back" /\ BackAt(k)[2] = k
    BY DEF NetAt, BackAt
  <2>2. NetAt(k) \in Queues /\ BackAt(k) \in Queues
    BY QueueNames
  <2>3. /\ NetAt(k) # IdsAt /\ NetAt(k) # TxAt /\ NetAt(k) # RxAt
        /\ BackAt(k) # IdsAt /\ BackAt(k) # TxAt /\ BackAt(k) # RxAt
    BY NamesDiffer
  <2> HIDE DEF IdsAt, TxAt, RxAt
  <2> QED BY <2>1, <2>2, <2>3
<1> HIDE DEF f
<1> QED BY <1>1, <1>2 DEF Are

-----------------------------------------------------------------------------
(* How many marked entries a step leaves in the queues *)

(* Load ids on the stack are not marked.                                     *)
Plain(m) == \A x : <<IdsAt, x>> \notin m

LEMMA PlainIds ==
  ASSUME NEW f, NEW g, NEW m, Plain(m), NEW i, NEW t, NEW r, NEW n, NEW b, NEW j,
         Are(f, i, t, r, n, b), Are(g, j, t, r, n, b)
  PROVE  Marked(g, m) = Marked(f, m)
<1>1. \A q \in Queues : q # IdsAt => g[q] = f[q]
  BY QueueNames DEF Are
<1> QED BY <1>1, MarkedElsewhere, QueueNames DEF Plain

LEMMA StayCount ==
  ASSUME QueuesInv, HostInv, QueuesInv', HostInv', NEW m, Plain(m),
         UNCHANGED <<tx, rx, net, back>>
  PROVE  Cardinality(Marked(Queue', m)) = Number(m)
<1>1. Are(Queue, ids, tx, rx, net, back)
  BY QueueIs
<1>2. Are(Queue', ids', tx, rx, net, back)
  BY QueueIsNext
<1>3. Marked(Queue', m) = Marked(Queue, m)
  BY <1>1, <1>2, PlainIds
<1> QED BY <1>3 DEF Number

LEMMA SendCount ==
  ASSUME QueuesInv, HostInv, QueuesInv', HostInv', NEW m, Plain(m),
         NEW x \in Rqst, tx' = Append(tx, x), UNCHANGED <<rx, net, back>>
  PROVE  /\ <<TxAt, x>> \in m => Cardinality(Marked(Queue', m)) = Number(m) + 1
         /\ <<TxAt, x>> \notin m => Cardinality(Marked(Queue', m)) = Number(m)
<1>1. Typed(ids, tx, rx, net, back) /\ Are(Queue, ids, tx, rx, net, back)
  BY QueueIs
<1>2. Typed(ids', tx', rx, net, back) /\ Are(Queue', ids', tx', rx, net, back)
  BY QueueIsNext
<1>3. PICK h : Are(h, ids, tx', rx, net, back)
  BY SomeQueues
<1>4. Typed(ids, tx', rx, net, back)
  BY <1>1, <1>2 DEF Typed
<1>5. Longer(Queue, h, TxAt) /\ h[TxAt][Len(h[TxAt])] = x
  <2>1. Are(h, ids, Append(tx, x), rx, net, back)
    BY <1>3
  <2> QED BY <1>1, <2>1, TxAdd
<1>6. Lists(Queue) /\ Lists(h)
  BY <1>1, <1>3, <1>4, TypedLists
<1>7. Marked(Queue', m) = Marked(h, m)
  BY <1>2, <1>3, PlainIds
<1>8. /\ <<TxAt, x>> \in m => Cardinality(Marked(h, m)) = Cardinality(Marked(Queue, m)) + 1
      /\ <<TxAt, x>> \notin m => Cardinality(Marked(h, m)) = Cardinality(Marked(Queue, m))
  BY <1>5, <1>6, MarkedAppend
<1> QED BY <1>7, <1>8 DEF Number

LEMMA TakeCount ==
  ASSUME QueuesInv, HostInv, QueuesInv', HostInv', NEW m, Plain(m),
         rx # <<>>, rx' = Tail(rx), UNCHANGED <<tx, net, back>>
  PROVE  /\ <<RxAt, Head(rx)>> \in m => Cardinality(Marked(Queue', m)) = Number(m) - 1
         /\ <<RxAt, Head(rx)>> \notin m => Cardinality(Marked(Queue', m)) = Number(m)
<1>1. Typed(ids, tx, rx, net, back) /\ Are(Queue, ids, tx, rx, net, back)
  BY QueueIs
<1>2. Typed(ids', tx, rx', net, back) /\ Are(Queue', ids', tx, rx', net, back)
  BY QueueIsNext
<1>3. PICK h : Are(h, ids, tx, rx', net, back)
  BY SomeQueues
<1>4. Typed(ids, tx, rx', net, back)
  BY <1>1, <1>2 DEF Typed
<1>5. Shorter(Queue, h, RxAt) /\ Queue[RxAt][1] = Head(rx)
  <2>1. Are(h, ids, tx, Tail(rx), net, back)
    BY <1>3
  <2> QED BY <1>1, <2>1, RxPop
<1>6. Lists(Queue) /\ Lists(h)
  BY <1>1, <1>3, <1>4, TypedLists
<1>7. Marked(Queue', m) = Marked(h, m)
  BY <1>2, <1>3, PlainIds
<1>8. /\ <<RxAt, Head(rx)>> \in m => Cardinality(Marked(h, m)) = Cardinality(Marked(Queue, m)) - 1
      /\ <<RxAt, Head(rx)>> \notin m => Cardinality(Marked(h, m)) = Cardinality(Marked(Queue, m))
  BY <1>5, <1>6, MarkedTail
<1> QED BY <1>7, <1>8 DEF Number

LEMMA InjectCount ==
  ASSUME QueuesInv, HostInv, QueuesInv', HostInv', NEW m, Inject,
         NEW x, x = Head(tx), <<TxAt, x>> \in m <=> <<NetAt(x.addr[1]), x>> \in m
  PROVE  Cardinality(Marked(Queue', m)) = Number(m)
<1>0. PICK k : k = x.addr[1]
  OBVIOUS
<1>1. Typed(ids, tx, rx, net, back) /\ Are(Queue, ids, tx, rx, net, back)
  BY QueueIs
<1>2. /\ tx # <<>> /\ x \in Rqst /\ k \in Nodes
      /\ tx' = Tail(tx) /\ net' = [net EXCEPT ![k] = Append(net[k], x)]
      /\ UNCHANGED <<ids, rx, back>>
  BY <1>0, InjectFacts DEF host
<1>3. Typed(ids, tx', rx, net', back) /\ Are(Queue', ids, tx', rx, net', back)
  BY <1>2, QueueIsNext
<1>4. PICK h : Are(h, ids, tx', rx, net, back)
  BY SomeQueues
<1>5. Typed(ids, tx', rx, net, back)
  BY <1>1, <1>3 DEF Typed
<1>6. Shorter(Queue, h, TxAt) /\ Queue[TxAt][1] = x
  <2>1. Are(h, ids, Tail(tx), rx, net, back)
    BY <1>2, <1>4
  <2> QED BY <1>1, <1>2, <2>1, TxPop
<1>7. Longer(h, Queue', NetAt(k)) /\ Queue'[NetAt(k)][Len(Queue'[NetAt(k)])] = x
  <2>1. net'[k] = Append(net[k], x) /\ \A l \in Nodes : l # k => net'[l] = net[l]
    BY <1>1, <1>2 DEF Typed
  <2>2. k \in Nodes /\ x \in Rqst
    BY <1>2
  <2> QED BY <1>3, <1>4, <1>5, <2>1, <2>2, NetAdd
<1>8. Lists(Queue) /\ Lists(h) /\ Lists(Queue')
  BY <1>1, <1>3, <1>4, <1>5, TypedLists
<1>9. Cardinality(Marked(Queue', m)) = Cardinality(Marked(Queue, m))
  BY <1>0, <1>6, <1>7, <1>8, MarkedMove
<1> QED BY <1>9 DEF Number

LEMMA ServeCount ==
  ASSUME QueuesInv, HostInv, QueuesInv', HostInv', NEW m, NEW k \in Nodes, Serve(k),
         NEW x, x = Head(net[k]),
         NEW y, y = [kind |-> x.kind, id |-> x.id, val |-> mem[x.addr]],
         <<NetAt(k), x>> \in m <=> <<BackAt(k), y>> \in m
  PROVE  Cardinality(Marked(Queue', m)) = Number(m)
<1>1. Typed(ids, tx, rx, net, back) /\ Are(Queue, ids, tx, rx, net, back)
  BY QueueIs
<1>2. /\ net[k] # <<>> /\ y \in Rsp
      /\ back' = [back EXCEPT ![k] = Append(back[k], y)]
      /\ net' = [net EXCEPT ![k] = Tail(net[k])]
      /\ UNCHANGED <<ids, tx, rx>>
  BY ServeFacts DEF host
<1>3. Typed(ids, tx, rx, net', back') /\ Are(Queue', ids, tx, rx, net', back')
  BY <1>2, QueueIsNext
<1>4. PICK h : Are(h, ids, tx, rx, net', back)
  BY SomeQueues
<1>5. Typed(ids, tx, rx, net', back)
  BY <1>1, <1>3 DEF Typed
<1>6. Shorter(Queue, h, NetAt(k)) /\ Queue[NetAt(k)][1] = x
  <2>1. net'[k] = Tail(net[k]) /\ \A l \in Nodes : l # k => net'[l] = net[l]
    BY <1>1, <1>2 DEF Typed
  <2>2. Shorter(Queue, h, NetAt(k)) /\ Queue[NetAt(k)][1] = Head(net[k])
    <3>1. net[k] # <<>>
      BY <1>2
    <3> QED BY <1>1, <1>4, <2>1, <3>1, NetPop
  <2> QED BY <2>2
<1>7. Longer(h, Queue', BackAt(k)) /\ Queue'[BackAt(k)][Len(Queue'[BackAt(k)])] = y
  <2>1. back'[k] = Append(back[k], y) /\ \A l \in Nodes : l # k => back'[l] = back[l]
    BY <1>1, <1>2 DEF Typed
  <2>2. y \in Rsp
    BY <1>2
  <2> QED BY <1>3, <1>4, <1>5, <2>1, <2>2, BackAdd
<1>8. Lists(Queue) /\ Lists(h) /\ Lists(Queue')
  BY <1>1, <1>3, <1>4, <1>5, TypedLists
<1>9. Cardinality(Marked(Queue', m)) = Cardinality(Marked(Queue, m))
  BY <1>6, <1>7, <1>8, MarkedMove
<1> QED BY <1>9 DEF Number

LEMMA GiveBackCount ==
  ASSUME QueuesInv, HostInv, QueuesInv', HostInv', NEW m, NEW k \in Nodes, GiveBack(k),
         NEW x, x = Head(back[k]),
         IF ExpectsResponse(x.kind)
         THEN <<BackAt(k), x>> \in m <=> <<RxAt, [id |-> x.id, val |-> x.val]>> \in m
         ELSE <<BackAt(k), x>> \notin m
  PROVE  Cardinality(Marked(Queue', m)) = Number(m)
<1>0. PICK y : y = [id |-> x.id, val |-> x.val]
  OBVIOUS
<1>1. Typed(ids, tx, rx, net, back) /\ Are(Queue, ids, tx, rx, net, back)
  BY QueueIs
<1>2. /\ back[k] # <<>> /\ x \in Rsp
      /\ ExpectsResponse(x.kind) => rx' = Append(rx, y) /\ y \in Data
      /\ ~ExpectsResponse(x.kind) => rx' = rx
      /\ back' = [back EXCEPT ![k] = Tail(back[k])]
      /\ UNCHANGED <<ids, tx, net>>
  BY <1>0, GiveBackFacts DEF host
<1>3. Typed(ids, tx, rx', net, back') /\ Are(Queue', ids, tx, rx', net, back')
  BY <1>2, QueueIsNext
<1>4. PICK h : Are(h, ids, tx, rx, net, back')
  BY SomeQueues
<1>5. Typed(ids, tx, rx, net, back')
  BY <1>1, <1>3 DEF Typed
<1>6. Shorter(Queue, h, BackAt(k)) /\ Queue[BackAt(k)][1] = x
  <2>1. back'[k] = Tail(back[k]) /\ \A l \in Nodes : l # k => back'[l] = back[l]
    BY <1>1, <1>2 DEF Typed
  <2>2. Shorter(Queue, h, BackAt(k)) /\ Queue[BackAt(k)][1] = Head(back[k])
    <3>1. back[k] # <<>>
      BY <1>2
    <3> QED BY <1>1, <1>4, <2>1, <3>1, BackPop
  <2> QED BY <2>2
<1>7. Lists(Queue) /\ Lists(h) /\ Lists(Queue')
  BY <1>1, <1>3, <1>4, <1>5, TypedLists
<1>8. CASE ExpectsResponse(x.kind)
  <2>1. Longer(h, Queue', RxAt) /\ Queue'[RxAt][Len(Queue'[RxAt])] = y
    <3>1. Are(Queue', ids, tx, Append(rx, y), net, back') /\ y \in Data
      BY <1>2, <1>3, <1>8
    <3> QED BY <1>4, <1>5, <3>1, RxAdd
  <2>2. <<BackAt(k), x>> \in m <=> <<RxAt, y>> \in m
    BY <1>0, <1>8
  <2>3. Cardinality(Marked(Queue', m)) = Cardinality(Marked(Queue, m))
    BY <1>6, <1>7, <2>1, <2>2, MarkedMove
  <2> QED BY <2>3 DEF Number
<1>9. CASE ~ExpectsResponse(x.kind)
  <2>0. back'[k] = Tail(back[k]) /\ \A l \in Nodes : l # k => back'[l] = back[l]
    BY <1>1, <1>2 DEF Typed
  <2>1. Are(Queue', ids, tx, rx, net, back')
    BY <1>2, <1>3, <1>9
  <2>2. Shorter(Queue, Queue', BackAt(k))
    BY <1>1, <1>2, <2>0, <2>1, BackPop
  <2>3. <<BackAt(k), Queue[BackAt(k)][1]>> \notin m
    BY <1>6, <1>9
  <2>4. Cardinality(Marked(Queue', m)) = Cardinality(Marked(Queue, m))
    BY <1>7, <2>2, <2>3, MarkedTail
  <2> QED BY <2>4 DEF Number
<1> QED BY <1>8, <1>9

(* A load id goes from the stack into a request, and from a response back.   *)
LEMMA RequestCount ==
  ASSUME QueuesInv, HostInv, QueuesInv', HostInv', NEW m, ids # <<>>, ids' = Tail(ids),
         NEW x \in Rqst, tx' = Append(tx, x), UNCHANGED <<rx, net, back>>,
         <<IdsAt, Head(ids)>> \in m <=> <<TxAt, x>> \in m
  PROVE  Cardinality(Marked(Queue', m)) = Number(m)
<1>1. Typed(ids, tx, rx, net, back) /\ Are(Queue, ids, tx, rx, net, back)
  BY QueueIs
<1>3. Typed(ids', tx', rx, net, back) /\ Are(Queue', ids', tx', rx, net, back)
  BY QueueIsNext
<1>4. PICK h : Are(h, ids', tx, rx, net, back)
  BY SomeQueues
<1>5. Typed(ids', tx, rx, net, back)
  BY <1>1, <1>3 DEF Typed
<1>6. Shorter(Queue, h, IdsAt) /\ Queue[IdsAt][1] = Head(ids)
  <2>1. Are(h, Tail(ids), tx, rx, net, back)
    BY <1>4
  <2> QED BY <1>1, <2>1, IdsPop
<1>7. Longer(h, Queue', TxAt) /\ Queue'[TxAt][Len(Queue'[TxAt])] = x
  <2>1. Are(Queue', ids', Append(tx, x), rx, net, back)
    BY <1>3
  <2> QED BY <1>4, <1>5, <2>1, TxAdd
<1>8. Lists(Queue) /\ Lists(h) /\ Lists(Queue')
  BY <1>1, <1>3, <1>4, <1>5, TypedLists
<1>9. Cardinality(Marked(Queue', m)) = Cardinality(Marked(Queue, m))
  BY <1>6, <1>7, <1>8, MarkedMove
<1> QED BY <1>9 DEF Number

LEMMA RecycleCount ==
  ASSUME QueuesInv, HostInv, QueuesInv', HostInv', NEW m, rx # <<>>, rx' = Tail(rx),
         NEW x \in Ids, ids' = <<x>> \o ids, UNCHANGED <<tx, net, back>>,
         <<RxAt, Head(rx)>> \in m <=> <<IdsAt, x>> \in m
  PROVE  Cardinality(Marked(Queue', m)) = Number(m)
<1>1. Typed(ids, tx, rx, net, back) /\ Are(Queue, ids, tx, rx, net, back)
  BY QueueIs
<1>3. Typed(ids', tx, rx', net, back) /\ Are(Queue', ids', tx, rx', net, back)
  BY QueueIsNext
<1>4. PICK h : Are(h, ids, tx, rx', net, back)
  BY SomeQueues
<1>5. Typed(ids, tx, rx', net, back)
  BY <1>1, <1>3 DEF Typed
<1>6. Shorter(Queue, h, RxAt) /\ Queue[RxAt][1] = Head(rx)
  <2>1. Are(h, ids, tx, Tail(rx), net, back)
    BY <1>4
  <2> QED BY <1>1, <2>1, RxPop
<1>7. Shorter(Queue', h, IdsAt) /\ Queue'[IdsAt][1] = x
  <2>1. Are(Queue', <<x>> \o ids, tx, rx', net, back)
    BY <1>3
  <2> QED BY <1>4, <1>5, <2>1, IdsPush
<1>8. Lists(Queue) /\ Lists(h) /\ Lists(Queue')
  BY <1>1, <1>3, <1>4, <1>5, TypedLists
<1>9. Cardinality(Marked(Queue', m)) = Cardinality(Marked(Queue, m))
  BY <1>6, <1>7, <1>8, MarkedBack
<1> QED BY <1>9 DEF Number

-----------------------------------------------------------------------------
(* Responses under way *)

LEMMA NameParts ==
  /\ IdsAt[1] = "ids" /\ TxAt[1] = "tx" /\ RxAt[1] = "rx"
  /\ \A k : NetAt(k)[1] = "net" /\ BackAt(k)[1] = "back"
BY DEF IdsAt, TxAt, RxAt, NetAt, BackAt

LEMMA EntriesAre ==
  /\ \A x \in Ids : <<IdsAt, x>> \in Entries
  /\ \A x \in Rqst : <<TxAt, x>> \in Entries
  /\ \A x \in Data : <<RxAt, x>> \in Entries
  /\ \A k \in Nodes : \A x \in Rqst : <<NetAt(k), x>> \in Entries
  /\ \A k \in Nodes : \A x \in Rsp : <<BackAt(k), x>> \in Entries
BY QueueNames DEF Entries

LEMMA WaitingIs ==
  /\ Plain(Waiting)
  /\ \A x \in Data : <<RxAt, x>> \in Waiting
  /\ \A x \in Rqst : <<TxAt, x>> \in Waiting <=> ExpectsResponse(x.kind)
  /\ \A k \in Nodes : \A x \in Rqst : <<NetAt(k), x>> \in Waiting <=> ExpectsResponse(x.kind)
  /\ \A k \in Nodes : \A x \in Rsp : <<BackAt(k), x>> \in Waiting <=> ExpectsResponse(x.kind)
<1> HIDE DEF IdsAt, TxAt, RxAt, NetAt, BackAt, ExpectsResponse
<1>1. Plain(Waiting)
  BY NameParts DEF Plain, Waiting
<1>2. \A x \in Data : <<RxAt, x>> \in Waiting
  BY NameParts, EntriesAre DEF Waiting
<1>3. \A x \in Rqst : <<TxAt, x>> \in Waiting <=> ExpectsResponse(x.kind)
  BY NameParts, EntriesAre DEF Waiting
<1>4. ASSUME NEW k \in Nodes, NEW x \in Rqst
      PROVE  <<NetAt(k), x>> \in Waiting <=> ExpectsResponse(x.kind)
  BY NameParts, EntriesAre DEF Waiting
<1>5. ASSUME NEW k \in Nodes, NEW x \in Rsp
      PROVE  <<BackAt(k), x>> \in Waiting <=> ExpectsResponse(x.kind)
  BY NameParts, EntriesAre DEF Waiting
<1> QED BY <1>1, <1>2, <1>3, <1>4, <1>5

LEMMA ForeignIs ==
  ASSUME NEW kind
  PROVE  /\ Plain(Foreign(kind)) /\ Foreign(kind) \subseteq Waiting
         /\ \A x : <<RxAt, x>> \notin Foreign(kind)
         /\ \A x \in Rqst :
              <<TxAt, x>> \in Foreign(kind) <=> ExpectsResponse(x.kind) /\ x.kind # kind
         /\ \A k \in Nodes : \A x \in Rqst :
              <<NetAt(k), x>> \in Foreign(kind) <=> ExpectsResponse(x.kind) /\ x.kind # kind
         /\ \A k \in Nodes : \A x \in Rsp :
              <<BackAt(k), x>> \in Foreign(kind) <=> ExpectsResponse(x.kind) /\ x.kind # kind
<1>1. Plain(Foreign(kind)) /\ \A x : <<RxAt, x>> \notin Foreign(kind)
  BY NameParts DEF Plain, Foreign
<1>2. Foreign(kind) \subseteq Waiting
  BY DEF Waiting, Foreign
<1>3. ASSUME NEW x \in Rqst
      PROVE  <<TxAt, x>> \in Foreign(kind) <=> ExpectsResponse(x.kind) /\ x.kind # kind
  BY NameParts, EntriesAre DEF Foreign
<1>4. ASSUME NEW k \in Nodes, NEW x \in Rqst
      PROVE  <<NetAt(k), x>> \in Foreign(kind) <=> ExpectsResponse(x.kind) /\ x.kind # kind
  BY NameParts, EntriesAre DEF Foreign
<1>5. ASSUME NEW k \in Nodes, NEW x \in Rsp
      PROVE  <<BackAt(k), x>> \in Foreign(kind) <=> ExpectsResponse(x.kind) /\ x.kind # kind
  BY NameParts, EntriesAre DEF Foreign
<1> QED BY <1>1, <1>2, <1>3, <1>4, <1>5

LEMMA CarryingIs ==
  ASSUME NEW id
  PROVE  /\ \A x \in Ids : <<IdsAt, x>> \in Carrying(id) <=> x = id
         /\ \A x \in Data : <<RxAt, x>> \in Carrying(id) <=> x.id = id
         /\ \A x \in Rqst : <<TxAt, x>> \in Carrying(id) <=> x.kind = "read" /\ x.id = id
         /\ \A k \in Nodes : \A x \in Rqst :
              <<NetAt(k), x>> \in Carrying(id) <=> x.kind = "read" /\ x.id = id
         /\ \A k \in Nodes : \A x \in Rsp :
              <<BackAt(k), x>> \in Carrying(id) <=> x.kind = "read" /\ x.id = id
<1>1. \A x \in Ids : <<IdsAt, x>> \in Carrying(id) <=> x = id
  BY NameParts, EntriesAre DEF Carrying, Carries
<1>2. \A x \in Data : <<RxAt, x>> \in Carrying(id) <=> x.id = id
  BY NameParts, EntriesAre DEF Carrying, Carries
<1>3. ASSUME NEW x \in Rqst
      PROVE  <<TxAt, x>> \in Carrying(id) <=> x.kind = "read" /\ x.id = id
  BY NameParts, EntriesAre DEF Carrying, Carries
<1>4. ASSUME NEW k \in Nodes, NEW x \in Rqst
      PROVE  <<NetAt(k), x>> \in Carrying(id) <=> x.kind = "read" /\ x.id = id
  BY NameParts, EntriesAre DEF Carrying, Carries
<1>5. ASSUME NEW k \in Nodes, NEW x \in Rsp
      PROVE  <<BackAt(k), x>> \in Carrying(id) <=> x.kind = "read" /\ x.id = id
  BY NameParts, EntriesAre DEF Carrying, Carries
<1> QED BY <1>1, <1>2, <1>3, <1>4, <1>5

LEMMA KindsExpect ==
  /\ ExpectsResponse("read") /\ ExpectsResponse("load") /\ ExpectsResponse("amoadd")
  /\ ~ExpectsResponse("write") /\ ~ExpectsResponse("store")
  /\ \A k \in Kinds : ExpectsResponse(k) <=> k \in {"amoadd", "load", "read"}
BY DEF ExpectsResponse, Kinds

(* The marks do not change.                                                  *)
LEMMA MarksConstant ==
  /\ Waiting' = Waiting /\ Foreign(call.kind)' = Foreign(call'.kind)
  /\ \A id : Carrying(id)' = Carrying(id)
BY DEF Waiting, Foreign, Carrying, Carries, Entries, Queues, Ids, Rqst, Rsp, Data, Kinds, Words,
       ExpectsResponse

LEMMA WaitNext ==
  ASSUME pending' = Cardinality(Marked(Queue', Waiting)), pending' <= Cap,
         ~broken' => /\ pending' = Owed'
                     /\ Cardinality(Marked(Queue', Foreign(call'.kind))) = 0
  PROVE  WaitInv'
BY MarksConstant DEF WaitInv, Number

LEMMA NoForeign ==
  ASSUME NEW f, Lists(f), Cardinality(Marked(f, Waiting)) = 0, NEW kind
  PROVE  Cardinality(Marked(f, Foreign(kind))) = 0
<1>1. \A q \in Queues : \A i \in DOMAIN f[q] : <<q, f[q][i]>> \notin Waiting
  BY MarkedNone
<1>2. \A q \in Queues : \A i \in DOMAIN f[q] : <<q, f[q][i]>> \notin Foreign(kind)
  BY <1>1, ForeignIs
<1> QED BY <1>2, MarkedNone

LEMMA ListsNow ==
  ASSUME QueuesInv, HostInv
  PROVE  Lists(Queue) /\ Number(Waiting) \in Nat
<1>1. Lists(Queue)
  BY QueueIs, TypedLists
<1> QED BY <1>1, MarkedFinite DEF Number

LEMMA ListsNext ==
  ASSUME QueuesInv', HostInv'
  PROVE  Lists(Queue') /\ Cardinality(Marked(Queue', Waiting)) \in Nat
<1>1. Lists(Queue')
  BY QueueIsNext, TypedLists
<1> QED BY <1>1, MarkedFinite

(* A request of the host: the guard of transmit keeps the capacity.          *)
LEMMA WaitSend ==
  ASSUME QueuesInv, HostInv, WaitInv, QueuesInv', HostInv', NEW x \in Rqst,
         Transmit(x), UNCHANGED <<device, rx, call, broken>>, x.kind = call.kind,
         ~broken => Owed' = IF ExpectsResponse(x.kind) THEN Owed + 1 ELSE Owed
  PROVE  WaitInv'
<1>1. /\ tx' = Append(tx, x) /\ UNCHANGED <<rx, net, back, call, broken>>
      /\ ExpectsResponse(x.kind) => pending < Cap /\ pending' = pending + 1
      /\ ~ExpectsResponse(x.kind) => pending' = pending
  BY DEF Transmit, device
<1>2. /\ pending = Number(Waiting) /\ pending <= Cap
      /\ ~broken => pending = Owed /\ Number(Foreign(call.kind)) = 0
  BY DEF WaitInv
<1>3. pending \in Nat
  BY <1>2, ListsNow
<1>4. /\ ExpectsResponse(x.kind) => Cardinality(Marked(Queue', Waiting)) = Number(Waiting) + 1
      /\ ~ExpectsResponse(x.kind) => Cardinality(Marked(Queue', Waiting)) = Number(Waiting)
  BY <1>1, SendCount, WaitingIs
<1>5. Cardinality(Marked(Queue', Foreign(call.kind))) = Number(Foreign(call.kind))
  <2>1. Plain(Foreign(call.kind)) /\ <<TxAt, x>> \notin Foreign(call.kind)
    BY ForeignIs
  <2> QED BY <1>1, <2>1, SendCount
<1>6. pending' = Cardinality(Marked(Queue', Waiting))
  BY <1>1, <1>2, <1>4
<1>7. pending' <= Cap
  BY <1>1, <1>2, <1>3, Consts
<1>8. ~broken => pending' = Owed'
  BY <1>1, <1>2
<1> QED BY <1>1, <1>2, <1>5, <1>6, <1>7, <1>8, WaitNext

(* A response taken.                                                         *)
LEMMA WaitTake ==
  ASSUME QueuesInv, HostInv, WaitInv, QueuesInv', HostInv',
         Receive, UNCHANGED <<tx, device, broken>>, call' = call \/ call' = NoCall,
         ~broken => Owed' = Owed - 1, ~broken /\ call' = NoCall => Owed = 1
  PROVE  WaitInv' /\ (~broken => pending' = Owed')
<1>1. rx # <<>> /\ rx' = Tail(rx) /\ pending' = pending - 1 /\ UNCHANGED <<tx, net, back, broken>>
  BY DEF Receive, device
<1>2. /\ pending = Number(Waiting) /\ pending <= Cap
      /\ ~broken => pending = Owed /\ Number(Foreign(call.kind)) = 0
  BY DEF WaitInv
<1>3. pending \in Nat
  BY <1>2, ListsNow
<1>4. Head(rx) \in Data
  BY <1>1, HeadTail DEF QueuesInv
<1>5. pending' = Cardinality(Marked(Queue', Waiting))
  <2>1. Cardinality(Marked(Queue', Waiting)) = Number(Waiting) - 1
    BY <1>1, <1>4, TakeCount, WaitingIs
  <2> QED BY <1>1, <1>2, <2>1
<1>6. pending' <= Cap
  BY <1>1, <1>2, <1>3, Consts
<1>7. ~broken => pending' = Owed'
  BY <1>1, <1>2
<1>8. ASSUME ~broken PROVE Cardinality(Marked(Queue', Foreign(call'.kind))) = 0
  <2>1. CASE call' = call
    <3>1. Plain(Foreign(call.kind)) /\ <<RxAt, Head(rx)>> \notin Foreign(call.kind)
      BY ForeignIs
    <3>2. Cardinality(Marked(Queue', Foreign(call.kind))) = Number(Foreign(call.kind))
      BY <1>1, <3>1, TakeCount
    <3> QED BY <1>2, <1>8, <2>1, <3>2
  <2>2. CASE call' = NoCall
    <3>1. Cardinality(Marked(Queue', Waiting)) = 0
      BY <1>1, <1>2, <1>5, <1>8, <2>2
    <3>2. Lists(Queue')
      BY ListsNext
    <3> QED BY <3>1, <3>2, NoForeign
  <2> QED BY <2>1, <2>2
<1> QED BY <1>1, <1>5, <1>6, <1>7, <1>8, WaitNext

(* Nothing under way while a call begins or ends without a response.         *)
LEMMA WaitStay ==
  ASSUME QueuesInv, HostInv, WaitInv, QueuesInv', HostInv',
         UNCHANGED <<tx, device, rx, pending>>,
         ~broken' => ~broken /\ Owed = 0 /\ Owed' = 0
  PROVE  WaitInv'
<1>1. UNCHANGED <<tx, rx, net, back, pending>>
  BY DEF device
<1>2. /\ pending = Number(Waiting) /\ pending <= Cap
      /\ ~broken => pending = Owed
  BY DEF WaitInv
<1>3. pending' = Cardinality(Marked(Queue', Waiting))
  BY <1>1, <1>2, StayCount, WaitingIs
<1>4. ASSUME ~broken' PROVE Cardinality(Marked(Queue', Foreign(call'.kind))) = 0
  <2>1. Cardinality(Marked(Queue', Waiting)) = 0
    BY <1>1, <1>2, <1>3, <1>4
  <2> QED BY <2>1, ListsNext, NoForeign
<1> QED BY <1>1, <1>2, <1>3, <1>4, WaitNext

(* The platform moves packets on.                                            *)
LEMMA WaitPlatform ==
  ASSUME QueuesInv, HostInv, WaitInv, QueuesInv', HostInv', UNCHANGED <<host, pending, broken>>,
         Cardinality(Marked(Queue', Waiting)) = Number(Waiting),
         ~broken => Cardinality(Marked(Queue', Foreign(call.kind))) = Number(Foreign(call.kind))
  PROVE  WaitInv'
<1>1. UNCHANGED <<pc, call, rqst_i, rsp_i, pending, broken>>
  BY DEF host
<1>2. Owed' = Owed
  BY <1>1 DEF Owed
<1>3. /\ pending = Number(Waiting) /\ pending <= Cap
      /\ ~broken => pending = Owed /\ Number(Foreign(call.kind)) = 0
  BY DEF WaitInv
<1> QED BY <1>1, <1>2, <1>3, WaitNext

(* A response to a read is for a load id that the read has used and not got  *)
(* back: it is not on the stack.                                             *)
LEMMA ResponseKnown ==
  ASSUME QueuesInv, HostInv, IdsInv, ~broken, call.kind = "read", rx # <<>>
  PROVE  /\ Head(rx) \in Data /\ Head(rx).id \in Ids
         /\ Head(rx).id \in DOMAIN id_to_rsp_i
         /\ \A k \in DOMAIN ids : ids[k] # Head(rx).id
<1>1. Head(rx) \in Data /\ Head(rx) = rx[1] /\ 1 \in DOMAIN rx
  BY HeadTail DEF QueuesInv
<1>2. PICK id \in Ids : id = Head(rx).id
  BY <1>1 DEF Data
<1>3. Typed(ids, tx, rx, net, back) /\ Are(Queue, ids, tx, rx, net, back)
  BY QueueIs
<1>4. Lists(Queue) /\ Cardinality(Marked(Queue, Carrying(id))) = 1
  BY <1>3, TypedLists DEF IdsInv, Number
<1>5. 1 \in DOMAIN Queue[RxAt] /\ <<RxAt, Queue[RxAt][1]>> \in Carrying(id)
  BY <1>1, <1>2, <1>3, CarryingIs DEF Are
<1>6. ASSUME NEW k \in DOMAIN ids PROVE ids[k] # id
  <2> SUFFICES ASSUME ids[k] = id PROVE FALSE
    OBVIOUS
  <2>1. k \in DOMAIN Queue[IdsAt] /\ <<IdsAt, Queue[IdsAt][k]>> \in Carrying(id)
    BY <1>3, CarryingIs DEF Are
  <2>2. IdsAt = RxAt
    BY <1>4, <1>5, <2>1, MarkedOnce, QueueNames
  <2> QED BY <2>2, NamesDiffer
<1>7. id \in DOMAIN id_to_rsp_i
  BY <1>6 DEF IdsInv
<1> QED BY <1>1, <1>2, <1>6, <1>7

LEMMA WaitStep ==
  ASSUME QueuesInv, HostInv, WaitInv, IdsInv, QueuesInv', HostInv', [Next]_vars
  PROVE  WaitInv'
<1>idle. NoCall.kind = "none"
  BY NotACall
<1>1. ASSUME NEW c \in Calls, Begin(c) PROVE WaitInv'
  <2>1. /\ pc = "idle" /\ pc' = Start(c) /\ call' = c
        /\ UNCHANGED <<rqst_i, rsp_i, tx, device, rx, pending, broken>>
    BY <1>1 DEF Begin
  <2>2. call = NoCall /\ rqst_i = 0 /\ rsp_i = 0
    BY <2>1 DEF HostInv, Stage
  <2>3. Owed = 0
    BY <1>idle, <2>1, <2>2 DEF Owed
  <2>4. pc' # "answer"
    BY <2>1, CallKinds
  <2>5. Owed' = 0
    BY <2>1, <2>2, <2>4 DEF Owed
  <2> QED BY <2>1, <2>3, <2>5, WaitStay
<1>2. CASE Store
  <2>1. PICK x \in Rqst : /\ x.kind = call.kind
                          /\ Transmit(x) /\ UNCHANGED <<device, rx, call, broken>>
    BY <1>2, StoreRqst DEF Store
  <2>2. pc = "store" /\ pc' \in {"store", "stored"} /\ call' = call
    BY <1>2 DEF Store
  <2>3. call.kind \in {"write", "store"}
    BY <2>2 DEF HostInv, Stage
  <2>4. Owed = 0 /\ Owed' = 0 /\ ~ExpectsResponse(x.kind)
    BY <2>1, <2>2, <2>3, KindsExpect DEF Owed
  <2> QED BY <2>1, <2>4, WaitSend
<1>3. CASE StoreReturns
  <2>1. /\ pc = "stored" /\ pc' = "idle" /\ call' = NoCall
        /\ UNCHANGED <<tx, device, rx, pending, broken>>
    BY <1>3 DEF StoreReturns, LeaveWith
  <2>2. call.kind \in {"write", "store"}
    BY <2>1 DEF HostInv, Stage
  <2>3. Owed = 0 /\ Owed' = 0
    BY <1>idle, <2>1, <2>2 DEF Owed
  <2> QED BY <2>1, <2>3, WaitStay
<1>4. CASE SendSingle
  <2>1. PICK x \in Rqst : /\ x.kind = call.kind
                          /\ Transmit(x) /\ UNCHANGED <<device, rx, call, broken>>
    BY <1>4, SingleRqst DEF SendSingle
  <2>2. pc = "single" /\ pc' = "answer" /\ call' = call
    BY <1>4 DEF SendSingle
  <2>3. call.kind \in {"amoadd", "load"}
    BY <2>2 DEF HostInv, Stage
  <2>4. Owed = 0 /\ Owed' = 1 /\ ExpectsResponse(x.kind)
    BY <2>1, <2>2, <2>3, KindsExpect DEF Owed
  <2> QED BY <2>1, <2>4, WaitSend
<1>5. CASE TakeSingle
  <2>1. /\ pc = "answer" /\ Receive /\ UNCHANGED <<tx, device, broken>>
        /\ pc' = "idle" /\ call' = NoCall
    BY <1>5 DEF TakeSingle, LeaveWith
  <2>2. Owed = 1 /\ Owed' = 0
    BY <1>idle, <2>1 DEF Owed
  <2> QED BY <2>1, <2>2, WaitTake
<1>6. CASE Request
  <2>1. PICK x \in Rqst : x.kind = "read" /\ Transmit(x) /\ UNCHANGED <<device, rx>>
    BY <1>6, ReadRqst DEF Request
  <2>2. /\ pc = "request" /\ call.kind = "read" /\ rqst_i \in Int /\ rsp_i \in Int
        /\ rqst_i' = rqst_i + 1 /\ pc' \in {"request", "receive"}
        /\ UNCHANGED <<call, rsp_i, broken>>
    BY <1>6, RequestFacts
  <2>3. Owed = rqst_i - rsp_i /\ Owed' = rqst_i' - rsp_i
    BY <2>2 DEF Owed
  <2>4. Owed' = Owed + 1 /\ ExpectsResponse(x.kind) /\ x.kind = call.kind
    BY <2>1, <2>2, <2>3, KindsExpect
  <2> QED BY <2>1, <2>2, <2>4, WaitSend
<1>7. CASE RequestFails
  <2>1. /\ pc = "request" /\ broken' = (broken \/ rsp_i < rqst_i)
        /\ UNCHANGED <<tx, device, rx, pending>> /\ pc' = "idle" /\ call' = NoCall
    BY <1>7 DEF RequestFails, LeaveWith
  <2>2. call.kind = "read" /\ rqst_i \in 0 .. Count - 1 /\ rsp_i \in 0 .. rqst_i
    BY <2>1 DEF HostInv, Stage
  <2>3. Owed = rqst_i - rsp_i /\ Owed' = 0
    BY <1>idle, <2>1, <2>2 DEF Owed
  <2>4. ASSUME ~broken' PROVE ~broken /\ Owed = 0
    <3>1. ~broken /\ ~(rsp_i < rqst_i)
      BY <2>1, <2>4
    <3>2. rsp_i = rqst_i /\ rqst_i \in Int
      BY <2>2, <3>1
    <3> QED BY <2>3, <3>1, <3>2
  <2> QED BY <2>1, <2>3, <2>4, WaitStay
<1>8. CASE Respond
  <2>1. PICK d, data : d = Head(rx) /\ data = Put(result, Slot(d.id), d.val)
    OBVIOUS
  <2>2. /\ pc = "receive" /\ call.kind = "read" /\ Count \in Nat
        /\ rqst_i \in 1 .. Count /\ rsp_i \in 0 .. rqst_i - 1
        /\ rx # <<>> /\ UNCHANGED <<tx, device, broken>>
        /\ \/ d.id \notin DOMAIN id_to_rsp_i /\ LeaveWith(<<>>)
           \/ d.id \in DOMAIN id_to_rsp_i /\ rsp_i + 1 = Count /\ LeaveWith(data)
           \/ /\ d.id \in DOMAIN id_to_rsp_i /\ rsp_i + 1 # Count
              /\ pc' = IF rsp_i + 1 < rqst_i THEN "receive" ELSE "request"
              /\ result' = data /\ rsp_i' = rsp_i + 1 /\ ids' = Recycle(d.id)
              /\ UNCHANGED <<call, rqst_i, id_to_rsp_i>>
    BY <1>8, <2>1, RespondFacts
  <2>3. Receive
    BY <1>8 DEF Respond
  <2>4. Owed = rqst_i - rsp_i
    BY <2>2 DEF Owed
  <2>5. CASE d.id \notin DOMAIN id_to_rsp_i /\ LeaveWith(<<>>)
    <3>1. pc' = "idle" /\ call' = NoCall
      BY <2>5 DEF LeaveWith
    <3>2. broken
      BY <2>1, <2>2, <2>5, ResponseKnown
    <3> QED BY <2>2, <2>3, <3>1, <3>2, WaitTake
  <2>6. CASE d.id \in DOMAIN id_to_rsp_i /\ rsp_i + 1 = Count /\ LeaveWith(data)
    <3>1. pc' = "idle" /\ call' = NoCall
      BY <2>6 DEF LeaveWith
    <3>2. Owed = 1 /\ Owed' = 0
      BY <1>idle, <2>2, <2>4, <2>6, <3>1 DEF Owed
    <3> QED BY <2>2, <2>3, <3>1, <3>2, WaitTake
  <2>7. CASE /\ pc' = IF rsp_i + 1 < rqst_i THEN "receive" ELSE "request"
             /\ rsp_i' = rsp_i + 1 /\ UNCHANGED <<call, rqst_i>>
    <3>1. Owed' = rqst_i - (rsp_i + 1)
      BY <2>2, <2>7 DEF Owed
    <3>2. Owed' = Owed - 1
      BY <2>2, <2>4, <3>1
    <3>3. call' # NoCall
      BY <1>idle, <2>2, <2>7
    <3> QED BY <2>2, <2>3, <2>7, <3>2, <3>3, WaitTake
  <2> QED BY <2>2, <2>5, <2>6, <2>7
<1>9. CASE Inject
  <2>1. PICK x : x = Head(tx)
    OBVIOUS
  <2>2. x \in Rqst /\ x.addr[1] \in Nodes /\ UNCHANGED <<host, pending, broken>>
    BY <1>9, <2>1, InjectFacts
  <2>3. <<TxAt, x>> \in Waiting <=> <<NetAt(x.addr[1]), x>> \in Waiting
    BY <2>2, WaitingIs
  <2>4. <<TxAt, x>> \in Foreign(call.kind) <=> <<NetAt(x.addr[1]), x>> \in Foreign(call.kind)
    BY <2>2, ForeignIs
  <2>5. Cardinality(Marked(Queue', Waiting)) = Number(Waiting)
    BY <1>9, <2>1, <2>3, InjectCount
  <2>6. Cardinality(Marked(Queue', Foreign(call.kind))) = Number(Foreign(call.kind))
    BY <1>9, <2>1, <2>4, InjectCount
  <2> QED BY <2>2, <2>5, <2>6, WaitPlatform
<1>10. ASSUME NEW n \in Nodes, Serve(n) PROVE WaitInv'
  <2>1. PICK x, y : x = Head(net[n]) /\ y = [kind |-> x.kind, id |-> x.id, val |-> mem[x.addr]]
    OBVIOUS
  <2>2. x \in Rqst /\ y \in Rsp /\ UNCHANGED <<host, pending, broken>>
    BY <1>10, <2>1, ServeFacts
  <2>3. y.kind = x.kind
    BY <2>1
  <2>4. <<NetAt(n), x>> \in Waiting <=> <<BackAt(n), y>> \in Waiting
    BY <2>2, <2>3, WaitingIs
  <2>5. <<NetAt(n), x>> \in Foreign(call.kind) <=> <<BackAt(n), y>> \in Foreign(call.kind)
    BY <2>2, <2>3, ForeignIs
  <2>6. Cardinality(Marked(Queue', Waiting)) = Number(Waiting)
    BY <1>10, <2>1, <2>4, ServeCount
  <2>7. Cardinality(Marked(Queue', Foreign(call.kind))) = Number(Foreign(call.kind))
    BY <1>10, <2>1, <2>5, ServeCount
  <2> QED BY <2>2, <2>6, <2>7, WaitPlatform
<1>11. ASSUME NEW n \in Nodes, GiveBack(n) PROVE WaitInv'
  <2>1. PICK x : x = Head(back[n])
    OBVIOUS
  <2>2. /\ x \in Rsp /\ back[n] # <<>> /\ back[n] \in Seq(Rsp)
        /\ ExpectsResponse(x.kind) => [id |-> x.id, val |-> x.val] \in Data
        /\ UNCHANGED <<host, pending, broken>>
    BY <1>11, <2>1, GiveBackFacts
  <2>3. IF ExpectsResponse(x.kind)
        THEN <<BackAt(n), x>> \in Waiting <=> <<RxAt, [id |-> x.id, val |-> x.val]>> \in Waiting
        ELSE <<BackAt(n), x>> \notin Waiting
    BY <2>2, WaitingIs
  <2>4. Cardinality(Marked(Queue', Waiting)) = Number(Waiting)
    BY <1>11, <2>1, <2>3, GiveBackCount
  <2>5. ASSUME ~broken
        PROVE  Cardinality(Marked(Queue', Foreign(call.kind))) = Number(Foreign(call.kind))
    <3>1. Cardinality(Marked(Queue, Foreign(call.kind))) = 0
      BY <2>5 DEF WaitInv, Number
    <3>2. Are(Queue, ids, tx, rx, net, back) /\ Lists(Queue)
      BY QueueIs, ListsNow
    <3>3. BackAt(n) \in Queues /\ 1 \in DOMAIN Queue[BackAt(n)] /\ Queue[BackAt(n)][1] = x
      BY <2>1, <2>2, <3>2, HeadTail, QueueNames DEF Are
    <3>4. <<BackAt(n), x>> \notin Foreign(call.kind)
      BY <3>1, <3>2, <3>3, MarkedNone
    <3>5. <<RxAt, [id |-> x.id, val |-> x.val]>> \notin Foreign(call.kind)
      BY ForeignIs
    <3> QED BY <1>11, <2>1, <3>4, <3>5, GiveBackCount
  <2> QED BY <2>2, <2>4, <2>5, WaitPlatform
<1>12. CASE UNCHANGED vars
  <2>1. UNCHANGED <<host, pending, broken>> /\ UNCHANGED <<tx, rx, net, back>>
    BY <1>12 DEF vars, device
  <2>2. Cardinality(Marked(Queue', Waiting)) = Number(Waiting)
    BY <2>1, StayCount, WaitingIs
  <2>3. Cardinality(Marked(Queue', Foreign(call.kind))) = Number(Foreign(call.kind))
    BY <2>1, StayCount, ForeignIs
  <2> QED BY <2>1, <2>2, <2>3, WaitPlatform
<1> QED BY <1>1, <1>2, <1>3, <1>4, <1>5, <1>6, <1>7, <1>8, <1>9, <1>10, <1>11, <1>12 DEF Next

-----------------------------------------------------------------------------
(* Load ids *)

(* When a read begins, every load id is on the stack and nothing under way.  *)
LEMMA IdsBegin ==
  ASSUME QueuesInv', HostInv', ids' = AllIds,
         Cardinality(Marked(Queue', Waiting)) = 0, NEW id \in Ids
  PROVE  /\ Cardinality(Marked(Queue', Carrying(id))) = 1
         /\ \E i \in DOMAIN ids' : ids'[i] = id
<1>1. Typed(ids', tx', rx', net', back') /\ Are(Queue', ids', tx', rx', net', back')
  BY QueueIsNext
<1>2. Lists(Queue')
  BY ListsNext
<1>3. \A q \in Queues : \A i \in DOMAIN Queue'[q] : <<q, Queue'[q][i]>> \notin Waiting
  BY <1>2, MarkedNone
<1>4. /\ id \in Nat /\ id + 1 \in 1 .. Cap /\ DOMAIN AllIds = 1 .. Cap
      /\ \A i \in 1 .. Cap : AllIds[i] = i - 1
  BY Consts DEF Ids, AllIds
<1>5. PICK h : h = id + 1
  OBVIOUS
<1>6. Queue'[IdsAt] = AllIds
  BY <1>1 DEF Are
<1>7. \A q, i : <<q, i>> \in Marked(Queue', Carrying(id))
                <=> /\ q \in Queues /\ i \in DOMAIN Queue'[q]
                    /\ <<q, Queue'[q][i]>> \in Carrying(id)
  BY MarkedIs
<1>8. AllIds[h] = id /\ h \in DOMAIN AllIds /\ AllIds[h] \in Ids
  BY <1>4, <1>5
<1>9. <<IdsAt, h>> \in Marked(Queue', Carrying(id))
  BY <1>6, <1>7, <1>8, QueueNames, CarryingIs
<1>10. ASSUME NEW q, NEW i, <<q, i>> \in Marked(Queue', Carrying(id))
       PROVE  q = IdsAt /\ i = h
  <2>1. q \in Queues /\ i \in DOMAIN Queue'[q] /\ <<q, Queue'[q][i]>> \in Carrying(id)
    BY <1>7, <1>10
  <2>2. <<q, Queue'[q][i]>> \notin Waiting
    BY <1>3, <2>1
  <2>3. CASE q = IdsAt
    <3>1. i \in 1 .. Cap /\ AllIds[i] \in Ids
      BY <1>4, <1>6, <2>1, <2>3, AllIdsType
    <3>2. AllIds[i] = id
      BY <1>6, <2>1, <2>3, <3>1, CarryingIs
    <3>3. i = h
      BY <1>4, <1>5, <3>1, <3>2
    <3> QED BY <2>3, <3>3
  <2>4. CASE q = RxAt
    <3>1. Queue'[q] \in Seq(Data)
      BY <1>1, <2>4 DEF Are, Typed
    <3>2. Queue'[q][i] \in Data
      BY <2>1, <3>1
    <3> QED BY <2>2, <2>4, <3>2, WaitingIs
  <2>5. CASE q = TxAt
    <3>1. Queue'[q] \in Seq(Rqst)
      BY <1>1, <2>5 DEF Are, Typed
    <3>2. Queue'[q][i] \in Rqst
      BY <2>1, <3>1
    <3> QED BY <2>1, <2>2, <2>5, <3>2, WaitingIs, CarryingIs, KindsExpect
  <2>6. ASSUME NEW k \in Nodes, q = NetAt(k) PROVE FALSE
    <3>1. Queue'[q] \in Seq(Rqst)
      BY <1>1, <2>6 DEF Are, Typed
    <3>2. Queue'[q][i] \in Rqst
      BY <2>1, <3>1
    <3> QED BY <2>1, <2>2, <2>6, <3>2, WaitingIs, CarryingIs, KindsExpect
  <2>7. ASSUME NEW k \in Nodes, q = BackAt(k) PROVE FALSE
    <3>1. Queue'[q] \in Seq(Rsp)
      BY <1>1, <2>7 DEF Are, Typed
    <3>2. Queue'[q][i] \in Rsp
      BY <2>1, <3>1
    <3> QED BY <2>1, <2>2, <2>7, <3>2, WaitingIs, CarryingIs, KindsExpect
  <2> QED BY <2>1, <2>3, <2>4, <2>5, <2>6, <2>7, QueueNames
<1>11. Marked(Queue', Carrying(id)) = {<<IdsAt, h>>}
  <2>1. ASSUME NEW x \in Marked(Queue', Carrying(id)) PROVE x = <<IdsAt, h>>
    <3>1. x = <<x[1], x[2]>>
      BY MarkedIs
    <3> QED BY <1>10, <3>1
  <2> QED BY <1>9, <2>1
<1>12. Cardinality({<<IdsAt, h>>}) = 1
  BY FS_Singleton
<1> QED BY <1>8, <1>11, <1>12

LEMMA IdsNext ==
  ASSUME call'.kind = "read" /\ ~broken' =>
           \A id \in Ids :
             /\ Cardinality(Marked(Queue', Carrying(id))) = 1
             /\ id \notin DOMAIN id_to_rsp_i' => \E i \in DOMAIN ids' : ids'[i] = id
  PROVE  IdsInv'
<1>1. Ids' = Ids
  BY DEF Ids
<1> QED BY <1>1, MarksConstant DEF IdsInv, Number

(* While packets move, the ids they carry stay.                              *)
LEMMA IdsPlatform ==
  ASSUME IdsInv, UNCHANGED <<host, broken>>,
         call.kind = "read" /\ ~broken =>
           \A id \in Ids : Cardinality(Marked(Queue', Carrying(id))) = Number(Carrying(id))
  PROVE  IdsInv'
<1>1. UNCHANGED <<call, ids, id_to_rsp_i, broken>>
  BY DEF host
<1> QED BY <1>1, IdsNext DEF IdsInv

LEMMA IdsStep ==
  ASSUME QueuesInv, HostInv, WaitInv, IdsInv, QueuesInv', HostInv', [Next]_vars
  PROVE  IdsInv'
<1>idle. NoCall.kind = "none"
  BY NotACall
<1>leave. ASSUME call' = NoCall PROVE IdsInv'
  BY <1>idle, <1>leave, IdsNext
<1>1. ASSUME NEW c \in Calls, Begin(c) PROVE IdsInv'
  <2>1. /\ pc = "idle" /\ UNCHANGED <<tx, rx, net, back, ids, pending, broken>>
    BY <1>1 DEF Begin, device
  <2>2. call = NoCall /\ ids = AllIds
    BY <2>1 DEF HostInv, Stage
  <2>3. Owed = 0
    BY <1>idle, <2>1, <2>2 DEF Owed
  <2>4. ASSUME ~broken' PROVE Cardinality(Marked(Queue', Waiting)) = 0
    <3>1. Number(Waiting) = 0
      BY <2>1, <2>3, <2>4 DEF WaitInv
    <3> QED BY <2>1, <3>1, StayCount, WaitingIs
  <2>5. ids' = AllIds
    BY <2>1, <2>2
  <2> QED BY <2>4, <2>5, IdsBegin, IdsNext
<1>2. CASE Store
  <2>1. pc = "store" /\ call' = call
    BY <1>2 DEF Store
  <2>2. call'.kind # "read"
    BY <2>1 DEF HostInv, Stage
  <2> QED BY <2>2, IdsNext
<1>3. CASE StoreReturns
  BY <1>3, <1>leave DEF StoreReturns, LeaveWith
<1>4. CASE SendSingle
  <2>1. pc = "single" /\ call' = call
    BY <1>4 DEF SendSingle
  <2>2. call'.kind # "read"
    BY <2>1 DEF HostInv, Stage
  <2> QED BY <2>2, IdsNext
<1>5. CASE TakeSingle
  BY <1>5, <1>leave DEF TakeSingle, LeaveWith
<1>6. CASE Request
  <2>1. PICK x : x = [kind |-> "read", addr |-> call.addrs[rqst_i + 1], id |-> Head(ids), val |-> 0]
    OBVIOUS
  <2>2. /\ x \in Rqst /\ x.kind = "read" /\ x.id = Head(ids) /\ Head(ids) \in Ids
        /\ Transmit(x) /\ ids # <<>> /\ ids' = Tail(ids)
        /\ id_to_rsp_i' = Put(id_to_rsp_i, Head(ids), rqst_i + 1)
        /\ UNCHANGED <<call, rx, net, back, broken>>
    BY <1>6, <2>1, ReadRqst DEF Request, device
  <2>3. tx' = Append(tx, x)
    BY <2>2 DEF Transmit
  <2>4. DOMAIN id_to_rsp_i' = DOMAIN id_to_rsp_i \cup {Head(ids)}
    BY <2>2 DEF Put
  <2>5. /\ Head(ids) = ids[1] /\ DOMAIN ids' = 1 .. Len(ids) - 1 /\ DOMAIN ids = 1 .. Len(ids)
        /\ Len(ids) \in Nat /\ \A i \in 1 .. Len(ids) - 1 : ids'[i] = ids[i + 1]
    BY <2>2, HeadTail DEF HostInv
  <2>6. ASSUME NEW id \in Ids, call.kind = "read", ~broken
        PROVE  /\ Cardinality(Marked(Queue', Carrying(id))) = 1
               /\ id \notin DOMAIN id_to_rsp_i' => \E i \in DOMAIN ids' : ids'[i] = id
    <3>1. <<IdsAt, Head(ids)>> \in Carrying(id) <=> <<TxAt, x>> \in Carrying(id)
      BY <2>2, CarryingIs
    <3>2. Cardinality(Marked(Queue', Carrying(id))) = Number(Carrying(id))
      BY <2>2, <2>3, <3>1, RequestCount
    <3>3. ASSUME id \notin DOMAIN id_to_rsp_i' PROVE \E i \in DOMAIN ids' : ids'[i] = id
      <4>1. id \notin DOMAIN id_to_rsp_i /\ id # Head(ids)
        BY <2>4, <3>3
      <4>2. PICK j \in DOMAIN ids : ids[j] = id
        BY <2>6, <4>1 DEF IdsInv
      <4>3. j # 1
        BY <2>5, <4>1, <4>2
      <4>4. PICK i : i = j - 1
        OBVIOUS
      <4>5. i \in 1 .. Len(ids) - 1 /\ i + 1 = j
        BY <2>5, <4>2, <4>3, <4>4
      <4> QED BY <2>5, <4>2, <4>5
    <3> QED BY <2>6, <3>2, <3>3 DEF IdsInv
  <2> QED BY <2>2, <2>6, IdsNext
<1>7. CASE RequestFails
  BY <1>7, <1>leave DEF RequestFails, LeaveWith
<1>8. CASE Respond
  <2>1. PICK d, data : d = Head(rx) /\ data = Put(result, Slot(d.id), d.val)
    OBVIOUS
  <2>2. /\ rx # <<>> /\ rx' = Tail(rx) /\ UNCHANGED <<tx, net, back, broken>> /\ d \in Data
        /\ \/ LeaveWith(<<>>)
           \/ LeaveWith(data)
           \/ ids' = Recycle(d.id) /\ UNCHANGED <<call, id_to_rsp_i>>
    BY <1>8, <2>1, RespondFacts DEF device
  <2>3. CASE ids' = Recycle(d.id) /\ UNCHANGED <<call, id_to_rsp_i>>
    <3>1. ids' = <<d.id>> \o ids /\ d.id \in Ids
      BY <2>2, <2>3 DEF Recycle, Data
    <3>2. /\ DOMAIN ids' = 1 .. Len(ids) + 1 /\ DOMAIN ids = 1 .. Len(ids) /\ Len(ids) \in Nat
          /\ \A i \in 1 .. Len(ids) : ids'[i + 1] = ids[i]
      <4>1. ids \in Seq(Ids)
        BY DEF HostInv
      <4> QED BY <3>1, <4>1, Pushed, HeadTail
    <3>3. ASSUME NEW id \in Ids, call.kind = "read", ~broken
          PROVE  /\ Cardinality(Marked(Queue', Carrying(id))) = 1
                 /\ id \notin DOMAIN id_to_rsp_i => \E i \in DOMAIN ids' : ids'[i] = id
      <4>1. <<RxAt, Head(rx)>> \in Carrying(id) <=> <<IdsAt, d.id>> \in Carrying(id)
        BY <2>1, <2>2, <3>1, CarryingIs
      <4>2. Cardinality(Marked(Queue', Carrying(id))) = Number(Carrying(id))
        BY <2>2, <3>1, <4>1, RecycleCount
      <4>3. ASSUME id \notin DOMAIN id_to_rsp_i PROVE \E i \in DOMAIN ids' : ids'[i] = id
        <5>1. PICK j \in DOMAIN ids : ids[j] = id
          BY <3>3, <4>3 DEF IdsInv
        <5>2. j + 1 \in 1 .. Len(ids) + 1 /\ j \in 1 .. Len(ids)
          BY <3>2, <5>1
        <5> QED BY <3>2, <5>1, <5>2
      <4> QED BY <3>3, <4>2, <4>3 DEF IdsInv
    <3> QED BY <2>2, <2>3, <3>3, IdsNext
  <2> QED BY <1>leave, <2>2, <2>3 DEF LeaveWith
<1>9. CASE Inject
  <2>1. PICK x : x = Head(tx)
    OBVIOUS
  <2>2. x \in Rqst /\ x.addr[1] \in Nodes /\ UNCHANGED <<host, pending, broken>>
    BY <1>9, <2>1, InjectFacts
  <2>3. ASSUME NEW id \in Ids
        PROVE  Cardinality(Marked(Queue', Carrying(id))) = Number(Carrying(id))
    <3>1. <<TxAt, x>> \in Carrying(id) <=> <<NetAt(x.addr[1]), x>> \in Carrying(id)
      BY <2>2, CarryingIs
    <3> QED BY <1>9, <2>1, <3>1, InjectCount
  <2> QED BY <2>2, <2>3, IdsPlatform
<1>10. ASSUME NEW n \in Nodes, Serve(n) PROVE IdsInv'
  <2>1. PICK x, y : x = Head(net[n]) /\ y = [kind |-> x.kind, id |-> x.id, val |-> mem[x.addr]]
    OBVIOUS
  <2>2. x \in Rqst /\ y \in Rsp /\ UNCHANGED <<host, pending, broken>>
    BY <1>10, <2>1, ServeFacts
  <2>3. y.kind = x.kind /\ y.id = x.id
    BY <2>1
  <2>4. ASSUME NEW id \in Ids
        PROVE  Cardinality(Marked(Queue', Carrying(id))) = Number(Carrying(id))
    <3>1. <<NetAt(n), x>> \in Carrying(id) <=> <<BackAt(n), y>> \in Carrying(id)
      BY <2>2, <2>3, CarryingIs
    <3> QED BY <1>10, <2>1, <3>1, ServeCount
  <2> QED BY <2>2, <2>4, IdsPlatform
<1>11. ASSUME NEW n \in Nodes, GiveBack(n) PROVE IdsInv'
  <2>1. PICK x, y : x = Head(back[n]) /\ y = [id |-> x.id, val |-> x.val]
    OBVIOUS
  <2>2. /\ x \in Rsp /\ back[n] # <<>> /\ back[n] \in Seq(Rsp)
        /\ ExpectsResponse(x.kind) => y \in Data
        /\ UNCHANGED <<host, pending, broken>>
    BY <1>11, <2>1, GiveBackFacts
  <2>3. y.id = x.id
    BY <2>1
  <2>4. ASSUME call.kind = "read", ~broken, ExpectsResponse(x.kind) PROVE x.kind = "read"
    <3>1. Cardinality(Marked(Queue, Foreign("read"))) = 0
      BY <2>4 DEF WaitInv, Number
    <3>2. Are(Queue, ids, tx, rx, net, back) /\ Lists(Queue)
      BY QueueIs, ListsNow
    <3>3. BackAt(n) \in Queues /\ 1 \in DOMAIN Queue[BackAt(n)] /\ Queue[BackAt(n)][1] = x
      BY <2>1, <2>2, <3>2, HeadTail, QueueNames DEF Are
    <3>4. <<BackAt(n), x>> \notin Foreign("read")
      BY <3>1, <3>2, <3>3, MarkedNone
    <3> QED BY <2>2, <2>4, <3>4, ForeignIs
  <2>5. ASSUME NEW id \in Ids, call.kind = "read", ~broken
        PROVE  Cardinality(Marked(Queue', Carrying(id))) = Number(Carrying(id))
    <3>1. CASE ExpectsResponse(x.kind)
      <4>1. <<BackAt(n), x>> \in Carrying(id) <=> <<RxAt, y>> \in Carrying(id)
        BY <2>2, <2>3, <2>4, <2>5, <3>1, CarryingIs
      <4> QED BY <1>11, <2>1, <3>1, <4>1, GiveBackCount
    <3>2. CASE ~ExpectsResponse(x.kind)
      <4>1. <<BackAt(n), x>> \notin Carrying(id)
        BY <2>2, <3>2, CarryingIs, KindsExpect
      <4> QED BY <1>11, <2>1, <3>2, <4>1, GiveBackCount
    <3> QED BY <3>1, <3>2
  <2> QED BY <2>2, <2>5, IdsPlatform
<1>12. CASE UNCHANGED vars
  <2>1. UNCHANGED <<host, broken>> /\ UNCHANGED <<ids, tx, rx, net, back>>
    BY <1>12 DEF vars, device, host
  <2>2. Queue' = Queue
    BY <2>1 DEF Queue
  <2> QED BY <2>1, <2>2, IdsPlatform DEF Number
<1> QED BY <1>1, <1>2, <1>3, <1>4, <1>5, <1>6, <1>7, <1>8, <1>9, <1>10, <1>11, <1>12 DEF Next

-----------------------------------------------------------------------------
(* The counts hold from the start, and what follows from them *)

CountsInv == QueuesInv /\ HostInv /\ WaitInv /\ IdsInv

LEMMA CountsInit == Init => CountsInv
<1> SUFFICES ASSUME Init PROVE CountsInv
  OBVIOUS
<1>1. QueuesInv /\ HostInv
  BY QueuesInit
<1>2. /\ pc = "idle" /\ call = NoCall /\ tx = <<>> /\ rx = <<>> /\ pending = 0
      /\ net = [n \in Nodes |-> <<>>] /\ back = [n \in Nodes |-> <<>>]
  BY DEF Init
<1>3. call.kind # "read" /\ Owed = 0
  BY <1>2, NotACall DEF Owed
<1>4. Are(Queue, ids, tx, rx, net, back) /\ Lists(Queue)
  BY <1>1, QueueIs, ListsNow
<1>5. \A q \in Queues : \A i \in DOMAIN Queue[q] : <<q, Queue[q][i]>> \notin Waiting
  <2> SUFFICES ASSUME NEW q \in Queues, NEW i \in DOMAIN Queue[q], <<q, Queue[q][i]>> \in Waiting
               PROVE  FALSE
    OBVIOUS
  <2>1. q # IdsAt
    BY WaitingIs DEF Plain
  <2>2. Queue[q] = <<>>
    BY <1>2, <1>4, <2>1, QueueNames DEF Are
  <2> QED BY <2>2
<1>6. Number(Waiting) = 0 /\ Number(Foreign(call.kind)) = 0
  <2>1. Cardinality(Marked(Queue, Waiting)) = 0
    BY <1>4, <1>5, MarkedNone
  <2> QED BY <1>4, <2>1, NoForeign DEF Number
<1>7. pending <= Cap
  BY <1>2, Consts
<1> QED BY <1>1, <1>2, <1>3, <1>6, <1>7 DEF CountsInv, WaitInv, IdsInv

LEMMA CountsStep == CountsInv /\ [Next]_vars => CountsInv'
<1> SUFFICES ASSUME CountsInv, [Next]_vars PROVE CountsInv'
  OBVIOUS
<1>1. QueuesInv /\ HostInv /\ WaitInv /\ IdsInv
  BY DEF CountsInv
<1>2. QueuesInv' /\ HostInv'
  BY <1>1, QueuesStep, HostStep
<1>3. WaitInv' /\ IdsInv'
  BY <1>1, <1>2, WaitStep, IdsStep
<1> QED BY <1>2, <1>3 DEF CountsInv

(* In every state the counter of the DPI layer is the number of responses    *)
(* under way, and while no read has failed they are the ones the call in     *)
(* progress waits for, each load id in one place.                            *)
THEOREM QueuesAreRight == Spec => []CountsInv
<1>1. Spec => Init /\ [][Next]_vars
  BY DEF Spec
<1> QED BY <1>1, CountsInit, CountsStep, PTL

LEMMA EntryTypes ==
  ASSUME QueuesInv, HostInv, NEW q \in Queues, NEW i \in DOMAIN Queue[q]
  PROVE  <<q, Queue[q][i]>> \in Entries
<1>1. Typed(ids, tx, rx, net, back) /\ Are(Queue, ids, tx, rx, net, back)
  BY QueueIs
<1>2. \E E \in {Ids, Rqst, Rsp, Data} : Queue[q] \in Seq(E)
  BY <1>1, QueueNames DEF Are, Typed
<1>3. PICK E \in {Ids, Rqst, Rsp, Data} : Queue[q] \in Seq(E)
  BY <1>2
<1>4. Queue[q][i] \in E
  BY <1>3
<1> QED BY <1>3, <1>4 DEF Entries

LEMMA CountsType == CountsInv => TypeOK
<1> SUFFICES ASSUME CountsInv PROVE TypeOK
  OBVIOUS
<1>1. QueuesInv /\ HostInv /\ WaitInv
  BY DEF CountsInv
<1>2. pending \in 0 .. Cap
  <2>1. pending \in Nat /\ pending <= Cap
    BY <1>1, ListsNow DEF WaitInv
  <2> QED BY <2>1, Consts
<1>3. /\ pc \in {"idle", "store", "stored", "single", "answer", "request", "receive"}
      /\ call \in Calls \cup {NoCall}
  BY <1>1 DEF HostInv, Stage
<1>4. 0 <= rsp_i /\ rqst_i <= Count
  <2>1. CASE pc = "idle"
    BY <1>1, <2>1, NotACall DEF HostInv, Stage, Count
  <2>2. CASE pc # "idle"
    <3>1. call \in Calls
      BY <1>1, <2>2 DEF HostInv, Stage
    <3>2. Count \in Nat /\ Count >= 1
      BY <3>1, CallRange
    <3> QED BY <1>1, <2>2, <3>2 DEF HostInv, Stage
  <2> QED BY <2>1, <2>2
<1> QED BY <1>1, <1>2, <1>3, <1>4 DEF TypeOK, HostInv, QueuesInv

(* The loop counters, stacks, FIFOs and the count of expected responses of   *)
(* the memory functions stay in their ranges.                                *)
THEOREM HostTyped == Spec => []TypeOK
BY QueuesAreRight, CountsType, PTL

LEMMA CountsFit == CountsInv => ResponsesFit
<1> SUFFICES ASSUME CountsInv PROVE Len(rx) <= Cap
  BY DEF ResponsesFit
<1>1. QueuesInv /\ HostInv /\ pending = Number(Waiting) /\ pending <= Cap
  BY DEF CountsInv, WaitInv
<1>2. Are(Queue, ids, tx, rx, net, back) /\ Lists(Queue) /\ pending \in Nat
  BY <1>1, QueueIs, ListsNow
<1>3. rx \in Seq(Data) /\ Len(rx) \in Nat /\ DOMAIN rx = 1 .. Len(rx)
  BY <1>1 DEF QueuesInv
<1> DEFINE held == {RxAt} \X (1 .. Len(rx))
<1>4. held \subseteq Marked(Queue, Waiting)
  <2> SUFFICES ASSUME NEW i \in 1 .. Len(rx) PROVE <<RxAt, i>> \in Marked(Queue, Waiting)
    OBVIOUS
  <2>1. rx[i] \in Data
    BY <1>3
  <2>2. i \in DOMAIN Queue[RxAt] /\ <<RxAt, Queue[RxAt][i]>> \in Waiting
    BY <1>2, <1>3, <2>1, WaitingIs DEF Are
  <2> QED BY <2>2, MarkedIs, QueueNames
<1>5. Cardinality(held) = Len(rx)
  <2>1. IsFiniteSet({RxAt}) /\ Cardinality({RxAt}) = 1
    BY FS_Singleton
  <2>2. IsFiniteSet(1 .. Len(rx)) /\ Cardinality(1 .. Len(rx)) = Len(rx)
    <3>1. PICK n \in Nat : n = Len(rx)
      BY <1>3
    <3>2. IsFiniteSet(1 .. n) /\ Cardinality(1 .. n) = IF 1 > n THEN 0 ELSE n - 1 + 1
      BY FS_Interval
    <3> QED BY <3>1, <3>2
  <2>3. Cardinality(held) = Cardinality({RxAt}) * Cardinality(1 .. Len(rx))
    BY <2>1, <2>2, FS_Product
  <2> QED BY <1>3, <2>1, <2>2, <2>3
<1>6. Cardinality(held) <= Cardinality(Marked(Queue, Waiting))
  <2> HIDE DEF held
  <2>1. IsFiniteSet(Marked(Queue, Waiting))
    BY <1>2, MarkedFinite
  <2> QED BY <1>4, <2>1, FS_Subset
<1>7. Len(rx) <= pending
  <2> HIDE DEF held
  <2> QED BY <1>1, <1>5, <1>6 DEF Number
<1> QED BY <1>1, <1>2, <1>3, <1>7, Consts

(* The response FIFO, whose full flag the endpoint ignores, never overflows. *)
THEOREM ResponsesHaveRoom == Spec => []ResponsesFit
BY QueuesAreRight, CountsFit, PTL

LEMMA CountsConserve == CountsInv => LoadIdConserved
<1> SUFFICES ASSUME CountsInv, call.kind = "read", ~broken, NEW id \in Ids
             PROVE  Cardinality(Places(id)) = 1
  BY DEF LoadIdConserved
<1>1. QueuesInv /\ HostInv /\ Cardinality(Marked(Queue, Carrying(id))) = 1
  BY DEF CountsInv, IdsInv, Number
<1>2. ASSUME NEW q \in Queues
      PROVE  {q} \X {i \in DOMAIN Queue[q] : Carries(q, Queue[q][i], id)}
               = {q} \X {i \in DOMAIN Queue[q] : <<q, Queue[q][i]>> \in Carrying(id)}
  <2>1. ASSUME NEW i \in DOMAIN Queue[q]
        PROVE  Carries(q, Queue[q][i], id) <=> <<q, Queue[q][i]>> \in Carrying(id)
    <3>1. PICK e : e = <<q, Queue[q][i]>>
      OBVIOUS
    <3>2. e \in Entries /\ e[1] = q /\ e[2] = Queue[q][i]
      BY <1>1, <3>1, EntryTypes
    <3>3. e \in Carrying(id) <=> Carries(e[1], e[2], id)
      BY <3>2 DEF Carrying
    <3> QED BY <3>1, <3>2, <3>3
  <2> QED BY <2>1
<1> DEFINE A(q) == {q} \X {i \in DOMAIN Queue[q] : Carries(q, Queue[q][i], id)}
           B(q) == {q} \X {i \in DOMAIN Queue[q] : <<q, Queue[q][i]>> \in Carrying(id)}
<1>3. Places(id) = Marked(Queue, Carrying(id))
  <2>1. \A q \in Queues : A(q) = B(q)
    BY <1>2
  <2>2. Places(id) = UNION {A(q) : q \in Queues}
    BY DEF Places
  <2>3. Marked(Queue, Carrying(id)) = UNION {B(q) : q \in Queues}
    BY DEF Marked
  <2>4. {A(q) : q \in Queues} = {B(q) : q \in Queues}
    <3> HIDE DEF A, B
    <3> QED BY <2>1
  <2> QED BY <2>2, <2>3, <2>4
<1> QED BY <1>1, <1>3

(* While a read goes on, each load id is on the stack or with one packet, so *)
(* a response never finds the index of another request.                      *)
THEOREM LoadIdsConserved == Spec => []LoadIdConserved
BY QueuesAreRight, CountsConserve, PTL

-----------------------------------------------------------------------------
(* A word after a list of requests *)

LEMMA LeastNumber ==
  ASSUME NEW T, T \subseteq Nat, T # {}
  PROVE  \E n \in T : \A k \in T : ~(k < n)
<1>1. IsWellFoundedOn(OpToRel(<, Nat), Nat)
  BY NatLessThanWellFounded
<1>2. PICK n \in T : \A k \in T : ~(<<k, n>> \in OpToRel(<, Nat))
  BY <1>1, WFMin
<1>3. \A k \in T : ~(k < n)
  <2> SUFFICES ASSUME NEW k \in T, k < n PROVE FALSE
    OBVIOUS
  <2>1. <<k, n>> \in OpToRel(<, Nat)
    BY DEF OpToRel
  <2> QED BY <1>2, <2>1
<1> QED BY <1>3

(* The words between the requests.                                           *)
IsTrace(f, w, a, s, n) ==
  f = [k \in 0 .. n |-> IF k = 0 THEN w ELSE Served(f[k - 1], a, s[k])]

Follows(f, w, a, s) ==
  f[0] = w /\ \A k \in 1 .. Len(s) : f[k] = Served(f[k - 1], a, s[k])

LEMMA TraceExists ==
  ASSUME NEW w, NEW a, NEW s, NEW n \in Nat
  PROVE  \E f : IsTrace(f, w, a, s, n)
<1> USE DEF IsTrace
<1> DEFINE Upto(m) ==
             \E f : f = [k \in 0 .. m |-> IF k = 0 THEN w ELSE Served(f[k - 1], a, s[k])]
           T == {m \in Nat : ~Upto(m)}
<1>1. SUFFICES ASSUME T # {} PROVE FALSE
  OBVIOUS
<1>2. T \subseteq Nat
  OBVIOUS
<1>3. PICK m \in T : \A k \in T : ~(k < m)
  <2> HIDE DEF T
  <2> QED BY <1>1, <1>2, LeastNumber
<1>4. Upto(0)
  <2> DEFINE f == [k \in 0 .. 0 |-> w]
  <2>1. f = [k \in 0 .. 0 |-> IF k = 0 THEN w ELSE Served(f[k - 1], a, s[k])]
    BY \A k \in 0 .. 0 : k = 0
  <2> QED BY <2>1
<1>5. m \in Nat /\ m # 0 /\ m - 1 \in Nat /\ m - 1 < m
  <2> HIDE DEF Upto
  <2>1. m \in Nat /\ ~Upto(m)
    BY <1>3
  <2>2. m # 0
    BY <1>4, <2>1
  <2> QED BY <2>1, <2>2
<1>6. Upto(m - 1)
  <2> HIDE DEF Upto
  <2>1. m - 1 \notin T
    <3> HIDE DEF T
    <3> QED BY <1>3, <1>5
  <2> QED BY <1>5, <2>1
<1>7. PICK g : g = [k \in 0 .. m - 1 |-> IF k = 0 THEN w ELSE Served(g[k - 1], a, s[k])]
  BY <1>6
<1> DEFINE f == [k \in 0 .. m |-> IF k = m THEN Served(g[m - 1], a, s[m]) ELSE g[k]]
<1>8. \A k \in 0 .. m : f[k] = IF k = 0 THEN w ELSE Served(f[k - 1], a, s[k])
  <2> TAKE k \in 0 .. m
  <2>1. CASE k = 0
    <3>1. g[0] = w
      BY <1>5, <1>7
    <3> QED BY <1>5, <2>1, <3>1
  <2>2. CASE k = m
    <3>1. f[m - 1] = g[m - 1] /\ f[m] = Served(g[m - 1], a, s[m])
      BY <1>5
    <3> QED BY <1>5, <2>2, <3>1
  <2>3. CASE k # 0 /\ k # m
    <3>1. k \in 0 .. m - 1 /\ k - 1 \in 0 .. m - 1 /\ k - 1 # m
      BY <1>5, <2>3
    <3>2. f[k] = g[k] /\ f[k - 1] = g[k - 1]
      BY <1>5, <2>3, <3>1
    <3>3. g[k] = Served(g[k - 1], a, s[k])
      BY <1>7, <2>3, <3>1
    <3> QED BY <2>3, <3>2, <3>3
  <2> QED BY <2>1, <2>2, <2>3
<1>9. f = [k \in 0 .. m |-> IF k = 0 THEN w ELSE Served(f[k - 1], a, s[k])]
  <2>1. PICK h : h = [k \in 0 .. m |-> IF k = 0 THEN w ELSE Served(f[k - 1], a, s[k])]
    OBVIOUS
  <2>2. f = h
    <3> HIDE DEF Upto, T
    <3> QED BY <1>8, <2>1
  <2> QED BY <2>1, <2>2
<1>10. Upto(m)
  BY <1>9
<1> QED BY <1>3, <1>10

(* After yields the last word of any trace.                                  *)
LEMMA AfterIs ==
  ASSUME NEW w, NEW a, NEW s, Len(s) \in Nat, NEW f, Follows(f, w, a, s)
  PROVE  After(w, a, s) = f[Len(s)]
<1>1. PICK n \in Nat : n = Len(s)
  OBVIOUS
<1> DEFINE word == CHOOSE g : g = [k \in 0 .. n |-> IF k = 0 THEN w ELSE Served(g[k - 1], a, s[k])]
<1>2. word = [k \in 0 .. n |-> IF k = 0 THEN w ELSE Served(word[k - 1], a, s[k])]
  <2>1. PICK g : IsTrace(g, w, a, s, n)
    BY TraceExists
  <2>2. g = [k \in 0 .. n |-> IF k = 0 THEN w ELSE Served(g[k - 1], a, s[k])]
    BY <2>1 DEF IsTrace
  <2> QED BY <2>2
<1>3. After(w, a, s) = word[n]
  BY <1>1 DEF After
<1> HIDE DEF word
<1> DEFINE T == {k \in 0 .. n : word[k] # f[k]}
<1>4. T = {}
  <2> SUFFICES ASSUME T # {} PROVE FALSE
    OBVIOUS
  <2>1. PICK k \in T : \A j \in T : ~(j < k)
    <3>1. T \subseteq Nat
      OBVIOUS
    <3> HIDE DEF T
    <3> QED BY <3>1, LeastNumber
  <2>2. k \in 0 .. n /\ word[k] # f[k]
    OBVIOUS
  <2>3. k # 0
    <3>1. word[0] = w
      BY <1>2
    <3> QED BY <2>2, <3>1 DEF Follows
  <2>4. k - 1 \in 0 .. n /\ k \in 1 .. n /\ k - 1 < k
    BY <2>2, <2>3
  <2>5. word[k - 1] = f[k - 1]
    BY <2>1, <2>4
  <2>6. word[k] = Served(word[k - 1], a, s[k])
    BY <1>2, <2>2, <2>3
  <2>7. f[k] = Served(f[k - 1], a, s[k])
    BY <1>1, <2>4 DEF Follows
  <2> QED BY <2>2, <2>5, <2>6, <2>7
<1>5. word[n] = f[n]
  BY <1>4
<1> QED BY <1>1, <1>3, <1>5

(* And there is one.                                                         *)
LEMMA AfterTrace ==
  ASSUME NEW w, NEW a, NEW s, Len(s) \in Nat
  PROVE  \E f : Follows(f, w, a, s) /\ After(w, a, s) = f[Len(s)]
<1>1. PICK n \in Nat : n = Len(s)
  OBVIOUS
<1>2. PICK f : IsTrace(f, w, a, s, n)
  BY TraceExists
<1>3. f[0] = w
  BY <1>2 DEF IsTrace
<1>4. ASSUME NEW k \in 1 .. n PROVE f[k] = Served(f[k - 1], a, s[k])
  <2>1. k \in 0 .. n /\ k # 0
    OBVIOUS
  <2> QED BY <1>2, <2>1 DEF IsTrace
<1>5. Follows(f, w, a, s)
  BY <1>1, <1>3, <1>4 DEF Follows
<1>6. After(w, a, s) = f[Len(s)]
  BY <1>5, AfterIs
<1> QED BY <1>5, <1>6

LEMMA AfterNone ==
  ASSUME NEW w, NEW a, NEW s, Len(s) = 0
  PROVE  After(w, a, s) = w
<1>1. PICK f : Follows(f, w, a, s) /\ After(w, a, s) = f[Len(s)]
  BY AfterTrace
<1> QED BY <1>1 DEF Follows

LEMMA AfterLast ==
  ASSUME NEW w, NEW a, NEW s, NEW t, NEW x, Len(s) \in Nat, Len(t) = Len(s) + 1,
         \A k \in 1 .. Len(s) : t[k] = s[k], t[Len(t)] = x
  PROVE  After(w, a, t) = Served(After(w, a, s), a, x)
<1>0. PICK f : Follows(f, w, a, s) /\ After(w, a, s) = f[Len(s)]
  BY AfterTrace
<1>1. f[0] = w /\ \A k \in 1 .. Len(s) : f[k] = Served(f[k - 1], a, s[k])
  BY <1>0 DEF Follows
<1>2. PICK n \in Nat : n = Len(s)
  OBVIOUS
<1> DEFINE g == [k \in 0 .. n + 1 |-> IF k = n + 1 THEN Served(f[n], a, x) ELSE f[k]]
<1>3. g[0] = w /\ g[n + 1] = Served(f[n], a, x)
  BY <1>1
<1>4. ASSUME NEW k \in 1 .. n + 1 PROVE g[k] = Served(g[k - 1], a, t[k])
  <2>1. CASE k = n + 1
    <3>1. g[k - 1] = f[n] /\ t[k] = x
      BY <1>2, <2>1
    <3> QED BY <1>3, <2>1, <3>1
  <2>2. CASE k # n + 1
    <3>1. k \in 1 .. n /\ k - 1 \in 0 .. n + 1 /\ k - 1 # n + 1
      BY <2>2
    <3>2. g[k] = f[k] /\ g[k - 1] = f[k - 1] /\ t[k] = s[k]
      BY <1>2, <2>2, <3>1
    <3> QED BY <1>1, <1>2, <3>1, <3>2
  <2> QED BY <2>1, <2>2
<1> HIDE DEF g
<1>5. Len(t) \in Nat /\ Len(t) = n + 1
  BY <1>2
<1>6. Follows(g, w, a, t)
  BY <1>3, <1>4, <1>5 DEF Follows
<1>7. After(w, a, t) = g[Len(t)]
  BY <1>5, <1>6, AfterIs
<1> QED BY <1>0, <1>2, <1>3, <1>5, <1>7

LEMMA AfterFirst ==
  ASSUME NEW w, NEW a, NEW s, NEW t, Len(t) \in Nat, Len(s) = Len(t) + 1,
         \A k \in 1 .. Len(t) : t[k] = s[k + 1]
  PROVE  After(w, a, s) = After(Served(w, a, s[1]), a, t)
<1>0. PICK f : Follows(f, w, a, s) /\ After(w, a, s) = f[Len(s)]
  BY AfterTrace
<1>1. f[0] = w /\ \A k \in 1 .. Len(s) : f[k] = Served(f[k - 1], a, s[k])
  BY <1>0 DEF Follows
<1>2. PICK n \in Nat : n = Len(t)
  OBVIOUS
<1> DEFINE g == [k \in 0 .. n |-> f[k + 1]]
<1>3. g[0] = Served(w, a, s[1])
  <2>1. 1 \in 1 .. Len(s)
    BY <1>2
  <2>2. f[1] = Served(f[1 - 1], a, s[1])
    BY <1>1, <2>1
  <2> QED BY <1>1, <2>2
<1>4. ASSUME NEW k \in 1 .. n PROVE g[k] = Served(g[k - 1], a, t[k])
  <2>1. g[k] = f[k + 1] /\ g[k - 1] = f[k] /\ t[k] = s[k + 1]
    BY <1>2
  <2>2. k + 1 \in 1 .. Len(s) /\ k + 1 - 1 = k
    BY <1>2
  <2>3. f[k + 1] = Served(f[k + 1 - 1], a, s[k + 1])
    BY <1>1, <2>2
  <2> QED BY <2>1, <2>2, <2>3
<1>5. g[n] = f[Len(s)]
  BY <1>2
<1> HIDE DEF g
<1>6. Follows(g, Served(w, a, s[1]), a, t)
  BY <1>2, <1>3, <1>4 DEF Follows
<1>7. After(Served(w, a, s[1]), a, t) = g[Len(t)]
  BY <1>6, AfterIs
<1> QED BY <1>0, <1>2, <1>5, <1>7

(* A request to another address leaves the list unnoticed.                   *)
LEMMA AfterWithout ==
  ASSUME NEW w, NEW a, NEW s, NEW t, NEW p, Len(t) \in Nat, Len(s) = Len(t) + 1,
         p \in 1 .. Len(s), s[p].addr # a,
         \A k \in 1 .. p - 1 : t[k] = s[k], \A k \in p .. Len(t) : t[k] = s[k + 1]
  PROVE  After(w, a, t) = After(w, a, s)
<1>0. PICK f : Follows(f, w, a, s) /\ After(w, a, s) = f[Len(s)]
  BY AfterTrace
<1>1. f[0] = w /\ \A k \in 1 .. Len(s) : f[k] = Served(f[k - 1], a, s[k])
  BY <1>0 DEF Follows
<1>2. PICK n \in Nat : n = Len(t)
  OBVIOUS
<1>3. p \in 1 .. n + 1 /\ p \in Nat
  BY <1>2
<1> DEFINE g == [k \in 0 .. n |-> IF k < p THEN f[k] ELSE f[k + 1]]
<1>4. f[p] = f[p - 1]
  <2>1. f[p] = Served(f[p - 1], a, s[p])
    BY <1>1
  <2> QED BY <2>1 DEF Served
<1>5. g[0] = w
  BY <1>1, <1>3
<1>6. ASSUME NEW k \in 1 .. n PROVE g[k] = Served(g[k - 1], a, t[k])
  <2>1. CASE k < p
    <3>1. g[k] = f[k] /\ g[k - 1] = f[k - 1] /\ k \in 1 .. p - 1 /\ k \in 1 .. Len(s)
      BY <1>2, <1>3, <2>1
    <3> QED BY <1>1, <3>1
  <2>2. CASE k = p
    <3>1. g[k] = f[k + 1] /\ g[k - 1] = f[p - 1]
      BY <1>3, <2>2
    <3>2. k + 1 \in 1 .. Len(s) /\ k + 1 - 1 = p /\ k \in p .. Len(t)
      BY <1>2, <1>3, <2>2
    <3>3. f[k + 1] = Served(f[k + 1 - 1], a, s[k + 1]) /\ t[k] = s[k + 1]
      BY <1>1, <3>2
    <3> QED BY <1>4, <3>1, <3>2, <3>3
  <2>3. CASE k > p
    <3>1. g[k] = f[k + 1] /\ g[k - 1] = f[k]
      BY <1>3, <2>3
    <3>2. k + 1 \in 1 .. Len(s) /\ k + 1 - 1 = k /\ k \in p .. Len(t)
      BY <1>2, <1>3, <2>3
    <3>3. f[k + 1] = Served(f[k + 1 - 1], a, s[k + 1]) /\ t[k] = s[k + 1]
      BY <1>1, <3>2
    <3> QED BY <3>1, <3>2, <3>3
  <2> QED BY <1>3, <2>1, <2>2, <2>3
<1>7. g[n] = f[n + 1]
  <2>1. CASE p = n + 1
    BY <1>3, <1>4, <2>1
  <2>2. CASE p # n + 1
    BY <1>3, <2>2
  <2> QED BY <2>1, <2>2
<1> HIDE DEF g
<1>8. Follows(g, w, a, t)
  BY <1>2, <1>5, <1>6 DEF Follows
<1>9. After(w, a, t) = g[Len(t)]
  BY <1>8, AfterIs
<1> QED BY <1>0, <1>2, <1>7, <1>9

(* Requests that change nothing.                                             *)
LEMMA AfterQuiet ==
  ASSUME NEW w, NEW a, NEW s, Len(s) \in Nat,
         \A k \in 1 .. Len(s) : s[k].kind \in {"load", "read"}
  PROVE  After(w, a, s) = w
<1> DEFINE f == [k \in 0 .. Len(s) |-> w]
<1>1. ASSUME NEW k \in 1 .. Len(s) PROVE f[k] = Served(f[k - 1], a, s[k])
  <2>1. f[k] = w /\ f[k - 1] = w
    OBVIOUS
  <2>2. Served(w, a, s[k]) = w
    BY DEF Served, Effect
  <2> QED BY <2>1, <2>2
<1>2. f[0] = w /\ f[Len(s)] = w
  OBVIOUS
<1> HIDE DEF f
<1>3. Follows(f, w, a, s)
  BY <1>1, <1>2 DEF Follows
<1> QED BY <1>2, <1>3, AfterIs

LEMMA AfterType ==
  ASSUME NEW w \in Words, NEW a, NEW s \in Seq(Rqst)
  PROVE  After(w, a, s) \in Words
<1>1. PICK n \in Nat : n = Len(s)
  OBVIOUS
<1>0. PICK f : Follows(f, w, a, s) /\ After(w, a, s) = f[Len(s)]
  BY <1>1, AfterTrace
<1>2. /\ f[0] = w /\ \A k \in 1 .. n : f[k] = Served(f[k - 1], a, s[k])
      /\ After(w, a, s) = f[n]
  BY <1>0, <1>1 DEF Follows
<1> DEFINE T == {k \in 0 .. n : f[k] \notin Words}
<1>3. T = {}
  <2> SUFFICES ASSUME T # {} PROVE FALSE
    OBVIOUS
  <2>1. PICK k \in T : \A j \in T : ~(j < k)
    <3>1. T \subseteq Nat
      OBVIOUS
    <3> HIDE DEF T
    <3> QED BY <3>1, LeastNumber
  <2>2. k \in 0 .. n /\ f[k] \notin Words
    OBVIOUS
  <2>3. k # 0
    BY <1>2, <2>2
  <2>4. k - 1 \in 0 .. n /\ k \in 1 .. n /\ k - 1 < k
    BY <2>2, <2>3
  <2>5. f[k - 1] \in Words
    BY <2>1, <2>4
  <2>6. f[k] = Served(f[k - 1], a, s[k])
    BY <1>2, <2>4
  <2>7. s[k] \in Rqst
    BY <1>1, <2>4
  <2> QED BY <2>2, <2>5, <2>6, <2>7, EffectType DEF Served
<1> QED BY <1>2, <1>3

-----------------------------------------------------------------------------
(* The requests on their way to a node *)

Way(n) == net[n] \o tx

(* A list with one more entry at the end, and one without its entry p.       *)
Added(s, t, x) ==
  /\ Len(s) \in Nat /\ Len(t) = Len(s) + 1
  /\ (\A k \in 1 .. Len(s) : t[k] = s[k]) /\ t[Len(t)] = x

Removed(s, t, p) ==
  /\ Len(t) \in Nat /\ Len(s) = Len(t) + 1 /\ p \in 1 .. Len(s)
  /\ \A k \in 1 .. p - 1 : t[k] = s[k]
  /\ \A k \in p .. Len(t) : t[k] = s[k + 1]

LEMMA Joined ==
  ASSUME NEW E, NEW s \in Seq(E), NEW t \in Seq(E)
  PROVE  /\ s \o t \in Seq(E) /\ Len(s) \in Nat /\ Len(t) \in Nat
         /\ Len(s \o t) = Len(s) + Len(t)
         /\ \A k \in 1 .. Len(s) : (s \o t)[k] = s[k]
         /\ \A k \in Len(s) + 1 .. Len(s) + Len(t) : (s \o t)[k] = t[k - Len(s)]
OBVIOUS

LEMMA JoinAdded ==
  ASSUME NEW E, NEW s \in Seq(E), NEW t \in Seq(E), NEW x \in E
  PROVE  Added(s \o t, s \o Append(t, x), x)
<1>1. /\ Append(t, x) \in Seq(E) /\ Len(Append(t, x)) = Len(t) + 1
      /\ \A i \in 1 .. Len(t) : Append(t, x)[i] = t[i]
      /\ Append(t, x)[Len(t) + 1] = x
  BY Appended
<1>2. PICK u : u = Append(t, x)
  OBVIOUS
<1>3. PICK m, n : m = Len(s) /\ n = Len(t)
  OBVIOUS
<1>4. /\ m \in Nat /\ n \in Nat /\ Len(s \o t) = m + n
      /\ \A k \in 1 .. m : (s \o t)[k] = s[k]
      /\ \A k \in m + 1 .. m + n : (s \o t)[k] = t[k - m]
  BY <1>3, Joined
<1>5. u \in Seq(E) /\ Len(u) = n + 1 /\ (\A i \in 1 .. n : u[i] = t[i]) /\ u[n + 1] = x
  BY <1>1, <1>2, <1>3
<1>6. /\ Len(s \o u) = m + (n + 1)
      /\ \A k \in 1 .. m : (s \o u)[k] = s[k]
      /\ \A k \in m + 1 .. m + (n + 1) : (s \o u)[k] = u[k - m]
  <2>1. /\ Len(s \o u) = Len(s) + Len(u)
        /\ \A k \in 1 .. Len(s) : (s \o u)[k] = s[k]
        /\ \A k \in Len(s) + 1 .. Len(s) + Len(u) : (s \o u)[k] = u[k - Len(s)]
        /\ Len(s) \in Nat /\ Len(u) \in Nat
    BY <1>5, Joined
  <2> QED BY <1>3, <1>5, <2>1
<1>7. PICK v, w : v = s \o t /\ w = s \o u
  OBVIOUS
<1>8. ASSUME NEW k \in 1 .. m + n PROVE w[k] = v[k]
  <2>1. CASE k \in 1 .. m
    BY <1>4, <1>6, <1>7, <2>1
  <2>2. CASE k \in m + 1 .. m + n
    <3>1. k - m \in 1 .. n /\ k \in m + 1 .. m + (n + 1)
      BY <1>4, <2>2
    <3>2. w[k] = u[k - m] /\ v[k] = t[k - m]
      BY <1>4, <1>6, <1>7, <2>2, <3>1
    <3> QED BY <1>5, <3>1, <3>2
  <2> QED BY <1>4, <2>1, <2>2
<1>9. w[m + n + 1] = x
  <2>1. m + n + 1 \in m + 1 .. m + (n + 1) /\ (m + n + 1) - m = n + 1
    BY <1>4
  <2>2. w[m + n + 1] = u[(m + n + 1) - m]
    BY <1>6, <1>7, <2>1
  <2> QED BY <1>5, <2>1, <2>2
<1>10. Len(v) = m + n /\ Len(w) = m + n + 1
  BY <1>4, <1>6, <1>7
<1>11. Added(v, w, x)
  BY <1>4, <1>8, <1>9, <1>10 DEF Added
<1> QED BY <1>2, <1>7, <1>11

(* The first of the requests behind others leaves.                           *)
LEMMA JoinRemoved ==
  ASSUME NEW E, NEW s \in Seq(E), NEW t \in Seq(E), t # <<>>
  PROVE  /\ Removed(s \o t, s \o Tail(t), Len(s) + 1)
         /\ (s \o t)[Len(s) + 1] = Head(t)
<1>1. PICK u : u = Tail(t)
  OBVIOUS
<1>2. PICK m, n : m = Len(s) /\ n = Len(u)
  OBVIOUS
<1>3. /\ u \in Seq(E) /\ n \in Nat /\ Len(t) = n + 1 /\ Head(t) = t[1]
      /\ \A i \in 1 .. n : u[i] = t[i + 1]
  <2>1. /\ Len(t) \in Nat /\ Len(t) > 0 /\ Head(t) = t[1]
        /\ u \in Seq(E) /\ Len(u) = Len(t) - 1
        /\ \A i \in 1 .. Len(t) - 1 : u[i] = t[i + 1]
    BY <1>1, HeadTail
  <2> QED BY <1>2, <2>1
<1>4. /\ m \in Nat /\ Len(s \o t) = m + (n + 1)
      /\ \A k \in 1 .. m : (s \o t)[k] = s[k]
      /\ \A k \in m + 1 .. m + (n + 1) : (s \o t)[k] = t[k - m]
  <2>1. /\ Len(s \o t) = Len(s) + Len(t)
        /\ \A k \in 1 .. Len(s) : (s \o t)[k] = s[k]
        /\ \A k \in Len(s) + 1 .. Len(s) + Len(t) : (s \o t)[k] = t[k - Len(s)]
        /\ Len(s) \in Nat /\ Len(t) \in Nat
    BY Joined
  <2> QED BY <1>2, <1>3, <2>1
<1>5. /\ Len(s \o u) = m + n
      /\ \A k \in 1 .. m : (s \o u)[k] = s[k]
      /\ \A k \in m + 1 .. m + n : (s \o u)[k] = u[k - m]
  BY <1>2, <1>3, Joined
<1>6. PICK v, w : v = s \o t /\ w = s \o u
  OBVIOUS
<1>7. \A k \in 1 .. m : w[k] = v[k]
  BY <1>4, <1>5, <1>6
<1>8. ASSUME NEW k \in m + 1 .. m + n PROVE w[k] = v[k + 1]
  <2>1. k - m \in 1 .. n /\ k + 1 \in m + 1 .. m + (n + 1) /\ (k + 1) - m = (k - m) + 1
    BY <1>3, <1>4
  <2>2. w[k] = u[k - m] /\ v[k + 1] = t[(k + 1) - m]
    BY <1>4, <1>5, <1>6, <2>1
  <2>3. u[k - m] = t[(k - m) + 1]
    BY <1>3, <2>1
  <2> QED BY <2>1, <2>2, <2>3
<1>9. v[m + 1] = Head(t)
  <2>1. m + 1 \in m + 1 .. m + (n + 1) /\ (m + 1) - m = 1
    BY <1>3, <1>4
  <2>2. v[m + 1] = t[(m + 1) - m]
    BY <1>4, <1>6, <2>1
  <2> QED BY <1>3, <2>1, <2>2
<1>10. Len(v) = m + n + 1 /\ Len(w) = m + n /\ m + 1 - 1 = m /\ m + 1 \in 1 .. m + n + 1
  BY <1>3, <1>4, <1>5, <1>6
<1>11. Removed(v, w, m + 1)
  BY <1>3, <1>4, <1>7, <1>8, <1>10 DEF Removed
<1> QED BY <1>1, <1>2, <1>6, <1>9, <1>11

(* The first of all leaves.                                                  *)
LEMMA JoinServed ==
  ASSUME NEW E, NEW s \in Seq(E), NEW t \in Seq(E), s # <<>>
  PROVE  Removed(s \o t, Tail(s) \o t, 1) /\ (s \o t)[1] = Head(s)
<1>1. PICK u : u = Tail(s)
  OBVIOUS
<1>2. PICK m, n : m = Len(u) /\ n = Len(t)
  OBVIOUS
<1>3. /\ u \in Seq(E) /\ m \in Nat /\ Len(s) = m + 1 /\ Head(s) = s[1]
      /\ \A i \in 1 .. m : u[i] = s[i + 1]
  <2>1. /\ Len(s) \in Nat /\ Len(s) > 0 /\ Head(s) = s[1]
        /\ u \in Seq(E) /\ Len(u) = Len(s) - 1
        /\ \A i \in 1 .. Len(s) - 1 : u[i] = s[i + 1]
    BY <1>1, HeadTail
  <2> QED BY <1>2, <2>1
<1>4. /\ n \in Nat /\ Len(s \o t) = (m + 1) + n
      /\ \A k \in 1 .. m + 1 : (s \o t)[k] = s[k]
      /\ \A k \in (m + 1) + 1 .. (m + 1) + n : (s \o t)[k] = t[k - (m + 1)]
  <2>1. /\ Len(s \o t) = Len(s) + Len(t)
        /\ \A k \in 1 .. Len(s) : (s \o t)[k] = s[k]
        /\ \A k \in Len(s) + 1 .. Len(s) + Len(t) : (s \o t)[k] = t[k - Len(s)]
        /\ Len(s) \in Nat /\ Len(t) \in Nat
    BY Joined
  <2> QED BY <1>2, <1>3, <2>1
<1>5. /\ Len(u \o t) = m + n
      /\ \A k \in 1 .. m : (u \o t)[k] = u[k]
      /\ \A k \in m + 1 .. m + n : (u \o t)[k] = t[k - m]
  BY <1>2, <1>3, Joined
<1>6. PICK v, w : v = s \o t /\ w = u \o t
  OBVIOUS
<1>7. ASSUME NEW k \in 1 .. m + n PROVE w[k] = v[k + 1]
  <2>1. CASE k \in 1 .. m
    <3>1. k + 1 \in 1 .. m + 1
      BY <1>3, <2>1
    <3>2. w[k] = u[k] /\ v[k + 1] = s[k + 1] /\ u[k] = s[k + 1]
      BY <1>3, <1>4, <1>5, <1>6, <2>1, <3>1
    <3> QED BY <3>2
  <2>2. CASE k \in m + 1 .. m + n
    <3>1. k + 1 \in (m + 1) + 1 .. (m + 1) + n /\ (k + 1) - (m + 1) = k - m
      BY <1>3, <1>4, <2>2
    <3>2. w[k] = t[k - m] /\ v[k + 1] = t[(k + 1) - (m + 1)]
      BY <1>4, <1>5, <1>6, <2>2, <3>1
    <3> QED BY <3>1, <3>2
  <2> QED BY <1>3, <1>4, <2>1, <2>2
<1>8. 1 \in 1 .. m + 1 /\ v[1] = Head(s)
  BY <1>3, <1>4, <1>6
<1>9. Len(v) = m + n + 1 /\ Len(w) = m + n /\ 1 \in 1 .. m + n + 1 /\ m + n \in Nat
  BY <1>3, <1>4, <1>5, <1>6
<1>10. Removed(v, w, 1)
  BY <1>7, <1>9 DEF Removed
<1> QED BY <1>1, <1>6, <1>8, <1>10

(* A request that goes from one list to the next stays where it is in both.  *)
LEMMA JoinMoved ==
  ASSUME NEW E, NEW s \in Seq(E), NEW t \in Seq(E), t # <<>>
  PROVE  Append(s, Head(t)) \o Tail(t) = s \o t
OBVIOUS

LEMMA WayType ==
  ASSUME QueuesInv, NEW n \in Nodes
  PROVE  Way(n) \in Seq(Rqst) /\ Len(Way(n)) \in Nat
<1>1. net[n] \in Seq(Rqst) /\ tx \in Seq(Rqst)
  BY DEF QueuesInv
<1>2. net[n] \o tx \in Seq(Rqst) /\ Len(net[n] \o tx) \in Nat
  BY <1>1
<1> QED BY <1>2 DEF Way

LEMMA WaySend ==
  ASSUME QueuesInv, NEW n \in Nodes, NEW x \in Rqst, Transmit(x), UNCHANGED net
  PROVE  Added(Way(n), Way(n)', x)
<1>1. net[n] \in Seq(Rqst) /\ tx \in Seq(Rqst)
  BY DEF QueuesInv
<1>2. tx' = Append(tx, x) /\ net'[n] = net[n]
  BY DEF Transmit
<1>3. Added(net[n] \o tx, net[n] \o Append(tx, x), x)
  BY <1>1, JoinAdded
<1> QED BY <1>2, <1>3 DEF Way

LEMMA WayInject ==
  ASSUME QueuesInv, Inject, NEW n \in Nodes
  PROVE  \/ Way(n)' = Way(n)
         \/ /\ Removed(Way(n), Way(n)', Len(net[n]) + 1)
            /\ Way(n)[Len(net[n]) + 1].addr[1] # n
<1>1. PICK h : h = Head(tx)
  OBVIOUS
<1>2. /\ tx # <<>> /\ h \in Rqst /\ h.addr[1] \in Nodes /\ tx' = Tail(tx)
      /\ net' = [net EXCEPT ![h.addr[1]] = Append(net[h.addr[1]], h)]
  BY <1>1, InjectFacts
<1>3. net[n] \in Seq(Rqst) /\ tx \in Seq(Rqst) /\ net \in [Nodes -> Seq(Rqst)]
  BY DEF QueuesInv
<1>4. CASE h.addr[1] = n
  <2>1. net'[n] = Append(net[n], Head(tx))
    BY <1>1, <1>2, <1>3, <1>4
  <2>2. Append(net[n], Head(tx)) \o Tail(tx) = net[n] \o tx
    BY <1>2, <1>3, JoinMoved
  <2>3. Way(n)' = Way(n)
    BY <1>2, <2>1, <2>2 DEF Way
  <2> QED BY <2>3
<1>5. CASE h.addr[1] # n
  <2>1. net'[n] = net[n]
    BY <1>2, <1>3, <1>5
  <2>2. /\ Removed(net[n] \o tx, net[n] \o Tail(tx), Len(net[n]) + 1)
        /\ (net[n] \o tx)[Len(net[n]) + 1] = Head(tx)
    BY <1>2, <1>3, JoinRemoved
  <2>3. Removed(Way(n), Way(n)', Len(net[n]) + 1)
    BY <1>2, <2>1, <2>2 DEF Way
  <2>4. Way(n)[Len(net[n]) + 1] = h
    BY <1>1, <2>2 DEF Way
  <2> QED BY <1>5, <2>3, <2>4
<1> QED BY <1>4, <1>5

LEMMA WayServe ==
  ASSUME QueuesInv, NEW k \in Nodes, Serve(k), NEW n \in Nodes
  PROVE  /\ n = k => Removed(Way(n), Way(n)', 1) /\ Way(n)[1] = Head(net[n])
         /\ n # k => Way(n)' = Way(n)
<1>1. PICK x, y : x = Head(net[k]) /\ y = [kind |-> x.kind, id |-> x.id, val |-> mem[x.addr]]
  OBVIOUS
<1>2. net[k] # <<>> /\ net' = [net EXCEPT ![k] = Tail(net[k])] /\ tx' = tx
  BY <1>1, ServeFacts
<1>3. net[n] \in Seq(Rqst) /\ tx \in Seq(Rqst) /\ net \in [Nodes -> Seq(Rqst)]
  BY DEF QueuesInv
<1>4. CASE n = k
  <2>1. net'[n] = Tail(net[n]) /\ net[n] # <<>>
    BY <1>2, <1>3, <1>4
  <2>2. Removed(net[n] \o tx, Tail(net[n]) \o tx, 1) /\ (net[n] \o tx)[1] = Head(net[n])
    BY <1>3, <2>1, JoinServed
  <2>3. Removed(Way(n), Way(n)', 1)
    BY <1>2, <2>1, <2>2 DEF Way
  <2>4. Way(n)[1] = Head(net[n])
    BY <2>2 DEF Way
  <2> QED BY <1>4, <2>3, <2>4
<1>5. CASE n # k
  <2>1. net'[n] = net[n]
    BY <1>2, <1>3, <1>5
  <2>2. Way(n)' = Way(n)
    BY <1>2, <2>1 DEF Way
  <2> QED BY <1>5, <2>2
<1> QED BY <1>4, <1>5

(* A word with the requests under way applied is a word.                     *)
LEMMA EffectiveType ==
  ASSUME QueuesInv, NEW a \in Addrs
  PROVE  Effective(a) = After(mem[a], a, Way(a[1])) /\ a[1] \in Nodes /\ Effective(a) \in Words
<1>1. Effective(a) = After(mem[a], a, Way(a[1]))
  BY DEF Effective, Way
<1>2. a[1] \in Nodes
  BY MemoryAssumption
<1>3. mem[a] \in Words /\ Way(a[1]) \in Seq(Rqst)
  BY <1>2, WayType DEF QueuesInv
<1>4. After(mem[a], a, Way(a[1])) \in Words
  BY <1>3, AfterType
<1> QED BY <1>1, <1>2, <1>4

(* It changes when the host transmits, ...                                   *)
LEMMA EffectiveSend ==
  ASSUME QueuesInv, NEW a \in Addrs, NEW x \in Rqst, Transmit(x), UNCHANGED <<net, mem>>
  PROVE  Effective(a)' = Served(Effective(a), a, x)
<1>1. PICK n \in Nodes : n = a[1]
  BY MemoryAssumption
<1>2. Added(Way(n), Way(n)', x)
  BY WaySend
<1>3. PICK s, t, w : s = Way(n) /\ t = Way(n)' /\ w = mem[a]
  OBVIOUS
<1>4. Added(s, t, x)
  BY <1>2, <1>3
<1>5. After(w, a, t) = Served(After(w, a, s), a, x)
  BY <1>4, AfterLast DEF Added
<1>6. Effective(a) = After(w, a, s) /\ Effective(a)' = After(w, a, t)
  BY <1>1, <1>3 DEF Effective, Way
<1> QED BY <1>5, <1>6

(* ... and not when the platform moves requests or a node serves them.       *)
LEMMA EffectiveInject ==
  ASSUME QueuesInv, NEW a \in Addrs, Inject
  PROVE  Effective(a)' = Effective(a)
<1>1. PICK n \in Nodes : n = a[1]
  BY MemoryAssumption
<1>2. mem' = mem
  BY InjectFacts
<1>3. PICK s, t, w, p : s = Way(n) /\ t = Way(n)' /\ w = mem[a] /\ p = Len(net[n]) + 1
  OBVIOUS
<1>4. Effective(a) = After(w, a, s) /\ Effective(a)' = After(w, a, t)
  BY <1>1, <1>2, <1>3 DEF Effective, Way
<1>5. t = s \/ (Removed(s, t, p) /\ s[p].addr[1] # n)
  BY <1>3, WayInject
<1>6. CASE Removed(s, t, p) /\ s[p].addr[1] # n
  <2>1. s[p].addr # a
    BY <1>1, <1>6
  <2>2. After(w, a, t) = After(w, a, s)
    BY <1>6, <2>1, AfterWithout DEF Removed
  <2> QED BY <1>4, <2>2
<1> QED BY <1>4, <1>5, <1>6

LEMMA EffectiveServe ==
  ASSUME QueuesInv, NEW a \in Addrs, NEW k \in Nodes, Serve(k)
  PROVE  /\ Effective(a)' = Effective(a)
         /\ Head(net[k]).addr = a =>
              Effective(a)' = After(Effect(mem[a], Head(net[k])), a, Way(k)')
<1>1. PICK n \in Nodes : n = a[1]
  BY MemoryAssumption
<1>2. PICK x, y : x = Head(net[k]) /\ y = [kind |-> x.kind, id |-> x.id, val |-> mem[x.addr]]
  OBVIOUS
<1>3. /\ x \in Rqst /\ x.addr[1] = k /\ mem \in [Addrs -> Words]
      /\ mem' = [mem EXCEPT ![x.addr] = Effect(mem[x.addr], x)]
  BY <1>2, ServeFacts DEF QueuesInv
<1>4. x.addr \in Addrs
  BY <1>3 DEF Rqst
<1>5. mem'[a] = Served(mem[a], a, x)
  BY <1>3, <1>4 DEF Served
<1>6. PICK s, t, w : s = Way(n) /\ t = Way(n)' /\ w = mem[a]
  OBVIOUS
<1>7. Effective(a) = After(w, a, s) /\ Effective(a)' = After(Served(w, a, x), a, t)
  BY <1>1, <1>5, <1>6 DEF Effective, Way
<1>8. CASE n = k
  <2>1. Removed(s, t, 1) /\ s[1] = x
    BY <1>2, <1>6, <1>8, WayServe
  <2>2. \A i \in 1 .. Len(t) : t[i] = s[i + 1]
    BY <2>1 DEF Removed
  <2>3. Len(t) \in Nat /\ Len(s) = Len(t) + 1
    BY <2>1 DEF Removed
  <2>4. After(w, a, s) = After(Served(w, a, s[1]), a, t)
    BY <2>2, <2>3, AfterFirst
  <2>5. x.addr = a => Served(w, a, x) = Effect(mem[a], x)
    BY <1>6 DEF Served
  <2> QED BY <1>2, <1>6, <1>7, <1>8, <2>1, <2>4, <2>5
<1>9. CASE n # k
  <2>1. t = s /\ x.addr # a
    BY <1>1, <1>3, <1>6, <1>9, WayServe
  <2>2. Served(w, a, x) = w
    BY <2>1 DEF Served
  <2> QED BY <1>2, <1>7, <2>1, <2>2
<1> QED BY <1>8, <1>9

LEMMA EffectiveSame ==
  ASSUME NEW a, UNCHANGED <<tx, net, mem>>
  PROVE  Effective(a)' = Effective(a)
<1>1. net'[a[1]] \o tx' = net[a[1]] \o tx
  OBVIOUS
<1> QED BY <1>1 DEF Effective

-----------------------------------------------------------------------------
(* Writes *)

(* Of a write, the words sent so far are in memory or on their way.          *)
WriteInv ==
  call.kind = "write" =>
    \A i \in 1 .. rqst_i : Effective(call.addrs[i]) = call.vals[i]

LEMMA StageCalls ==
  ASSUME HostInv
  PROVE  /\ call = NoCall \/ call \in Calls
         /\ pc = "idle" <=> call = NoCall
         /\ call.kind = "write" => pc \in {"store", "stored"}
         /\ call \in Calls => rqst_i \in 0 .. Count /\ Count \in 1 .. MaxWords /\ Count \in Nat
         /\ call = NoCall => rqst_i = 0
<1>1. CASE call = NoCall
  <2>1. pc = "idle" /\ rqst_i = 0
    BY <1>1, NotACall DEF HostInv, Stage
  <2> QED BY <1>1, <2>1, NotACall
<1>2. CASE call \in Calls
  <2>1. Count \in 1 .. MaxWords /\ Count \in Nat
    BY <1>2, CallRange
  <2>2. call # NoCall
    BY <1>2, NotACall
  <2>3. pc # "idle" /\ rqst_i \in 0 .. Count
    <3>1. pc # "idle"
      BY <2>2 DEF HostInv, Stage
    <3>2. \/ rqst_i \in 0 .. Count - 1 \/ rqst_i = Count \/ rqst_i \in 1 .. Count
          \/ rqst_i = 0 \/ rqst_i = 1
      BY <3>1 DEF HostInv, Stage
    <3> QED BY <2>1, <3>1, <3>2
  <2>4. call.kind = "write" => pc \in {"store", "stored"}
    BY <2>2 DEF HostInv, Stage
  <2> QED BY <1>2, <2>1, <2>2, <2>3, <2>4
<1> QED BY <1>1, <1>2 DEF HostInv, Stage

LEMMA EffectiveAt ==
  ASSUME NEW i, NEW a, call'.addrs[i] = a
  PROVE  Effective(call.addrs[i])' = Effective(a)'
BY DEF Effective

LEMMA WriteStore ==
  ASSUME QueuesInv, HostInv, WriteInv, Store
  PROVE  WriteInv'
<1>1. PICK c : c = call
  OBVIOUS
<1>2. PICK j, x : /\ j = rqst_i + 1
                  /\ x = [kind |-> c.kind, addr |-> c.addrs[j], val |-> c.vals[j], id |-> 0]
  OBVIOUS
<1>3. /\ pc = "store" /\ Transmit(x) /\ rqst_i' = j /\ call' = c /\ UNCHANGED device
  BY <1>1, <1>2 DEF Store
<1>4. x \in Rqst
  BY <1>1, <1>2, StoreRqst
<1>5. UNCHANGED <<net, mem>>
  BY <1>3 DEF device
<1>6. c \in Calls /\ c.kind \in {"write", "store"} /\ rqst_i \in 0 .. Len(c.addrs) - 1
  BY <1>1, <1>3 DEF HostInv, Stage, Count
<1>7. Len(c.addrs) \in Nat
  BY <1>1, <1>6, CallRange DEF Count
<1>8. j \in 1 .. Len(c.addrs) /\ rqst_i = j - 1 /\ j \in Nat
  BY <1>2, <1>6, <1>7
<1>9. SUFFICES ASSUME c.kind = "write", NEW i \in 1 .. j
               PROVE  Effective(call.addrs[i])' = c.vals[i]
  BY <1>1, <1>3 DEF WriteInv
<1>10. i \in 1 .. Len(c.addrs)
  BY <1>7, <1>8
<1>11. PICK a : a = c.addrs[i]
  OBVIOUS
<1>12. a \in Addrs
  <2>1. c.kind # "read"
    BY <1>9
  <2> QED BY <1>6, <1>10, <1>11, <2>1, CallFacts
<1>13. Effective(a)' = Served(Effective(a), a, x)
  BY <1>3, <1>4, <1>5, <1>12, EffectiveSend
<1>14. Effective(call.addrs[i])' = Effective(a)'
  BY <1>3, <1>11, EffectiveAt
<1>15. CASE i = j
  <2>1. x.addr = a /\ x.kind = "write" /\ x.val = c.vals[i]
    BY <1>2, <1>9, <1>11, <1>15
  <2>2. Served(Effective(a), a, x) = c.vals[i]
    BY <2>1 DEF Served, Effect
  <2> QED BY <1>13, <1>14, <2>2
<1>16. CASE i # j
  <2>1. c.addrs[i] # c.addrs[j]
    BY <1>6, <1>8, <1>9, <1>10, <1>16, CallFacts
  <2>2. Served(Effective(a), a, x) = Effective(a)
    BY <1>2, <1>11, <2>1 DEF Served
  <2>3. i \in 1 .. rqst_i
    BY <1>8, <1>16
  <2>4. Effective(call.addrs[i]) = c.vals[i]
    BY <1>1, <1>9, <2>3 DEF WriteInv
  <2>5. Effective(a) = c.vals[i]
    BY <1>1, <1>11, <2>4
  <2> QED BY <1>13, <1>14, <2>2, <2>5
<1> QED BY <1>15, <1>16

LEMMA WriteSame ==
  ASSUME QueuesInv, HostInv, WriteInv, UNCHANGED host,
         \A a \in Addrs : Effective(a)' = Effective(a)
  PROVE  WriteInv'
<1>1. PICK c : c = call
  OBVIOUS
<1>2. call' = c /\ rqst_i' = rqst_i
  BY <1>1 DEF host
<1>3. SUFFICES ASSUME c.kind = "write", NEW i \in 1 .. rqst_i
               PROVE  Effective(call.addrs[i])' = c.vals[i]
  BY <1>1, <1>2 DEF WriteInv
<1>4. c \in Calls
  BY <1>1, <1>3, NotACall, StageCalls
<1>5. rqst_i \in 0 .. Len(c.addrs) /\ Len(c.addrs) \in Nat
  BY <1>1, <1>4, StageCalls DEF Count
<1>6. i \in 1 .. Len(c.addrs)
  BY <1>5
<1>7. PICK a : a = c.addrs[i]
  OBVIOUS
<1>8. a \in Addrs
  <2>1. c.kind # "read"
    BY <1>3
  <2> QED BY <1>4, <1>6, <1>7, <2>1, CallFacts
<1>9. Effective(call.addrs[i]) = c.vals[i]
  BY <1>1, <1>3 DEF WriteInv
<1>10. Effective(a) = c.vals[i]
  BY <1>1, <1>7, <1>9
<1>11. Effective(call.addrs[i])' = Effective(a)'
  BY <1>2, <1>7, EffectiveAt
<1> QED BY <1>8, <1>10, <1>11

LEMMA WriteStep ==
  ASSUME QueuesInv, HostInv, WriteInv, [Next]_vars
  PROVE  WriteInv'
<1>none. ASSUME call' = NoCall PROVE WriteInv'
  BY <1>none, NotACall DEF WriteInv
<1>other. ASSUME call' = call, call.kind # "write" PROVE WriteInv'
  BY <1>other DEF WriteInv
<1>leave. ASSUME NEW r, LeaveWith(r) PROVE WriteInv'
  BY <1>leave, <1>none DEF LeaveWith
<1>1. ASSUME NEW c \in Calls, Begin(c) PROVE WriteInv'
  <2>1. pc = "idle" /\ rqst_i' = rqst_i
    BY <1>1 DEF Begin
  <2>2. rqst_i' = 0
    BY <2>1 DEF HostInv, Stage
  <2>3. 1 .. 0 = {}
    OBVIOUS
  <2> QED BY <2>2, <2>3 DEF WriteInv
<1>2. CASE Store
  BY <1>2, WriteStore
<1>3. CASE StoreReturns
  BY <1>3, <1>leave DEF StoreReturns
<1>4. CASE SendSingle
  <2>1. pc = "single" /\ call' = call
    BY <1>4 DEF SendSingle
  <2>2. call.kind # "write"
    BY <2>1 DEF HostInv, Stage
  <2> QED BY <1>other, <2>1, <2>2
<1>5. CASE TakeSingle
  BY <1>5, <1>leave DEF TakeSingle
<1>6. CASE Request
  <2>1. pc = "request" /\ call' = call
    BY <1>6 DEF Request
  <2>2. call.kind # "write"
    BY <2>1 DEF HostInv, Stage
  <2> QED BY <1>other, <2>1, <2>2
<1>7. CASE RequestFails
  BY <1>7, <1>leave DEF RequestFails
<1>8. CASE Respond
  <2>1. PICK d, data : d = Head(rx) /\ data = Put(result, Slot(d.id), d.val)
    OBVIOUS
  <2>2. call.kind = "read" /\ (LeaveWith(<<>>) \/ LeaveWith(data) \/ call' = call)
    BY <1>8, <2>1, RespondFacts
  <2>3. CASE call' = call
    BY <1>other, <2>2, <2>3
  <2> QED BY <1>leave, <2>2, <2>3
<1>9. CASE Inject
  BY <1>9, InjectFacts, EffectiveInject, WriteSame
<1>10. ASSUME NEW n \in Nodes, Serve(n) PROVE WriteInv'
  <2>1. UNCHANGED host
    BY <1>10 DEF Serve
  <2> QED BY <1>10, <2>1, EffectiveServe, WriteSame
<1>11. ASSUME NEW n \in Nodes, GiveBack(n) PROVE WriteInv'
  <2>1. UNCHANGED host /\ UNCHANGED <<tx, net, mem>>
    BY <1>11 DEF GiveBack
  <2> QED BY <2>1, EffectiveSame, WriteSame
<1>12. CASE UNCHANGED vars
  <2>1. UNCHANGED host /\ UNCHANGED <<tx, net, mem>>
    BY <1>12 DEF vars, device
  <2> QED BY <2>1, EffectiveSame, WriteSame
<1> QED BY <1>1, <1>2, <1>3, <1>4, <1>5, <1>6, <1>7, <1>8, <1>9, <1>10, <1>11, <1>12 DEF Next

LEMMA WriteInit == Init => WriteInv
<1> SUFFICES ASSUME Init PROVE WriteInv
  OBVIOUS
<1>1. call = NoCall
  BY DEF Init
<1> QED BY <1>1, NotACall DEF WriteInv

(* Without credits in use, no request is in the network.                     *)
LEMMA NoCredits ==
  ASSUME QueuesInv, CreditsUsed = 0, NEW n \in Nodes
  PROVE  net[n] = <<>>
<1> DEFINE Held(q) == UNION {{k} \X DOMAIN q[k] : k \in Nodes}
<1>1. ASSUME NEW E, NEW q \in [Nodes -> Seq(E)] PROVE IsFiniteSet(Held(q))
  <2>1. IsFiniteSet({{k} \X DOMAIN q[k] : k \in Nodes})
    <3> DEFINE all == {{k} \X DOMAIN q[k] : k \in Nodes}
               at == [k \in Nodes |-> {k} \X DOMAIN q[k]]
    <3>1. at \in Surjection(Nodes, all)
      <4>1. at \in [Nodes -> all]
        OBVIOUS
      <4>2. \A z \in all : \E k \in Nodes : at[k] = z
        OBVIOUS
      <4> QED BY <4>1, <4>2 DEF Surjection
    <3> HIDE DEF all, at
    <3>2. IsFiniteSet(all)
      BY <3>1, MemoryAssumption, FS_Surjection
    <3> QED BY <3>2 DEF all
  <2>2. ASSUME NEW x \in {{k} \X DOMAIN q[k] : k \in Nodes} PROVE IsFiniteSet(x)
    <3>1. PICK k \in Nodes : x = {k} \X DOMAIN q[k]
      OBVIOUS
    <3>2. IsFiniteSet({k})
      BY FS_Singleton
    <3>3. DOMAIN q[k] = 1 .. Len(q[k]) /\ Len(q[k]) \in Nat
      BY <1>1
    <3>4. IsFiniteSet(DOMAIN q[k])
      BY <3>3, FS_Interval
    <3> QED BY <3>1, <3>2, <3>4, FS_Product
  <2> QED BY <2>1, <2>2, FS_UNION
<1>2. net \in [Nodes -> Seq(Rqst)] /\ back \in [Nodes -> Seq(Rsp)]
  BY DEF QueuesInv
<1>3. PICK x, y : x = Held(net) /\ y = Held(back)
  OBVIOUS
<1>4. IsFiniteSet(x) /\ IsFiniteSet(y)
  BY <1>1, <1>2, <1>3
<1>5. Cardinality(x) \in Nat /\ Cardinality(y) \in Nat
  BY <1>4, FS_CardinalityType
<1>6. Cardinality(x) + Cardinality(y) = 0
  BY <1>3 DEF CreditsUsed
<1>7. Cardinality(x) = 0
  BY <1>5, <1>6
<1>8. x = {}
  BY <1>4, <1>7, FS_EmptySet
<1>9. DOMAIN net[n] = {}
  <2> SUFFICES ASSUME NEW i \in DOMAIN net[n] PROVE FALSE
    OBVIOUS
  <2>1. {n} \X DOMAIN net[n] \subseteq x
    BY <1>3
  <2>2. <<n, i>> \in {n} \X DOMAIN net[n]
    OBVIOUS
  <2>3. <<n, i>> \in x
    BY <2>1, <2>2
  <2> QED BY <1>8, <2>3
<1>10. net[n] \in Seq(Rqst)
  BY <1>2
<1>11. Len(net[n]) = 0
  <2>1. Len(net[n]) \in Nat /\ DOMAIN net[n] = 1 .. Len(net[n])
    BY <1>10
  <2>2. Len(net[n]) > 0 => 1 \in DOMAIN net[n]
    BY <2>1
  <2> QED BY <1>9, <2>1, <2>2
<1> QED BY <1>10, <1>11

LEMMA SettledWords ==
  ASSUME QueuesInv, Settled, NEW a \in Addrs
  PROVE  Effective(a) = mem[a]
<1>1. PICK n \in Nodes : n = a[1]
  BY MemoryAssumption
<1>2. net[n] = <<>> /\ tx = <<>>
  BY NoCredits DEF Settled
<1>3. Len(net[n] \o tx) = 0
  BY <1>2
<1>4. After(mem[a], a, net[n] \o tx) = mem[a]
  BY <1>3, AfterNone
<1> QED BY <1>1, <1>4 DEF Effective

LEMMA WriteReturns ==
  ASSUME QueuesInv, HostInv, WriteInv, [Next]_vars, call.kind = "write", pc' = "idle",
         NEW i \in DOMAIN call.addrs
  PROVE  mem[call.addrs[i]] = call.vals[i]
<1>1. call \in Calls /\ pc \in {"store", "stored"}
  BY NotACall, StageCalls
<1>2. StoreReturns
  <2>1. pc' # pc
    BY <1>1
  <2>2. ~Inject /\ ~(\E n \in Nodes : Serve(n) \/ GiveBack(n)) /\ ~UNCHANGED vars
    BY <2>1 DEF Inject, Serve, GiveBack, vars, host
  <2>3. ~(\E c \in Calls : Begin(c)) /\ ~Store /\ ~SendSingle /\ ~TakeSingle
    BY <1>1 DEF Begin, Store, SendSingle, TakeSingle
  <2>4. ~Request /\ ~RequestFails /\ ~Respond
    BY <1>1 DEF Request, RequestFails, Respond
  <2> QED BY <2>2, <2>3, <2>4 DEF Next
<1>3. Settled /\ pc = "stored"
  BY <1>2 DEF StoreReturns
<1>4. rqst_i = Len(call.addrs)
  BY <1>3 DEF HostInv, Stage, Count
<1>5. i \in 1 .. Len(call.addrs)
  BY <1>1, CallFacts
<1>6. Effective(call.addrs[i]) = call.vals[i]
  BY <1>4, <1>5 DEF WriteInv
<1>7. call.addrs[i] \in Addrs
  <2>1. call.kind # "read"
    OBVIOUS
  <2> QED BY <1>1, <1>5, <2>1, CallFacts
<1>8. PICK a \in Addrs : a = call.addrs[i]
  BY <1>7
<1>9. Effective(a) = mem[a]
  BY <1>3, SettledWords
<1> QED BY <1>6, <1>8, <1>9

(* When write_mem or memset returns, its words are in memory, not on their   *)
(* way (write_mem and memset of bsg_manycore.cpp with the fence they end     *)
(* with): for any number of nodes, words, credits and load ids, and whatever *)
(* is in the network.                                                        *)
THEOREM WritesLanded == Spec => WriteLanded
<1>1. Init => WriteInv
  BY WriteInit
<1>2. CountsInv /\ WriteInv /\ [Next]_vars => WriteInv'
  BY WriteStep DEF CountsInv
<1>3. CountsInv /\ WriteInv /\ [Next]_vars =>
        [call.kind = "write" /\ pc' = "idle" =>
           \A i \in DOMAIN call.addrs : mem[call.addrs[i]] = call.vals[i]]_vars
  BY WriteReturns DEF CountsInv
<1> QED BY <1>1, <1>2, <1>3, QueuesAreRight, PTL DEF Spec, WriteLanded

-----------------------------------------------------------------------------
(* Reads: requests in order, and packets for the call in progress *)

Quiet(kind) == kind \in {"load", "read"}

(* Nothing that changes a word is behind a request that waits for a response.*)
Ordered(s) ==
  \A i, j \in 1 .. Len(s) : i < j /\ ExpectsResponse(s[i].kind) => Quiet(s[j].kind)

OrderInv == ~broken => \A n \in Nodes : Ordered(Way(n))

(* The index of the call's word that a load id stands for.                   *)
Index(id) == IF call.kind = "read" THEN id_to_rsp_i[id] ELSE 1

(* A request asks for that word.                                             *)
Asks(x) ==
  /\ x.addr = call.addrs[Index(x.id)]
  /\ x.kind = "amoadd" => x.val = call.vals[1]

(* A response has it, an amoadd's what it was before.                        *)
Told(val) == IF call.kind = "amoadd" THEN (val + call.vals[1]) % WordMod ELSE val

Tells(x) ==
  \E a \in Addrs : a = call.addrs[Index(x.id)] /\ Effective(a) = Told(x.val)

PacketsInv ==
  ~broken =>
    /\ \A n \in Nodes : \A i \in 1 .. Len(Way(n)) :
         ExpectsResponse(Way(n)[i].kind) => Asks(Way(n)[i])
    /\ \A n \in Nodes : \A i \in 1 .. Len(back[n]) :
         ExpectsResponse(back[n][i].kind) => Tells(back[n][i])
    /\ \A i \in 1 .. Len(rx) : Tells(rx[i])

LEMMA OrderedAdded ==
  ASSUME NEW s, NEW t, NEW x, Added(s, t, x), Ordered(s),
         Quiet(x.kind) \/ \A i \in 1 .. Len(s) : ~ExpectsResponse(s[i].kind)
  PROVE  Ordered(t)
<1>1. PICK n \in Nat : n = Len(s)
  BY DEF Added
<1>2. Len(t) = n + 1 /\ (\A k \in 1 .. n : t[k] = s[k]) /\ t[n + 1] = x
  BY <1>1 DEF Added
<1>3. SUFFICES ASSUME NEW i \in 1 .. n + 1, NEW j \in 1 .. n + 1, i < j, ExpectsResponse(t[i].kind)
               PROVE  Quiet(t[j].kind)
  BY <1>2 DEF Ordered
<1>4. i \in 1 .. n
  BY <1>3
<1>5. t[i] = s[i] /\ ExpectsResponse(s[i].kind)
  BY <1>2, <1>3, <1>4
<1>6. CASE j = n + 1
  BY <1>1, <1>2, <1>4, <1>5, <1>6
<1>7. CASE j # n + 1
  <2>1. j \in 1 .. n
    BY <1>7
  <2> QED BY <1>1, <1>2, <1>3, <1>4, <1>5, <2>1 DEF Ordered
<1> QED BY <1>6, <1>7

LEMMA RemovedEntry ==
  ASSUME NEW s, NEW t, NEW p, Removed(s, t, p), NEW k \in 1 .. Len(t)
  PROVE  /\ k < p => k \in 1 .. Len(s) /\ t[k] = s[k]
         /\ ~(k < p) => k + 1 \in 1 .. Len(s) /\ t[k] = s[k + 1]
<1>1. PICK n \in Nat : n = Len(t)
  BY DEF Removed
<1>2. /\ Len(s) = n + 1 /\ p \in 1 .. n + 1
      /\ \A i \in 1 .. p - 1 : t[i] = s[i]
      /\ \A i \in p .. n : t[i] = s[i + 1]
  BY <1>1 DEF Removed
<1>3. k \in 1 .. n
  BY <1>1
<1>4. CASE k < p
  <2>1. k \in 1 .. p - 1 /\ k \in 1 .. n + 1
    BY <1>2, <1>3, <1>4
  <2> QED BY <1>2, <1>4, <2>1
<1>5. CASE ~(k < p)
  <2>1. k \in p .. n /\ k + 1 \in 1 .. n + 1
    BY <1>2, <1>3, <1>5
  <2> QED BY <1>2, <1>5, <2>1
<1> QED BY <1>4, <1>5

LEMMA OrderedRemoved ==
  ASSUME NEW s, NEW t, NEW p, Removed(s, t, p), Ordered(s)
  PROVE  Ordered(t)
<1>1. PICK n \in Nat : n = Len(t)
  BY DEF Removed
<1>2. SUFFICES ASSUME NEW i \in 1 .. n, NEW j \in 1 .. n, i < j, ExpectsResponse(t[i].kind)
               PROVE  Quiet(t[j].kind)
  BY <1>1 DEF Ordered
<1>3. PICK k, m : k = (IF i < p THEN i ELSE i + 1) /\ m = (IF j < p THEN j ELSE j + 1)
  OBVIOUS
<1>4. p \in Nat
  BY <1>1 DEF Removed
<1>5. k < m
  BY <1>2, <1>3, <1>4
<1>6. k \in 1 .. Len(s) /\ t[i] = s[k]
  BY <1>1, <1>3, RemovedEntry
<1>7. m \in 1 .. Len(s) /\ t[j] = s[m]
  BY <1>1, <1>3, RemovedEntry
<1> QED BY <1>2, <1>5, <1>6, <1>7 DEF Ordered

LEMMA OrderNext ==
  ASSUME OrderInv, ~broken' => ~broken,
         \A n \in Nodes : Way(n)' = Way(n) \/ \E p : Removed(Way(n), Way(n)', p)
  PROVE  OrderInv'
<1>1. SUFFICES ASSUME ~broken', NEW n \in Nodes PROVE Ordered(Way(n)')
  BY DEF OrderInv, Ordered, Quiet, ExpectsResponse
<1>2. Ordered(Way(n))
  BY <1>1 DEF OrderInv
<1> QED BY <1>2, OrderedRemoved

(* The requests under way are in queues.                                     *)
OnWay(f, k, x) ==
  /\ x \in Rqst
  /\ \E q \in {TxAt, NetAt(k)} : q \in Queues /\ \E m \in DOMAIN f[q] : f[q][m] = x

LEMMA WayEntry ==
  ASSUME NEW i, NEW t, NEW r, NEW n, NEW b, Typed(i, t, r, n, b),
         NEW f, Are(f, i, t, r, n, b), NEW k \in Nodes, NEW w, w = n[k] \o t,
         NEW j \in 1 .. Len(w)
  PROVE  OnWay(f, k, w[j])
<1>x. PICK x : x = w[j]
  OBVIOUS
<1>1. n[k] \in Seq(Rqst) /\ t \in Seq(Rqst)
  BY DEF Typed
<1>2. PICK a, c : a = Len(n[k]) /\ c = Len(t)
  OBVIOUS
<1>3. /\ a \in Nat /\ c \in Nat /\ Len(w) = a + c
      /\ \A l \in 1 .. a : w[l] = n[k][l]
      /\ \A l \in a + 1 .. a + c : w[l] = t[l - a]
  <2>1. /\ Len(n[k] \o t) = Len(n[k]) + Len(t)
        /\ \A l \in 1 .. Len(n[k]) : (n[k] \o t)[l] = n[k][l]
        /\ \A l \in Len(n[k]) + 1 .. Len(n[k]) + Len(t) : (n[k] \o t)[l] = t[l - Len(n[k])]
        /\ Len(n[k]) \in Nat /\ Len(t) \in Nat
    BY <1>1, Joined
  <2> QED BY <1>2, <2>1
<1>4. /\ DOMAIN n[k] = 1 .. a /\ DOMAIN t = 1 .. c
      /\ (\A l \in 1 .. a : n[k][l] \in Rqst) /\ (\A l \in 1 .. c : t[l] \in Rqst)
  <2>1. DOMAIN n[k] = 1 .. Len(n[k]) /\ \A l \in 1 .. Len(n[k]) : n[k][l] \in Rqst
    BY <1>1
  <2>2. DOMAIN t = 1 .. Len(t) /\ \A l \in 1 .. Len(t) : t[l] \in Rqst
    BY <1>1
  <2> QED BY <1>2, <2>1, <2>2
<1>5. f[TxAt] = t /\ f[NetAt(k)] = n[k] /\ TxAt \in Queues /\ NetAt(k) \in Queues
  BY QueueNames DEF Are
<1>6. CASE j \in 1 .. a
  <2>1. x = n[k][j] /\ j \in DOMAIN f[NetAt(k)] /\ f[NetAt(k)][j] = x
    BY <1>x, <1>3, <1>4, <1>5, <1>6
  <2>2. x \in Rqst
    BY <1>4, <1>6, <2>1
  <2> QED BY <1>x, <1>5, <2>1, <2>2 DEF OnWay
<1>7. CASE j \in a + 1 .. a + c
  <2>1. j - a \in 1 .. c
    BY <1>3, <1>7
  <2>2. x = t[j - a] /\ j - a \in DOMAIN f[TxAt] /\ f[TxAt][j - a] = x
    BY <1>x, <1>3, <1>4, <1>5, <1>7, <2>1
  <2>3. x \in Rqst
    BY <1>4, <2>1, <2>2
  <2> QED BY <1>x, <1>5, <2>2, <2>3 DEF OnWay
<1>8. j \in 1 .. a \/ j \in a + 1 .. a + c
  BY <1>3
<1> QED BY <1>6, <1>7, <1>8

(* When no response is due, no request or response in a queue waits for one. *)
LEMMA NothingWaits ==
  ASSUME NEW i, NEW t, NEW r, NEW n, NEW b, Typed(i, t, r, n, b),
         NEW f, Are(f, i, t, r, n, b), Cardinality(Marked(f, Waiting)) = 0
  PROVE  /\ Len(r) = 0
         /\ \A k \in Nodes : \A j \in 1 .. Len(n[k] \o t) : ~ExpectsResponse((n[k] \o t)[j].kind)
         /\ \A k \in Nodes : \A j \in 1 .. Len(b[k]) : ~ExpectsResponse(b[k][j].kind)
<1>1. Lists(f)
  BY TypedLists
<1>2. \A q \in Queues : \A m \in DOMAIN f[q] : <<q, f[q][m]>> \notin Waiting
  BY <1>1, MarkedNone
<1>3. r \in Seq(Data) /\ f[RxAt] = r /\ RxAt \in Queues
  BY QueueNames DEF Typed, Are
<1>4. Len(r) = 0
  <2>1. Len(r) \in Nat /\ DOMAIN r = 1 .. Len(r) /\ \A m \in 1 .. Len(r) : r[m] \in Data
    BY <1>3
  <2>2. SUFFICES ASSUME Len(r) > 0 PROVE FALSE
    BY <2>1
  <2>3. 1 \in DOMAIN r /\ r[1] \in Data
    BY <2>1, <2>2
  <2>4. <<RxAt, r[1]>> \in Waiting
    BY <2>3, WaitingIs
  <2> QED BY <1>2, <1>3, <2>3, <2>4
<1>5. ASSUME NEW k \in Nodes, NEW j \in 1 .. Len(n[k] \o t)
      PROVE  ~ExpectsResponse((n[k] \o t)[j].kind)
  <2>1. PICK w : w = n[k] \o t
    OBVIOUS
  <2>2. PICK x : x = w[j]
    OBVIOUS
  <2>3. j \in 1 .. Len(w)
    BY <2>1
  <2>4. OnWay(f, k, w[j])
    BY <2>1, <2>3, WayEntry
  <2>5. <<TxAt, x>> \notin Waiting \/ <<NetAt(k), x>> \notin Waiting
    BY <1>2, <2>2, <2>4 DEF OnWay
  <2>6. ~ExpectsResponse(x.kind)
    BY <2>2, <2>4, <2>5, WaitingIs DEF OnWay
  <2> QED BY <2>1, <2>2, <2>6
<1>6. ASSUME NEW k \in Nodes, NEW j \in 1 .. Len(b[k]) PROVE ~ExpectsResponse(b[k][j].kind)
  <2>1. b[k] \in Seq(Rsp) /\ f[BackAt(k)] = b[k] /\ BackAt(k) \in Queues
    BY QueueNames DEF Typed, Are
  <2>2. j \in DOMAIN f[BackAt(k)] /\ b[k][j] \in Rsp
    BY <2>1
  <2>3. <<BackAt(k), b[k][j]>> \notin Waiting
    BY <1>2, <2>1, <2>2
  <2> QED BY <2>2, <2>3, WaitingIs
<1> QED BY <1>4, <1>5, <1>6

LEMMA NoneWaiting ==
  ASSUME QueuesInv, HostInv, WaitInv, pending = 0
  PROVE  /\ Len(rx) = 0
         /\ \A n \in Nodes : \A j \in 1 .. Len(Way(n)) : ~ExpectsResponse(Way(n)[j].kind)
         /\ \A n \in Nodes : \A j \in 1 .. Len(back[n]) : ~ExpectsResponse(back[n][j].kind)
<1>1. Typed(ids, tx, rx, net, back) /\ Are(Queue, ids, tx, rx, net, back)
  BY QueueIs
<1>2. Cardinality(Marked(Queue, Waiting)) = 0
  BY DEF WaitInv, Number
<1>3. /\ Len(rx) = 0
      /\ \A k \in Nodes : \A j \in 1 .. Len(net[k] \o tx) : ~ExpectsResponse((net[k] \o tx)[j].kind)
      /\ \A k \in Nodes : \A j \in 1 .. Len(back[k]) : ~ExpectsResponse(back[k][j].kind)
  BY <1>1, <1>2, NothingWaits
<1> QED BY <1>3 DEF Way

LEMMA PacketsVacuous ==
  ASSUME QueuesInv', HostInv', WaitInv', ~broken' => Owed' = 0
  PROVE  OrderInv' /\ PacketsInv'
<1>1. CASE broken'
  BY <1>1 DEF OrderInv, PacketsInv
<1>2. CASE ~broken'
  <2>1. Typed(ids', tx', rx', net', back') /\ Are(Queue', ids', tx', rx', net', back')
    BY QueueIsNext
  <2>2. pending' = 0 /\ pending' = Cardinality(Marked(Queue', Waiting))
    BY <1>2, MarksConstant DEF WaitInv, Number
  <2>3. Cardinality(Marked(Queue', Waiting)) = 0
    BY <2>2
  <2>4. /\ Len(rx') = 0
        /\ \A k \in Nodes : \A j \in 1 .. Len(net'[k] \o tx') : ~ExpectsResponse((net'[k] \o tx')[j].kind)
        /\ \A k \in Nodes : \A j \in 1 .. Len(back'[k]) : ~ExpectsResponse(back'[k][j].kind)
    BY <2>1, <2>3, NothingWaits
  <2>5. OrderInv'
    BY <2>4 DEF OrderInv, Ordered, Way, ExpectsResponse
  <2>6. 1 .. Len(rx') = {}
    BY <2>4
  <2>7. PacketsInv'
    BY <2>4, <2>6 DEF PacketsInv, Way, ExpectsResponse
  <2> QED BY <2>5, <2>7
<1> QED BY <1>1, <1>2

(* What waits for a response belongs to the call in progress, and the load   *)
(* ids of a read that do are not on its stack.                               *)
LEMMA EntryKnown ==
  ASSUME QueuesInv, HostInv, WaitInv, IdsInv, ~broken,
         NEW q \in Queues, NEW m \in DOMAIN Queue[q], NEW x, x = Queue[q][m], <<q, x>> \in Waiting
  PROVE  /\ pending # 0 /\ <<q, x>> \notin Foreign(call.kind)
         /\ \A id \in Ids : call.kind = "read" /\ <<q, x>> \in Carrying(id) /\ q # IdsAt =>
              \A k \in DOMAIN ids : ids[k] # id
<1>1. Lists(Queue) /\ Are(Queue, ids, tx, rx, net, back) /\ Typed(ids, tx, rx, net, back)
  BY ListsNow, QueueIs
<1>2. pending = Cardinality(Marked(Queue, Waiting)) /\ Cardinality(Marked(Queue, Foreign(call.kind))) = 0
  BY DEF WaitInv, Number
<1>3. pending # 0
  BY <1>1, <1>2, MarkedNone
<1>4. <<q, x>> \notin Foreign(call.kind)
  BY <1>1, <1>2, MarkedNone
<1>5. ASSUME NEW id \in Ids, call.kind = "read", <<q, x>> \in Carrying(id), q # IdsAt,
             NEW k \in DOMAIN ids, ids[k] = id
      PROVE  FALSE
  <2>1. Cardinality(Marked(Queue, Carrying(id))) = 1
    BY <1>5 DEF IdsInv, Number
  <2>2. k \in DOMAIN Queue[IdsAt] /\ IdsAt \in Queues
    BY <1>1, QueueNames DEF Are
  <2>3. <<IdsAt, Queue[IdsAt][k]>> \in Carrying(id)
    BY <1>1, <1>5, CarryingIs DEF Are
  <2> QED BY <1>1, <1>5, <2>1, <2>2, <2>3, MarkedOnce
<1> QED BY <1>3, <1>4, <1>5

LEMMA WayKnown ==
  ASSUME QueuesInv, HostInv, WaitInv, IdsInv, ~broken,
         NEW n \in Nodes, NEW i \in 1 .. Len(Way(n)), NEW x, x = Way(n)[i], ExpectsResponse(x.kind)
  PROVE  /\ x \in Rqst /\ x.kind = call.kind /\ pending # 0
         /\ call.kind = "read" => \A k \in DOMAIN ids : ids[k] # x.id
<1>1. Typed(ids, tx, rx, net, back) /\ Are(Queue, ids, tx, rx, net, back)
  BY QueueIs
<1>2. PICK w : w = net[n] \o tx
  OBVIOUS
<1>3. x = w[i] /\ i \in 1 .. Len(w)
  BY <1>2 DEF Way
<1>4. OnWay(Queue, n, w[i])
  BY <1>1, <1>2, <1>3, WayEntry
<1>5. x \in Rqst /\ \E q \in {TxAt, NetAt(n)} : q \in Queues /\ \E m \in DOMAIN Queue[q] : Queue[q][m] = x
  BY <1>3, <1>4 DEF OnWay
<1>6. PICK q \in {TxAt, NetAt(n)} : q \in Queues /\ \E m \in DOMAIN Queue[q] : Queue[q][m] = x
  BY <1>5
<1>7. PICK m \in DOMAIN Queue[q] : x = Queue[q][m]
  BY <1>6
<1>8. /\ <<q, x>> \in Waiting /\ q # IdsAt
      /\ x.kind # call.kind => <<q, x>> \in Foreign(call.kind)
      /\ \A id : x.kind = "read" /\ x.id = id => <<q, x>> \in Carrying(id)
  <2>1. CASE q = TxAt
    BY <1>5, <2>1, WaitingIs, ForeignIs, CarryingIs, NamesDiffer
  <2>2. CASE q = NetAt(n)
    BY <1>5, <2>2, WaitingIs, ForeignIs, CarryingIs, NamesDiffer
  <2> QED BY <2>1, <2>2
<1>9. /\ pending # 0 /\ <<q, x>> \notin Foreign(call.kind)
      /\ \A id \in Ids : call.kind = "read" /\ <<q, x>> \in Carrying(id) /\ q # IdsAt =>
           \A k \in DOMAIN ids : ids[k] # id
  BY <1>6, <1>7, <1>8, EntryKnown
<1>10. x.id \in Ids
  BY <1>5 DEF Rqst
<1>11. x.kind = call.kind
  BY <1>8, <1>9
<1> QED BY <1>5, <1>8, <1>9, <1>10, <1>11

LEMMA BackKnown ==
  ASSUME QueuesInv, HostInv, WaitInv, IdsInv, ~broken,
         NEW n \in Nodes, NEW i \in 1 .. Len(back[n]), NEW x, x = back[n][i], ExpectsResponse(x.kind)
  PROVE  /\ x \in Rsp /\ x.kind = call.kind /\ pending # 0
         /\ call.kind = "read" => \A k \in DOMAIN ids : ids[k] # x.id
<1>1. Typed(ids, tx, rx, net, back) /\ Are(Queue, ids, tx, rx, net, back)
  BY QueueIs
<1>2. back[n] \in Seq(Rsp)
  BY DEF QueuesInv
<1>3. PICK q : q = BackAt(n)
  OBVIOUS
<1>4. q \in Queues /\ Queue[q] = back[n] /\ q # IdsAt
  BY <1>1, <1>3, QueueNames, NamesDiffer DEF Are
<1>5. x \in Rsp /\ i \in DOMAIN back[n]
  BY <1>2
<1>6. i \in DOMAIN Queue[q] /\ x = Queue[q][i]
  BY <1>4, <1>5
<1>7. /\ <<q, x>> \in Waiting
      /\ x.kind # call.kind => <<q, x>> \in Foreign(call.kind)
      /\ \A id : x.kind = "read" /\ x.id = id => <<q, x>> \in Carrying(id)
  BY <1>3, <1>5, WaitingIs, ForeignIs, CarryingIs
<1>8. /\ pending # 0 /\ <<q, x>> \notin Foreign(call.kind)
      /\ \A id \in Ids : call.kind = "read" /\ <<q, x>> \in Carrying(id) /\ q # IdsAt =>
           \A k \in DOMAIN ids : ids[k] # id
  BY <1>4, <1>6, <1>7, EntryKnown
<1>9. x.id \in Ids
  BY <1>5 DEF Rsp
<1>10. x.kind = call.kind
  BY <1>7, <1>8
<1> QED BY <1>4, <1>5, <1>7, <1>8, <1>9, <1>10

LEMMA RxKnown ==
  ASSUME QueuesInv, HostInv, WaitInv, IdsInv, ~broken,
         NEW i \in 1 .. Len(rx), NEW x, x = rx[i]
  PROVE  /\ x \in Data /\ pending # 0
         /\ call.kind = "read" => \A k \in DOMAIN ids : ids[k] # x.id
<1>1. Typed(ids, tx, rx, net, back) /\ Are(Queue, ids, tx, rx, net, back)
  BY QueueIs
<1>2. rx \in Seq(Data)
  BY DEF QueuesInv
<1>3. PICK q : q = RxAt
  OBVIOUS
<1>4. q \in Queues /\ Queue[q] = rx /\ q # IdsAt
  BY <1>1, <1>3, QueueNames, NamesDiffer DEF Are
<1>5. x \in Data /\ i \in DOMAIN rx
  BY <1>2
<1>6. i \in DOMAIN Queue[q] /\ x = Queue[q][i]
  BY <1>4, <1>5
<1>7. <<q, x>> \in Waiting /\ \A id : x.id = id => <<q, x>> \in Carrying(id)
  BY <1>3, <1>5, WaitingIs, CarryingIs
<1>8. /\ pending # 0
      /\ \A id \in Ids : call.kind = "read" /\ <<q, x>> \in Carrying(id) /\ q # IdsAt =>
           \A k \in DOMAIN ids : ids[k] # id
  BY <1>4, <1>6, <1>7, EntryKnown
<1>9. x.id \in Ids
  BY <1>5 DEF Data
<1> QED BY <1>4, <1>5, <1>7, <1>8, <1>9

LEMMA TellsSame ==
  ASSUME NEW x, call' = call, call.kind = "read" => id_to_rsp_i'[x.id] = id_to_rsp_i[x.id],
         \A a \in Addrs : Effective(a)' = Effective(a), Tells(x)
  PROVE  Tells(x)'
<1>1. PICK a \in Addrs : a = call.addrs[Index(x.id)] /\ Effective(a) = Told(x.val)
  BY DEF Tells
<1>2. Index(x.id)' = Index(x.id)
  BY DEF Index
<1>3. Told(x.val)' = Told(x.val)
  BY DEF Told
<1>4. a = call'.addrs[Index(x.id)'] /\ Effective(a)' = Told(x.val)'
  BY <1>1, <1>2, <1>3
<1> QED BY <1>4 DEF Tells

LEMMA AsksSame ==
  ASSUME NEW x, call' = call, call.kind = "read" => id_to_rsp_i'[x.id] = id_to_rsp_i[x.id], Asks(x)
  PROVE  Asks(x)'
<1>1. Index(x.id)' = Index(x.id)
  BY DEF Index
<1> QED BY <1>1 DEF Asks

(* The invariant in the next state, entry by entry.                          *)
LEMMA PacketsAre ==
  ASSUME ASSUME NEW n \in Nodes, NEW i \in 1 .. Len(Way(n)'), NEW x, x = Way(n)'[i],
                ExpectsResponse(x.kind)
         PROVE  Asks(x)',
         ASSUME NEW n \in Nodes, NEW i \in 1 .. Len(back'[n]), NEW x, x = back'[n][i],
                ExpectsResponse(x.kind)
         PROVE  Tells(x)',
         ASSUME NEW i \in 1 .. Len(rx'), NEW x, x = rx'[i] PROVE Tells(x)'
  PROVE  PacketsInv'
<1>1. ASSUME NEW n \in Nodes, NEW i \in 1 .. Len(Way(n)'), ExpectsResponse(Way(n)[i].kind)'
      PROVE  Asks(Way(n)[i])'
  <2>1. PICK x : x = Way(n)'[i]
    OBVIOUS
  <2>2. ExpectsResponse(x.kind)
    BY <1>1, <2>1 DEF ExpectsResponse
  <2>3. Asks(x)'
    BY <2>1, <2>2
  <2> QED BY <2>1, <2>3 DEF Asks
<1>2. ASSUME NEW n \in Nodes, NEW i \in 1 .. Len(back'[n]), ExpectsResponse(back[n][i].kind)'
      PROVE  Tells(back[n][i])'
  <2>1. PICK x : x = back'[n][i]
    OBVIOUS
  <2>2. ExpectsResponse(x.kind)
    BY <1>2, <2>1 DEF ExpectsResponse
  <2>3. Tells(x)'
    BY <2>1, <2>2
  <2> QED BY <2>1, <2>3 DEF Tells
<1>3. ASSUME NEW i \in 1 .. Len(rx') PROVE Tells(rx[i])'
  <2>1. PICK x : x = rx'[i]
    OBVIOUS
  <2>2. Tells(x)'
    BY <2>1
  <2> QED BY <2>1, <2>2 DEF Tells
<1> QED BY <1>1, <1>2, <1>3 DEF PacketsInv

(* The one request of an amoadd or load, with nothing else under way.        *)
LEMMA PacketsSingle ==
  ASSUME QueuesInv, HostInv, WaitInv, ~broken, SendSingle
  PROVE  OrderInv' /\ PacketsInv'
<1>1. PICK x : x = [kind |-> call.kind, addr |-> call.addrs[1], id |-> 0,
                    val |-> IF call.kind = "amoadd" THEN call.vals[1] ELSE 0]
  OBVIOUS
<1>2. /\ pc = "single" /\ Transmit(x) /\ UNCHANGED <<device, rx, call, broken>>
  BY <1>1 DEF SendSingle
<1>3. x \in Rqst
  BY <1>1, SingleRqst
<1>4. call.kind \in {"amoadd", "load"} /\ UNCHANGED <<net, back>>
  BY <1>2 DEF HostInv, Stage, device
<1>5. pending = 0
  <2>1. pending = Owed
    BY DEF WaitInv
  <2>2. Owed = 0
    BY <1>2, <1>4 DEF Owed
  <2> QED BY <2>1, <2>2
<1>6. /\ Len(rx) = 0
      /\ \A n \in Nodes : \A j \in 1 .. Len(Way(n)) : ~ExpectsResponse(Way(n)[j].kind)
      /\ \A n \in Nodes : \A j \in 1 .. Len(back[n]) : ~ExpectsResponse(back[n][j].kind)
  BY <1>5, NoneWaiting
<1>7. \A n \in Nodes : Added(Way(n), Way(n)', x)
  BY <1>2, <1>3, <1>4, WaySend
<1>8. ASSUME NEW n \in Nodes PROVE Ordered(Way(n)')
  <2>1. Ordered(Way(n))
    BY <1>6 DEF Ordered
  <2> QED BY <1>6, <1>7, <2>1, OrderedAdded
<1>9. OrderInv'
  BY <1>8 DEF OrderInv, Ordered, Quiet, ExpectsResponse
<1>10. Asks(x)'
  <2>1. call'.kind # "read" /\ call' = call
    BY <1>2, <1>4
  <2>2. Index(x.id)' = 1
    BY <2>1 DEF Index
  <2>3. x.addr = call'.addrs[1] /\ (x.kind = "amoadd" => x.val = call'.vals[1])
    BY <1>1, <2>1
  <2> QED BY <2>2, <2>3 DEF Asks
<1>11. ASSUME NEW n \in Nodes, NEW i \in 1 .. Len(Way(n)'), NEW y, y = Way(n)'[i],
              ExpectsResponse(y.kind)
       PROVE  Asks(y)'
  <2>1. Added(Way(n), Way(n)', x)
    BY <1>7
  <2>2. CASE i = Len(Way(n)) + 1
    <3>1. y = x
      BY <1>11, <2>1, <2>2 DEF Added
    <3> QED BY <1>10, <3>1
  <2>3. CASE i # Len(Way(n)) + 1
    <3>1. i \in 1 .. Len(Way(n)) /\ y = Way(n)[i]
      BY <1>11, <2>1, <2>3 DEF Added
    <3> QED BY <1>6, <1>11, <3>1
  <2> QED BY <2>2, <2>3
<1>12. ASSUME NEW n \in Nodes, NEW i \in 1 .. Len(back'[n]), NEW y, y = back'[n][i],
              ExpectsResponse(y.kind)
       PROVE  Tells(y)'
  BY <1>4, <1>6, <1>12
<1>13. ASSUME NEW i \in 1 .. Len(rx'), NEW y, y = rx'[i] PROVE Tells(y)'
  <2>1. 1 .. Len(rx') = {}
    BY <1>2, <1>6
  <2> QED BY <1>13, <2>1
<1> QED BY <1>9, <1>11, <1>12, <1>13, PacketsAre

LEMMA EffectiveRead ==
  ASSUME QueuesInv, NEW x \in Rqst, Transmit(x), UNCHANGED <<net, mem>>,
         Quiet(x.kind), NEW a \in Addrs
  PROVE  Effective(a)' = Effective(a)
<1>1. Effective(a)' = Served(Effective(a), a, x)
  BY EffectiveSend
<1>2. Served(Effective(a), a, x) = Effective(a)
  BY DEF Served, Effect, Quiet
<1> QED BY <1>1, <1>2

(* A request of a read, whose load id no other packet has.                   *)
LEMMA PacketsRequest ==
  ASSUME QueuesInv, HostInv, WaitInv, IdsInv, OrderInv, PacketsInv, ~broken, Request
  PROVE  OrderInv' /\ PacketsInv'
<1>1. PICK id, a, x : /\ id = Head(ids) /\ a = call.addrs[rqst_i + 1]
                      /\ x = [kind |-> "read", addr |-> a, id |-> id, val |-> 0]
  OBVIOUS
<1>2. /\ Transmit(x) /\ UNCHANGED <<device, rx, call, broken>> /\ ids # <<>>
      /\ id_to_rsp_i' = Put(id_to_rsp_i, id, rqst_i + 1)
  BY <1>1 DEF Request
<1>3. x \in Rqst /\ call.kind = "read" /\ Quiet(x.kind)
  <2>1. Quiet(x.kind)
    BY <1>1 DEF Quiet
  <2> QED BY <1>1, <2>1, ReadRqst, RequestFacts
<1>4. UNCHANGED <<net, back, mem>>
  BY <1>2 DEF device
<1>5. \A n \in Nodes : Added(Way(n), Way(n)', x)
  BY <1>2, <1>3, <1>4, WaySend
<1>6. ASSUME NEW n \in Nodes PROVE Ordered(Way(n)')
  <2>1. Ordered(Way(n))
    BY DEF OrderInv
  <2> QED BY <1>3, <1>5, <2>1, OrderedAdded
<1>7. OrderInv'
  BY <1>6 DEF OrderInv, Ordered, Quiet, ExpectsResponse
<1>8. id_to_rsp_i'[id] = rqst_i + 1 /\ \A k \in DOMAIN id_to_rsp_i : k # id => id_to_rsp_i'[k] = id_to_rsp_i[k]
  BY <1>2 DEF Put
<1>9. Asks(x)'
  <2>1. call' = call /\ call'.kind = "read"
    BY <1>2, <1>3
  <2>2. Index(x.id)' = rqst_i + 1
    BY <1>1, <1>8, <2>1 DEF Index
  <2>3. x.addr = call'.addrs[rqst_i + 1] /\ x.kind # "amoadd"
    BY <1>1, <2>1
  <2> QED BY <2>2, <2>3 DEF Asks
<1>10. 1 \in DOMAIN ids /\ ids[1] = id
  BY <1>1, <1>2, HeadTail DEF HostInv
<1>11. ASSUME NEW k \in Ids, \A j \in DOMAIN ids : ids[j] # k
       PROVE  id_to_rsp_i'[k] = id_to_rsp_i[k]
  <2>1. k \in DOMAIN id_to_rsp_i
    BY <1>3, <1>11 DEF IdsInv
  <2> QED BY <1>8, <1>10, <1>11, <2>1
<1>12. \A b \in Addrs : Effective(b)' = Effective(b)
  BY <1>2, <1>3, <1>4, EffectiveRead
<1>13. ASSUME NEW n \in Nodes, NEW i \in 1 .. Len(Way(n)'), NEW y, y = Way(n)'[i],
              ExpectsResponse(y.kind)
       PROVE  Asks(y)'
  <2>1. Added(Way(n), Way(n)', x)
    BY <1>5
  <2>2. CASE i = Len(Way(n)) + 1
    <3>1. y = x
      BY <1>13, <2>1, <2>2 DEF Added
    <3> QED BY <1>9, <3>1
  <2>3. CASE i # Len(Way(n)) + 1
    <3>1. i \in 1 .. Len(Way(n)) /\ y = Way(n)[i]
      BY <1>13, <2>1, <2>3 DEF Added
    <3>2. Asks(y)
      BY <1>13, <3>1 DEF PacketsInv
    <3>3. y \in Rqst /\ \A k \in DOMAIN ids : ids[k] # y.id
      BY <1>3, <1>13, <3>1, WayKnown
    <3>4. id_to_rsp_i'[y.id] = id_to_rsp_i[y.id]
      BY <1>11, <3>3 DEF Rqst
    <3> QED BY <1>2, <3>2, <3>4, AsksSame
  <2> QED BY <2>2, <2>3
<1>14. ASSUME NEW n \in Nodes, NEW i \in 1 .. Len(back'[n]), NEW y, y = back'[n][i],
              ExpectsResponse(y.kind)
       PROVE  Tells(y)'
  <2>1. i \in 1 .. Len(back[n]) /\ y = back[n][i]
    BY <1>4, <1>14
  <2>2. Tells(y)
    BY <1>14, <2>1 DEF PacketsInv
  <2>3. y \in Rsp /\ \A k \in DOMAIN ids : ids[k] # y.id
    BY <1>3, <1>14, <2>1, BackKnown
  <2>4. id_to_rsp_i'[y.id] = id_to_rsp_i[y.id]
    BY <1>11, <2>3 DEF Rsp
  <2> QED BY <1>2, <1>12, <2>2, <2>4, TellsSame
<1>15. ASSUME NEW i \in 1 .. Len(rx'), NEW y, y = rx'[i] PROVE Tells(y)'
  <2>1. i \in 1 .. Len(rx) /\ y = rx[i]
    BY <1>2, <1>15
  <2>2. Tells(y)
    BY <2>1 DEF PacketsInv
  <2>3. y \in Data /\ \A k \in DOMAIN ids : ids[k] # y.id
    BY <1>3, <2>1, RxKnown
  <2>4. id_to_rsp_i'[y.id] = id_to_rsp_i[y.id]
    BY <1>11, <2>3 DEF Data
  <2> QED BY <1>2, <1>12, <2>2, <2>4, TellsSame
<1> QED BY <1>7, <1>13, <1>14, <1>15, PacketsAre

(* Packets move on, and the host takes responses.                            *)
LEMMA PacketsNext ==
  ASSUME QueuesInv, OrderInv, PacketsInv, ~broken, UNCHANGED <<call, id_to_rsp_i>>,
         ~broken' => ~broken,
         \A a \in Addrs : Effective(a)' = Effective(a),
         \A n \in Nodes : Way(n)' = Way(n) \/ \E p : Removed(Way(n), Way(n)', p),
         ASSUME NEW n \in Nodes, NEW i \in 1 .. Len(back'[n]), NEW x, x = back'[n][i],
                ExpectsResponse(x.kind)
         PROVE  (\E j \in 1 .. Len(back[n]) : back[n][j] = x) \/ Tells(x)',
         ASSUME NEW i \in 1 .. Len(rx'), NEW x, x = rx'[i]
         PROVE  (\E j \in 1 .. Len(rx) : rx[j] = x) \/ Tells(x)'
  PROVE  OrderInv' /\ PacketsInv'
<1>1. OrderInv'
  BY OrderNext
<1>2. call' = call /\ id_to_rsp_i' = id_to_rsp_i
  OBVIOUS
<1>3. ASSUME NEW n \in Nodes, NEW i \in 1 .. Len(Way(n)'), NEW x, x = Way(n)'[i],
             ExpectsResponse(x.kind)
      PROVE  Asks(x)'
  <2>1. \E j \in 1 .. Len(Way(n)) : x = Way(n)[j]
    <3>1. CASE Way(n)' = Way(n)
      BY <1>3, <3>1
    <3>2. CASE \E p : Removed(Way(n), Way(n)', p)
      <4>1. PICK p : Removed(Way(n), Way(n)', p)
        BY <3>2
      <4>2. PICK s, t : s = Way(n) /\ t = Way(n)'
        OBVIOUS
      <4>3. Removed(s, t, p) /\ i \in 1 .. Len(t) /\ x = t[i]
        BY <1>3, <4>1, <4>2
      <4>4. \E j \in 1 .. Len(s) : x = s[j]
        BY <4>3, RemovedEntry
      <4> QED BY <4>2, <4>4
    <3> QED BY <3>1, <3>2
  <2>2. PICK j \in 1 .. Len(Way(n)) : x = Way(n)[j]
    BY <2>1
  <2>3. Asks(x)
    BY <1>3, <2>2 DEF PacketsInv
  <2> QED BY <1>2, <2>3, AsksSame
<1>4. ASSUME NEW n \in Nodes, NEW i \in 1 .. Len(back'[n]), NEW x, x = back'[n][i],
             ExpectsResponse(x.kind)
      PROVE  Tells(x)'
  <2>1. CASE \E j \in 1 .. Len(back[n]) : back[n][j] = x
    <3>1. Tells(x)
      BY <1>4, <2>1 DEF PacketsInv
    <3> QED BY <1>2, <3>1, TellsSame
  <2> QED BY <1>4, <2>1
<1>5. ASSUME NEW i \in 1 .. Len(rx'), NEW x, x = rx'[i] PROVE Tells(x)'
  <2>1. CASE \E j \in 1 .. Len(rx) : rx[j] = x
    <3>1. Tells(x)
      BY <2>1 DEF PacketsInv
    <3> QED BY <1>2, <3>1, TellsSame
  <2> QED BY <1>5, <2>1
<1> QED BY <1>1, <1>3, <1>4, <1>5, PacketsAre

(* What a node answers is the word with all requests before it, and those    *)
(* behind it change nothing.                                                 *)
LEMMA AnswerTells ==
  ASSUME QueuesInv, HostInv, WaitInv, IdsInv, OrderInv, PacketsInv, ~broken,
         NEW k \in Nodes, Serve(k),
         NEW x, x = Head(net[k]), ExpectsResponse(x.kind),
         NEW y, y = [kind |-> x.kind, id |-> x.id, val |-> mem[x.addr]]
  PROVE  Tells(y)'
<1>1. /\ x \in Rqst /\ x.addr[1] = k /\ UNCHANGED host
      /\ QueuesInv'
  BY ServeFacts
<1>2. UNCHANGED <<call, id_to_rsp_i>>
  BY <1>1 DEF host
<1>3. PICK s, t : s = Way(k) /\ t = Way(k)'
  OBVIOUS
<1>4. Removed(s, t, 1) /\ s[1] = x
  BY <1>3, WayServe
<1>5. Len(t) \in Nat /\ Len(s) = Len(t) + 1 /\ \A i \in 1 .. Len(t) : t[i] = s[i + 1]
  BY <1>4 DEF Removed
<1>6. 1 \in 1 .. Len(s)
  BY <1>5
<1>7. Asks(x) /\ x.kind = call.kind
  <2>1. 1 \in 1 .. Len(Way(k)) /\ x = Way(k)[1]
    BY <1>3, <1>4, <1>6
  <2>2. Asks(x)
    BY <2>1 DEF PacketsInv
  <2>3. x.kind = call.kind
    BY <2>1, WayKnown
  <2> QED BY <2>2, <2>3
<1>8. PICK a \in Addrs : a = x.addr
  BY <1>1 DEF Rqst
<1>9. a = call.addrs[Index(y.id)] /\ (x.kind = "amoadd" => x.val = call.vals[1])
  <2>1. y.id = x.id
    OBVIOUS
  <2> QED BY <1>7, <1>8, <2>1 DEF Asks
<1>10. Effective(a)' = After(Effect(mem[a], x), a, t)
  BY <1>3, <1>8, EffectiveServe
<1>11. \A i \in 1 .. Len(t) : t[i].kind \in {"load", "read"}
  <2>1. Ordered(s)
    BY <1>3 DEF OrderInv
  <2> TAKE i \in 1 .. Len(t)
  <2>2. i + 1 \in 1 .. Len(s) /\ 1 < i + 1
    BY <1>5
  <2>3. Quiet(s[i + 1].kind)
    BY <1>4, <1>6, <2>1, <2>2 DEF Ordered
  <2> QED BY <1>5, <2>3 DEF Quiet
<1>12. After(Effect(mem[a], x), a, t) = Effect(mem[a], x)
  BY <1>5, <1>11, AfterQuiet
<1>13. y.val = mem[a]
  BY <1>8
<1>14. Effect(mem[a], x) = Told(y.val)
  <2>1. CASE call.kind = "amoadd"
    BY <1>7, <1>9, <1>13, <2>1 DEF Effect, Told
  <2>2. CASE call.kind # "amoadd"
    <3>1. x.kind \notin {"write", "store", "amoadd"}
      BY <1>7, <2>2, KindsExpect
    <3>2. Effect(mem[a], x) = mem[a]
      BY <3>1 DEF Effect
    <3> QED BY <1>13, <2>2, <3>2 DEF Told
  <2> QED BY <2>1, <2>2
<1>15. Index(y.id)' = Index(y.id) /\ Told(y.val)' = Told(y.val) /\ call' = call
  BY <1>2 DEF Index, Told
<1>16. a = call'.addrs[Index(y.id)'] /\ Effective(a)' = Told(y.val)'
  BY <1>9, <1>10, <1>12, <1>14, <1>15
<1> QED BY <1>16 DEF Tells

LEMMA PacketsServe ==
  ASSUME QueuesInv, HostInv, WaitInv, IdsInv, OrderInv, PacketsInv, ~broken,
         NEW k \in Nodes, Serve(k)
  PROVE  OrderInv' /\ PacketsInv'
<1>1. PICK x : x = Head(net[k])
  OBVIOUS
<1>2. PICK y : y = [kind |-> x.kind, id |-> x.id, val |-> mem[x.addr]]
  OBVIOUS
<1>3. /\ y \in Rsp /\ back[k] \in Seq(Rsp)
      /\ back' = [back EXCEPT ![k] = Append(back[k], y)]
      /\ UNCHANGED <<host, rx, broken>>
  BY <1>1, <1>2, ServeFacts
<1>4. UNCHANGED <<call, id_to_rsp_i>>
  BY <1>3 DEF host
<1>5. \A a \in Addrs : Effective(a)' = Effective(a)
  BY EffectiveServe
<1>6. \A n \in Nodes : Way(n)' = Way(n) \/ \E p : Removed(Way(n), Way(n)', p)
  BY WayServe
<1>7. ASSUME NEW n \in Nodes, NEW i \in 1 .. Len(back'[n]), NEW z, z = back'[n][i],
             ExpectsResponse(z.kind)
      PROVE  (\E j \in 1 .. Len(back[n]) : back[n][j] = z) \/ Tells(z)'
  <2>1. CASE n # k
    <3>1. back'[n] = back[n]
      BY <1>3, <2>1 DEF QueuesInv
    <3> QED BY <1>7, <3>1
  <2>2. CASE n = k
    <3>1. back'[k] = Append(back[k], y)
      BY <1>3 DEF QueuesInv
    <3>2. /\ Len(back[k]) \in Nat /\ Len(Append(back[k], y)) = Len(back[k]) + 1
          /\ \A j \in 1 .. Len(back[k]) : Append(back[k], y)[j] = back[k][j]
          /\ Append(back[k], y)[Len(back[k]) + 1] = y
      BY <1>3, Appended
    <3>3. CASE i = Len(back[k]) + 1
      <4>1. z = y
        BY <1>7, <2>2, <3>1, <3>2, <3>3
      <4>2. ExpectsResponse(x.kind)
        BY <1>2, <1>7, <4>1
      <4> QED BY <1>1, <1>2, <4>1, <4>2, AnswerTells
    <3>4. CASE i # Len(back[k]) + 1
      <4>1. i \in 1 .. Len(back[k])
        BY <1>7, <2>2, <3>1, <3>2, <3>4
      <4>2. z = back[k][i]
        BY <1>7, <2>2, <3>1, <3>2, <4>1
      <4> QED BY <2>2, <4>1, <4>2
    <3> QED BY <3>3, <3>4
  <2> QED BY <2>1, <2>2
<1>8. ASSUME NEW i \in 1 .. Len(rx'), NEW z, z = rx'[i]
      PROVE  (\E j \in 1 .. Len(rx) : rx[j] = z) \/ Tells(z)'
  BY <1>3, <1>8
<1> QED BY <1>3, <1>4, <1>5, <1>6, <1>7, <1>8, PacketsNext

LEMMA PacketsGiveBack ==
  ASSUME QueuesInv, HostInv, OrderInv, PacketsInv, ~broken, NEW k \in Nodes, GiveBack(k)
  PROVE  OrderInv' /\ PacketsInv'
<1>1. PICK y, d : y = Head(back[k]) /\ d = [id |-> y.id, val |-> y.val]
  OBVIOUS
<1>2. /\ back[k] \in Seq(Rsp) /\ back[k] # <<>> /\ y \in Rsp
      /\ ExpectsResponse(y.kind) => rx' = Append(rx, d) /\ d \in Data
      /\ ~ExpectsResponse(y.kind) => rx' = rx
      /\ back' = [back EXCEPT ![k] = Tail(back[k])]
      /\ UNCHANGED <<host, tx, net, mem, broken>>
  BY <1>1, GiveBackFacts
<1>3. UNCHANGED <<call, id_to_rsp_i>>
  BY <1>2 DEF host
<1>4. \A a \in Addrs : Effective(a)' = Effective(a)
  BY <1>2, EffectiveSame
<1>5. \A n \in Nodes : Way(n)' = Way(n)
  BY <1>2 DEF Way
<1>6. /\ Len(back[k]) \in Nat /\ Len(back[k]) > 0 /\ y = back[k][1]
      /\ Len(Tail(back[k])) = Len(back[k]) - 1
      /\ \A i \in 1 .. Len(back[k]) - 1 : Tail(back[k])[i] = back[k][i + 1]
  BY <1>1, <1>2, HeadTail
<1>7. ASSUME NEW n \in Nodes, NEW i \in 1 .. Len(back'[n]), NEW z, z = back'[n][i],
             ExpectsResponse(z.kind)
      PROVE  (\E j \in 1 .. Len(back[n]) : back[n][j] = z) \/ Tells(z)'
  <2>1. CASE n # k
    <3>1. back'[n] = back[n]
      BY <1>2, <2>1 DEF QueuesInv
    <3> QED BY <1>7, <3>1
  <2>2. CASE n = k
    <3>1. back'[k] = Tail(back[k])
      BY <1>2 DEF QueuesInv
    <3>2. i \in 1 .. Len(back[k]) - 1 /\ i + 1 \in 1 .. Len(back[k])
      BY <1>6, <1>7, <2>2, <3>1
    <3>3. z = back[k][i + 1]
      BY <1>6, <1>7, <2>2, <3>1, <3>2
    <3> QED BY <2>2, <3>2, <3>3
  <2> QED BY <2>1, <2>2
<1>8. ASSUME ExpectsResponse(y.kind) PROVE Tells(d)'
  <2>1. 1 \in 1 .. Len(back[k])
    BY <1>6
  <2>2. Tells(y)
    BY <1>6, <1>8, <2>1 DEF PacketsInv
  <2>3. Tells(y)'
    BY <1>3, <1>4, <2>2, TellsSame
  <2>4. d.id = y.id /\ d.val = y.val
    BY <1>1
  <2> QED BY <2>3, <2>4 DEF Tells
<1>9. ASSUME NEW i \in 1 .. Len(rx'), NEW z, z = rx'[i]
      PROVE  (\E j \in 1 .. Len(rx) : rx[j] = z) \/ Tells(z)'
  <2>1. CASE ~ExpectsResponse(y.kind)
    BY <1>2, <1>9, <2>1
  <2>2. CASE ExpectsResponse(y.kind)
    <3>1. rx \in Seq(Data) /\ d \in Data /\ rx' = Append(rx, d)
      BY <1>2, <2>2 DEF QueuesInv
    <3>2. /\ Len(rx) \in Nat /\ Len(Append(rx, d)) = Len(rx) + 1
          /\ \A j \in 1 .. Len(rx) : Append(rx, d)[j] = rx[j]
          /\ Append(rx, d)[Len(rx) + 1] = d
      BY <3>1, Appended
    <3>3. CASE i = Len(rx) + 1
      <4>1. z = d
        BY <1>9, <3>1, <3>2, <3>3
      <4> QED BY <1>8, <2>2, <4>1
    <3>4. CASE i # Len(rx) + 1
      <4>1. i \in 1 .. Len(rx) /\ z = rx[i]
        BY <1>9, <3>1, <3>2, <3>4
      <4> QED BY <4>1
    <3> QED BY <3>3, <3>4
  <2> QED BY <2>1, <2>2
<1> QED BY <1>2, <1>3, <1>4, <1>5, <1>7, <1>9, PacketsNext

LEMMA PacketsRespond ==
  ASSUME QueuesInv, OrderInv, PacketsInv, ~broken, Receive,
         UNCHANGED <<tx, device, broken, call, id_to_rsp_i>>
  PROVE  OrderInv' /\ PacketsInv'
<1>1. rx # <<>> /\ rx' = Tail(rx) /\ UNCHANGED <<tx, net, back, mem>>
  BY DEF Receive, device
<1>2. rx \in Seq(Data)
  BY DEF QueuesInv
<1>3. /\ Len(rx) \in Nat /\ Len(rx) > 0 /\ Len(Tail(rx)) = Len(rx) - 1
      /\ \A i \in 1 .. Len(rx) - 1 : Tail(rx)[i] = rx[i + 1]
  BY <1>1, <1>2, HeadTail
<1>4. \A a \in Addrs : Effective(a)' = Effective(a)
  BY <1>1, EffectiveSame
<1>5. \A n \in Nodes : Way(n)' = Way(n)
  BY <1>1 DEF Way
<1>6. ASSUME NEW n \in Nodes, NEW i \in 1 .. Len(back'[n]), NEW z, z = back'[n][i],
             ExpectsResponse(z.kind)
      PROVE  (\E j \in 1 .. Len(back[n]) : back[n][j] = z) \/ Tells(z)'
  BY <1>1, <1>6
<1>7. ASSUME NEW i \in 1 .. Len(rx'), NEW z, z = rx'[i]
      PROVE  (\E j \in 1 .. Len(rx) : rx[j] = z) \/ Tells(z)'
  <2>1. i \in 1 .. Len(rx) - 1 /\ i + 1 \in 1 .. Len(rx)
    BY <1>1, <1>3, <1>7
  <2>2. z = rx[i + 1]
    BY <1>1, <1>3, <1>7, <2>1
  <2> QED BY <2>1, <2>2
<1> QED BY <1>4, <1>5, <1>6, <1>7, PacketsNext

LEMMA PacketsSame ==
  ASSUME OrderInv, PacketsInv, UNCHANGED <<call, id_to_rsp_i, tx, net, back, rx, mem, broken>>
  PROVE  OrderInv' /\ PacketsInv'
BY DEF OrderInv, PacketsInv, Ordered, Quiet, ExpectsResponse, Way, Asks, Tells, Index, Told, Effective

LEMMA PacketsStep ==
  ASSUME QueuesInv, HostInv, WaitInv, IdsInv, OrderInv, PacketsInv,
         QueuesInv', HostInv', WaitInv', [Next]_vars
  PROVE  OrderInv' /\ PacketsInv'
<1>none. ASSUME ~broken' => Owed' = 0 PROVE OrderInv' /\ PacketsInv'
  BY <1>none, PacketsVacuous
<1>idle. ASSUME pc' = "idle", call' = NoCall PROVE OrderInv' /\ PacketsInv'
  <2>1. Owed' = 0
    BY <1>idle, NotACall DEF Owed
  <2> QED BY <2>1, <1>none
<1>leave. ASSUME NEW r, LeaveWith(r) PROVE OrderInv' /\ PacketsInv'
  BY <1>leave, <1>idle DEF LeaveWith
<1>keep. ASSUME broken' = broken, ~broken => OrderInv' /\ PacketsInv'
         PROVE  OrderInv' /\ PacketsInv'
  <2>1. CASE broken
    BY <1>keep, <1>none, <2>1
  <2> QED BY <1>keep, <2>1
<1>1. ASSUME NEW c \in Calls, Begin(c) PROVE OrderInv' /\ PacketsInv'
  <2>1. pc = "idle" /\ pc' = Start(c) /\ UNCHANGED <<rqst_i, rsp_i>>
    BY <1>1 DEF Begin
  <2>2. rqst_i = 0 /\ rsp_i = 0
    BY <2>1 DEF HostInv, Stage
  <2>3. pc' # "answer"
    BY <2>1, CallKinds
  <2>4. Owed' = 0
    BY <2>1, <2>2, <2>3 DEF Owed
  <2> QED BY <2>4, <1>none
<1>2. CASE Store
  <2>1. pc = "store" /\ pc' \in {"store", "stored"} /\ call' = call
    BY <1>2 DEF Store
  <2>2. call.kind \in {"write", "store"}
    BY <2>1 DEF HostInv, Stage
  <2>3. Owed' = 0
    BY <2>1, <2>2 DEF Owed
  <2> QED BY <2>3, <1>none
<1>3. CASE StoreReturns
  BY <1>3, <1>leave DEF StoreReturns
<1>4. CASE SendSingle
  <2>1. broken' = broken
    BY <1>4 DEF SendSingle
  <2>2. ~broken => OrderInv' /\ PacketsInv'
    BY <1>4, PacketsSingle
  <2> QED BY <2>1, <2>2, <1>keep
<1>5. CASE TakeSingle
  BY <1>5, <1>leave DEF TakeSingle
<1>6. CASE Request
  <2>1. broken' = broken
    BY <1>6 DEF Request
  <2>2. ~broken => OrderInv' /\ PacketsInv'
    BY <1>6, PacketsRequest
  <2> QED BY <2>1, <2>2, <1>keep
<1>7. CASE RequestFails
  BY <1>7, <1>leave DEF RequestFails
<1>8. CASE Respond
  <2>1. PICK d, data : d = Head(rx) /\ data = Put(result, Slot(d.id), d.val)
    OBVIOUS
  <2>2. /\ UNCHANGED <<tx, device, broken>>
        /\ LeaveWith(<<>>) \/ LeaveWith(data) \/ UNCHANGED <<call, id_to_rsp_i>>
    BY <1>8, <2>1, RespondFacts
  <2>3. Receive
    BY <1>8 DEF Respond
  <2>4. CASE UNCHANGED <<call, id_to_rsp_i>>
    <3>1. ~broken => OrderInv' /\ PacketsInv'
      BY <2>2, <2>3, <2>4, PacketsRespond
    <3> QED BY <2>2, <3>1, <1>keep
  <2> QED BY <2>2, <2>4, <1>leave
<1>9. CASE Inject
  <2>1. UNCHANGED <<host, back, rx, broken>>
    BY <1>9, InjectFacts
  <2>2. UNCHANGED <<call, id_to_rsp_i>>
    BY <2>1 DEF host
  <2>3. \A a \in Addrs : Effective(a)' = Effective(a)
    BY <1>9, EffectiveInject
  <2>4. \A n \in Nodes : Way(n)' = Way(n) \/ \E p : Removed(Way(n), Way(n)', p)
    BY <1>9, WayInject
  <2>5. ASSUME ~broken PROVE OrderInv' /\ PacketsInv'
    <3>1. ASSUME NEW n \in Nodes, NEW i \in 1 .. Len(back'[n]), NEW z, z = back'[n][i],
                 ExpectsResponse(z.kind)
          PROVE  (\E j \in 1 .. Len(back[n]) : back[n][j] = z) \/ Tells(z)'
      BY <2>1, <3>1
    <3>2. ASSUME NEW i \in 1 .. Len(rx'), NEW z, z = rx'[i]
          PROVE  (\E j \in 1 .. Len(rx) : rx[j] = z) \/ Tells(z)'
      BY <2>1, <3>2
    <3> QED BY <2>1, <2>2, <2>3, <2>4, <2>5, <3>1, <3>2, PacketsNext
  <2> QED BY <2>1, <2>5, <1>keep
<1>10. ASSUME NEW n \in Nodes, Serve(n) PROVE OrderInv' /\ PacketsInv'
  <2>1. broken' = broken
    BY <1>10 DEF Serve
  <2>2. ~broken => OrderInv' /\ PacketsInv'
    BY <1>10, PacketsServe
  <2> QED BY <2>1, <2>2, <1>keep
<1>11. ASSUME NEW n \in Nodes, GiveBack(n) PROVE OrderInv' /\ PacketsInv'
  <2>1. broken' = broken
    BY <1>11 DEF GiveBack
  <2>2. ~broken => OrderInv' /\ PacketsInv'
    BY <1>11, PacketsGiveBack
  <2> QED BY <2>1, <2>2, <1>keep
<1>12. CASE UNCHANGED vars
  <2>1. UNCHANGED <<call, id_to_rsp_i, tx, net, back, rx, mem, broken>>
    BY <1>12 DEF vars, host, device
  <2> QED BY <2>1, PacketsSame
<1> QED BY <1>1, <1>2, <1>3, <1>4, <1>5, <1>6, <1>7, <1>8, <1>9, <1>10, <1>11, <1>12 DEF Next

-----------------------------------------------------------------------------
(* What a read returns *)

(* A read has the words it asked for, or their load ids are not free.        *)
ResultInv ==
  call.kind = "read" /\ ~broken =>
    /\ \A i \in 1 .. rqst_i : call.addrs[i] \in Addrs
    /\ DOMAIN result \subseteq 1 .. rqst_i
    /\ \A i \in DOMAIN result : \E a \in Addrs : a = call.addrs[i] /\ Effective(a) = result[i]
    /\ \A i \in 1 .. rqst_i : i \in DOMAIN result \/
         \E id \in DOMAIN id_to_rsp_i : id_to_rsp_i[id] = i /\ \A k \in DOMAIN ids : ids[k] # id

LEMMA ResultRequest ==
  ASSUME QueuesInv, HostInv, WaitInv, IdsInv, ResultInv, ~broken, Request
  PROVE  ResultInv'
<1>1. PICK id, a, x : /\ id = Head(ids) /\ a = call.addrs[rqst_i + 1]
                      /\ x = [kind |-> "read", addr |-> a, id |-> id, val |-> 0]
  OBVIOUS
<1>2. /\ Transmit(x) /\ UNCHANGED <<device, call, result, broken>> /\ ids # <<>> /\ a \in Addrs
      /\ id_to_rsp_i' = Put(id_to_rsp_i, id, rqst_i + 1) /\ ids' = Tail(ids) /\ rqst_i' = rqst_i + 1
  BY <1>1 DEF Request
<1>3. x \in Rqst /\ call.kind = "read" /\ Quiet(x.kind) /\ rqst_i \in Nat /\ id \in Ids
  <2>1. Quiet(x.kind)
    BY <1>1 DEF Quiet
  <2>2. rqst_i \in Nat
    BY RequestFacts
  <2> QED BY <1>1, <2>1, <2>2, ReadRqst, RequestFacts
<1>4. UNCHANGED <<net, mem>>
  BY <1>2 DEF device
<1>5. \A b \in Addrs : Effective(b)' = Effective(b)
  BY <1>2, <1>3, <1>4, EffectiveRead
<1>6. /\ \A i \in 1 .. rqst_i : call.addrs[i] \in Addrs
      /\ DOMAIN result \subseteq 1 .. rqst_i
      /\ \A i \in DOMAIN result : \E b \in Addrs : b = call.addrs[i] /\ Effective(b) = result[i]
      /\ \A i \in 1 .. rqst_i : i \in DOMAIN result \/
           \E k \in DOMAIN id_to_rsp_i : id_to_rsp_i[k] = i /\ \A l \in DOMAIN ids : ids[l] # k
  BY <1>3 DEF ResultInv
<1>7. /\ DOMAIN ids = 1 .. Len(ids) /\ Len(ids) \in Nat /\ Len(ids) > 0 /\ ids[1] = id
      /\ DOMAIN Tail(ids) = 1 .. Len(ids) - 1
      /\ \A l \in 1 .. Len(ids) - 1 : Tail(ids)[l] = ids[l + 1]
  BY <1>1, <1>2, HeadTail DEF HostInv
<1>8. /\ DOMAIN id_to_rsp_i' = DOMAIN id_to_rsp_i \cup {id} /\ id_to_rsp_i'[id] = rqst_i + 1
      /\ \A k \in DOMAIN id_to_rsp_i : k # id => id_to_rsp_i'[k] = id_to_rsp_i[k]
  BY <1>2 DEF Put
<1>9. \A i \in 1 .. rqst_i + 1 : i \in 1 .. rqst_i \/ i = rqst_i + 1
  BY <1>3
<1>10. ASSUME NEW k, \A l \in DOMAIN ids : ids[l] # k PROVE \A l \in DOMAIN ids' : ids'[l] # k
  <2> TAKE l \in DOMAIN ids'
  <2>1. l \in 1 .. Len(ids) - 1 /\ l + 1 \in 1 .. Len(ids)
    BY <1>2, <1>7
  <2> QED BY <1>2, <1>7, <1>10, <2>1
<1>11. \A l \in DOMAIN ids' : ids'[l] # id
  <2> SUFFICES ASSUME NEW l \in DOMAIN ids', ids'[l] = id PROVE FALSE
    OBVIOUS
  <2>1. l \in 1 .. Len(ids) - 1 /\ l + 1 \in 1 .. Len(ids) /\ l + 1 # 1
    BY <1>2, <1>7
  <2>2. ids[l + 1] = id
    BY <1>2, <1>7, <2>1
  <2>3. Typed(ids, tx, rx, net, back) /\ Are(Queue, ids, tx, rx, net, back) /\ Lists(Queue)
    BY QueueIs, ListsNow
  <2>4. Cardinality(Marked(Queue, Carrying(id))) = 1
    BY <1>3 DEF IdsInv, Number
  <2>5. Queue[IdsAt] = ids /\ IdsAt \in Queues
    BY <2>3, QueueNames DEF Are
  <2>6. <<IdsAt, id>> \in Carrying(id)
    BY <1>3, CarryingIs
  <2>7. PICK one, next : one = 1 /\ next = l + 1
    OBVIOUS
  <2>8. /\ one \in DOMAIN Queue[IdsAt] /\ Queue[IdsAt][one] = id
        /\ next \in DOMAIN Queue[IdsAt] /\ Queue[IdsAt][next] = id
    BY <1>7, <2>1, <2>2, <2>5, <2>7
  <2>9. one = next
    BY <2>3, <2>4, <2>5, <2>6, <2>8, MarkedOnce
  <2> QED BY <2>1, <2>7, <2>9
<1>12. \A i \in 1 .. rqst_i' : call'.addrs[i] \in Addrs
  BY <1>1, <1>2, <1>6, <1>9
<1>13. DOMAIN result' \subseteq 1 .. rqst_i'
  BY <1>2, <1>3, <1>6
<1>14. \A i \in DOMAIN result' : \E b \in Addrs : b = call'.addrs[i] /\ Effective(b)' = result'[i]
  BY <1>2, <1>5, <1>6
<1>15. ASSUME NEW i \in 1 .. rqst_i'
       PROVE  i \in DOMAIN result' \/
           \E k \in DOMAIN id_to_rsp_i' : id_to_rsp_i'[k] = i /\ \A l \in DOMAIN ids' : ids'[l] # k
  <2>1. CASE i = rqst_i + 1
    BY <1>8, <1>11, <2>1
  <2>2. CASE i # rqst_i + 1
    <3>1. i \in 1 .. rqst_i
      BY <1>2, <1>9, <2>2
    <3>2. CASE i \in DOMAIN result
      BY <1>2, <3>2
    <3>3. CASE i \notin DOMAIN result
      <4>1. PICK k \in DOMAIN id_to_rsp_i : id_to_rsp_i[k] = i /\ \A l \in DOMAIN ids : ids[l] # k
        BY <1>6, <3>1, <3>3
      <4>2. k # id
        BY <1>7, <4>1
      <4>3. k \in DOMAIN id_to_rsp_i' /\ id_to_rsp_i'[k] = i
        BY <1>8, <4>1, <4>2
      <4>4. \A l \in DOMAIN ids' : ids'[l] # k
        BY <1>10, <4>1
      <4> QED BY <4>3, <4>4
    <3> QED BY <3>2, <3>3
  <2> QED BY <2>1, <2>2
<1> QED BY <1>12, <1>13, <1>14, <1>15 DEF ResultInv

(* The response at the head of the FIFO and the word it is.                  *)
LEMMA ResponseWord ==
  ASSUME QueuesInv, HostInv, IdsInv, PacketsInv, ResultInv, ~broken, Respond,
         NEW d, d = Head(rx), NEW j, j = id_to_rsp_i[d.id], NEW data, data = Put(result, j, d.val)
  PROVE  /\ d \in Data /\ d.id \in DOMAIN id_to_rsp_i /\ call.kind = "read"
         /\ j \in 1 .. rqst_i /\ data = Put(result, Slot(d.id), d.val)
         /\ DOMAIN data = DOMAIN result \cup {j}
         /\ \A i \in DOMAIN data : \E a \in Addrs : a = call.addrs[i] /\ Effective(a) = data[i]
<1>1. call.kind = "read" /\ rx # <<>>
  <2>1. PICK word : word = Put(result, Slot(d.id), d.val)
    OBVIOUS
  <2> QED BY <2>1, RespondFacts
<1>2. d \in Data /\ d.id \in DOMAIN id_to_rsp_i
  BY <1>1, ResponseKnown
<1>3. j \in 1 .. rqst_i
  BY <1>2 DEF HostInv
<1>4. data = Put(result, Slot(d.id), d.val)
  BY DEF Slot
<1>5. d = rx[1] /\ 1 \in 1 .. Len(rx)
  <2>1. rx \in Seq(Data)
    BY DEF QueuesInv
  <2>2. Len(rx) \in Nat /\ Len(rx) > 0 /\ Head(rx) = rx[1]
    BY <1>1, <2>1, HeadTail
  <2> QED BY <2>2
<1>6. Tells(d)
  BY <1>5 DEF PacketsInv
<1>7. PICK a \in Addrs : a = call.addrs[j] /\ Effective(a) = d.val
  BY <1>1, <1>6 DEF Tells, Index, Told
<1>8. /\ DOMAIN data = DOMAIN result \cup {j} /\ data[j] = d.val
      /\ \A i \in DOMAIN result : i # j => data[i] = result[i]
  BY DEF Put
<1>9. \A i \in DOMAIN result : \E b \in Addrs : b = call.addrs[i] /\ Effective(b) = result[i]
  BY <1>1 DEF ResultInv
<1>10. ASSUME NEW i \in DOMAIN data
       PROVE  \E b \in Addrs : b = call.addrs[i] /\ Effective(b) = data[i]
  <2>1. CASE i = j
    BY <1>7, <1>8, <2>1
  <2>2. CASE i # j
    <3>1. i \in DOMAIN result /\ data[i] = result[i]
      BY <1>8, <2>2
    <3> QED BY <1>9, <3>1
  <2> QED BY <2>1, <2>2
<1> QED BY <1>1, <1>2, <1>3, <1>4, <1>8, <1>10

LEMMA ResultRespond ==
  ASSUME QueuesInv, HostInv, IdsInv, PacketsInv, ResultInv, ~broken, Respond,
         UNCHANGED <<call, rqst_i, id_to_rsp_i, tx, device>>,
         NEW d, d = Head(rx), ids' = Recycle(d.id), result' = Put(result, Slot(d.id), d.val)
  PROVE  ResultInv'
<1>1. PICK j : j = id_to_rsp_i[d.id]
  OBVIOUS
<1>2. PICK data : data = Put(result, j, d.val)
  OBVIOUS
<1>3. /\ d \in Data /\ d.id \in DOMAIN id_to_rsp_i /\ call.kind = "read"
      /\ j \in 1 .. rqst_i /\ data = Put(result, Slot(d.id), d.val)
      /\ DOMAIN data = DOMAIN result \cup {j}
      /\ \A i \in DOMAIN data : \E a \in Addrs : a = call.addrs[i] /\ Effective(a) = data[i]
  BY <1>1, <1>2, ResponseWord
<1>4. result' = data
  BY <1>3
<1>5. \A a \in Addrs : Effective(a)' = Effective(a)
  BY EffectiveSame DEF device
<1>6. /\ \A i \in 1 .. rqst_i : call.addrs[i] \in Addrs
      /\ DOMAIN result \subseteq 1 .. rqst_i
      /\ \A i \in 1 .. rqst_i : i \in DOMAIN result \/
           \E k \in DOMAIN id_to_rsp_i : id_to_rsp_i[k] = i /\ \A l \in DOMAIN ids : ids[l] # k
  BY <1>3 DEF ResultInv
<1>7. DOMAIN result' \subseteq 1 .. rqst_i
  BY <1>3, <1>4, <1>6
<1>8. \A i \in DOMAIN result' : \E a \in Addrs : a = call.addrs[i] /\ Effective(a)' = result'[i]
  BY <1>3, <1>4, <1>5
<1>9. ids \in Seq(Ids) /\ d.id \in Ids /\ ids' = <<d.id>> \o ids
  BY <1>3 DEF HostInv, Data, Recycle
<1>10. /\ Len(ids) \in Nat /\ DOMAIN ids = 1 .. Len(ids) /\ DOMAIN ids' = 1 .. Len(ids) + 1
       /\ ids'[1] = d.id /\ \A l \in 1 .. Len(ids) : ids'[l + 1] = ids[l]
  <2>1. Len(ids) \in Nat /\ DOMAIN ids = 1 .. Len(ids)
    BY <1>9
  <2>2. /\ DOMAIN (<<d.id>> \o ids) = 1 .. Len(ids) + 1 /\ (<<d.id>> \o ids)[1] = d.id
        /\ \A l \in 1 .. Len(ids) : (<<d.id>> \o ids)[l + 1] = ids[l]
    BY <1>9, Pushed
  <2> QED BY <1>9, <2>1, <2>2
<1>11. ASSUME NEW i \in 1 .. rqst_i
       PROVE  i \in DOMAIN result' \/
           \E k \in DOMAIN id_to_rsp_i : id_to_rsp_i[k] = i /\ \A l \in DOMAIN ids' : ids'[l] # k
  <2>1. CASE i \in DOMAIN result \/ i = j
    BY <1>3, <1>4, <2>1
  <2>2. CASE i \notin DOMAIN result /\ i # j
    <3>1. PICK k \in DOMAIN id_to_rsp_i : id_to_rsp_i[k] = i /\ \A l \in DOMAIN ids : ids[l] # k
      BY <1>6, <2>2
    <3>2. k # d.id
      BY <1>1, <2>2, <3>1
    <3>3. ASSUME NEW l \in DOMAIN ids' PROVE ids'[l] # k
      <4>1. CASE l = 1
        BY <1>10, <3>2, <4>1
      <4>2. CASE l # 1
        <5>1. l - 1 \in 1 .. Len(ids) /\ (l - 1) + 1 = l
          BY <1>10, <4>2
        <5>2. ids'[l] = ids[l - 1]
          BY <1>10, <5>1
        <5> QED BY <1>10, <3>1, <5>1, <5>2
      <4> QED BY <4>1, <4>2
    <3> QED BY <3>1, <3>3
  <2> QED BY <2>1, <2>2
<1> QED BY <1>6, <1>7, <1>8, <1>11 DEF ResultInv

(* With the last response, a read has all its words.                         *)
LEMMA LastResponse ==
  ASSUME QueuesInv, HostInv, WaitInv, IdsInv, PacketsInv, ResultInv, ~broken, Respond,
         rsp_i + 1 = Count,
         NEW d, d = Head(rx), NEW data, data = Put(result, Slot(d.id), d.val)
  PROVE  /\ call.kind = "read" /\ DOMAIN data = 1 .. Count /\ DOMAIN call.addrs = 1 .. Count
         /\ \A i \in 1 .. Count : call.addrs[i] \in Addrs
         /\ \A i \in 1 .. Count : \E a \in Addrs : a = call.addrs[i] /\ Effective(a) = data[i]
<1>1. PICK j : j = id_to_rsp_i[d.id]
  OBVIOUS
<1>2. data = Put(result, j, d.val)
  BY <1>1 DEF Slot
<1>3. /\ d \in Data /\ d.id \in DOMAIN id_to_rsp_i /\ call.kind = "read" /\ j \in 1 .. rqst_i
      /\ DOMAIN data = DOMAIN result \cup {j}
      /\ \A i \in DOMAIN data : \E a \in Addrs : a = call.addrs[i] /\ Effective(a) = data[i]
  BY <1>1, <1>2, ResponseWord
<1>4. /\ pc = "receive" /\ call \in Calls /\ Count \in Nat
      /\ rqst_i \in 1 .. Count /\ rsp_i \in 0 .. rqst_i - 1 /\ rx # <<>>
  BY RespondFacts
<1>5. rqst_i = Count
  BY <1>4
<1>6. /\ \A i \in 1 .. Count : call.addrs[i] \in Addrs
      /\ DOMAIN result \subseteq 1 .. Count
      /\ \A i \in 1 .. Count : i \in DOMAIN result \/
           \E k \in DOMAIN id_to_rsp_i : id_to_rsp_i[k] = i /\ \A l \in DOMAIN ids : ids[l] # k
  BY <1>3, <1>5 DEF ResultInv
<1>7. Cardinality(Marked(Queue, Waiting)) = 1 /\ Cardinality(Marked(Queue, Foreign("read"))) = 0
  <2>1. Owed = rqst_i - rsp_i
    BY <1>3, <1>4 DEF Owed
  <2>2. Owed = 1
    BY <1>4, <1>5, <2>1
  <2> QED BY <1>3, <2>2 DEF WaitInv, Number
<1>8. Typed(ids, tx, rx, net, back) /\ Are(Queue, ids, tx, rx, net, back) /\ Lists(Queue)
  BY QueueIs, ListsNow
<1>9. /\ RxAt \in Queues /\ 1 \in DOMAIN Queue[RxAt] /\ Queue[RxAt][1] = d
      /\ <<RxAt, d>> \in Waiting
  <2>1. rx \in Seq(Data) /\ Queue[RxAt] = rx
    BY <1>8 DEF Typed, Are
  <2>2. 1 \in DOMAIN rx /\ rx[1] = d
    BY <1>4, <2>1, HeadTail
  <2> QED BY <1>3, <2>1, <2>2, QueueNames, WaitingIs
<1>10. ASSUME NEW i \in 1 .. Count PROVE i \in DOMAIN data
  <2> SUFFICES ASSUME i \notin DOMAIN data PROVE FALSE
    OBVIOUS
  <2>1. i \notin DOMAIN result /\ i # j
    BY <1>3
  <2>2. PICK k \in DOMAIN id_to_rsp_i : id_to_rsp_i[k] = i /\ \A l \in DOMAIN ids : ids[l] # k
    BY <1>6, <2>1
  <2>3. k \in Ids /\ k # d.id
    BY <1>1, <2>1, <2>2 DEF HostInv
  <2>4. Cardinality(Marked(Queue, Carrying(k))) = 1
    BY <1>3, <2>3 DEF IdsInv, Number
  <2>q. PICK q \in Queues : \E m \in DOMAIN Queue[q] : <<q, Queue[q][m]>> \in Carrying(k)
    <3>1. ~(Cardinality(Marked(Queue, Carrying(k))) = 0)
      BY <2>4
    <3> QED BY <1>8, <3>1, MarkedNone
  <2>5. PICK m \in DOMAIN Queue[q] : <<q, Queue[q][m]>> \in Carrying(k)
    BY <2>q
  <2>6. PICK x : x = Queue[q][m]
    OBVIOUS
  <2>7. q = IdsAt => FALSE
    <3> SUFFICES ASSUME q = IdsAt PROVE FALSE
      OBVIOUS
    <3>1. Queue[q] = ids /\ ids \in Seq(Ids)
      BY <1>8 DEF Typed, Are
    <3>2. x \in Ids /\ m \in DOMAIN ids /\ ids[m] = x
      BY <2>6, <3>1
    <3>3. x = k
      BY <2>5, <2>6, <3>2, CarryingIs
    <3> QED BY <2>2, <3>2, <3>3
  <2>8. <<q, x>> \in Waiting /\ ~(q = RxAt /\ m = 1)
    <3>1. CASE q = TxAt
      <4>1. x \in Rqst
        BY <1>8, <2>6, <3>1 DEF Typed, Are
      <4> QED BY <2>5, <2>6, <3>1, <4>1, CarryingIs, WaitingIs, KindsExpect, NamesDiffer
    <3>2. CASE q = RxAt
      <4>1. x \in Data
        BY <1>8, <2>6, <3>2 DEF Typed, Are
      <4>2. x.id = k
        BY <2>5, <2>6, <3>2, <4>1, CarryingIs
      <4>3. m # 1
        BY <1>9, <2>3, <2>6, <3>2, <4>2
      <4> QED BY <3>2, <4>1, <4>3, WaitingIs
    <3>3. ASSUME NEW n \in Nodes, q = NetAt(n) PROVE <<q, x>> \in Waiting /\ ~(q = RxAt /\ m = 1)
      <4>1. x \in Rqst
        <5>1. Queue[q] = net[n] /\ net[n] \in Seq(Rqst)
          BY <1>8, <3>3 DEF Typed, Are
        <5> QED BY <2>6, <5>1
      <4> QED BY <2>5, <2>6, <3>3, <4>1, CarryingIs, WaitingIs, KindsExpect, NamesDiffer
    <3>4. ASSUME NEW n \in Nodes, q = BackAt(n) PROVE <<q, x>> \in Waiting /\ ~(q = RxAt /\ m = 1)
      <4>1. x \in Rsp
        <5>1. Queue[q] = back[n] /\ back[n] \in Seq(Rsp)
          BY <1>8, <3>4 DEF Typed, Are
        <5> QED BY <2>6, <5>1
      <4> QED BY <2>5, <2>6, <3>4, <4>1, CarryingIs, WaitingIs, KindsExpect, NamesDiffer
    <3> QED BY <2>7, <3>1, <3>2, <3>3, <3>4, QueueNames
  <2>9. PICK one : one = 1
    OBVIOUS
  <2>10. q = RxAt /\ m = one
    BY <1>7, <1>8, <1>9, <2>6, <2>8, <2>9, MarkedOnce
  <2> QED BY <2>8, <2>9, <2>10
<1>11. DOMAIN data = 1 .. Count
  BY <1>3, <1>5, <1>6, <1>10
<1>12. DOMAIN call.addrs = 1 .. Count
  BY <1>4, CallFacts DEF Count
<1> QED BY <1>3, <1>6, <1>11, <1>12

LEMMA ResultSame ==
  ASSUME ResultInv, UNCHANGED <<call, rqst_i, ids, id_to_rsp_i, result, broken>>,
         \A a \in Addrs : Effective(a)' = Effective(a)
  PROVE  ResultInv'
<1> SUFFICES ASSUME call.kind = "read", ~broken
             PROVE  /\ \A i \in DOMAIN result :
                         \E a \in Addrs : a = call.addrs[i] /\ Effective(a)' = result[i]
                    /\ \A i \in 1 .. rqst_i : call.addrs[i] \in Addrs
                    /\ DOMAIN result \subseteq 1 .. rqst_i
                    /\ \A i \in 1 .. rqst_i : i \in DOMAIN result \/
                         \E id \in DOMAIN id_to_rsp_i :
                           id_to_rsp_i[id] = i /\ \A k \in DOMAIN ids : ids[k] # id
  BY DEF ResultInv
<1> QED BY DEF ResultInv

LEMMA ResultStep ==
  ASSUME QueuesInv, HostInv, WaitInv, IdsInv, PacketsInv, ResultInv, [Next]_vars
  PROVE  ResultInv'
<1>other. ASSUME call'.kind # "read" PROVE ResultInv'
  BY <1>other DEF ResultInv
<1>leave. ASSUME NEW r, LeaveWith(r) PROVE ResultInv'
  BY <1>leave, <1>other, NotACall DEF LeaveWith
<1>keep. ASSUME broken' = broken, ~broken => ResultInv' PROVE ResultInv'
  <2>1. broken => ResultInv'
    BY <1>keep DEF ResultInv
  <2> QED BY <1>keep, <2>1
<1>1. ASSUME NEW c \in Calls, Begin(c) PROVE ResultInv'
  <2>1. pc = "idle" /\ rqst_i' = rqst_i /\ result' = <<>>
    BY <1>1 DEF Begin
  <2>2. rqst_i' = 0
    BY <2>1 DEF HostInv, Stage
  <2>3. 1 .. rqst_i' = {} /\ DOMAIN result' = {}
    BY <2>1, <2>2
  <2> QED BY <2>3 DEF ResultInv
<1>2. CASE Store
  <2>1. pc = "store" /\ call' = call
    BY <1>2 DEF Store
  <2>2. call.kind \in {"write", "store"}
    BY <2>1 DEF HostInv, Stage
  <2> QED BY <2>1, <2>2, <1>other
<1>3. CASE StoreReturns
  BY <1>3, <1>leave DEF StoreReturns
<1>4. CASE SendSingle
  <2>1. pc = "single" /\ call' = call
    BY <1>4 DEF SendSingle
  <2>2. call.kind # "read"
    BY <2>1 DEF HostInv, Stage
  <2> QED BY <2>1, <2>2, <1>other
<1>5. CASE TakeSingle
  BY <1>5, <1>leave DEF TakeSingle
<1>6. CASE Request
  <2>1. broken' = broken
    BY <1>6 DEF Request
  <2> QED BY <1>6, <2>1, <1>keep, ResultRequest
<1>7. CASE RequestFails
  BY <1>7, <1>leave DEF RequestFails
<1>8. CASE Respond
  <2>1. PICK d, data : d = Head(rx) /\ data = Put(result, Slot(d.id), d.val)
    OBVIOUS
  <2>2. /\ UNCHANGED <<tx, device, broken>>
        /\ \/ LeaveWith(<<>>) \/ LeaveWith(data)
           \/ /\ result' = data /\ ids' = Recycle(d.id)
              /\ UNCHANGED <<call, rqst_i, id_to_rsp_i>>
    BY <1>8, <2>1, RespondFacts
  <2>3. CASE /\ result' = data /\ ids' = Recycle(d.id)
             /\ UNCHANGED <<call, rqst_i, id_to_rsp_i>>
    <3>1. ~broken => ResultInv'
      BY <1>8, <2>1, <2>2, <2>3, ResultRespond
    <3> QED BY <2>2, <3>1, <1>keep
  <2> QED BY <2>2, <2>3, <1>leave
<1>9. CASE Inject
  <2>1. UNCHANGED <<host, broken>>
    BY <1>9, InjectFacts
  <2>2. \A a \in Addrs : Effective(a)' = Effective(a)
    BY <1>9, EffectiveInject
  <2> QED BY <2>1, <2>2, ResultSame DEF host
<1>10. ASSUME NEW n \in Nodes, Serve(n) PROVE ResultInv'
  <2>1. UNCHANGED <<host, broken>>
    BY <1>10 DEF Serve
  <2>2. \A a \in Addrs : Effective(a)' = Effective(a)
    BY <1>10, EffectiveServe
  <2> QED BY <2>1, <2>2, ResultSame DEF host
<1>11. ASSUME NEW n \in Nodes, GiveBack(n) PROVE ResultInv'
  <2>1. UNCHANGED <<host, broken>> /\ UNCHANGED <<tx, net, mem>>
    BY <1>11 DEF GiveBack
  <2> QED BY <2>1, EffectiveSame, ResultSame DEF host
<1>12. CASE UNCHANGED vars
  <2>1. UNCHANGED <<host, broken>> /\ UNCHANGED <<tx, net, mem>>
    BY <1>12 DEF vars, device
  <2> QED BY <2>1, EffectiveSame, ResultSame DEF host
<1> QED BY <1>1, <1>2, <1>3, <1>4, <1>5, <1>6, <1>7, <1>8, <1>9, <1>10, <1>11, <1>12 DEF Next

(* The words of a read are among those it has asked for, whatever they are.  *)
PartInv == call.kind = "read" => DOMAIN result \subseteq 1 .. rqst_i

LEMMA PartRespond ==
  ASSUME QueuesInv, HostInv, PartInv, Respond,
         NEW d, d = Head(rx), NEW data, data = Put(result, Slot(d.id), d.val),
         d.id \in DOMAIN id_to_rsp_i
  PROVE  DOMAIN data \subseteq 1 .. rqst_i /\ PartialWords(data)
<1>1. call.kind = "read" /\ d \in Data /\ call \in Calls /\ rqst_i \in 1 .. Count
  BY RespondFacts
<1>2. PICK j : j = Slot(d.id)
  OBVIOUS
<1>3. j \in 1 .. rqst_i
  BY <1>2 DEF HostInv, Slot
<1>4. data = [i \in DOMAIN result \cup {j} |-> IF i = j THEN d.val ELSE result[i]]
  BY <1>2 DEF Put
<1>5. DOMAIN data \subseteq 1 .. rqst_i
  BY <1>1, <1>3, <1>4 DEF PartInv
<1>6. 1 .. rqst_i \subseteq 1 .. MaxWords
  <2>1. Count \in 1 .. MaxWords /\ Count \in Nat
    BY <1>1, CallRange
  <2> QED BY <1>1, <2>1, Consts
<1>7. d.val \in Words /\ \A i \in DOMAIN result : result[i] \in Words
  BY <1>1 DEF Data, HostInv, PartialWords
<1> QED BY <1>4, <1>5, <1>6, <1>7 DEF PartialWords

LEMMA PartStep ==
  ASSUME QueuesInv, HostInv, PartInv, [Next]_vars
  PROVE  PartInv'
<1>other. ASSUME call'.kind # "read" PROVE PartInv'
  BY <1>other DEF PartInv
<1>leave. ASSUME NEW r, LeaveWith(r) PROVE PartInv'
  BY <1>leave, <1>other, NotACall DEF LeaveWith
<1>same. ASSUME UNCHANGED <<call, result, rqst_i>> PROVE PartInv'
  BY <1>same DEF PartInv
<1>1. ASSUME NEW c \in Calls, Begin(c) PROVE PartInv'
  <2>1. DOMAIN result' = {}
    BY <1>1 DEF Begin
  <2> QED BY <2>1 DEF PartInv
<1>2. CASE Store
  <2>1. pc = "store" /\ call' = call
    BY <1>2 DEF Store
  <2>2. call.kind \in {"write", "store"}
    BY <2>1 DEF HostInv, Stage
  <2> QED BY <2>1, <2>2, <1>other
<1>3. CASE StoreReturns
  BY <1>3, <1>leave DEF StoreReturns
<1>4. CASE SendSingle
  <2>1. pc = "single" /\ call' = call
    BY <1>4 DEF SendSingle
  <2>2. call.kind # "read"
    BY <2>1 DEF HostInv, Stage
  <2> QED BY <2>1, <2>2, <1>other
<1>5. CASE TakeSingle
  BY <1>5, <1>leave DEF TakeSingle
<1>6. CASE Request
  <2>1. rqst_i' = rqst_i + 1 /\ call' = call /\ result' = result /\ rqst_i \in Nat
    BY <1>6, RequestFacts
  <2>2. 1 .. rqst_i \subseteq 1 .. rqst_i'
    BY <2>1
  <2> QED BY <2>1, <2>2 DEF PartInv
<1>7. CASE RequestFails
  BY <1>7, <1>leave DEF RequestFails
<1>8. CASE Respond
  <2>1. PICK d, data : d = Head(rx) /\ data = Put(result, Slot(d.id), d.val)
    OBVIOUS
  <2>2. \/ LeaveWith(<<>>) \/ LeaveWith(data)
        \/ d.id \in DOMAIN id_to_rsp_i /\ result' = data /\ UNCHANGED <<call, rqst_i>>
    BY <1>8, <2>1, RespondFacts
  <2>3. CASE d.id \in DOMAIN id_to_rsp_i /\ result' = data /\ UNCHANGED <<call, rqst_i>>
    <3>1. DOMAIN data \subseteq 1 .. rqst_i
      BY <1>8, <2>1, <2>3, PartRespond
    <3> QED BY <2>3, <3>1 DEF PartInv
  <2> QED BY <2>2, <2>3, <1>leave
<1>9. CASE Inject
  BY <1>9, <1>same DEF Inject, host
<1>10. CASE \E n \in Nodes : Serve(n)
  BY <1>10, <1>same DEF Serve, host
<1>11. CASE \E n \in Nodes : GiveBack(n)
  BY <1>11, <1>same DEF GiveBack, host
<1>12. CASE UNCHANGED vars
  BY <1>12, <1>same DEF vars, host
<1> QED BY <1>1, <1>2, <1>3, <1>4, <1>5, <1>6, <1>7, <1>8, <1>9, <1>10, <1>11, <1>12 DEF Next

(* Packets under way are for the call in progress, and a read has the words  *)
(* it asked for.                                                             *)
WordsInv == OrderInv /\ PacketsInv /\ ResultInv /\ PartInv

LEMMA WordsInit == Init => WordsInv
<1> SUFFICES ASSUME Init PROVE WordsInv
  OBVIOUS
<1>1. /\ call = NoCall /\ tx = <<>> /\ rx = <<>>
      /\ \A n \in Nodes : net[n] = <<>> /\ back[n] = <<>>
  BY DEF Init
<1>2. ResultInv
  BY <1>1, NotACall DEF ResultInv
<1>3. \A n \in Nodes : 1 .. Len(Way(n)) = {} /\ 1 .. Len(back[n]) = {}
  <2> TAKE n \in Nodes
  <2>1. Len(<<>>) = 0 /\ Len(<<>> \o <<>>) = 0
    OBVIOUS
  <2>2. Way(n) = <<>> \o <<>>
    BY <1>1 DEF Way
  <2> QED BY <1>1, <2>1, <2>2
<1>4. 1 .. Len(rx) = {}
  BY <1>1
<1>5. OrderInv
  BY <1>3 DEF OrderInv, Ordered
<1>6. PacketsInv
  BY <1>3, <1>4 DEF PacketsInv
<1>7. PartInv
  BY <1>1, NotACall DEF PartInv
<1> QED BY <1>2, <1>5, <1>6, <1>7 DEF WordsInv

LEMMA WordsStep == CountsInv /\ CountsInv' /\ WordsInv /\ [Next]_vars => WordsInv'
<1> SUFFICES ASSUME CountsInv, CountsInv', WordsInv, [Next]_vars PROVE WordsInv'
  OBVIOUS
<1>1. /\ QueuesInv /\ HostInv /\ WaitInv /\ IdsInv
      /\ QueuesInv' /\ HostInv' /\ WaitInv'
  BY DEF CountsInv
<1>2. OrderInv /\ PacketsInv /\ ResultInv /\ PartInv
  BY DEF WordsInv
<1>3. OrderInv' /\ PacketsInv'
  BY <1>1, <1>2, PacketsStep
<1>4. ResultInv'
  BY <1>1, <1>2, ResultStep
<1>5. PartInv'
  BY <1>1, <1>2, PartStep
<1> QED BY <1>3, <1>4, <1>5 DEF WordsInv

-----------------------------------------------------------------------------
(* The memory that the caller sees *)

Seen == [a \in Addrs |-> Effective(a)]
Done == IF call.kind \in {"read", "load"} THEN 0 ELSE rqst_i
Returned == IF pc = "idle" THEN result ELSE <<>>

LEMMA SeenSame ==
  ASSUME \A a \in Addrs : Effective(a)' = Effective(a)
  PROVE  Seen' = Seen
BY DEF Seen

(* The steps of that memory.                                                 *)
LEMMA MemoryBegin ==
  ASSUME call = NoCall, call' \in Calls, Done' = 0, Returned' = <<>>, Seen' = Seen,
         broken' = broken
  PROVE  Memory!Next
<1>1. Memory!Begin
  BY DEF Memory!Begin, Memory!NoCall, NoCall, Seen, Done, Returned
<1> QED BY <1>1 DEF Memory!Next

LEMMA MemoryUpdate ==
  ASSUME call.kind \in {"write", "store", "amoadd"}, Done < Len(call.addrs),
         NEW a, a = call.addrs[Done + 1], NEW v, v = call.vals[Done + 1],
         Seen' = [Seen EXCEPT ![a] = IF call.kind = "amoadd" THEN (@ + v) % WordMod ELSE v],
         Done' = Done + 1, call' = call, Returned' = Returned, broken' = broken
  PROVE  Memory!Next
<1>1. Memory!Update
  BY DEF Memory!Update, Memory!Updates, Seen, Done, Returned
<1> QED BY <1>1 DEF Memory!Next

LEMMA MemoryReturn ==
  ASSUME call # NoCall, call.kind \in {"write", "store", "amoadd"} => Done = Len(call.addrs),
         \/ broken /\ Memory!PartOfAnswer(call, Returned')
         \/ Memory!Valid(call) /\ Returned' = Memory!Answer(call),
         call' = NoCall, Done' = 0, Seen' = Seen, broken' = broken
  PROVE  Memory!Next
<1>1. Memory!Return
  BY DEF Memory!Return, Memory!Updates, Memory!NoCall, NoCall, Seen, Done, Returned
<1> QED BY <1>1 DEF Memory!Next

LEMMA MemoryFail ==
  ASSUME call.kind \in {"read", "load"}, broken \/ ~Memory!Valid(call),
         call' = NoCall, Done' = 0, Returned' = <<>>, broken' \in {broken, TRUE}, Seen' = Seen
  PROVE  Memory!Next
<1>1. Memory!Fail
  BY DEF Memory!Fail, Memory!Reads, Memory!NoCall, NoCall, Seen, Done, Returned
<1> QED BY <1>1 DEF Memory!Next

LEMMA MemoryStutter ==
  ASSUME Seen' = Seen, call' = call, Done' = Done, Returned' = Returned, broken' = broken
  PROVE  UNCHANGED Memory!vars
BY DEF Memory!vars, Seen, Done, Returned

LEMMA MemoryInit == Init => Memory!Init
<1> SUFFICES ASSUME Init PROVE Memory!Init
  OBVIOUS
<1>1. /\ call = NoCall /\ rqst_i = 0 /\ pc = "idle" /\ result = <<>> /\ tx = <<>>
      /\ \A n \in Nodes : net[n] = <<>>
      /\ mem \in [Addrs -> Words] /\ broken = FALSE
  BY DEF Init
<1>2. ASSUME NEW a \in Addrs PROVE Effective(a) \in Words
  <2>1. a[1] \in Nodes
    BY MemoryAssumption
  <2>2. Len(<<>> \o <<>>) = 0 /\ net[a[1]] \o tx = <<>> \o <<>>
    BY <1>1, <2>1
  <2>3. After(mem[a], a, net[a[1]] \o tx) = mem[a]
    BY <2>2, AfterNone
  <2> QED BY <1>1, <2>3 DEF Effective
<1>3. Seen \in [Addrs -> Words]
  BY <1>2 DEF Seen
<1>4. Done = 0 /\ Returned = <<>>
  BY <1>1 DEF Done, Returned
<1> QED BY <1>1, <1>3, <1>4 DEF Memory!Init, Memory!Words, Words, Memory!NoCall, NoCall, Seen, Done, Returned

(* The same from the side of the host.                                       *)
LEMMA LeaveReturns ==
  ASSUME NEW r, LeaveWith(r)
  PROVE  call' = NoCall /\ Done' = 0 /\ Returned' = r
<1>1. pc' = "idle" /\ call' = NoCall /\ result' = r /\ rqst_i' = 0
  BY DEF LeaveWith
<1> QED BY <1>1 DEF Done, Returned

LEMMA HostStutter ==
  ASSUME UNCHANGED <<host, broken>>, \A a \in Addrs : Effective(a)' = Effective(a)
  PROVE  UNCHANGED Memory!vars
<1>1. Seen' = Seen
  BY SeenSame
<1>2. call' = call /\ Done' = Done /\ Returned' = Returned
  BY DEF host, Done, Returned
<1> QED BY <1>1, <1>2, MemoryStutter

LEMMA BeginRefines ==
  ASSUME HostInv, NEW c \in Calls, Begin(c)
  PROVE  Memory!Next
<1>1. /\ pc = "idle" /\ call' = c /\ result' = <<>> /\ rqst_i' = rqst_i /\ broken' = broken
      /\ UNCHANGED <<tx, net, mem>>
  BY DEF Begin, device
<1>2. call = NoCall /\ rqst_i = 0
  BY <1>1 DEF HostInv, Stage
<1>3. Done' = 0 /\ Returned' = <<>>
  BY <1>1, <1>2 DEF Done, Returned
<1>4. Seen' = Seen
  BY <1>1, EffectiveSame, SeenSame
<1> QED BY <1>1, <1>2, <1>3, <1>4, MemoryBegin

(* A request that stores its word.                                           *)
LEMMA SendRefines ==
  ASSUME QueuesInv, call \in Calls, rqst_i < Count, call.kind \in {"write", "store", "amoadd"},
         NEW x \in Rqst, Transmit(x), UNCHANGED <<net, mem>>, x.kind = call.kind,
         x.addr = call.addrs[rqst_i + 1], x.val = call.vals[rqst_i + 1],
         rqst_i' = rqst_i + 1, UNCHANGED <<call, result, broken>>, pc # "idle", pc' # "idle"
  PROVE  Memory!Next
<1>1. PICK a, v : a = call.addrs[rqst_i + 1] /\ v = call.vals[rqst_i + 1]
  OBVIOUS
<1>2. a \in Addrs /\ x.addr = a /\ x.val = v
  BY <1>1 DEF Rqst
<1>3. Seen' = [Seen EXCEPT ![a] = IF call.kind = "amoadd" THEN (@ + v) % WordMod ELSE v]
  <2>1. ASSUME NEW b \in Addrs, b # a PROVE Effective(b)' = Effective(b)
    <3>1. Effective(b)' = Served(Effective(b), b, x)
      BY EffectiveSend
    <3> QED BY <1>2, <2>1, <3>1 DEF Served
  <2>2. Effective(a)' = IF call.kind = "amoadd" THEN (Effective(a) + v) % WordMod ELSE v
    <3>1. Effective(a)' = Served(Effective(a), a, x)
      BY <1>2, EffectiveSend
    <3>2. Effective(a)' = Effect(Effective(a), x)
      BY <1>2, <3>1 DEF Served
    <3> QED BY <1>2, <3>2 DEF Effect
  <2>3. PICK w : w = IF call.kind = "amoadd" THEN (Effective(a) + v) % WordMod ELSE v
    OBVIOUS
  <2>4. Seen' = [Seen EXCEPT ![a] = w]
    BY <1>2, <2>1, <2>2, <2>3 DEF Seen
  <2>5. Seen[a] = Effective(a)
    BY <1>2 DEF Seen
  <2>6. w = IF call.kind = "amoadd" THEN (Seen[a] + v) % WordMod ELSE v
    BY <2>3, <2>5
  <2> QED BY <2>4, <2>6
<1>4. Done = rqst_i /\ Done' = rqst_i + 1 /\ Returned' = Returned
  BY DEF Done, Returned
<1>5. Done < Len(call.addrs) /\ Done' = Done + 1
  BY <1>4 DEF Count
<1>6. a = call.addrs[Done + 1] /\ v = call.vals[Done + 1]
  BY <1>1, <1>4
<1> QED BY <1>3, <1>4, <1>5, <1>6, MemoryUpdate

LEMMA StoreRefines ==
  ASSUME QueuesInv, HostInv, Store
  PROVE  Memory!Next
<1>1. PICK x : x = [kind |-> call.kind, addr |-> call.addrs[rqst_i + 1],
                    val |-> call.vals[rqst_i + 1], id |-> 0]
  OBVIOUS
<1>2. /\ pc = "store" /\ Transmit(x) /\ rqst_i' = rqst_i + 1 /\ pc' \in {"store", "stored"}
      /\ UNCHANGED <<call, result, broken, net, mem>>
  BY <1>1 DEF Store, device
<1>3. x \in Rqst
  BY <1>1, StoreRqst
<1>4. call \in Calls /\ call.kind \in {"write", "store"} /\ rqst_i \in 0 .. Count - 1
  BY <1>2 DEF HostInv, Stage
<1>5. rqst_i < Count
  BY <1>4, CallRange
<1>6. /\ x.kind = call.kind /\ x.addr = call.addrs[rqst_i + 1]
      /\ x.val = call.vals[rqst_i + 1]
  BY <1>1
<1>7. call.kind \in {"write", "store", "amoadd"} /\ pc # "idle" /\ pc' # "idle"
  BY <1>2, <1>4
<1> QED BY <1>2, <1>3, <1>4, <1>5, <1>6, <1>7, SendRefines

LEMMA StoreReturnsRefines ==
  ASSUME HostInv, StoreReturns
  PROVE  Memory!Next
<1>1. pc = "stored" /\ LeaveWith(<<>>) /\ UNCHANGED <<tx, net, mem, broken>>
  BY DEF StoreReturns, device
<1>2. call \in Calls /\ call.kind \in {"write", "store"} /\ rqst_i = Count
  BY <1>1 DEF HostInv, Stage
<1>3. Done = Len(call.addrs)
  BY <1>2 DEF Done, Count
<1>4. call' = NoCall /\ Done' = 0 /\ Returned' = <<>>
  BY <1>1, LeaveReturns
<1>5. Memory!Valid(call)
  <2>1. call.kind # "read"
    BY <1>2
  <2>2. \A i \in DOMAIN call.addrs : call.addrs[i] \in Addrs
    BY <1>2, <2>1, CallFacts
  <2> QED BY <2>2 DEF Memory!Valid
<1>6. Memory!Answer(call) = <<>>
  BY <1>2 DEF Memory!Answer, Memory!Reads
<1>7. Seen' = Seen
  BY <1>1, EffectiveSame, SeenSame
<1>8. call # NoCall
  BY <1>2, NotACall
<1> QED BY <1>1, <1>3, <1>4, <1>5, <1>6, <1>7, <1>8, MemoryReturn

LEMMA SendSingleRefines ==
  ASSUME QueuesInv, HostInv, SendSingle
  PROVE  Memory!Next \/ UNCHANGED Memory!vars
<1>1. PICK x : x = [kind |-> call.kind, addr |-> call.addrs[1], id |-> 0,
                    val |-> IF call.kind = "amoadd" THEN call.vals[1] ELSE 0]
  OBVIOUS
<1>2. /\ pc = "single" /\ Transmit(x) /\ rqst_i' = 1 /\ pc' = "answer"
      /\ UNCHANGED <<call, result, broken, net, mem>>
  BY <1>1 DEF SendSingle, device
<1>3. x \in Rqst
  BY <1>1, SingleRqst
<1>4. call \in Calls /\ call.kind \in {"amoadd", "load"} /\ rqst_i = 0
  BY <1>2 DEF HostInv, Stage
<1>5. CASE call.kind = "amoadd"
  <2>1. rqst_i < Count
    BY <1>4, CallRange
  <2>2. rqst_i + 1 = 1
    BY <1>4
  <2>3. /\ x.kind = call.kind /\ x.addr = call.addrs[rqst_i + 1]
        /\ x.val = call.vals[rqst_i + 1] /\ rqst_i' = rqst_i + 1
    BY <1>1, <1>2, <1>5, <2>2
  <2>4. call.kind \in {"write", "store", "amoadd"} /\ pc # "idle" /\ pc' # "idle"
    BY <1>2, <1>5
  <2> QED BY <1>2, <1>3, <1>4, <2>1, <2>3, <2>4, SendRefines
<1>6. CASE call.kind = "load"
  <2>1. Quiet(x.kind)
    BY <1>1, <1>6 DEF Quiet
  <2>2. Seen' = Seen
    BY <1>2, <1>3, <2>1, EffectiveRead, SeenSame
  <2>3. Done' = Done /\ Returned' = Returned
    BY <1>2, <1>6 DEF Done, Returned
  <2> QED BY <1>2, <2>2, <2>3, MemoryStutter
<1> QED BY <1>4, <1>5, <1>6

(* The sum that an amoadd leaves, less what it added, is what it returns.    *)
LEMMA TakeBack ==
  ASSUME NEW M \in Nat, M > 0, NEW x \in 0 .. M - 1, NEW v \in 0 .. M - 1
  PROVE  (((x + v) % M) - v) % M = x
<1>1. CASE x + v < M
  <2>1. (x + v) % M = x + v
    BY <1>1
  <2>2. (x + v) - v = x /\ x % M = x
    OBVIOUS
  <2> QED BY <2>1, <2>2
<1>2. CASE x + v >= M
  <2>1. (x + v) % M = x + v - M
    BY <1>2
  <2>2. (x + v - M) - v = x - M /\ (x - M) % M = x
    OBVIOUS
  <2> QED BY <2>1, <2>2
<1> QED BY <1>1, <1>2

LEMMA SingleAnswer ==
  ASSUME QueuesInv, HostInv, PacketsInv, ~broken, TakeSingle, NEW w, w = Head(rx).val
  PROVE  <<w>> = Memory!Answer(call)
<1>1. pc = "answer" /\ rx # <<>>
  BY DEF TakeSingle, Receive
<1>2. call \in Calls /\ call.kind \in {"amoadd", "load"}
  BY <1>1 DEF HostInv, Stage
<1>3. PICK d : d = Head(rx)
  OBVIOUS
<1>4. d \in Data /\ d = rx[1] /\ 1 \in 1 .. Len(rx)
  <2>1. rx \in Seq(Data)
    BY DEF QueuesInv
  <2>2. Len(rx) \in Nat /\ Len(rx) > 0 /\ Head(rx) = rx[1] /\ Head(rx) \in Data
    BY <1>1, <2>1, HeadTail
  <2> QED BY <1>3, <2>2
<1>5. Tells(d)
  BY <1>4 DEF PacketsInv
<1>6. PICK a \in Addrs : a = call.addrs[1] /\ Effective(a) = Told(d.val)
  BY <1>2, <1>5 DEF Tells, Index
<1>7. w = d.val /\ w \in Words /\ Seen[a] = Told(w)
  BY <1>3, <1>4, <1>6 DEF Data, Seen
<1>8. DOMAIN call.addrs = {1}
  <2>1. Len(call.addrs) = 1 /\ DOMAIN call.addrs = 1 .. Len(call.addrs)
    BY <1>2, CallFacts
  <2> QED BY <2>1
<1>9. CASE call.kind = "load"
  <2>1. Memory!Answer(call) = [i \in {1} |-> Seen[call.addrs[i]]]
    BY <1>8, <1>9 DEF Memory!Answer, Memory!Reads, Seen
  <2>2. Seen[call.addrs[1]] = w
    BY <1>6, <1>7, <1>9 DEF Told
  <2>3. [i \in {1} |-> Seen[call.addrs[i]]] = <<w>>
    BY <2>2
  <2> QED BY <2>1, <2>3
<1>10. CASE call.kind = "amoadd"
  <2>1. PICK v : v = call.vals[1]
    OBVIOUS
  <2>2. v \in Words
    <3>1. call.kind \in {"write", "store", "amoadd"} /\ 1 \in 1 .. Len(call.addrs)
      BY <1>2, <1>10, CallRange DEF Count
    <3> QED BY <1>2, <2>1, <3>1, CallFacts
  <2>3. Memory!Answer(call) = <<(Seen[a] - v) % WordMod>>
    BY <1>6, <1>10, <2>1 DEF Memory!Answer, Memory!Reads, Seen
  <2>4. Seen[a] = (w + v) % WordMod
    BY <1>7, <1>10, <2>1 DEF Told
  <2>5. (((w + v) % WordMod) - v) % WordMod = w
    BY <1>7, <2>2, Consts, TakeBack DEF Words
  <2> QED BY <2>3, <2>4, <2>5
<1> QED BY <1>2, <1>9, <1>10

LEMMA TakeSingleRefines ==
  ASSUME QueuesInv, HostInv, PacketsInv, TakeSingle
  PROVE  Memory!Next
<1>1. PICK w : w = Head(rx).val
  OBVIOUS
<1>2. /\ pc = "answer" /\ rx # <<>> /\ LeaveWith(<<w>>)
      /\ UNCHANGED <<tx, net, mem, broken>>
  BY <1>1 DEF TakeSingle, Receive, device
<1>3. call \in Calls /\ call.kind \in {"amoadd", "load"} /\ rqst_i = 1
  BY <1>2 DEF HostInv, Stage
<1>4. Len(call.addrs) = 1 /\ DOMAIN call.addrs = 1 .. Len(call.addrs)
  BY <1>3, CallFacts
<1>5. call' = NoCall /\ Done' = 0 /\ Returned' = <<w>> /\ call # NoCall
  BY <1>2, <1>3, LeaveReturns, NotACall
<1>6. call.kind \in {"write", "store", "amoadd"} => Done = Len(call.addrs)
  BY <1>3, <1>4 DEF Done
<1>7. Seen' = Seen
  BY <1>2, EffectiveSame, SeenSame
<1>8. CASE broken
  <2>1. w \in Words
    <3>1. Head(rx) \in Data
      BY <1>2, HeadTail DEF QueuesInv
    <3> QED BY <1>1, <3>1 DEF Data
  <2>2. DOMAIN <<w>> = {1} /\ <<w>>[1] = w
    OBVIOUS
  <2>3. Memory!PartOfAnswer(call, <<w>>)
    BY <1>4, <2>1, <2>2 DEF Memory!PartOfAnswer, Memory!Words, Words
  <2> QED BY <1>2, <1>5, <1>6, <1>7, <1>8, <2>3, MemoryReturn
<1>9. CASE ~broken
  <2>1. <<w>> = Memory!Answer(call)
    BY <1>1, <1>9, SingleAnswer
  <2>2. Memory!Valid(call)
    <3>1. call.kind # "read"
      BY <1>3
    <3>2. \A i \in DOMAIN call.addrs : call.addrs[i] \in Addrs
      BY <1>3, <3>1, CallFacts
    <3> QED BY <3>2 DEF Memory!Valid
  <2> QED BY <1>2, <1>5, <1>6, <1>7, <2>1, <2>2, MemoryReturn
<1> QED BY <1>8, <1>9

LEMMA RequestRefines ==
  ASSUME QueuesInv, HostInv, Request
  PROVE  UNCHANGED Memory!vars
<1>1. PICK x : x = [kind |-> "read", addr |-> call.addrs[rqst_i + 1], id |-> Head(ids), val |-> 0]
  OBVIOUS
<1>2. /\ pc = "request" /\ pc' \in {"request", "receive"} /\ call.kind = "read" /\ Transmit(x)
      /\ UNCHANGED <<call, result, broken, net, mem>>
  BY <1>1, RequestFacts DEF device
<1>3. x \in Rqst /\ Quiet(x.kind)
  BY <1>1, ReadRqst DEF Quiet
<1>4. Seen' = Seen
  BY <1>2, <1>3, EffectiveRead, SeenSame
<1>5. Done' = Done /\ Returned' = Returned
  BY <1>2 DEF Done, Returned
<1> QED BY <1>2, <1>4, <1>5, MemoryStutter

LEMMA RequestFailsRefines ==
  ASSUME HostInv, RequestFails
  PROVE  Memory!Next
<1>1. /\ pc = "request" /\ LeaveWith(<<>>) /\ call.addrs[rqst_i + 1] \notin Addrs
      /\ broken' = (broken \/ rsp_i < rqst_i) /\ UNCHANGED <<tx, net, mem>>
  BY DEF RequestFails, device
<1>2. call \in Calls /\ call.kind = "read" /\ rqst_i \in 0 .. Count - 1
  BY <1>1 DEF HostInv, Stage
<1>3. ~Memory!Valid(call)
  <2>1. Len(call.addrs) \in Nat /\ DOMAIN call.addrs = 1 .. Len(call.addrs)
    BY <1>2, CallFacts, Consts
  <2>2. rqst_i + 1 \in DOMAIN call.addrs
    BY <1>2, <2>1 DEF Count
  <2> QED BY <1>1, <2>2 DEF Memory!Valid
<1>4. broken' \in {broken, TRUE}
  BY <1>1 DEF HostInv
<1>5. call' = NoCall /\ Done' = 0 /\ Returned' = <<>>
  BY <1>1, LeaveReturns
<1>6. Seen' = Seen
  BY <1>1, EffectiveSame, SeenSame
<1> QED BY <1>2, <1>3, <1>4, <1>5, <1>6, MemoryFail

LEMMA ReadAnswer ==
  ASSUME QueuesInv, HostInv, WaitInv, IdsInv, PacketsInv, ResultInv, ~broken, Respond,
         rsp_i + 1 = Count,
         NEW d, d = Head(rx), NEW data, data = Put(result, Slot(d.id), d.val)
  PROVE  Memory!Valid(call) /\ data = Memory!Answer(call)
<1>1. /\ call.kind = "read" /\ DOMAIN data = 1 .. Count /\ DOMAIN call.addrs = 1 .. Count
      /\ \A i \in 1 .. Count : call.addrs[i] \in Addrs
      /\ \A i \in 1 .. Count : \E a \in Addrs : a = call.addrs[i] /\ Effective(a) = data[i]
  BY LastResponse
<1>2. Memory!Valid(call)
  BY <1>1 DEF Memory!Valid
<1>3. Memory!Answer(call) = [i \in 1 .. Count |-> Seen[call.addrs[i]]]
  BY <1>1 DEF Memory!Answer, Memory!Reads, Seen
<1>4. \A i \in 1 .. Count : Seen[call.addrs[i]] = data[i]
  BY <1>1 DEF Seen
<1>5. PICK n : n = Count
  OBVIOUS
<1>6. data = [i \in 1 .. n |-> data[i]]
  BY <1>1, <1>5 DEF Put
<1>7. data = [i \in 1 .. n |-> Seen[call.addrs[i]]]
  BY <1>4, <1>5, <1>6
<1> QED BY <1>2, <1>3, <1>5, <1>7

LEMMA RespondRefines ==
  ASSUME QueuesInv, HostInv, WaitInv, IdsInv, WordsInv, Respond
  PROVE  Memory!Next \/ UNCHANGED Memory!vars
<1>1. PICK d, data : d = Head(rx) /\ data = Put(result, Slot(d.id), d.val)
  OBVIOUS
<1>2. /\ pc = "receive" /\ call \in Calls /\ call.kind = "read" /\ rx # <<>>
      /\ rqst_i \in 1 .. Count /\ Count \in Nat
      /\ UNCHANGED <<tx, net, mem, broken>>
      /\ \/ d.id \notin DOMAIN id_to_rsp_i /\ LeaveWith(<<>>)
         \/ d.id \in DOMAIN id_to_rsp_i /\ rsp_i + 1 = Count /\ LeaveWith(data)
         \/ /\ pc' \in {"receive", "request"} /\ UNCHANGED <<call, rqst_i>>
  BY <1>1, RespondFacts DEF device
<1>3. Seen' = Seen
  BY <1>2, EffectiveSame, SeenSame
<1>4. call # NoCall /\ call.kind \in {"read", "load"} /\ call.kind \notin {"write", "store", "amoadd"}
  BY <1>2, NotACall
<1>5. CASE d.id \notin DOMAIN id_to_rsp_i /\ LeaveWith(<<>>)
  <2>1. broken
    BY <1>1, <1>2, <1>5, ResponseKnown
  <2>2. call' = NoCall /\ Done' = 0 /\ Returned' = <<>>
    BY <1>5, LeaveReturns
  <2> QED BY <1>2, <1>3, <1>4, <2>1, <2>2, MemoryFail
<1>6. CASE d.id \in DOMAIN id_to_rsp_i /\ rsp_i + 1 = Count /\ LeaveWith(data)
  <2>1. call' = NoCall /\ Done' = 0 /\ Returned' = data
    BY <1>6, LeaveReturns
  <2>2. CASE broken
    <3>1. DOMAIN data \subseteq 1 .. rqst_i /\ PartialWords(data)
      BY <1>1, <1>6, PartRespond DEF WordsInv
    <3>2. DOMAIN call.addrs = 1 .. Count
      BY <1>2, CallFacts DEF Count
    <3>3. DOMAIN data \subseteq DOMAIN call.addrs
      BY <1>2, <3>1, <3>2
    <3>4. Memory!PartOfAnswer(call, data)
      BY <3>1, <3>3 DEF Memory!PartOfAnswer, PartialWords, Memory!Words, Words
    <3> QED BY <1>2, <1>3, <1>4, <2>1, <2>2, <3>4, MemoryReturn
  <2>3. CASE ~broken
    <3>1. Memory!Valid(call) /\ data = Memory!Answer(call)
      BY <1>1, <1>6, <2>3, ReadAnswer DEF WordsInv
    <3> QED BY <1>2, <1>3, <1>4, <2>1, <3>1, MemoryReturn
  <2> QED BY <2>2, <2>3
<1>7. CASE pc' \in {"receive", "request"} /\ UNCHANGED <<call, rqst_i>>
  <2>1. Done' = Done /\ Returned' = Returned
    BY <1>2, <1>7 DEF Done, Returned
  <2> QED BY <1>2, <1>3, <1>7, <2>1, MemoryStutter
<1> QED BY <1>2, <1>5, <1>6, <1>7

LEMMA StepRefines ==
  CountsInv /\ WordsInv /\ [Next]_vars => [Memory!Next]_Memory!vars
<1> SUFFICES ASSUME CountsInv, WordsInv, [Next]_vars
             PROVE  Memory!Next \/ UNCHANGED Memory!vars
  OBVIOUS
<1>0. QueuesInv /\ HostInv /\ WaitInv /\ IdsInv /\ PacketsInv
  BY DEF CountsInv, WordsInv
<1>1. CASE \E c \in Calls : Begin(c)
  BY <1>0, <1>1, BeginRefines
<1>2. CASE Store
  BY <1>0, <1>2, StoreRefines
<1>3. CASE StoreReturns
  BY <1>0, <1>3, StoreReturnsRefines
<1>4. CASE SendSingle
  BY <1>0, <1>4, SendSingleRefines
<1>5. CASE TakeSingle
  BY <1>0, <1>5, TakeSingleRefines
<1>6. CASE Request
  BY <1>0, <1>6, RequestRefines
<1>7. CASE RequestFails
  BY <1>0, <1>7, RequestFailsRefines
<1>8. CASE Respond
  BY <1>0, <1>8, RespondRefines
<1>9. CASE Inject
  <2>1. UNCHANGED <<host, broken>>
    BY <1>0, <1>9, InjectFacts
  <2> QED BY <1>0, <1>9, <2>1, EffectiveInject, HostStutter
<1>10. ASSUME NEW n \in Nodes, Serve(n) PROVE UNCHANGED Memory!vars
  <2>1. UNCHANGED <<host, broken>>
    BY <1>10 DEF Serve
  <2> QED BY <1>0, <1>10, <2>1, EffectiveServe, HostStutter
<1>11. ASSUME NEW n \in Nodes, GiveBack(n) PROVE UNCHANGED Memory!vars
  <2>1. UNCHANGED <<host, broken>> /\ UNCHANGED <<tx, net, mem>>
    BY <1>11 DEF GiveBack
  <2> QED BY <2>1, EffectiveSame, HostStutter
<1>12. CASE UNCHANGED vars
  <2>1. UNCHANGED <<host, broken>> /\ UNCHANGED <<tx, net, mem>>
    BY <1>12 DEF vars, device
  <2> QED BY <2>1, EffectiveSame, HostStutter
<1> QED BY <1>1, <1>2, <1>3, <1>4, <1>5, <1>6, <1>7, <1>8, <1>9, <1>10, <1>11, <1>12 DEF Next

(* To their caller, the memory functions of bsg_manycore.cpp are a memory on *)
(* which one call at a time takes effect (bsg_manycore.h): a write stores    *)
(* its words in order, an amoadd returns the word it added to, and a read    *)
(* returns the words of its addresses however its responses are reordered -  *)
(* until a read has failed half way.                                         *)
THEOREM MemoryIsServed == Spec => ImplementsMemory
<1>1. Init => WordsInv
  BY WordsInit
<1>2. CountsInv /\ CountsInv' /\ WordsInv /\ [Next]_vars => WordsInv'
  BY WordsStep
<1>3. Init => Memory!Init
  BY MemoryInit
<1>4. CountsInv /\ WordsInv /\ [Next]_vars => [Memory!Next]_Memory!vars
  BY StepRefines
<1>5. Spec => []CountsInv
  BY QueuesAreRight
<1> QED BY <1>1, <1>2, <1>3, <1>4, <1>5, PTL DEF Spec, ImplementsMemory, Memory!Spec

=============================================================================

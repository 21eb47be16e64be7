-------------------------- MODULE TileGroupsProofs --------------------------
(***************************************************************************)
(* Proofs about TileGroups, for every mesh, set of pods, shapes, grids and *)
(* programs, and with failing launches and responders.                     *)
(***************************************************************************)
EXTENDS TileGroups, FiniteSetTheorems, TLAPS

(* The finish address of a group is a natural number: the offset of the    *)
(* group in its grid is divided into a column and a row.                   *)
LEMMA FinishEpaType ==
  ASSUME NEW g \in Positive \X Positive, NEW k \in Nat
  PROVE  FinishEpa(g, k) \in Nat
<1> DEFINE a == g[1]
           b == g[2]
<1>1. a \in Nat /\ b \in Nat /\ b > 0
  BY DEF Positive
<1>2. k % b \in Nat /\ k \div b \in Nat
  <2> HIDE DEF b
  <2> QED BY <1>1
<1>3. (k % b) * a \in Nat
  <2> HIDE DEF a, b
  <2>1. \A x, y \in Nat : x * y \in Nat
    OBVIOUS
  <2> QED BY <1>1, <1>2, <2>1
<1>4. FinishEpa(g, k) = (k % b) * a + (k \div b)
  BY DEF FinishEpa
<1> HIDE DEF a, b
<1> QED BY <1>2, <1>3, <1>4

(* The size of a grid. *)
LEMMA GridSize ==
  ASSUME NEW g \in Positive \X Positive
  PROVE  g[1] * g[2] \in Nat /\ g[1] * g[2] > 0
<1>1. \A x, y \in Nat : x > 0 /\ y > 0 => x * y \in Nat /\ x * y > 0
  OBVIOUS
<1>2. g[1] \in Nat /\ g[2] \in Nat /\ g[1] > 0 /\ g[2] > 0
  BY DEF Positive
<1> QED BY <1>1, <1>2

(* A set of slots can be counted. *)
LEMMA SlotsCountable ==
  ASSUME NEW S \in SUBSET Slots
  PROVE  Cardinality(S) \in Nat
<1>1. IsFiniteSet(Slots)
  BY ConfigAssumption, FS_Interval DEF Slots
<1> QED BY <1>1, FS_Subset, FS_CardinalityType


-----------------------------------------------------------------------------
(* Type correctness *)

(* An unfinished group has a shape, a kernel and a name a client gave it, a  *)
(* group that holds tiles lies inside the mesh, and the host launches a      *)
(* group that it has just ALLOCATED.                                         *)
WellFormed ==
  /\ \A p \in Pods, i \in Slots :
       /\ groups[p][i].status \in {"INITIALIZED", "ALLOCATED", "LAUNCHED"} =>
            /\ groups[p][i].dim \in Dims
            /\ groups[p][i].kernel \in Slots
            /\ groups[p][i].name \in Names
       /\ groups[p][i].status \in {"ALLOCATED", "LAUNCHED"} =>
            groups[p][i].origin \in Origins(groups[p][i].dim)
  /\ host.pc = "scan" => host.idx > 0
  /\ host.pc \in {"launch", "wake"} =>
       /\ host.idx \in Slots
       /\ groups[host.cur][host.idx].status = "ALLOCATED"

TypeInv == TypeOK /\ WellFormed

LEMMA TypeInit == Init => TypeInv
<1> SUFFICES ASSUME Init PROVE TypeInv
  OBVIOUS
<1> USE DEF Init
<1>1. NoGroup \in GroupType
  BY DEF NoGroup, GroupType, Coords, Blocks, NoBlock
<1>2. IdleHost \in HostType
  BY ConfigAssumption DEF IdleHost, HostType, Coords
<1>3. NoWork \in WorkType
  BY DEF NoWork, WorkType, Coords
<1>4. NoBinary \in [symbols : SUBSET Names, barrier : BOOLEAN]
  BY DEF NoBinary
<1>5. 0 \in 0 .. MaxGroups
  BY ConfigAssumption
<1>6. \A i \in Slots : i > 0
  BY DEF Slots
<1>7. TypeOK
  BY <1>1, <1>2, <1>3, <1>4, <1>5, <1>6 DEF TypeOK, NoGroup
<1>8. WellFormed
  BY DEF WellFormed, NoGroup, IdleHost
<1> QED BY <1>7, <1>8 DEF TypeInv

(* A launch that finds memory full names an argv or none for the group under *)
(* the host's hand, and takes the buffer it names.                           *)
RanOut(p, i, a) ==
  /\ p = host.cur /\ i = host.idx
  /\ groups[p][i] \in GroupType /\ groups[p][i].status = "ALLOCATED"
  /\ groups'[p][i] = [groups[p][i] EXCEPT !.argv = a]
  /\ \A q \in Pods, j \in Slots : q # p \/ j # i => groups'[q][j] = groups[q][j]
  /\ heap'[p] = heap[p] \cup ({a} \ {NoBlock})
  /\ \A q \in Pods \ {p} : heap'[q] = heap[q]
  /\ groups' \in [Pods -> [Slots -> GroupType]]
  /\ heap' \in [Pods -> SUBSET Blocks]

LEMMA RunsOutEffect ==
  ASSUME TypeInv, LaunchRunsOut
  PROVE  \E p \in Pods, i \in Slots : \E a \in {NoBlock, <<i, "argv">>} : RanOut(p, i, a)
<1>1. PICK p \in Pods, i \in Slots : p = host.cur /\ i = host.idx
  BY DEF LaunchRunsOut, TypeInv, TypeOK, WellFormed, HostType
<1>2. groups[p][i] \in GroupType /\ groups[p][i].status = "ALLOCATED"
  BY <1>1 DEF LaunchRunsOut, TypeInv, TypeOK, WellFormed
<1>3. PICK a \in {NoBlock, <<i, "argv">>} :
        /\ groups' = [groups EXCEPT ![p][i].argv = a]
        /\ heap' = [heap EXCEPT ![p] = @ \cup ({a} \ {NoBlock})]
  BY <1>1 DEF LaunchRunsOut
<1>4. a \in Blocks \cup {NoBlock}
  BY <1>3 DEF Blocks
<1>5. groups' = [groups EXCEPT ![p] = [groups[p] EXCEPT ![i] =
                   [groups[p][i] EXCEPT !.argv = a]]]
  BY <1>3 DEF TypeInv, TypeOK
<1>6. [groups[p][i] EXCEPT !.argv = a] \in GroupType
  BY <1>2, <1>4 DEF GroupType
<1>7. /\ groups' \in [Pods -> [Slots -> GroupType]]
      /\ groups'[p][i] = [groups[p][i] EXCEPT !.argv = a]
      /\ \A q \in Pods, j \in Slots : q # p \/ j # i => groups'[q][j] = groups[q][j]
  BY <1>5, <1>6 DEF TypeInv, TypeOK
<1>8. /\ heap' \in [Pods -> SUBSET Blocks]
      /\ heap'[p] = heap[p] \cup ({a} \ {NoBlock})
      /\ \A q \in Pods \ {p} : heap'[q] = heap[q]
  BY <1>3, <1>4 DEF TypeInv, TypeOK
<1>9. RanOut(p, i, a)
  BY <1>1, <1>2, <1>7, <1>8 DEF RanOut
<1> QED BY <1>9

LEMMA TypeStep == TypeInv /\ [Next]_vars => TypeInv'
<1> SUFFICES ASSUME TypeInv, [Next]_vars PROVE TypeInv'
  OBVIOUS
<1> USE DEF TypeInv
<1>0. /\ MeshX \in Nat /\ MeshY \in Nat /\ MaxGroups \in Nat
      /\ Dims \subseteq Nat \X Nat
  BY ConfigAssumption DEF Positive
<1>a. NoGroup \in GroupType /\ NoGroup.status = "NONE"
  BY DEF NoGroup, GroupType, Coords, Blocks, NoBlock
<1>b. IdleHost \in HostType /\ IdleHost.pc = "idle"
  BY ConfigAssumption DEF IdleHost, HostType, Coords
<1>c. NoWork \in WorkType
  BY DEF NoWork, WorkType, Coords
<1>d. NoBinary \in [symbols : SUBSET Names, barrier : BOOLEAN]
  BY DEF NoBinary
<1>e. ASSUME NEW p \in Pods, NEW todo \in SUBSET Pods
      PROVE  /\ Scanning(p, todo) \in HostType
             /\ Scanning(p, todo).pc = "scan"
             /\ Scanning(p, todo).idx = 1
  BY DEF Scanning, TypeOK, HostType, Coords
<1>f. /\ host \in HostType
      /\ \A q \in Pods, j \in Slots : groups[q][j].status = "NONE" <=> j > num[q]
  BY DEF TypeOK
<1>1. ASSUME NEW p \in Pods, NEW b \in Binaries, ProgramInit(p, b)
      PROVE  TypeInv'
  <2>1. b \in [symbols : SUBSET Names, barrier : BOOLEAN]
    BY ConfigAssumption
  <2>2. TypeOK'
    BY <1>1, <1>0, <1>a, <1>c, <2>1 DEF ProgramInit, TypeOK, Slots
  <2>3. WellFormed'
    BY <1>1, <1>a DEF ProgramInit, TypeOK, WellFormed
  <2> QED BY <2>2, <2>3
<1>2. ASSUME NEW p \in Pods, ProgramFinish(p)
      PROVE  TypeInv'
  <2>1. \A k \in Slots :
          refs[p][k] - Cardinality({i \in Slots :
             /\ groups[p][i].status \notin {"NONE", "FINISHED"}
             /\ groups[p][i].kernel = k}) \in Int
    BY SlotsCountable DEF TypeOK
  <2>2. TypeOK'
    BY <1>2, <1>0, <1>a, <1>c, <1>d, <2>1 DEF ProgramFinish, TypeOK, Slots
  <2>3. WellFormed'
    BY <1>2, <1>a DEF ProgramFinish, TypeOK, WellFormed
  <2> QED BY <2>2, <2>3
<1>3. ASSUME NEW p \in Pods, NEW g \in GridDims, NEW d \in Dims, NEW k \in Names,
             KernelEnqueue(p, g, d, k)
      PROVE  TypeInv'
  <2> DEFINE first == num[p] + 1
             last  == num[p] + g[1] * g[2]
  <2>1. /\ g \in Positive \X Positive
        /\ num[p] \in 0 .. MaxGroups
    BY ConfigAssumption DEF TypeOK
  <2>2. g[1] * g[2] \in Nat /\ g[1] * g[2] > 0
    BY <2>1, GridSize
  <2> DEFINE size == g[1] * g[2]
  <2>3. first \in Slots /\ last \in 0 .. MaxGroups
    <3> HIDE DEF size
    <3> SUFFICES num[p] + 1 \in Slots /\ num[p] + size \in 0 .. MaxGroups
      BY DEF size
    <3>1. num[p] + size <= MaxGroups
      BY <1>3 DEF KernelEnqueue, size
    <3> QED BY <1>0, <2>1, <2>2, <3>1 DEF Slots, size
  <2>4. ASSUME NEW i \in Slots, i \in first .. last
        PROVE  /\ NewGroup(first, g, d, k, i) \in GroupType
               /\ NewGroup(first, g, d, k, i).status = "INITIALIZED"
               /\ NewGroup(first, g, d, k, i).dim = d
               /\ NewGroup(first, g, d, k, i).kernel = first
               /\ NewGroup(first, g, d, k, i).name = k
    <3>1. i - first \in Nat
      BY <2>1, <2>3, <2>4 DEF Slots
    <3>2. FinishEpa(g, i - first) \in Nat
      BY <2>1, <3>1, FinishEpaType
    <3>3. d \in Coords /\ first \in Slots
      BY <1>0, <2>3 DEF Coords
    <3> HIDE DEF first
    <3> QED BY <3>2, <3>3 DEF NewGroup, GroupType, Coords, NoBlock
  <2> HIDE DEF first, last
  <2>5. /\ groups' = [groups EXCEPT ![p] =
                        [i \in Slots |-> IF i \in first .. last
                                           THEN NewGroup(first, g, d, k, i)
                                           ELSE groups[p][i]]]
        /\ num' = [num EXCEPT ![p] = last]
        /\ refs' = [refs EXCEPT ![p] = [@ EXCEPT ![first] = g[1] * g[2]]]
        /\ UNCHANGED <<loaded, binary, tile, heap, host, epoch, deviceVars>>
        /\ host.pc = "idle"
    BY <1>3 DEF KernelEnqueue, first, last
  <2>6. groups' \in [Pods -> [Slots -> GroupType]]
    BY <2>4, <2>5 DEF TypeOK
  <2>7. num' \in [Pods -> 0 .. MaxGroups]
    BY <2>3, <2>5 DEF TypeOK
  <2>8. refs' \in [Pods -> [Slots -> Int]]
    BY <2>2, <2>3, <2>5 DEF TypeOK
  <2>9. ASSUME NEW q \in Pods, NEW i \in Slots
        PROVE  groups'[q][i].status = "NONE" <=> i > num'[q]
    <3>1. first = num[p] + 1 /\ last \in Nat /\ last >= first
      BY <2>1, <2>2, <2>3 DEF first, last
    <3>2. CASE q = p /\ i \in first .. last
      BY <2>4, <2>5, <2>1, <3>1, <3>2 DEF TypeOK, Slots
    <3>3. CASE q = p /\ i \notin first .. last
      <4>1. groups'[q][i] = groups[p][i] /\ num'[q] = last
        BY <2>5, <3>3 DEF TypeOK
      <4>2. groups[p][i].status = "NONE" <=> i > num[p]
        BY DEF TypeOK
      <4> QED BY <2>1, <3>1, <3>3, <4>1, <4>2 DEF Slots
    <3>4. CASE q # p
      BY <2>5, <3>4 DEF TypeOK
    <3> QED BY <3>2, <3>3, <3>4
  <2>10. TypeOK'
    BY <2>5, <2>6, <2>7, <2>8, <2>9 DEF TypeOK, deviceVars
  <2>11. WellFormed'
    BY <2>3, <2>4, <2>5 DEF TypeOK, WellFormed
  <2> QED BY <2>10, <2>11
<1>4. ASSUME NEW p \in Pods, KernelsExecute(p)
      PROVE  TypeInv'
  <2>1. host' \in HostType /\ host'.pc = "check"
    BY <1>4, <1>f DEF KernelsExecute, HostType
  <2> QED
    BY <1>4, <2>1 DEF KernelsExecute, podVars, deviceVars, TypeOK, WellFormed
<1>5. ASSUME NEW podv \in SUBSET Pods, KernelsExecuteV(podv)
      PROVE  TypeInv'
  <2> PICK p \in podv :
         host' = [Scanning(p, podv \ {p}) EXCEPT !.op = "podv", !.podv = podv]
    BY <1>5 DEF KernelsExecuteV
  <2>1. host' \in HostType /\ host'.pc = "scan" /\ host'.idx = 1
    <3>1. Scanning(p, podv \ {p}) \in HostType
      BY <1>e
    <3>2. Scanning(p, podv \ {p}).pc = "scan" /\ Scanning(p, podv \ {p}).idx = 1
      BY <1>e
    <3> QED BY <3>1, <3>2 DEF HostType
  <2> QED
    BY <1>5, <2>1 DEF KernelsExecuteV, podVars, deviceVars, TypeOK, WellFormed
<1>6. CASE Check
  <2>1. /\ host' \in HostType
        /\ host'.pc = "scan" => host'.idx = 1
        /\ host'.pc \notin {"launch", "wake"}
    <3>1. CASE host' = IdleHost
      BY <1>b, <3>1
    <3>2. CASE \E p \in host.podv : host' = Scanning(p, {})
      <4>1. host.podv \subseteq Pods
        BY <1>f DEF HostType
      <4> QED BY <1>e, <3>2, <4>1
    <3>3. CASE host' = [host EXCEPT !.pc = "wait"]
      BY <3>3 DEF TypeOK, HostType
    <3> QED BY <1>6, <3>1, <3>2, <3>3 DEF Check
  <2> QED BY <1>6, <2>1 DEF Check, podVars, deviceVars, TypeOK, WellFormed
<1>7. CASE ScanSkip
  <2>1. /\ host' \in HostType /\ host'.pc = "scan" /\ host'.idx = host.idx + 1
        /\ host.pc = "scan" /\ host.idx \in Nat
    BY <1>7, <1>f DEF ScanSkip, HostType
  <2> QED
    BY <1>7, <2>1 DEF ScanSkip, podVars, deviceVars, TypeOK, WellFormed
<1>8. CASE ScanNoRoom
  <2>1. host.idx \in Slots /\ host.cur \in Pods
    BY <1>8, <1>0 DEF ScanNoRoom, TypeOK, WellFormed, HostType, Slots
  <2>2. Current.dim \in Coords
    BY <2>1 DEF Current, TypeOK, GroupType
  <2> DEFINE d == Current.dim
  <2>3. /\ host' \in HostType /\ host'.pc = "scan" /\ host'.idx = host.idx + 1
        /\ host.pc = "scan" /\ host.idx \in Nat
    <3> DEFINE n == host.idx + 1
    <3>1. host' = [host EXCEPT !.idx = n, !.failed = d] /\ host.pc = "scan"
      BY <1>8 DEF ScanNoRoom
    <3>2. d \in Coords /\ host.idx \in Nat /\ n \in Nat
      BY <1>f, <2>2 DEF HostType
    <3>3. n = host.idx + 1
      OBVIOUS
    <3> HIDE DEF d, n
    <3>4. host' \in HostType /\ host'.pc = "scan" /\ host'.idx = n
      BY <1>f, <3>1, <3>2 DEF HostType
    <3> QED BY <3>1, <3>2, <3>3, <3>4
  <2> QED
    BY <1>8, <2>3 DEF ScanNoRoom, podVars, deviceVars, TypeOK, WellFormed
<1>9. CASE AllocateTiles
  <2> DEFINE p == host.cur
             i == host.idx
             d == Current.dim
  <2>1. /\ i \in Slots /\ p \in Pods
        /\ Current = groups[p][i]
        /\ groups[p][i] \in GroupType
        /\ groups[p][i].status = "INITIALIZED"
        /\ host \in HostType
    BY <1>9, <1>0 DEF AllocateTiles, Candidate, Current, TypeOK, WellFormed,
                      HostType, Slots
  <2>2. PICK o \in FreeOrigins(p, d) :
          /\ tile' = [tile EXCEPT ![p] =
                        [t \in Tiles |-> IF t \in Footprint(o, d)
                                           THEN "BUSY" ELSE tile[p][t]]]
          /\ groups' = [groups EXCEPT ![p][i].status = "ALLOCATED",
                                      ![p][i].origin = o]
    BY <1>9 DEF AllocateTiles
  <2>3. o \in Origins(d) /\ o \in Coords
    BY <1>0, <2>2 DEF FreeOrigins, Origins, Tiles, Coords
  <2>4. /\ host' = [host EXCEPT !.pc = "launch"]
        /\ UNCHANGED <<loaded, binary, num, refs, heap, epoch, deviceVars>>
    BY <1>9 DEF AllocateTiles
  <2> HIDE DEF p, i, d
  <2>5. groups' = [groups EXCEPT ![p] = [groups[p] EXCEPT ![i] =
                     [groups[p][i] EXCEPT !.status = "ALLOCATED", !.origin = o]]]
    BY <2>1, <2>2 DEF TypeOK
  <2>6. [groups[p][i] EXCEPT !.status = "ALLOCATED", !.origin = o] \in GroupType
    BY <2>1, <2>3 DEF GroupType
  <2>7. groups' \in [Pods -> [Slots -> GroupType]]
    BY <2>1, <2>5, <2>6 DEF TypeOK
  <2>8. tile' \in [Pods -> [Tiles -> {"FREE", "BUSY"}]]
    BY <2>1, <2>2 DEF TypeOK
  <2>9. \A q \in Pods, j \in Slots : q # p \/ j # i => groups'[q][j] = groups[q][j]
    BY <2>1, <2>5 DEF TypeOK
  <2>10. /\ groups'[p][i].status = "ALLOCATED"
         /\ groups'[p][i].origin = o
         /\ groups'[p][i].dim = groups[p][i].dim
         /\ groups'[p][i].kernel = groups[p][i].kernel
         /\ groups'[p][i].name = groups[p][i].name
    BY <2>1, <2>5 DEF TypeOK, GroupType
  <2>11. TypeOK'
    <3>1. host' \in HostType
      BY <2>1, <2>4 DEF HostType
    <3>2. ASSUME NEW q \in Pods, NEW j \in Slots
          PROVE  groups'[q][j].status = "NONE" <=> j > num'[q]
      BY <1>f, <2>1, <2>4, <2>9, <2>10
    <3> QED BY <2>4, <2>7, <2>8, <3>1, <3>2 DEF TypeOK, deviceVars
  <2>12. d = groups[p][i].dim
    BY <2>1 DEF d
  <2>13. host'.pc = "launch" /\ host'.idx = i /\ host'.cur = p
    BY <2>1, <2>4 DEF HostType, p, i
  <2>14. WellFormed'
    BY <2>1, <2>3, <2>9, <2>10, <2>12, <2>13 DEF WellFormed
  <2> QED BY <2>11, <2>14
<1>10. CASE LaunchPrepare
  <2> DEFINE p == host.cur
             i == host.idx
             argv == <<i, "argv">>
             barcfg == IF binary[p].barrier THEN <<i, "barcfg">> ELSE NoBlock
  <2>1. /\ i \in Slots /\ p \in Pods
        /\ groups[p][i] \in GroupType
        /\ groups[p][i].status = "ALLOCATED"
        /\ host \in HostType
    BY <1>10 DEF LaunchPrepare, TypeOK, WellFormed, HostType
  <2>2. /\ groups' = [groups EXCEPT ![p][i].argv = argv, ![p][i].barcfg = barcfg]
        /\ heap' = [heap EXCEPT ![p] = @ \cup ({argv, barcfg} \ {NoBlock})]
        /\ \/ host' = [host EXCEPT !.pc = "wake", !.wake = GroupTiles(p, i)]
           \/ host' = IdleHost
        /\ UNCHANGED <<loaded, binary, tile, num, refs, epoch, deviceVars>>
    BY <1>10 DEF LaunchPrepare
  <2>3. argv \in Blocks /\ barcfg \in Blocks \cup {NoBlock}
    BY <2>1 DEF Blocks
  <2>4. /\ host' \in HostType
        /\ host'.pc \in {"wake", "idle"}
        /\ host'.pc = "wake" => host'.idx = i /\ host'.cur = p
    <3>1. GroupTiles(p, i) \subseteq Tiles
      BY DEF GroupTiles, Footprint
    <3>2. CASE host' = IdleHost
      BY <1>b, <3>2
    <3>3. CASE host' = [host EXCEPT !.pc = "wake", !.wake = GroupTiles(p, i)]
      BY <2>1, <3>1, <3>3 DEF HostType
    <3> QED BY <2>2, <3>2, <3>3
  <2> HIDE DEF p, i, argv, barcfg
  <2>5. groups' = [groups EXCEPT ![p] = [groups[p] EXCEPT ![i] =
                     [groups[p][i] EXCEPT !.argv = argv, !.barcfg = barcfg]]]
    BY <2>1, <2>2 DEF TypeOK
  <2>6. [groups[p][i] EXCEPT !.argv = argv, !.barcfg = barcfg] \in GroupType
    BY <2>1, <2>3 DEF GroupType
  <2>7. groups' \in [Pods -> [Slots -> GroupType]]
    BY <2>1, <2>5, <2>6 DEF TypeOK
  <2>8. heap' \in [Pods -> SUBSET Blocks]
    BY <2>1, <2>2, <2>3 DEF TypeOK
  <2>9. \A q \in Pods, j \in Slots :
          /\ groups'[q][j].status = groups[q][j].status
          /\ groups'[q][j].origin = groups[q][j].origin
          /\ groups'[q][j].dim = groups[q][j].dim
          /\ groups'[q][j].kernel = groups[q][j].kernel
          /\ groups'[q][j].name = groups[q][j].name
    BY <2>1, <2>5 DEF TypeOK, GroupType
  <2>10. TypeOK'
    BY <2>2, <2>4, <2>7, <2>8, <2>9 DEF TypeOK, deviceVars
  <2>11. WellFormed'
    BY <2>1, <2>4, <2>9 DEF WellFormed
  <2> QED BY <2>10, <2>11
<1>11. CASE WakeTile
  <2>1. host.cur \in Pods /\ host.idx \in Slots /\ host \in HostType
    BY <1>11 DEF WakeTile, TypeOK, WellFormed, HostType
  <2>2. WorkOf(host.cur, host.idx) \in WorkType
    <3>1. groups[host.cur][host.idx] \in GroupType
      BY <2>1 DEF TypeOK
    <3> QED BY <2>1, <3>1 DEF WorkOf, WorkType, GroupType, GroupTiles, Footprint
  <2>3. PICK t \in host.wake :
          /\ running' = [running EXCEPT ![host.cur][t] = WorkOf(host.cur, host.idx)]
          /\ host' = [host EXCEPT !.wake = @ \ {t}]
    BY <1>11 DEF WakeTile
  <2>4. t \in Tiles
    BY <2>1 DEF HostType
  <2>5. running' \in [Pods -> [Tiles -> WorkType]]
    BY <2>1, <2>2, <2>3, <2>4 DEF TypeOK
  <2>6. /\ host' \in HostType /\ host'.pc = host.pc
        /\ host'.cur = host.cur /\ host'.idx = host.idx
    BY <2>1, <2>3 DEF HostType
  <2>7. UNCHANGED <<loaded, binary, tile, groups, num, refs, heap, epoch, rqst, chatter>>
    BY <1>11 DEF WakeTile, podVars
  <2> QED BY <2>5, <2>6, <2>7 DEF TypeOK, WellFormed
<1>12. CASE LaunchDone
  <2> DEFINE p == host.cur
             i == host.idx
  <2>1. /\ i \in Slots /\ p \in Pods
        /\ groups[p][i] \in GroupType
        /\ groups[p][i].status = "ALLOCATED"
        /\ host \in HostType
    BY <1>12 DEF LaunchDone, TypeOK, WellFormed, HostType
  <2>2. /\ groups' = [groups EXCEPT ![p][i].status = "LAUNCHED"]
        /\ host' = [host EXCEPT !.pc = "scan", !.idx = @ + 1]
        /\ UNCHANGED <<loaded, binary, tile, num, refs, heap, epoch, deviceVars>>
    BY <1>12 DEF LaunchDone
  <2>3. host' \in HostType /\ host'.pc = "scan" /\ host'.idx > 0
    <3> DEFINE n == host.idx + 1
    <3>1. n \in Nat /\ n > 0
      BY <1>0, <2>1 DEF Slots
    <3>2. host' = [host EXCEPT !.pc = "scan", !.idx = n]
      BY <2>2
    <3> HIDE DEF n
    <3> QED BY <2>1, <3>1, <3>2 DEF HostType
  <2> HIDE DEF p, i
  <2>4. groups' = [groups EXCEPT ![p] = [groups[p] EXCEPT ![i] =
                     [groups[p][i] EXCEPT !.status = "LAUNCHED"]]]
    BY <2>1, <2>2 DEF TypeOK
  <2>5. [groups[p][i] EXCEPT !.status = "LAUNCHED"] \in GroupType
    BY <2>1 DEF GroupType
  <2>6. groups' \in [Pods -> [Slots -> GroupType]]
    BY <2>1, <2>4, <2>5 DEF TypeOK
  <2>7. \A q \in Pods, j \in Slots :
          /\ groups'[q][j].status = IF q = p /\ j = i THEN "LAUNCHED"
                                                      ELSE groups[q][j].status
          /\ groups'[q][j].origin = groups[q][j].origin
          /\ groups'[q][j].dim = groups[q][j].dim
          /\ groups'[q][j].kernel = groups[q][j].kernel
          /\ groups'[q][j].name = groups[q][j].name
    BY <2>1, <2>4 DEF TypeOK, GroupType
  <2>8. TypeOK'
    BY <2>1, <2>2, <2>3, <2>6, <2>7 DEF TypeOK, deviceVars
  <2>9. WellFormed'
    BY <2>1, <2>3, <2>7 DEF WellFormed
  <2> QED BY <2>8, <2>9
<1>13. CASE ScanEnd
  <2>1. /\ host' \in HostType
        /\ host'.pc = "scan" => host'.idx = 1
        /\ host'.pc \notin {"launch", "wake"}
    <3>1. CASE \E p \in host.todo : host' = Scanning(p, host.todo \ {p})
      <4>1. host.todo \subseteq Pods
        BY <1>f DEF HostType
      <4> QED BY <1>e, <3>1, <4>1
    <3>2. CASE \/ host' = [host EXCEPT !.pc = "wait"]
               \/ host' = [host EXCEPT !.pc = "check"]
      BY <3>2 DEF TypeOK, HostType
    <3> QED BY <1>13, <3>1, <3>2 DEF ScanEnd
  <2> QED BY <1>13, <2>1 DEF ScanEnd, podVars, deviceVars, TypeOK, WellFormed
<1>14. ASSUME NEW m \in rqst, ReceiveFinish(m)
       PROVE  TypeInv'
  <2> DEFINE p == m.pod
  <2>1. p \in Pods
    BY DEF TypeOK, PacketType
  <2>2. PICK i \in Matches(m) : Retire(p, i)
    BY <1>14 DEF ReceiveFinish
  <2>3. /\ i \in Slots /\ groups[p][i].status = "LAUNCHED"
        /\ groups[p][i] \in GroupType
        /\ groups[p][i].kernel \in Slots
    BY <1>0, <2>1, <2>2 DEF Matches, Slots, TypeOK, WellFormed
  <2>4. /\ tile' = [tile EXCEPT ![p] = [t \in Tiles |->
                      IF t \in GroupTiles(p, i) THEN "FREE" ELSE tile[p][t]]]
        /\ heap' = [heap EXCEPT ![p] = @ \ {groups[p][i].argv, groups[p][i].barcfg}]
        /\ refs' = [refs EXCEPT ![p][groups[p][i].kernel] = @ - 1]
        /\ groups' = [groups EXCEPT ![p][i].status = "FINISHED",
                                    ![p][i].dim = <<0, 0>>,
                                    ![p][i].origin = <<0, 0>>,
                                    ![p][i].kernel = 0]
    BY <2>2 DEF Retire, Buffers
  <2>5. /\ rqst' = rqst \ {m}
        /\ host' = IF host.op = "pod" THEN [host EXCEPT !.pc = "check"]
                                      ELSE Scanning(p, {})
        /\ UNCHANGED <<loaded, binary, num, epoch, running, chatter>>
    BY <1>14 DEF ReceiveFinish
  <2>6. /\ host' \in HostType
        /\ host'.pc = "scan" => host'.idx = 1
        /\ host'.pc \notin {"launch", "wake"}
    <3>1. host \in HostType
      BY DEF TypeOK
    <3>2. [host EXCEPT !.pc = "check"] \in HostType
      BY <3>1 DEF HostType
    <3> QED BY <1>e, <2>1, <2>5, <3>1, <3>2 DEF HostType
  <2> HIDE DEF p
  <2>7. groups' = [groups EXCEPT ![p] = [groups[p] EXCEPT ![i] =
                     [groups[p][i] EXCEPT !.status = "FINISHED", !.dim = <<0, 0>>,
                                          !.origin = <<0, 0>>, !.kernel = 0]]]
    BY <2>1, <2>3, <2>4 DEF TypeOK
  <2>8. [groups[p][i] EXCEPT !.status = "FINISHED", !.dim = <<0, 0>>,
                             !.origin = <<0, 0>>, !.kernel = 0] \in GroupType
    BY <2>3 DEF GroupType, Coords
  <2>9. groups' \in [Pods -> [Slots -> GroupType]]
    BY <2>1, <2>3, <2>7, <2>8 DEF TypeOK
  <2>10. \A q \in Pods, j \in Slots : q # p \/ j # i => groups'[q][j] = groups[q][j]
    BY <2>1, <2>3, <2>7 DEF TypeOK
  <2>11. groups'[p][i].status = "FINISHED"
    BY <2>1, <2>3, <2>7 DEF TypeOK, GroupType
  <2>12. TypeOK'
    <3>1. tile' \in [Pods -> [Tiles -> {"FREE", "BUSY"}]]
      BY <2>1, <2>4 DEF TypeOK
    <3>2. heap' \in [Pods -> SUBSET Blocks]
      BY <2>1, <2>4 DEF TypeOK
    <3>3. refs' \in [Pods -> [Slots -> Int]]
      BY <2>1, <2>3, <2>4 DEF TypeOK
    <3>4. \A q \in Pods, j \in Slots : groups'[q][j].status = "NONE" <=> j > num'[q]
      BY <1>f, <2>1, <2>3, <2>5, <2>10, <2>11
    <3> QED BY <2>5, <2>6, <2>9, <3>1, <3>2, <3>3, <3>4 DEF TypeOK
  <2>13. WellFormed'
    BY <2>1, <2>3, <2>6, <2>10, <2>11 DEF WellFormed
  <2> QED BY <2>12, <2>13
<1>15. ASSUME NEW m \in rqst, ReceiveOther(m)
       PROVE  TypeInv'
  BY <1>15 DEF ReceiveOther, podVars, TypeOK, WellFormed
<1>16. ASSUME NEW m \in rqst, ReceiveFails(m)
       PROVE  TypeInv'
  BY <1>16, <1>b DEF ReceiveFails, podVars, TypeOK, WellFormed
<1>17. ASSUME NEW p \in Pods, NEW t \in Tiles, DeviceFinish(p, t)
       PROVE  TypeInv'
  <2> DEFINE w == running[p][t]
  <2>1. w \in WorkType /\ t \in Coords /\ epoch[p] \in Nat
    BY <1>0 DEF TypeOK, Tiles, Coords
  <2>2. [data |-> "finish", pod |-> p, src |-> t, epa |-> w.epa,
         from |-> <<epoch[p], w.slot>>] \in PacketType
    BY <2>1 DEF PacketType, WorkType
  <2>3. /\ running' = [running EXCEPT ![p] = [u \in Tiles |->
                         IF u \in w.tiles THEN NoWork ELSE running[p][u]]]
        /\ rqst' = rqst \cup
             {[data |-> "finish", pod |-> p, src |-> t, epa |-> w.epa,
               from |-> <<epoch[p], w.slot>>]}
        /\ UNCHANGED <<podVars, host, chatter>>
    BY <1>17 DEF DeviceFinish
  <2>4. running' \in [Pods -> [Tiles -> WorkType]]
    BY <1>c, <2>3 DEF TypeOK
  <2>5. rqst' \subseteq PacketType
    BY <2>2, <2>3 DEF TypeOK
  <2> QED BY <2>3, <2>4, <2>5 DEF podVars, TypeOK, WellFormed
<1>18. ASSUME NEW p \in Pods, NEW t \in Tiles, DeviceChatter(p, t)
       PROVE  TypeInv'
  <2>1. t \in Coords /\ epoch[p] \in Nat
    BY <1>0 DEF TypeOK, Tiles, Coords
  <2>2. [data |-> "other", pod |-> p, src |-> t, epa |-> 0,
         from |-> <<epoch[p], 0>>] \in PacketType
    BY <2>1 DEF PacketType
  <2>3. rqst' \subseteq PacketType /\ chatter' \in Nat
    <3>1. /\ rqst' = rqst \cup {[data |-> "other", pod |-> p, src |-> t, epa |-> 0,
                               from |-> <<epoch[p], 0>>]}
          /\ chatter' = chatter + 1
      BY <1>18 DEF DeviceChatter
    <3>2. rqst \subseteq PacketType /\ chatter \in Nat
      BY DEF TypeOK
    <3>3. rqst' \subseteq PacketType
      BY <2>2, <3>1, <3>2
    <3> QED BY <3>1, <3>2, <3>3
  <2>4. UNCHANGED <<podVars, host, running>>
    BY <1>18 DEF DeviceChatter
  <2> QED BY <2>3, <2>4 DEF podVars, TypeOK, WellFormed
<1>19. CASE UNCHANGED vars
  BY <1>19 DEF vars, TypeOK, WellFormed
<1>20. CASE LaunchRunsOut
  <2>1. PICK p \in Pods, i \in Slots, a \in Blocks \cup {NoBlock} : RanOut(p, i, a)
    <3>1. PICK p \in Pods, i \in Slots : \E a \in {NoBlock, <<i, "argv">>} : RanOut(p, i, a)
      BY <1>20, RunsOutEffect
    <3> QED BY <3>1 DEF Blocks
  <2>2. \A q \in Pods, j \in Slots :
          /\ groups'[q][j].status = groups[q][j].status
          /\ groups'[q][j].origin = groups[q][j].origin
          /\ groups'[q][j].dim = groups[q][j].dim
          /\ groups'[q][j].kernel = groups[q][j].kernel
          /\ groups'[q][j].name = groups[q][j].name
    BY <2>1 DEF RanOut, GroupType
  <2>3. /\ host' = IdleHost
        /\ UNCHANGED <<loaded, binary, tile, num, refs, epoch, deviceVars>>
    BY <1>20 DEF LaunchRunsOut
  <2>4. groups' \in [Pods -> [Slots -> GroupType]] /\ heap' \in [Pods -> SUBSET Blocks]
    BY <2>1 DEF RanOut
  <2> HIDE DEF TypeInv
  <2>5. TypeOK'
    <3>1. TypeOK
      BY DEF TypeInv
    <3> QED BY <1>b, <2>2, <2>3, <2>4, <3>1 DEF TypeOK, deviceVars
  <2>6. WellFormed'
    BY <1>b, <2>2, <2>3 DEF TypeInv, WellFormed
  <2> QED BY <2>5, <2>6 DEF TypeInv
<1>21. QED
  BY <1>1, <1>2, <1>3, <1>4, <1>5, <1>6, <1>7, <1>8, <1>9, <1>10, <1>11, <1>12,
     <1>13, <1>14, <1>15, <1>16, <1>17, <1>18, <1>19, <1>20
     DEF Next, Client, Host, Receive, Device

(* Every variable keeps its type, whatever fails. *)
THEOREM TypeCorrect == Spec => []TypeOK
<1>1. Spec => []TypeInv
  BY TypeInit, TypeStep, PTL DEF Spec
<1>2. TypeInv => TypeOK
  BY DEF TypeInv
<1> QED BY <1>1, <1>2, PTL

-----------------------------------------------------------------------------
(* Ownership of tiles *)

(* TileOwnership of one pod. *)
Owned(p) ==
  /\ \A i, j \in Holding(p) :
       i # j => GroupTiles(p, i) \cap GroupTiles(p, j) = {}
  /\ \A t \in Tiles :
       tile[p][t] = "BUSY" <=> \E i \in Holding(p) : t \in GroupTiles(p, i)

(* A pod stays well owned when its tiles keep their status and the same      *)
(* groups hold the same rectangles.                                          *)
LEMMA SameHolders ==
  ASSUME NEW p \in Pods, Owned(p), tile'[p] = tile[p],
         \A j \in Slots :
           LET g == groups[p][j]
               h == groups'[p][j]
           IN  /\ h.status \in {"ALLOCATED", "LAUNCHED"} <=>
                    g.status \in {"ALLOCATED", "LAUNCHED"}
               /\ g.status \in {"ALLOCATED", "LAUNCHED"} =>
                    h.origin = g.origin /\ h.dim = g.dim
  PROVE  Owned(p)'
<1>1. Holding(p)' = Holding(p)
  BY DEF Holding
<1>2. \A j \in Holding(p) : GroupTiles(p, j)' = GroupTiles(p, j)
  BY DEF Holding, GroupTiles
<1> QED BY <1>1, <1>2 DEF Owned

(* A pod without groups and with every tile FREE is well owned. *)
LEMMA NoHolders ==
  ASSUME NEW p \in Pods,
         tile'[p] = [t \in Tiles |-> "FREE"],
         groups'[p] = [i \in Slots |-> NoGroup]
  PROVE  Owned(p)'
<1>1. Holding(p)' = {}
  BY DEF Holding, NoGroup
<1> QED BY <1>1 DEF Owned

(* Group i of pod p takes the free tiles at origin o; nothing else changes   *)
(* in the lists of groups and in the meshes.                                 *)
Allocated(p, i, o) ==
  /\ p \in Pods /\ i \in Slots
  /\ groups[p][i].status = "INITIALIZED"
  /\ o \in FreeOrigins(p, groups[p][i].dim)
  /\ \A t \in Tiles : tile'[p][t] = IF t \in Footprint(o, groups[p][i].dim)
                                      THEN "BUSY" ELSE tile[p][t]
  /\ \A q \in Pods \ {p} : tile'[q] = tile[q] /\ groups'[q] = groups[q]
  /\ \A j \in Slots \ {i} : groups'[p][j] = groups[p][j]
  /\ groups'[p][i].status = "ALLOCATED"
  /\ groups'[p][i].origin = o
  /\ groups'[p][i].dim = groups[p][i].dim
  /\ groups'[p][i].epa = groups[p][i].epa

LEMMA AllocateEffect ==
  ASSUME TypeInv, AllocateTiles
  PROVE  \E p \in Pods, i \in Slots, o \in Tiles :
            p = host.cur /\ i = host.idx /\ Allocated(p, i, o)
<1>1. MaxGroups \in Nat
  BY ConfigAssumption
<1>2. PICK p \in Pods, i \in Slots : p = host.cur /\ i = host.idx
  BY <1>1 DEF AllocateTiles, TypeInv, TypeOK, WellFormed, HostType, Slots
<1>3. /\ Current = groups[p][i]
      /\ groups[p][i] \in GroupType
      /\ groups[p][i].status = "INITIALIZED"
  BY <1>2 DEF AllocateTiles, Candidate, Current, TypeInv, TypeOK
<1>4. PICK o \in FreeOrigins(p, Current.dim) :
        /\ tile' = [tile EXCEPT ![host.cur] =
                      [t \in Tiles |-> IF t \in Footprint(o, Current.dim)
                                         THEN "BUSY" ELSE tile[host.cur][t]]]
        /\ groups' = [groups EXCEPT ![host.cur][host.idx].status = "ALLOCATED",
                                    ![host.cur][host.idx].origin = o]
  BY <1>2 DEF AllocateTiles
<1>5. /\ \A t \in Tiles : tile'[p][t] = IF t \in Footprint(o, Current.dim)
                                          THEN "BUSY" ELSE tile[p][t]
      /\ \A q \in Pods \ {p} : tile'[q] = tile[q]
  BY <1>2, <1>4 DEF TypeInv, TypeOK
<1>6. /\ \A q \in Pods \ {p} : groups'[q] = groups[q]
      /\ \A j \in Slots \ {i} : groups'[p][j] = groups[p][j]
      /\ groups'[p][i].status = "ALLOCATED"
      /\ groups'[p][i].origin = o
      /\ groups'[p][i].dim = groups[p][i].dim
      /\ groups'[p][i].epa = groups[p][i].epa
  <2>1. groups' = [groups EXCEPT ![p][i].status = "ALLOCATED",
                                ![p][i].origin = o]
    BY <1>2, <1>4
  <2>2. groups' = [groups EXCEPT ![p] = [groups[p] EXCEPT ![i] =
                     [groups[p][i] EXCEPT !.status = "ALLOCATED", !.origin = o]]]
    BY <1>3, <2>1 DEF TypeInv, TypeOK
  <2> QED BY <1>3, <2>2 DEF TypeInv, TypeOK, GroupType
<1>7. o \in Tiles
  BY <1>4 DEF FreeOrigins, Origins
<1>8. o \in FreeOrigins(p, groups[p][i].dim)
  BY <1>3, <1>4
<1>9. Allocated(p, i, o)
  BY <1>3, <1>5, <1>6, <1>8 DEF Allocated
<1> QED BY <1>2, <1>7, <1>9

(* Group i of pod p gives its tiles back; nothing else changes in the lists  *)
(* of groups and in the meshes.                                              *)
Retired(p, i) ==
  /\ p \in Pods /\ i \in Slots
  /\ groups[p][i].status = "LAUNCHED"
  /\ \A t \in Tiles : tile'[p][t] = IF t \in GroupTiles(p, i)
                                      THEN "FREE" ELSE tile[p][t]
  /\ \A q \in Pods \ {p} : tile'[q] = tile[q] /\ groups'[q] = groups[q]
  /\ \A j \in Slots \ {i} : groups'[p][j] = groups[p][j]
  /\ groups'[p][i].status = "FINISHED"

LEMMA RetireEffect ==
  ASSUME TypeInv, NEW m \in rqst, NEW i \in Matches(m), Retire(m.pod, i)
  PROVE  Retired(m.pod, i)
<1>1. m.pod \in Pods /\ num[m.pod] \in 0 .. MaxGroups
  BY DEF TypeInv, TypeOK, PacketType
<1>2. i \in Slots /\ groups[m.pod][i].status = "LAUNCHED"
  <2>1. MaxGroups \in Nat
    BY ConfigAssumption
  <2>2. i \in 1 .. num[m.pod] /\ groups[m.pod][i].status = "LAUNCHED"
    BY DEF Matches
  <2> QED BY <1>1, <2>1, <2>2 DEF Slots
<1>3. PICK p \in Pods : p = m.pod
  BY <1>1
<1>4. /\ tile' = [tile EXCEPT ![p] = [t \in Tiles |->
                    IF t \in GroupTiles(p, i) THEN "FREE" ELSE tile[p][t]]]
      /\ groups' = [groups EXCEPT ![p][i].status = "FINISHED",
                                  ![p][i].dim = <<0, 0>>,
                                  ![p][i].origin = <<0, 0>>,
                                  ![p][i].kernel = 0]
  BY <1>3 DEF Retire
<1>5. /\ \A t \in Tiles : tile'[p][t] = IF t \in GroupTiles(p, i)
                                          THEN "FREE" ELSE tile[p][t]
      /\ \A q \in Pods \ {p} : tile'[q] = tile[q]
  BY <1>4 DEF TypeInv, TypeOK
<1>6. groups[p] \in [Slots -> GroupType] /\ groups[p][i] \in GroupType
  BY <1>2 DEF TypeInv, TypeOK
<1>7. /\ \A q \in Pods \ {p} : groups'[q] = groups[q]
      /\ \A j \in Slots \ {i} : groups'[p][j] = groups[p][j]
      /\ groups'[p][i].status = "FINISHED"
  BY <1>2, <1>4, <1>6 DEF TypeInv, TypeOK, GroupType
<1> QED BY <1>2, <1>3, <1>5, <1>7 DEF Retired

(* allocate_tiles takes tiles that no other group of the pod holds.          *)
LEMMA AllocateOwns ==
  ASSUME TypeInv, AllocateTiles, TileOwnership
  PROVE  TileOwnership'
<1>1. PICK p \in Pods, i \in Slots, o \in Tiles : Allocated(p, i, o)
  BY AllocateEffect
<1>2. o \in FreeOrigins(p, groups[p][i].dim) /\ groups[p][i].status = "INITIALIZED"
  BY <1>1 DEF Allocated
<1>3. \A q \in Pods : Owned(q)
  BY DEF TileOwnership, Owned
<1>4. \A t \in Footprint(o, groups[p][i].dim) : t \in Tiles /\ tile[p][t] = "FREE"
  BY <1>2 DEF FreeOrigins, Footprint
<1>5. /\ i \notin Holding(p)
      /\ Holding(p)' = Holding(p) \cup {i}
  BY <1>1 DEF Holding, Allocated
<1>6. \A j \in Holding(p) : GroupTiles(p, j)' = GroupTiles(p, j)
  BY <1>1, <1>5 DEF Holding, GroupTiles, Allocated
<1>7. GroupTiles(p, i)' = Footprint(o, groups[p][i].dim)
  BY <1>1 DEF GroupTiles, Allocated
<1>8. \A j \in Holding(p) :
        GroupTiles(p, j) \cap Footprint(o, groups[p][i].dim) = {}
  <2> TAKE j \in Holding(p)
  <2>1. \A t \in Tiles : t \in GroupTiles(p, j) => tile[p][t] = "BUSY"
    BY <1>1, <1>3 DEF Owned
  <2> QED BY <1>4, <2>1
<1>9. Owned(p)'
  <2>1. \A j, k \in Holding(p)' :
          j # k => GroupTiles(p, j)' \cap GroupTiles(p, k)' = {}
    BY <1>1, <1>3, <1>5, <1>6, <1>7, <1>8 DEF Owned
  <2>2. ASSUME NEW t \in Tiles
        PROVE  tile'[p][t] = "BUSY" <=> \E j \in Holding(p)' : t \in GroupTiles(p, j)'
    <3>1. tile'[p][t] = IF t \in Footprint(o, groups[p][i].dim)
                          THEN "BUSY" ELSE tile[p][t]
      BY <1>1 DEF Allocated
    <3>2. tile[p][t] = "BUSY" <=> \E j \in Holding(p) : t \in GroupTiles(p, j)
      BY <1>1, <1>3 DEF Owned
    <3> QED BY <1>5, <1>6, <1>7, <3>1, <3>2
  <2> QED BY <2>1, <2>2 DEF Owned
<1>10. ASSUME NEW q \in Pods, q # p
       PROVE  Owned(q)'
  <2>1. tile'[q] = tile[q] /\ groups'[q] = groups[q]
    BY <1>1, <1>10 DEF Allocated
  <2> QED BY <1>3, <2>1, SameHolders
<1> QED BY <1>9, <1>10 DEF TileOwnership, Owned

(* A retired group frees exactly the tiles it held.                          *)
LEMMA RetireOwns ==
  ASSUME TypeInv, NEW m \in rqst, NEW i \in Matches(m), Retire(m.pod, i),
         TileOwnership
  PROVE  TileOwnership'
<1> DEFINE p == m.pod
<1>1. /\ Retired(p, i)
      /\ p \in Pods /\ i \in Slots /\ groups[p][i].status = "LAUNCHED"
  BY RetireEffect DEF Retired
<1> HIDE DEF p
<1>2. \A q \in Pods : Owned(q)
  BY DEF TileOwnership, Owned
<1>3. /\ i \in Holding(p)
      /\ Holding(p)' = Holding(p) \ {i}
  BY <1>1 DEF Holding, Retired
<1>4. \A j \in Holding(p) \ {i} : GroupTiles(p, j)' = GroupTiles(p, j)
  BY <1>1, <1>3 DEF Holding, GroupTiles, Retired
<1>5. Owned(p)'
  <2>1. \A j, k \in Holding(p)' :
          j # k => GroupTiles(p, j)' \cap GroupTiles(p, k)' = {}
    BY <1>1, <1>2, <1>3, <1>4 DEF Owned
  <2>2. ASSUME NEW t \in Tiles
        PROVE  tile'[p][t] = "BUSY" <=> \E j \in Holding(p)' : t \in GroupTiles(p, j)'
    <3>1. tile'[p][t] = IF t \in GroupTiles(p, i) THEN "FREE" ELSE tile[p][t]
      BY <1>1 DEF Retired
    <3>2. tile[p][t] = "BUSY" <=> \E j \in Holding(p) : t \in GroupTiles(p, j)
      BY <1>1, <1>2 DEF Owned
    <3>3. t \in GroupTiles(p, i) =>
            \A j \in Holding(p) \ {i} : t \notin GroupTiles(p, j)
      BY <1>1, <1>2, <1>3 DEF Owned
    <3> QED BY <1>3, <1>4, <3>1, <3>2, <3>3
  <2> QED BY <2>1, <2>2 DEF Owned
<1>6. ASSUME NEW q \in Pods, q # p
      PROVE  Owned(q)'
  <2>1. tile'[q] = tile[q] /\ groups'[q] = groups[q]
    BY <1>1, <1>6 DEF Retired
  <2> QED BY <1>2, <2>1, SameHolders
<1> QED BY <1>5, <1>6 DEF TileOwnership, Owned

LEMMA OwnershipStep ==
  TypeInv /\ TileOwnership /\ [Next]_vars => TileOwnership'
<1> SUFFICES ASSUME TypeInv, TileOwnership, [Next]_vars
             PROVE  TileOwnership'
  OBVIOUS
<1>a. \A q \in Pods : Owned(q)
  BY DEF TileOwnership, Owned
<1>b. (\A q \in Pods : Owned(q)') => TileOwnership'
  BY DEF TileOwnership, Owned
<1>c. UNCHANGED <<tile, groups>> => TileOwnership'
  BY <1>a, <1>b, SameHolders
<1>1. ASSUME NEW p \in Pods, \/ \E b \in Binaries : ProgramInit(p, b)
                             \/ ProgramFinish(p)
      PROVE  TileOwnership'
  <2>1. /\ tile' = [tile EXCEPT ![p] = [t \in Tiles |-> "FREE"]]
        /\ groups' = [groups EXCEPT ![p] = [i \in Slots |-> NoGroup]]
    BY <1>1 DEF ProgramInit, ProgramFinish
  <2>2. Owned(p)'
    <3>1. /\ tile'[p] = [t \in Tiles |-> "FREE"]
          /\ groups'[p] = [i \in Slots |-> NoGroup]
      BY <2>1 DEF TypeInv, TypeOK
    <3> QED BY <3>1, NoHolders
  <2>3. ASSUME NEW q \in Pods, q # p
        PROVE  Owned(q)'
    <3>1. tile'[q] = tile[q] /\ groups'[q] = groups[q]
      BY <2>1, <2>3 DEF TypeInv, TypeOK
    <3> QED BY <1>a, <3>1, SameHolders
  <2> QED BY <1>b, <2>2, <2>3
<1>2. ASSUME NEW p \in Pods, NEW g \in GridDims, NEW d \in Dims, NEW k \in Names,
             KernelEnqueue(p, g, d, k)
      PROVE  TileOwnership'
  <2>1. /\ groups' = [groups EXCEPT ![p] =
             [i \in Slots |-> IF i \in num[p] + 1 .. num[p] + g[1] * g[2]
                                THEN NewGroup(num[p] + 1, g, d, k, i)
                                ELSE groups[p][i]]]
        /\ tile' = tile
    BY <1>2 DEF KernelEnqueue
  <2>2. ASSUME NEW j \in Slots, j \in num[p] + 1 .. num[p] + g[1] * g[2]
        PROVE  /\ groups'[p][j].status = "INITIALIZED"
               /\ groups[p][j].status = "NONE"
    <3>1. groups'[p][j] = NewGroup(num[p] + 1, g, d, k, j)
      BY <2>1, <2>2 DEF TypeInv, TypeOK
    <3>2. num[p] \in Nat /\ j \in Nat /\ j > num[p]
      <4>1. num[p] \in Nat
        BY ConfigAssumption DEF TypeInv, TypeOK
      <4> HIDE DEF NewGroup
      <4> QED BY <2>2, <4>1 DEF Slots
    <3> QED BY <3>1, <3>2 DEF NewGroup, TypeInv, TypeOK
  <2>3. \A j \in Slots : j \notin num[p] + 1 .. num[p] + g[1] * g[2] =>
          groups'[p][j] = groups[p][j]
    BY <2>1 DEF TypeInv, TypeOK
  <2>4. Owned(p)'
    BY <1>a, <2>1, <2>2, <2>3, SameHolders
  <2>5. ASSUME NEW q \in Pods, q # p
        PROVE  Owned(q)'
    <3>1. groups'[q] = groups[q]
      BY <2>1, <2>5 DEF TypeInv, TypeOK
    <3> QED BY <1>a, <2>1, <3>1, SameHolders
  <2> QED BY <1>b, <2>4, <2>5
<1>3. CASE AllocateTiles
  BY <1>3, AllocateOwns
<1>4. CASE LaunchPrepare \/ LaunchDone
  <2>1. PICK p \in Pods, i \in Slots : p = host.cur /\ i = host.idx
    BY <1>4 DEF LaunchPrepare, LaunchDone, TypeInv, TypeOK, WellFormed, HostType
  <2>2. /\ groups[p][i].status = "ALLOCATED" /\ tile' = tile
        /\ groups[p][i] \in GroupType
    BY <1>4, <2>1 DEF LaunchPrepare, LaunchDone, TypeInv, TypeOK, WellFormed
  <2>3. CASE LaunchPrepare
    <3> DEFINE a == <<i, "argv">>
               b == IF binary[p].barrier THEN <<i, "barcfg">> ELSE NoBlock
    <3>1. groups' = [groups EXCEPT ![p][i].argv = a, ![p][i].barcfg = b]
      BY <2>1, <2>3 DEF LaunchPrepare
    <3> HIDE DEF a, b
    <3>2. /\ \A q \in Pods \ {p} : groups'[q] = groups[q]
          /\ \A j \in Slots \ {i} : groups'[p][j] = groups[p][j]
          /\ groups'[p][i].status = groups[p][i].status
          /\ groups'[p][i].origin = groups[p][i].origin
          /\ groups'[p][i].dim = groups[p][i].dim
      BY <2>2, <3>1 DEF TypeInv, TypeOK, GroupType
    <3> QED BY <1>a, <1>b, <2>2, <3>2, SameHolders
  <2>4. CASE LaunchDone
    <3>1. groups' = [groups EXCEPT ![p][i].status = "LAUNCHED"]
      BY <2>1, <2>4 DEF LaunchDone
    <3>2. /\ \A q \in Pods \ {p} : groups'[q] = groups[q]
          /\ \A j \in Slots \ {i} : groups'[p][j] = groups[p][j]
          /\ groups'[p][i].status = "LAUNCHED"
          /\ groups'[p][i].origin = groups[p][i].origin
          /\ groups'[p][i].dim = groups[p][i].dim
      BY <2>2, <3>1 DEF TypeInv, TypeOK, GroupType
    <3> QED BY <1>a, <1>b, <2>2, <3>2, SameHolders
  <2> QED BY <1>4, <2>3, <2>4
<1>5. ASSUME NEW m \in rqst, ReceiveFinish(m)
      PROVE  TileOwnership'
  BY <1>5, RetireOwns DEF ReceiveFinish
<1>6. CASE \/ \E p \in Pods : KernelsExecute(p)
           \/ \E podv \in SUBSET Pods : KernelsExecuteV(podv)
           \/ Check \/ ScanSkip \/ ScanNoRoom \/ ScanEnd \/ WakeTile
           \/ \E m \in rqst : ReceiveOther(m) \/ ReceiveFails(m)
           \/ Device
           \/ UNCHANGED vars
  <2>1. UNCHANGED <<tile, groups>>
    BY <1>6 DEF KernelsExecute, KernelsExecuteV, Check, ScanSkip, ScanNoRoom, ScanEnd,
                WakeTile, ReceiveOther, ReceiveFails, Device, DeviceFinish,
                DeviceChatter, podVars, vars
  <2> QED BY <1>c, <2>1
<1>7. CASE LaunchRunsOut
  <2>1. PICK p \in Pods, i \in Slots : \E a \in {NoBlock, <<i, "argv">>} : RanOut(p, i, a)
    BY <1>7, RunsOutEffect
  <2>2. \A q \in Pods, j \in Slots :
          /\ groups'[q][j].status = groups[q][j].status
          /\ groups'[q][j].origin = groups[q][j].origin
          /\ groups'[q][j].dim = groups[q][j].dim
    BY <2>1 DEF RanOut, GroupType
  <2>3. tile' = tile
    BY <1>7 DEF LaunchRunsOut
  <2> QED BY <1>a, <1>b, <2>2, <2>3, SameHolders
<1> QED
  BY <1>1, <1>2, <1>3, <1>4, <1>5, <1>6, <1>7 DEF Next, Client, Host, Receive

(* Tiles are never lost or given away twice, for every mesh, every set of    *)
(* pods and every client, and also when launches fail.                       *)
THEOREM Ownership == Spec => []TileOwnership
<1>1. Init => TileOwnership
  BY DEF Init, TileOwnership, Holding, NoGroup
<1>2. Spec => [](TypeInv /\ TileOwnership)
  BY <1>1, TypeInit, TypeStep, OwnershipStep, PTL DEF Spec
<1> QED BY <1>2, PTL

-----------------------------------------------------------------------------
(* Buffers of launches *)


(* The buffers of slot i: allocated under its name when it is launched, and  *)
(* alive as long as the group holds tiles.                                   *)
SlotBuffers(p, i) ==
  LET g == groups[p][i]
  IN  /\ g.argv \in {NoBlock, <<i, "argv">>}
      /\ g.barcfg \in {NoBlock, <<i, "barcfg">>}
      /\ g.status \in {"NONE", "INITIALIZED"} => g.argv = NoBlock /\ g.barcfg = NoBlock
      /\ g.status = "LAUNCHED" => g.argv = <<i, "argv">>
      /\ <<i, "argv">> \in heap[p] <=> /\ g.status \in {"ALLOCATED", "LAUNCHED"}
                                       /\ g.argv = <<i, "argv">>
      /\ <<i, "barcfg">> \in heap[p] <=> /\ g.status \in {"ALLOCATED", "LAUNCHED"}
                                         /\ g.barcfg = <<i, "barcfg">>

(* What the host thread has done for the group it launches.                  *)
LaunchBuffers ==
  /\ host.pc = "launch" => Current.argv = NoBlock /\ Current.barcfg = NoBlock
  /\ host.pc = "wake" => Current.argv = <<host.idx, "argv">>

BufferInv == (\A p \in Pods, i \in Slots : SlotBuffers(p, i)) /\ LaunchBuffers

(* Names of buffers are distinct.                                            *)
LEMMA BlockNames ==
  ASSUME NEW i \in Slots, NEW j \in Slots
  PROVE  /\ <<i, "argv">> # NoBlock /\ <<i, "barcfg">> # NoBlock
         /\ <<i, "argv">> # <<j, "barcfg">>
         /\ i # j => /\ <<i, "argv">> # <<j, "argv">>
                     /\ <<i, "barcfg">> # <<j, "barcfg">>
<1>1. i # 0
  BY ConfigAssumption DEF Slots
<1> QED BY <1>1 DEF NoBlock

(* A slot whose group and buffers are left alone.                            *)
LEMMA SameSlot ==
  ASSUME NEW p \in Pods, NEW i \in Slots, SlotBuffers(p, i),
         groups'[p][i] = groups[p][i],
         <<i, "argv">> \in heap'[p] <=> <<i, "argv">> \in heap[p],
         <<i, "barcfg">> \in heap'[p] <=> <<i, "barcfg">> \in heap[p]
  PROVE  SlotBuffers(p, i)'
BY DEF SlotBuffers

(* A slot that was never launched.                                           *)
LEMMA EmptySlot ==
  ASSUME NEW p \in Pods, NEW i \in Slots,
         groups'[p][i].status \in {"NONE", "INITIALIZED"},
         groups'[p][i].argv = NoBlock, groups'[p][i].barcfg = NoBlock,
         <<i, "argv">> \notin heap'[p], <<i, "barcfg">> \notin heap'[p]
  PROVE  SlotBuffers(p, i)'
BY DEF SlotBuffers

(* The invariant says what BuffersOfHolders says.                            *)
LEMMA InvariantAccounts == TypeInv /\ BufferInv => BuffersOfHolders
<1> SUFFICES ASSUME TypeInv, BufferInv, NEW p \in Pods
             PROVE  /\ heap[p] = (UNION {{groups[p][i].argv, groups[p][i].barcfg} :
                                           i \in Holding(p)}) \ {NoBlock}
                    /\ \A i \in Slots : groups[p][i].status = "LAUNCHED" =>
                         groups[p][i].argv \in heap[p]
  BY DEF BuffersOfHolders
<1> DEFINE held == UNION {{groups[p][i].argv, groups[p][i].barcfg} : i \in Holding(p)}
<1>1. ASSUME NEW b \in heap[p]
      PROVE  b \in held /\ b # NoBlock
  <2>1. PICK i \in Slots : b = <<i, "argv">> \/ b = <<i, "barcfg">>
    BY <1>1 DEF TypeInv, TypeOK, Blocks
  <2>2. i \in Holding(p) /\ b \in {groups[p][i].argv, groups[p][i].barcfg}
    BY <1>1, <2>1 DEF BufferInv, SlotBuffers, Holding
  <2> QED BY <2>1, <2>2, BlockNames
<1>2. ASSUME NEW b \in held, b # NoBlock
      PROVE  b \in heap[p]
  <2>1. PICK i \in Holding(p) : b \in {groups[p][i].argv, groups[p][i].barcfg}
    BY <1>2
  <2>2. i \in Slots /\ groups[p][i].status \in {"ALLOCATED", "LAUNCHED"}
    BY DEF Holding
  <2>3. SlotBuffers(p, i)
    BY <2>2 DEF BufferInv
  <2>4. CASE b = groups[p][i].argv
    BY <1>2, <2>2, <2>3, <2>4 DEF SlotBuffers
  <2>5. CASE b = groups[p][i].barcfg
    BY <1>2, <2>2, <2>3, <2>5 DEF SlotBuffers
  <2> QED BY <2>1, <2>4, <2>5
<1>3. heap[p] = held \ {NoBlock}
  BY <1>1, <1>2
<1>4. \A i \in Slots : groups[p][i].status = "LAUNCHED" => groups[p][i].argv \in heap[p]
  BY DEF BufferInv, SlotBuffers
<1> QED BY <1>3, <1>4

LEMMA BufferInit == Init => BufferInv
<1> SUFFICES ASSUME Init PROVE BufferInv
  OBVIOUS
<1>1. \A p \in Pods, i \in Slots : SlotBuffers(p, i)
  BY DEF Init, SlotBuffers, NoGroup
<1>2. LaunchBuffers
  BY DEF Init, IdleHost, LaunchBuffers
<1> QED BY <1>1, <1>2 DEF BufferInv

(* Between calls, and while it scans or waits, the host launches nothing.    *)
LEMMA NoLaunch ==
  ASSUME host'.pc \notin {"launch", "wake"}
  PROVE  LaunchBuffers'
BY DEF LaunchBuffers

(* A step of the host thread or the device that leaves groups and buffers.   *)
LEMMA SameBuffers ==
  ASSUME BufferInv, UNCHANGED <<groups, heap>>
  PROVE  \A p \in Pods, i \in Slots : SlotBuffers(p, i)'
BY DEF BufferInv, SlotBuffers

LEMMA PrepareBuffers ==
  ASSUME TypeInv, BufferInv, LaunchPrepare
  PROVE  BufferInv'
<1>1. PICK p \in Pods, i \in Slots : p = host.cur /\ i = host.idx
  BY DEF LaunchPrepare, TypeInv, TypeOK, WellFormed, HostType
<1> DEFINE argv   == <<i, "argv">>
           barcfg == IF binary[p].barrier THEN <<i, "barcfg">> ELSE NoBlock
<1>2. /\ groups' = [groups EXCEPT ![p][i].argv = argv, ![p][i].barcfg = barcfg]
      /\ heap' = [heap EXCEPT ![p] = @ \cup ({argv, barcfg} \ {NoBlock})]
      /\ groups[p][i].status = "ALLOCATED"
      /\ groups[p][i].argv = NoBlock /\ groups[p][i].barcfg = NoBlock
      /\ groups[p][i] \in GroupType
  BY <1>1 DEF LaunchPrepare, TypeInv, TypeOK, WellFormed, BufferInv, LaunchBuffers,
              Current
<1>3. barcfg \in {NoBlock, <<i, "barcfg">>}
  OBVIOUS
<1> HIDE DEF barcfg
<1>4. /\ \A q \in Pods \ {p} : groups'[q] = groups[q] /\ heap'[q] = heap[q]
      /\ \A j \in Slots \ {i} : groups'[p][j] = groups[p][j]
      /\ groups'[p][i].status = "ALLOCATED"
      /\ groups'[p][i].argv = argv /\ groups'[p][i].barcfg = barcfg
      /\ heap'[p] = heap[p] \cup ({argv, barcfg} \ {NoBlock})
  BY <1>2 DEF TypeInv, TypeOK, GroupType
<1>5. SlotBuffers(p, i)'
  <2>1. <<i, "argv">> \notin heap[p] /\ <<i, "barcfg">> \notin heap[p]
    BY <1>2, BlockNames DEF BufferInv, SlotBuffers
  <2>2. <<i, "argv">> \in heap'[p] /\ (<<i, "barcfg">> \in heap'[p] <=> barcfg = <<i, "barcfg">>)
    BY <1>3, <1>4, <2>1, BlockNames
  <2> QED BY <1>3, <1>4, <2>2 DEF SlotBuffers
<1>6. ASSUME NEW j \in Slots, j # i
      PROVE  SlotBuffers(p, j)'
  <2>1. /\ <<j, "argv">> \in heap'[p] <=> <<j, "argv">> \in heap[p]
        /\ <<j, "barcfg">> \in heap'[p] <=> <<j, "barcfg">> \in heap[p]
    BY <1>3, <1>4, <1>6, BlockNames
  <2> QED BY <1>4, <1>6, <2>1, SameSlot DEF BufferInv
<1>7. ASSUME NEW q \in Pods, q # p, NEW j \in Slots
      PROVE  SlotBuffers(q, j)'
  BY <1>4, <1>7, SameSlot DEF BufferInv
<1>8. LaunchBuffers'
  <2>1. CASE host'.pc \notin {"launch", "wake"}
    BY <2>1, NoLaunch
  <2>2. CASE host'.pc \in {"launch", "wake"}
    <3>1. host' = [host EXCEPT !.pc = "wake", !.wake = GroupTiles(host.cur, host.idx)]
      BY <2>2 DEF LaunchPrepare, IdleHost
    <3>2. host'.pc = "wake" /\ host'.cur = p /\ host'.idx = i
      BY <1>1, <3>1 DEF TypeInv, TypeOK, HostType
    <3> QED BY <1>4, <3>2 DEF LaunchBuffers, Current
  <2> QED BY <2>1, <2>2
<1> QED BY <1>5, <1>6, <1>7, <1>8 DEF BufferInv

LEMMA RunsOutBuffers ==
  ASSUME TypeInv, BufferInv, LaunchRunsOut
  PROVE  BufferInv'
<1>1. PICK p \in Pods, i \in Slots : \E a \in {NoBlock, <<i, "argv">>} : RanOut(p, i, a)
  BY RunsOutEffect
<1>2. PICK a \in {NoBlock, <<i, "argv">>} : RanOut(p, i, a)
  BY <1>1
<1>3. groups[p][i].argv = NoBlock /\ groups[p][i].barcfg = NoBlock
  BY <1>2 DEF LaunchRunsOut, RanOut, BufferInv, LaunchBuffers, Current
<1>4. /\ groups'[p][i].status = "ALLOCATED" /\ groups'[p][i].argv = a
      /\ groups'[p][i].barcfg = NoBlock
      /\ heap'[p] = heap[p] \cup ({a} \ {NoBlock})
  BY <1>2, <1>3 DEF RanOut, GroupType
<1>5. SlotBuffers(p, i)'
  <2>1. <<i, "argv">> \notin heap[p] /\ <<i, "barcfg">> \notin heap[p]
    BY <1>3, BlockNames DEF BufferInv, SlotBuffers
  <2>2. (<<i, "argv">> \in heap'[p] <=> a = <<i, "argv">>) /\ <<i, "barcfg">> \notin heap'[p]
    BY <1>2, <1>4, <2>1, BlockNames
  <2> QED BY <1>2, <1>4, <2>2, BlockNames DEF SlotBuffers
<1>6. ASSUME NEW q \in Pods, NEW j \in Slots, q # p \/ j # i
      PROVE  SlotBuffers(q, j)'
  <2>1. /\ <<j, "argv">> \in heap'[q] <=> <<j, "argv">> \in heap[q]
        /\ <<j, "barcfg">> \in heap'[q] <=> <<j, "barcfg">> \in heap[q]
    BY <1>2, <1>4, <1>6, BlockNames DEF RanOut
  <2>2. groups'[q][j] = groups[q][j]
    BY <1>2, <1>6 DEF RanOut
  <2> QED BY <2>1, <2>2, SameSlot DEF BufferInv
<1>7. LaunchBuffers'
  BY NoLaunch DEF LaunchRunsOut, IdleHost
<1> QED BY <1>5, <1>6, <1>7 DEF BufferInv

LEMMA RetireBuffers ==
  ASSUME TypeInv, BufferInv, NEW m \in rqst, NEW i \in Matches(m), Retire(m.pod, i)
  PROVE  \A p \in Pods, j \in Slots : SlotBuffers(p, j)'
<1> DEFINE p == m.pod
<1>1. /\ p \in Pods /\ i \in Slots /\ groups[p][i].status = "LAUNCHED"
      /\ \A q \in Pods \ {p} : groups'[q] = groups[q]
      /\ \A j \in Slots \ {i} : groups'[p][j] = groups[p][j]
      /\ groups'[p][i].status = "FINISHED"
  BY RetireEffect DEF Retired
<1> HIDE DEF p
<1>2. /\ groups' = [groups EXCEPT ![p][i].status = "FINISHED",
                                  ![p][i].dim = <<0, 0>>,
                                  ![p][i].origin = <<0, 0>>,
                                  ![p][i].kernel = 0]
      /\ heap' = [heap EXCEPT ![p] = @ \ Buffers(groups[p][i])]
  BY DEF Retire, p
<1>3. /\ heap'[p] = heap[p] \ {groups[p][i].argv, groups[p][i].barcfg}
      /\ \A q \in Pods \ {p} : heap'[q] = heap[q]
      /\ groups'[p][i].argv = groups[p][i].argv
      /\ groups'[p][i].barcfg = groups[p][i].barcfg
  <2>1. groups[p][i] \in GroupType
    BY <1>1 DEF TypeInv, TypeOK
  <2> QED BY <1>1, <1>2, <2>1 DEF TypeInv, TypeOK, GroupType, Buffers
<1>4. SlotBuffers(p, i)
  BY <1>1 DEF BufferInv
<1>5. SlotBuffers(p, i)'
  <2>1. <<i, "argv">> \notin heap'[p] /\ <<i, "barcfg">> \notin heap'[p]
    BY <1>1, <1>3, <1>4 DEF SlotBuffers
  <2> QED BY <1>1, <1>3, <1>4, <2>1 DEF SlotBuffers
<1>6. ASSUME NEW j \in Slots, j # i
      PROVE  SlotBuffers(p, j)'
  <2>1. /\ <<j, "argv">> \in heap'[p] <=> <<j, "argv">> \in heap[p]
        /\ <<j, "barcfg">> \in heap'[p] <=> <<j, "barcfg">> \in heap[p]
    <3>1. /\ groups[p][i].argv \in {NoBlock, <<i, "argv">>}
          /\ groups[p][i].barcfg \in {NoBlock, <<i, "barcfg">>}
      BY <1>4 DEF SlotBuffers
    <3> QED BY <1>1, <1>3, <1>6, <3>1, BlockNames
  <2> QED BY <1>1, <1>6, <2>1, SameSlot DEF BufferInv
<1>7. ASSUME NEW q \in Pods, q # p, NEW j \in Slots
      PROVE  SlotBuffers(q, j)'
  BY <1>1, <1>3, <1>7, SameSlot DEF BufferInv
<1> QED BY <1>5, <1>6, <1>7

LEMMA BufferStep == TypeInv /\ BufferInv /\ [Next]_vars => BufferInv'
<1> SUFFICES ASSUME TypeInv, BufferInv, [Next]_vars
             PROVE  BufferInv'
  OBVIOUS
<1>1. ASSUME NEW p \in Pods, \/ \E b \in Binaries : ProgramInit(p, b)
                             \/ ProgramFinish(p)
      PROVE  BufferInv'
  <2>1. /\ groups' = [groups EXCEPT ![p] = [i \in Slots |-> NoGroup]]
        /\ heap' = [heap EXCEPT ![p] = {}]
        /\ host.pc = "idle" /\ host' = host
    BY <1>1 DEF ProgramInit, ProgramFinish
  <2>2. /\ groups'[p] = [i \in Slots |-> NoGroup] /\ heap'[p] = {}
        /\ \A q \in Pods \ {p} : groups'[q] = groups[q] /\ heap'[q] = heap[q]
    BY <2>1 DEF TypeInv, TypeOK
  <2>3. ASSUME NEW i \in Slots
        PROVE  SlotBuffers(p, i)'
    <3>1. groups'[p][i] = NoGroup /\ heap'[p] = {}
      BY <2>2
    <3>2. /\ groups'[p][i].status = "NONE"
          /\ groups'[p][i].argv = NoBlock /\ groups'[p][i].barcfg = NoBlock
          /\ <<i, "argv">> \notin heap'[p] /\ <<i, "barcfg">> \notin heap'[p]
      BY <3>1 DEF NoGroup
    <3> QED BY <3>2, EmptySlot
  <2>4. ASSUME NEW q \in Pods, q # p, NEW j \in Slots
        PROVE  SlotBuffers(q, j)'
    BY <2>2, <2>4, SameSlot DEF BufferInv
  <2> QED BY <2>1, <2>3, <2>4, NoLaunch DEF BufferInv
<1>2. ASSUME NEW p \in Pods, NEW g \in GridDims, NEW d \in Dims, NEW k \in Names,
             KernelEnqueue(p, g, d, k)
      PROVE  BufferInv'
  <2> DEFINE new == num[p] + 1 .. num[p] + g[1] * g[2]
  <2>1. /\ groups' = [groups EXCEPT ![p] =
             [i \in Slots |-> IF i \in new THEN NewGroup(num[p] + 1, g, d, k, i)
                                           ELSE groups[p][i]]]
        /\ heap' = heap /\ host.pc = "idle" /\ host' = host
    BY <1>2 DEF KernelEnqueue
  <2>2. ASSUME NEW j \in Slots, j \in new
        PROVE  SlotBuffers(p, j)'
    <3>1. groups'[p][j] = NewGroup(num[p] + 1, g, d, k, j)
      BY <2>1, <2>2 DEF TypeInv, TypeOK
    <3>2. num[p] \in Nat /\ j \in Nat /\ j > num[p]
      <4>1. num[p] \in Nat
        BY ConfigAssumption DEF TypeInv, TypeOK
      <4> QED BY <2>2, <4>1 DEF Slots
    <3>3. groups[p][j].status = "NONE"
      BY <3>2 DEF TypeInv, TypeOK
    <3>4. <<j, "argv">> \notin heap[p] /\ <<j, "barcfg">> \notin heap[p]
      BY <3>3 DEF BufferInv, SlotBuffers
    <3> QED BY <2>1, <3>1, <3>4, EmptySlot DEF NewGroup
  <2>3. ASSUME NEW j \in Slots, j \notin new
        PROVE  SlotBuffers(p, j)'
    <3>1. groups'[p][j] = groups[p][j]
      BY <2>1, <2>3 DEF TypeInv, TypeOK
    <3> QED BY <2>1, <3>1, SameSlot DEF BufferInv
  <2>4. ASSUME NEW q \in Pods, q # p, NEW j \in Slots
        PROVE  SlotBuffers(q, j)'
    <3>1. groups'[q] = groups[q]
      BY <2>1, <2>4 DEF TypeInv, TypeOK
    <3> QED BY <2>1, <3>1, SameSlot DEF BufferInv
  <2> QED BY <2>1, <2>2, <2>3, <2>4, NoLaunch DEF BufferInv
<1>3. CASE AllocateTiles
  <2>1. PICK p \in Pods, i \in Slots, o \in Tiles :
          p = host.cur /\ i = host.idx /\ Allocated(p, i, o)
    BY <1>3, AllocateEffect
  <2>2. /\ groups' = [groups EXCEPT ![p][i].status = "ALLOCATED", ![p][i].origin = o]
        /\ groups[p][i] \in GroupType
        /\ heap' = heap
    <3>1. PICK u \in FreeOrigins(p, Current.dim) :
            groups' = [groups EXCEPT ![p][i].status = "ALLOCATED", ![p][i].origin = u]
      BY <1>3, <2>1 DEF AllocateTiles
    <3>2. groups[p][i] \in GroupType
      BY DEF TypeInv, TypeOK
    <3>3. groups'[p][i].origin = u
      BY <3>1, <3>2 DEF TypeInv, TypeOK, GroupType
    <3> QED BY <1>3, <2>1, <3>1, <3>2, <3>3 DEF AllocateTiles, Allocated
  <2>3. /\ \A q \in Pods \ {p} : groups'[q] = groups[q]
        /\ \A j \in Slots \ {i} : groups'[p][j] = groups[p][j]
        /\ groups[p][i].status = "INITIALIZED"
        /\ groups'[p][i].status = "ALLOCATED"
        /\ groups'[p][i].argv = groups[p][i].argv
        /\ groups'[p][i].barcfg = groups[p][i].barcfg
    <3>1. /\ \A q \in Pods \ {p} : groups'[q] = groups[q]
          /\ \A j \in Slots \ {i} : groups'[p][j] = groups[p][j]
          /\ groups[p][i].status = "INITIALIZED"
          /\ groups'[p][i].status = "ALLOCATED"
      BY <2>1 DEF Allocated
    <3>2. groups'[p][i] = [groups[p][i] EXCEPT !.status = "ALLOCATED", !.origin = o]
      BY <2>2 DEF TypeInv, TypeOK
    <3>3. /\ groups'[p][i].argv = groups[p][i].argv
          /\ groups'[p][i].barcfg = groups[p][i].barcfg
      BY <2>2, <3>2 DEF GroupType
    <3> QED BY <3>1, <3>3
  <2>4. SlotBuffers(p, i)'
    <3>1. SlotBuffers(p, i)
      BY DEF BufferInv
    <3> QED BY <2>2, <2>3, <3>1, BlockNames DEF SlotBuffers
  <2>5. ASSUME NEW q \in Pods, NEW j \in Slots, q # p \/ j # i
        PROVE  SlotBuffers(q, j)'
    BY <2>2, <2>3, <2>5, SameSlot DEF BufferInv
  <2>6. LaunchBuffers'
    <3>1. host'.pc = "launch" /\ host'.cur = p /\ host'.idx = i
      BY <1>3, <2>1 DEF AllocateTiles, TypeInv, TypeOK, HostType
    <3>2. groups[p][i].argv = NoBlock /\ groups[p][i].barcfg = NoBlock
      BY <2>3 DEF BufferInv, SlotBuffers
    <3> QED BY <2>3, <3>1, <3>2 DEF LaunchBuffers, Current
  <2> QED BY <2>4, <2>5, <2>6 DEF BufferInv
<1>4. CASE LaunchPrepare
  BY <1>4, PrepareBuffers
<1>5. CASE WakeTile
  <2>1. UNCHANGED <<groups, heap>> /\ host.pc = "wake"
    BY <1>5 DEF WakeTile, podVars
  <2>2. host'.pc = "wake" /\ host'.cur = host.cur /\ host'.idx = host.idx
    BY <1>5 DEF WakeTile, TypeInv, TypeOK, HostType
  <2>3. LaunchBuffers'
    BY <2>1, <2>2 DEF LaunchBuffers, Current, BufferInv
  <2> QED BY <2>1, <2>3, SameBuffers DEF BufferInv
<1>6. CASE LaunchDone
  <2>1. PICK p \in Pods, i \in Slots : p = host.cur /\ i = host.idx
    BY <1>6 DEF LaunchDone, TypeInv, TypeOK, WellFormed, HostType
  <2>2. /\ groups' = [groups EXCEPT ![p][i].status = "LAUNCHED"]
        /\ groups[p][i] \in GroupType
        /\ groups[p][i].status = "ALLOCATED"
        /\ groups[p][i].argv = <<i, "argv">>
        /\ heap' = heap
    BY <1>6, <2>1 DEF LaunchDone, TypeInv, TypeOK, WellFormed, BufferInv,
                      LaunchBuffers, Current
  <2>3. /\ \A q \in Pods \ {p} : groups'[q] = groups[q]
        /\ \A j \in Slots \ {i} : groups'[p][j] = groups[p][j]
        /\ groups'[p][i].status = "LAUNCHED"
        /\ groups'[p][i].argv = groups[p][i].argv
        /\ groups'[p][i].barcfg = groups[p][i].barcfg
    BY <2>2 DEF TypeInv, TypeOK, GroupType
  <2>4. SlotBuffers(p, i)'
    <3>1. SlotBuffers(p, i)
      BY DEF BufferInv
    <3> QED BY <2>2, <2>3, <3>1 DEF SlotBuffers
  <2>5. ASSUME NEW q \in Pods, NEW j \in Slots, q # p \/ j # i
        PROVE  SlotBuffers(q, j)'
    BY <2>2, <2>3, <2>5, SameSlot DEF BufferInv
  <2>6. host'.pc = "scan"
    BY <1>6 DEF LaunchDone, TypeInv, TypeOK, HostType
  <2> QED BY <2>4, <2>5, <2>6, NoLaunch DEF BufferInv
<1>7. ASSUME NEW m \in rqst, ReceiveFinish(m)
      PROVE  BufferInv'
  <2>1. \A p \in Pods, j \in Slots : SlotBuffers(p, j)'
    BY <1>7, RetireBuffers DEF ReceiveFinish
  <2>2. host'.pc \notin {"launch", "wake"}
    BY <1>7 DEF ReceiveFinish, Scanning, TypeInv, TypeOK, HostType
  <2> QED BY <2>1, <2>2, NoLaunch DEF BufferInv
<1>8. CASE \/ \E p \in Pods : KernelsExecute(p)
           \/ \E podv \in SUBSET Pods : KernelsExecuteV(podv)
           \/ Check \/ ScanSkip \/ ScanNoRoom \/ ScanEnd
           \/ \E m \in rqst : ReceiveOther(m) \/ ReceiveFails(m)
  <2>1. UNCHANGED <<groups, heap>>
    BY <1>8 DEF KernelsExecute, KernelsExecuteV, Check, ScanSkip, ScanNoRoom, ScanEnd,
                ReceiveOther, ReceiveFails, podVars
  <2>2. host'.pc \notin {"launch", "wake"}
    <3>1. host \in HostType
      BY DEF TypeInv, TypeOK
    <3>2. CASE \/ \E p \in Pods : KernelsExecute(p)
               \/ \E podv \in SUBSET Pods : KernelsExecuteV(podv)
      BY <3>1, <3>2 DEF KernelsExecute, KernelsExecuteV, Scanning, HostType
    <3>3. CASE Check
      <4>1. CASE host' = IdleHost
        BY <4>1 DEF IdleHost
      <4>2. CASE \E p \in host.podv : host' = Scanning(p, {})
        BY <3>1, <4>2 DEF Scanning, HostType
      <4>3. CASE host' = [host EXCEPT !.pc = "wait"]
        BY <3>1, <4>3 DEF HostType
      <4> QED BY <3>3, <4>1, <4>2, <4>3 DEF Check
    <3>4. CASE ScanSkip \/ ScanNoRoom \/ ScanEnd
      BY <3>1, <3>4 DEF ScanSkip, ScanNoRoom, ScanEnd, Scanning, HostType
    <3>5. CASE \E m \in rqst : ReceiveOther(m) \/ ReceiveFails(m)
      BY <3>1, <3>5 DEF ReceiveOther, ReceiveFails, IdleHost, podVars
    <3> QED BY <1>8, <3>2, <3>3, <3>4, <3>5
  <2> QED BY <2>1, <2>2, SameBuffers, NoLaunch DEF BufferInv
<1>9. CASE Device \/ UNCHANGED vars
  <2>1. UNCHANGED <<groups, heap, host>>
    BY <1>9 DEF Device, DeviceFinish, DeviceChatter, podVars, vars
  <2>2. LaunchBuffers'
    BY <2>1 DEF BufferInv, LaunchBuffers, Current
  <2> QED BY <2>1, <2>2, SameBuffers DEF BufferInv
<1>10. CASE LaunchRunsOut
  BY <1>10, RunsOutBuffers
<1> QED
  BY <1>1, <1>2, <1>3, <1>4, <1>5, <1>6, <1>7, <1>8, <1>9, <1>10
  DEF Next, Client, Host, Receive

(* Launches leak no device buffer and free none twice: the buffers alive are *)
(* those of the groups that hold tiles, also after launches and responders   *)
(* that failed and when memory ran out between the two buffers of a launch.  *)
THEOREM BuffersAccounted == Spec => []BuffersOfHolders
<1>1. Spec => [](TypeInv /\ BufferInv)
  BY TypeInit, TypeStep, BufferInit, BufferStep, PTL DEF Spec
<1> QED BY <1>1, InvariantAccounts, PTL

=============================================================================

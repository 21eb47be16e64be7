---------------------- MODULE TileGroupsExecuteProofs -----------------------
(***************************************************************************)
(* Proofs about the loops of kernels_execute in TileGroups, for every mesh, *)
(* set of pods, shapes, grids and programs: the scan leaves no room unused, *)
(* kernels are counted, and, when neither a launch nor a responder fails,   *)
(* tiles run for the group that holds them, a finish packet identifies its  *)
(* sender, and the host never waits for a packet that will not come.        *)
(***************************************************************************)
EXTENDS TileGroupsProofs, TileGroupsRefines

(* The host thread at the start of a scan. *)
LEMMA ScanningFields ==
  ASSUME host \in HostType, NEW p \in Pods, NEW todo \in SUBSET Pods
  PROVE  LET h == Scanning(p, todo)
         IN  /\ h.pc = "scan" /\ h.op = host.op /\ h.podv = host.podv
             /\ h.todo = todo /\ h.cur = p /\ h.idx = 1 /\ h.failed = <<0, 0>>
             /\ h.wake = {}
BY DEF Scanning, HostType

(* The host thread of a call that has just started. *)
LEMMA CallFields ==
  ASSUME host \in HostType,
         \/ \E p \in Pods : KernelsExecute(p)
         \/ \E podv \in SUBSET Pods : KernelsExecuteV(podv)
  PROVE  /\ host.pc = "idle"
         /\ \/ /\ host'.pc = "check" /\ host'.op = "pod"
               /\ host'.todo = host.todo
               /\ \E p \in Pods : host'.podv = {p}
            \/ /\ host'.pc = "scan" /\ host'.op = "podv"
               /\ host'.cur \in host'.podv
               /\ host'.todo = host'.podv \ {host'.cur}
               /\ host'.idx = 1 /\ host'.failed = <<0, 0>>
<1>1. ASSUME NEW p \in Pods, KernelsExecute(p)
      PROVE  /\ host.pc = "idle"
             /\ host'.pc = "check" /\ host'.op = "pod"
             /\ host'.todo = host.todo /\ host'.podv = {p}
  BY <1>1 DEF KernelsExecute, HostType
<1>2. ASSUME NEW podv \in SUBSET Pods, KernelsExecuteV(podv)
      PROVE  /\ host.pc = "idle"
             /\ host'.pc = "scan" /\ host'.op = "podv"
             /\ host'.cur \in host'.podv
             /\ host'.todo = host'.podv \ {host'.cur}
             /\ host'.idx = 1 /\ host'.failed = <<0, 0>>
  <2>1. PICK p \in podv :
          host' = [Scanning(p, podv \ {p}) EXCEPT !.op = "podv", !.podv = podv]
    BY <1>2 DEF KernelsExecuteV
  <2> DEFINE h == [host EXCEPT !.pc = "scan", !.cur = p, !.todo = podv \ {p},
                     !.idx = 1, !.failed = <<0, 0>>, !.wake = {},
                     !.op = "podv", !.podv = podv]
  <2>2. host' = h
    BY <2>1 DEF Scanning, HostType
  <2>3. h.pc = "scan" /\ h.op = "podv" /\ h.podv = podv /\ h.cur = p
        /\ h.todo = podv \ {p} /\ h.idx = 1 /\ h.failed = <<0, 0>>
    BY DEF HostType
  <2> HIDE DEF h
  <2> QED BY <1>2, <2>2, <2>3 DEF KernelsExecuteV
<1> QED BY <1>1, <1>2

(* Group i of pod p goes from one status to another, and stays in the place  *)
(* it has unless it gets one; no other group changes.                        *)
Moves(p, i, from, to) ==
  /\ p = host.cur /\ i = host.idx
  /\ groups[p][i].status = from /\ groups'[p][i].status = to
  /\ groups'[p][i].dim = groups[p][i].dim
  /\ groups'[p][i].epa = groups[p][i].epa
  /\ groups'[p][i].kernel = groups[p][i].kernel
  /\ from = "ALLOCATED" => groups'[p][i].origin = groups[p][i].origin
  /\ \A q \in Pods, j \in Slots : q # p \/ j # i => groups'[q][j] = groups[q][j]

(* A launch moves the status of the group under the host's hand only. *)
LEMMA LaunchEffect ==
  ASSUME TypeInv, LaunchPrepare \/ LaunchRunsOut \/ LaunchDone
  PROVE  \E p \in Pods, i \in Slots :
           /\ LaunchRunsOut => Moves(p, i, "ALLOCATED", "ALLOCATED")
           /\ LaunchPrepare => Moves(p, i, "ALLOCATED", "ALLOCATED")
           /\ LaunchDone => Moves(p, i, "ALLOCATED", "LAUNCHED")
<1>1. PICK p \in Pods, i \in Slots : p = host.cur /\ i = host.idx
  BY DEF LaunchPrepare, LaunchRunsOut, LaunchDone, TypeInv, TypeOK, WellFormed, HostType
<1>2. groups[p][i].status = "ALLOCATED" /\ groups[p][i] \in GroupType
  BY <1>1 DEF LaunchPrepare, LaunchRunsOut, LaunchDone, TypeInv, TypeOK, WellFormed
<1>3. LaunchPrepare => Moves(p, i, "ALLOCATED", "ALLOCATED")
  <2> SUFFICES ASSUME LaunchPrepare PROVE Moves(p, i, "ALLOCATED", "ALLOCATED")
    OBVIOUS
  <2> DEFINE a == <<i, "argv">>
             b == IF binary[p].barrier THEN <<i, "barcfg">> ELSE NoBlock
  <2>1. groups' = [groups EXCEPT ![p][i].argv = a, ![p][i].barcfg = b]
    BY <1>1 DEF LaunchPrepare
  <2> HIDE DEF a, b
  <2> QED BY <1>1, <1>2, <2>1 DEF TypeInv, TypeOK, GroupType, Moves
<1>4. LaunchDone => Moves(p, i, "ALLOCATED", "LAUNCHED")
  <2> SUFFICES ASSUME LaunchDone PROVE Moves(p, i, "ALLOCATED", "LAUNCHED")
    OBVIOUS
  <2>1. groups' = [groups EXCEPT ![p][i].status = "LAUNCHED"]
    BY <1>1 DEF LaunchDone
  <2> QED BY <1>1, <1>2, <2>1 DEF TypeInv, TypeOK, GroupType, Moves
<1>5. LaunchRunsOut => Moves(p, i, "ALLOCATED", "ALLOCATED")
  <2> SUFFICES ASSUME LaunchRunsOut PROVE Moves(p, i, "ALLOCATED", "ALLOCATED")
    OBVIOUS
  <2>1. PICK q \in Pods, j \in Slots : \E a \in {NoBlock, <<j, "argv">>} : RanOut(q, j, a)
    BY RunsOutEffect
  <2> QED BY <1>1, <1>2, <2>1 DEF RanOut, GroupType, Moves
<1> QED BY <1>3, <1>4, <1>5

(* Placing a group moves the status of the group under the host's hand only. *)
LEMMA PlaceEffect ==
  ASSUME TypeInv, AllocateTiles
  PROVE  \E p \in Pods, i \in Slots : Moves(p, i, "INITIALIZED", "ALLOCATED")
<1>1. PICK p \in Pods, i \in Slots, o \in Tiles :
        p = host.cur /\ i = host.idx /\ Allocated(p, i, o)
  BY AllocateEffect
<1>2. PICK u \in FreeOrigins(p, Current.dim) :
        groups' = [groups EXCEPT ![p][i].status = "ALLOCATED", ![p][i].origin = u]
  BY <1>1 DEF AllocateTiles
<1>3. groups'[p][i].kernel = groups[p][i].kernel
  BY <1>2 DEF TypeInv, TypeOK, GroupType
<1>4. Moves(p, i, "INITIALIZED", "ALLOCATED")
  BY <1>1, <1>3 DEF Allocated, Moves
<1> QED BY <1>4

-----------------------------------------------------------------------------
(* Room in the meshes *)

(* No group of pod p that is still to be launched fits in its free tiles.    *)
Exhausted(p) ==
  \A i \in Slots :
    groups[p][i].status = "INITIALIZED" => FreeOrigins(p, groups[p][i].dim) = {}

Scans == host.pc \in {"scan", "launch", "wake"}

(* What a scan has established: nothing of the shape that failed fits, nor   *)
(* any group it has passed, nor any group of the pods it has finished with.  *)
ScanRoom ==
  /\ host.failed # <<0, 0>> => FreeOrigins(host.cur, host.failed) = {}
  /\ \A i \in Slots :
       i < host.idx /\ groups[host.cur][i].status = "INITIALIZED" =>
         FreeOrigins(host.cur, groups[host.cur][i].dim) = {}
  /\ \A p \in host.podv \ (host.todo \cup {host.cur}) : Exhausted(p)

Searched == host.pc = "wait" \/ (host.pc = "check" /\ host.op = "podv")

RoomInv ==
  /\ Scans => ScanRoom
  /\ Searched => \A p \in host.podv : Exhausted(p)
  /\ host.op = "pod" => \A p, q \in host.podv : p = q

(* Tiles taken leave no more room than there was. *)
LEMMA LessRoom ==
  ASSUME NEW p \in Pods, NEW d,
         \A t \in Tiles : tile'[p][t] = "FREE" => tile[p][t] = "FREE",
         FreeOrigins(p, d) = {}
  PROVE  FreeOrigins(p, d)' = {}
BY DEF FreeOrigins, Footprint

(* A pod stays searched when tiles are only taken and groups only launched.  *)
LEMMA StaysExhausted ==
  ASSUME NEW p \in Pods, Exhausted(p),
         \A t \in Tiles : tile'[p][t] = "FREE" => tile[p][t] = "FREE",
         \A i \in Slots : groups'[p][i].status = "INITIALIZED" =>
           groups[p][i].status = "INITIALIZED" /\ groups'[p][i].dim = groups[p][i].dim
  PROVE  Exhausted(p)'
<1> SUFFICES ASSUME NEW i \in Slots, groups'[p][i].status = "INITIALIZED"
             PROVE  FreeOrigins(p, groups[p][i].dim)' = {}
  BY DEF Exhausted
<1>1. FreeOrigins(p, groups[p][i].dim) = {}
  BY DEF Exhausted
<1>2. groups'[p][i].dim = groups[p][i].dim
  OBVIOUS
<1> QED BY <1>1, <1>2 DEF FreeOrigins, Footprint

(* A pod with the same tiles and groups stays without room. *)
LEMMA SameRoom ==
  ASSUME NEW p \in Pods, tile'[p] = tile[p], groups'[p] = groups[p], Exhausted(p)
  PROVE  Exhausted(p)'
BY StaysExhausted

(* Tiles are only taken, and groups only launched. *)
Taking ==
  \A p \in Pods :
    /\ \A t \in Tiles : tile'[p][t] = "FREE" => tile[p][t] = "FREE"
    /\ \A i \in Slots : groups'[p][i].status = "INITIALIZED" =>
         groups[p][i].status = "INITIALIZED" /\ groups'[p][i].dim = groups[p][i].dim

(* What a step of the scan has to add to what was known. *)
LEMMA ScanContinues ==
  ASSUME Taking, NEW p \in Pods, host'.cur = p, host'.podv \subseteq Pods,
         host'.failed # <<0, 0>> => FreeOrigins(p, host'.failed) = {},
         \A i \in Slots : i < host'.idx /\ groups'[p][i].status = "INITIALIZED" =>
           FreeOrigins(p, groups[p][i].dim) = {},
         \A q \in host'.podv \ (host'.todo \cup {p}) : Exhausted(q)
  PROVE  ScanRoom'
<1>1. host'.failed # <<0, 0>> => FreeOrigins(p, host.failed)' = {}
  <2> SUFFICES ASSUME host'.failed # <<0, 0>> PROVE FreeOrigins(p, host.failed)' = {}
    OBVIOUS
  <2> QED BY DEF Taking, FreeOrigins, Footprint
<1>2. ASSUME NEW i \in Slots, i < host'.idx, groups'[p][i].status = "INITIALIZED"
      PROVE  FreeOrigins(p, groups[p][i].dim)' = {}
  <2>1. FreeOrigins(p, groups[p][i].dim) = {} /\ groups'[p][i].dim = groups[p][i].dim
    BY <1>2 DEF Taking
  <2> QED BY <2>1 DEF Taking, FreeOrigins, Footprint
<1>3. \A q \in host'.podv \ (host'.todo \cup {p}) : Exhausted(q)'
  BY StaysExhausted DEF Taking
<1> QED
  <2>1. host'.failed # <<0, 0>> => FreeOrigins(host.cur, host.failed)' = {}
    BY <1>1
  <2>2. ASSUME NEW i \in Slots, i < host'.idx, groups'[host'.cur][i].status = "INITIALIZED"
        PROVE FreeOrigins(host.cur, groups[host.cur][i].dim)' = {}
    BY <1>2, <2>2
  <2> QED BY <1>3, <2>1, <2>2 DEF ScanRoom

(* No step leaves room that the scan did not search. *)
LEMMA RoomStep == TypeInv /\ RoomInv /\ [Next]_vars => RoomInv'
<1> SUFFICES ASSUME TypeInv, RoomInv, [Next]_vars
             PROVE  RoomInv'
  OBVIOUS
<1>a. /\ host \in HostType /\ MaxGroups \in Nat
      /\ \A p \in Pods : num[p] \in 0 .. MaxGroups
      /\ \A p \in Pods, i \in Slots : groups[p][i].status = "NONE" <=> i > num[p]
  BY ConfigAssumption DEF TypeInv, TypeOK
<1>b. host.cur \in Pods /\ host.podv \subseteq Pods /\ host.todo \subseteq Pods
  BY <1>a DEF HostType
<1>c. UNCHANGED <<tile, groups>> => Taking
  BY DEF Taking
<1>d. ASSUME UNCHANGED <<tile, groups>>, NEW p \in Pods, Exhausted(p)
      PROVE  Exhausted(p)'
  BY <1>d, SameRoom
<1>1. CASE \/ \E p \in Pods, b \in Binaries : ProgramInit(p, b)
           \/ \E p \in Pods : ProgramFinish(p)
           \/ \E p \in Pods, g \in GridDims, d \in Dims, k \in Names :
                KernelEnqueue(p, g, d, k)
  <2>1. host.pc = "idle" /\ host' = host
    BY <1>1 DEF ProgramInit, ProgramFinish, KernelEnqueue
  <2> QED BY <2>1 DEF RoomInv, Scans, Searched
<1>2. CASE \/ \E p \in Pods : KernelsExecute(p)
           \/ \E podv \in SUBSET Pods : KernelsExecuteV(podv)
  <2>1. UNCHANGED <<tile, groups>>
    BY <1>2 DEF KernelsExecute, KernelsExecuteV, podVars
  <2>2. CASE host'.pc = "check" /\ host'.op = "pod" /\ \E p \in Pods : host'.podv = {p}
    BY <2>2 DEF RoomInv, Scans, Searched
  <2>3. CASE /\ host'.pc = "scan" /\ host'.op = "podv" /\ host'.cur \in host'.podv
             /\ host'.todo = host'.podv \ {host'.cur}
             /\ host'.idx = 1 /\ host'.failed = <<0, 0>>
    <3>1. host' \in HostType
      BY <1>2, TypeStep DEF TypeInv, TypeOK
    <3>2. host'.cur \in Pods /\ host'.podv \subseteq Pods
      BY <3>1 DEF HostType
    <3>3. \A i \in Slots : ~(i < host'.idx)
      BY <2>3 DEF Slots
    <3>4. ScanRoom'
      BY <1>c, <2>1, <2>3, <3>2, <3>3, ScanContinues
    <3> QED BY <2>3, <3>4 DEF RoomInv, Searched
  <2> QED BY <1>2, <1>a, <2>2, <2>3, CallFields
<1>3. CASE Check
  <2>1. UNCHANGED <<tile, groups>> /\ host.pc = "check"
    BY <1>3 DEF Check, podVars
  <2>2. CASE host' = IdleHost
    BY <2>2 DEF IdleHost, RoomInv, Scans, Searched
  <2>3. CASE host.op = "pod" /\ \E p \in host.podv : host' = Scanning(p, {})
    <3>1. PICK p \in host.podv : host' = Scanning(p, {})
      BY <2>3
    <3>2. /\ host'.pc = "scan" /\ host'.op = "pod" /\ host'.podv = host.podv
          /\ host'.cur = p /\ host'.idx = 1 /\ host'.failed = <<0, 0>>
      BY <1>a, <1>b, <2>3, <3>1, ScanningFields
    <3>3. \A i \in Slots : ~(i < host'.idx)
      BY <3>2 DEF Slots
    <3>4. \A q \in host'.podv : q = p
      BY <2>3, <3>2 DEF RoomInv
    <3>5. ScanRoom'
      BY <1>b, <1>c, <2>1, <3>2, <3>3, <3>4, ScanContinues
    <3> QED BY <2>3, <3>2, <3>5 DEF RoomInv, Searched
  <2>4. CASE host.op = "podv" /\ host' = [host EXCEPT !.pc = "wait"]
    <3>1. host'.pc = "wait" /\ host'.op = "podv" /\ host'.podv = host.podv
      BY <1>a, <2>4 DEF HostType
    <3>2. \A p \in host.podv : Exhausted(p)
      BY <2>1, <2>4 DEF RoomInv, Searched
    <3> QED BY <1>b, <1>d, <2>1, <3>1, <3>2 DEF RoomInv, Scans
  <2> QED BY <1>3, <2>2, <2>3, <2>4 DEF Check
<1>4. CASE ScanSkip \/ ScanNoRoom
  <2> DEFINE p == host.cur
             i == host.idx
  <2>1. UNCHANGED <<tile, groups>> /\ host.pc = "scan" /\ i \in Slots /\ ScanRoom
    BY <1>4, <1>a, <1>b DEF ScanSkip, ScanNoRoom, podVars, TypeInv, WellFormed, HostType,
       Slots, RoomInv, Scans
  <2>2. /\ host'.pc = "scan" /\ host'.op = host.op /\ host'.podv = host.podv
        /\ host'.todo = host.todo /\ host'.cur = p /\ host'.idx = i + 1
    <3>1. CASE ScanSkip
      BY <1>a, <2>1, <3>1 DEF ScanSkip, HostType
    <3>2. CASE ScanNoRoom
      BY <1>a, <2>1, <3>2 DEF ScanNoRoom, HostType
    <3> QED BY <1>4, <3>1, <3>2
  <2>3. /\ host'.failed # <<0, 0>> => FreeOrigins(p, host'.failed) = {}
        /\ groups[p][i].status = "INITIALIZED" => FreeOrigins(p, groups[p][i].dim) = {}
    <3>1. CASE ScanSkip
      <4>1. host'.failed = host.failed
        BY <1>a, <3>1 DEF ScanSkip, HostType
      <4>2. groups[p][i].status = "INITIALIZED" =>
              groups[p][i].dim = host.failed /\ groups[p][i].dim # <<0, 0>>
        <5>1. groups[p][i].status = "INITIALIZED" => groups[p][i].dim \in Dims
          BY <1>b, <2>1 DEF TypeInv, WellFormed
        <5>2. <<0, 0>> \notin Dims
          BY ConfigAssumption DEF Positive
        <5> QED BY <3>1, <5>1, <5>2 DEF ScanSkip, Candidate, Current
      <4> QED BY <2>1, <4>1, <4>2 DEF ScanRoom
    <3>2. CASE ScanNoRoom
      <4>1. FreeOrigins(p, groups[p][i].dim) = {}
        BY <3>2 DEF ScanNoRoom, Current
      <4>2. host'.failed = groups[p][i].dim
        BY <1>a, <3>2 DEF ScanNoRoom, HostType, Current
      <4> QED BY <4>1, <4>2
    <3> QED BY <1>4, <3>1, <3>2
  <2>4. \A j \in Slots : j < host'.idx /\ groups'[p][j].status = "INITIALIZED" =>
          FreeOrigins(p, groups[p][j].dim) = {}
    <3> SUFFICES ASSUME NEW j \in Slots, j < i + 1, groups[p][j].status = "INITIALIZED"
                 PROVE  FreeOrigins(p, groups[p][j].dim) = {}
      BY <2>1, <2>2
    <3>1. j < i \/ j = i
      BY <2>1 DEF Slots
    <3> QED BY <2>1, <2>3, <3>1 DEF ScanRoom
  <2>5. \A q \in host'.podv \ (host'.todo \cup {p}) : Exhausted(q)
    BY <2>1, <2>2 DEF ScanRoom
  <2> HIDE DEF p, i
  <2>6. ScanRoom'
    BY <1>b, <1>c, <2>1, <2>2, <2>3, <2>4, <2>5, ScanContinues DEF p
  <2> QED BY <2>2, <2>6 DEF RoomInv, Searched
<1>5. CASE AllocateTiles
  <2>1. PICK p \in Pods, i \in Slots, o \in Tiles :
          p = host.cur /\ i = host.idx /\ Allocated(p, i, o)
    BY <1>5, AllocateEffect
  <2>2. Taking
    <3>1. \A q \in Pods \ {p} : tile'[q] = tile[q] /\ groups'[q] = groups[q]
      BY <2>1 DEF Allocated
    <3>2. \A t \in Tiles : tile'[p][t] = "FREE" => tile[p][t] = "FREE"
      BY <2>1 DEF Allocated
    <3>3. \A j \in Slots : groups'[p][j].status = "INITIALIZED" =>
            groups'[p][j] = groups[p][j]
      BY <2>1 DEF Allocated
    <3> QED BY <3>1, <3>2, <3>3 DEF Taking
  <2>3. /\ host.pc = "scan" /\ host'.pc = "launch" /\ host'.op = host.op
        /\ host'.podv = host.podv /\ host'.todo = host.todo
        /\ host'.cur = p /\ host'.idx = i /\ host'.failed = host.failed
    BY <1>5, <1>a, <2>1 DEF AllocateTiles, HostType
  <2>4. ScanRoom
    BY <2>3 DEF RoomInv, Scans
  <2>5. \A j \in Slots : j < host'.idx /\ groups'[p][j].status = "INITIALIZED" =>
          FreeOrigins(p, groups[p][j].dim) = {}
    BY <2>1, <2>2, <2>3, <2>4 DEF ScanRoom, Taking
  <2>6. ScanRoom'
    BY <1>b, <2>1, <2>2, <2>3, <2>4, <2>5, ScanContinues DEF ScanRoom
  <2> QED BY <2>3, <2>6 DEF RoomInv, Searched
<1>6. CASE LaunchPrepare \/ LaunchRunsOut \/ LaunchDone
  <2>1. PICK p \in Pods, i \in Slots : \/ Moves(p, i, "ALLOCATED", "ALLOCATED")
                                       \/ Moves(p, i, "ALLOCATED", "LAUNCHED")
    BY <1>6, LaunchEffect
  <2>2. p = host.cur /\ i = host.idx /\ tile' = tile /\ ScanRoom
    BY <1>6, <2>1 DEF LaunchPrepare, LaunchRunsOut, LaunchDone, RoomInv, Scans, Moves
  <2>3. /\ \A q \in Pods, j \in Slots : q # p \/ j # i => groups'[q][j] = groups[q][j]
        /\ groups'[p][i].status # "INITIALIZED"
    BY <2>1 DEF Moves
  <2>4. Taking
    BY <2>2, <2>3 DEF Taking
  <2>5. \/ host' = IdleHost
        \/ /\ host'.pc \in {"wake", "scan"} /\ host'.op = host.op
           /\ host'.podv = host.podv /\ host'.todo = host.todo
           /\ host'.cur = p /\ host'.failed = host.failed
           /\ host'.idx = i \/ host'.idx = i + 1
    BY <1>6, <1>a, <2>2 DEF LaunchPrepare, LaunchRunsOut, LaunchDone, HostType
  <2>6. CASE host' = IdleHost
    BY <2>6 DEF IdleHost, RoomInv, Scans, Searched
  <2>7. CASE /\ host'.pc \in {"wake", "scan"} /\ host'.op = host.op
             /\ host'.podv = host.podv /\ host'.todo = host.todo
             /\ host'.cur = p /\ host'.failed = host.failed
             /\ host'.idx = i \/ host'.idx = i + 1
    <3>1. \A j \in Slots : j < host'.idx /\ groups'[p][j].status = "INITIALIZED" =>
            FreeOrigins(p, groups[p][j].dim) = {}
      <4> SUFFICES ASSUME NEW j \in Slots, j < host'.idx, j # i,
                          groups'[p][j].status = "INITIALIZED"
                   PROVE  FreeOrigins(p, groups[p][j].dim) = {}
        BY <2>3
      <4>1. j < i
        BY <2>7 DEF Slots
      <4> QED BY <2>2, <2>3, <4>1 DEF ScanRoom
    <3>2. ScanRoom'
      BY <1>b, <2>2, <2>4, <2>7, <3>1, ScanContinues DEF ScanRoom
    <3> QED BY <2>7, <3>2 DEF RoomInv, Searched
  <2> QED BY <2>5, <2>6, <2>7
<1>7. CASE WakeTile
  <2>1. UNCHANGED <<tile, groups>> /\ host.pc = "wake" /\ ScanRoom
    BY <1>7 DEF WakeTile, podVars, RoomInv, Scans
  <2>2. /\ host'.pc = "wake" /\ host'.op = host.op /\ host'.podv = host.podv
        /\ host'.todo = host.todo /\ host'.cur = host.cur /\ host'.idx = host.idx
        /\ host'.failed = host.failed
    BY <1>7, <1>a, <2>1 DEF WakeTile, HostType
  <2>3. ScanRoom'
    BY <1>b, <1>c, <2>1, <2>2, ScanContinues DEF ScanRoom
  <2> QED BY <2>2, <2>3 DEF RoomInv, Searched
<1>8. CASE ScanEnd
  <2>1. UNCHANGED <<tile, groups>> /\ host.pc = "scan" /\ ScanRoom
    BY <1>8 DEF ScanEnd, podVars, RoomInv, Scans
  <2>2. Exhausted(host.cur)
    <3> SUFFICES ASSUME NEW i \in Slots, groups[host.cur][i].status = "INITIALIZED"
                 PROVE  FreeOrigins(host.cur, groups[host.cur][i].dim) = {}
      BY DEF Exhausted
    <3>1. i <= num[host.cur] /\ host.idx > num[host.cur]
      BY <1>8, <1>a, <1>b DEF ScanEnd, Slots
    <3>2. i < host.idx
      BY <1>a, <1>b, <3>1 DEF Slots, HostType
    <3> QED BY <2>1, <3>2 DEF ScanRoom
  <2>3. \A q \in host.podv \ host.todo : Exhausted(q)
    BY <2>1, <2>2 DEF ScanRoom
  <2>4. CASE \E p \in host.todo : host' = Scanning(p, host.todo \ {p})
    <3>1. PICK p \in host.todo : host' = Scanning(p, host.todo \ {p})
      BY <2>4
    <3>2. /\ host'.pc = "scan" /\ host'.op = host.op /\ host'.podv = host.podv
          /\ host'.todo = host.todo \ {p}
          /\ host'.cur = p /\ host'.idx = 1 /\ host'.failed = <<0, 0>>
      BY <1>a, <1>b, <3>1, ScanningFields
    <3>3. \A i \in Slots : ~(i < host'.idx)
      BY <3>2 DEF Slots
    <3>4. ScanRoom'
      BY <1>b, <1>c, <2>1, <2>3, <3>2, <3>3, ScanContinues
    <3> QED BY <3>2, <3>4 DEF RoomInv, Searched
  <2>5. CASE /\ host.todo = {}
             /\ \/ host' = [host EXCEPT !.pc = "wait"]
                \/ host' = [host EXCEPT !.pc = "check"]
    <3>1. host'.pc \in {"wait", "check"} /\ host'.op = host.op /\ host'.podv = host.podv
      BY <1>a, <2>5 DEF HostType
    <3> QED BY <1>b, <1>d, <2>1, <2>3, <2>5, <3>1 DEF RoomInv, Scans
  <2> QED BY <1>8, <2>4, <2>5 DEF ScanEnd
<1>9. ASSUME NEW m \in rqst, ReceiveFinish(m)
      PROVE  RoomInv'
  <2>1. PICK i \in Matches(m) : Retire(m.pod, i)
    BY <1>9 DEF ReceiveFinish
  <2>2. m.pod \in Pods /\ Retired(m.pod, i)
    BY <2>1, RetireEffect DEF Retired
  <2>3. host.pc = "wait" /\ \A p \in host.podv : Exhausted(p)
    BY <1>9 DEF ReceiveFinish, RoomInv, Searched
  <2>4. \A q \in host.podv \ {m.pod} : Exhausted(q)'
    BY <1>b, <2>2, <2>3, SameRoom DEF Retired
  <2>5. CASE host.op = "pod" /\ host' = [host EXCEPT !.pc = "check"]
    <3>1. host'.pc = "check" /\ host'.op = "pod" /\ host'.podv = host.podv
      BY <1>a, <2>5 DEF HostType
    <3> QED BY <2>5, <3>1 DEF RoomInv, Scans, Searched
  <2>6. CASE host' = Scanning(m.pod, {})
    <3>1. /\ host'.pc = "scan" /\ host'.op = host.op /\ host'.podv = host.podv
          /\ host'.cur = m.pod /\ host'.idx = 1 /\ host'.failed = <<0, 0>>
      BY <1>a, <2>2, <2>6, ScanningFields
    <3>2. \A j \in Slots : ~(j < host'.idx)
      BY <3>1 DEF Slots
    <3>3. ScanRoom'
      BY <2>4, <3>1, <3>2 DEF ScanRoom
    <3> QED BY <3>1, <3>3 DEF RoomInv, Searched
  <2> QED BY <1>9, <2>5, <2>6 DEF ReceiveFinish
<1>10. CASE \E m \in rqst : ReceiveOther(m) \/ ReceiveFails(m)
  <2>1. UNCHANGED <<tile, groups>> /\ host.pc = "wait" /\ host' \in {host, IdleHost}
    BY <1>10 DEF ReceiveOther, ReceiveFails, podVars
  <2>2. CASE host' = IdleHost
    BY <2>2 DEF IdleHost, RoomInv, Scans, Searched
  <2>3. CASE host' = host
    BY <1>b, <1>d, <2>1, <2>3 DEF RoomInv, Scans, Searched
  <2> QED BY <2>1, <2>2, <2>3
<1>11. CASE Device \/ UNCHANGED vars
  <2>1. UNCHANGED <<tile, groups, host>>
    BY <1>11 DEF Device, DeviceFinish, DeviceChatter, podVars, vars
  <2>2. Scans => ScanRoom'
    <3> SUFFICES ASSUME Scans PROVE ScanRoom'
      OBVIOUS
    <3> QED BY <1>b, <1>c, <2>1, ScanContinues DEF RoomInv, ScanRoom
  <2>3. Searched => \A p \in host.podv : Exhausted(p)'
    BY <1>b, <1>d, <2>1 DEF RoomInv
  <2> QED BY <2>1, <2>2, <2>3 DEF RoomInv, Scans, Searched
<1> QED
  BY <1>1, <1>2, <1>3, <1>4, <1>5, <1>6, <1>7, <1>8, <1>9, <1>10, <1>11
  DEF Next, Client, Host, Receive

(* When the host waits, no group that is still to be launched fits in the    *)
(* free tiles of a pod it executes: the scan of podv_try_launch, which skips *)
(* the shape that last failed and looks only at the pod that last finished a *)
(* group, leaves no room unused, also after launches and responders failed.  *)
THEOREM NoRoomUnused == Spec => []NoRoomLeft
<1>1. Init => RoomInv
  BY DEF Init, IdleHost, RoomInv, Scans, Searched
<1>2. TypeInv /\ RoomInv => NoRoomLeft
  BY DEF RoomInv, Searched, Exhausted, NoRoomLeft
<1> QED BY <1>1, <1>2, TypeInit, TypeStep, RoomStep, PTL DEF Spec

-----------------------------------------------------------------------------
(* References to kernels *)

(* The groups of pod p that still use the kernel of slot k. *)
Users(p, k) ==
  {i \in Slots : /\ groups[p][i].status \notin {"NONE", "FINISHED"}
                 /\ groups[p][i].kernel = k}

(* A pod without a program has no groups, and a group uses the kernel of the *)
(* grid it is part of, which starts at its slot or before.                   *)
ReferenceInv ==
  /\ \A p \in Pods, k \in Slots : refs[p][k] = Cardinality(Users(p, k))
  /\ \A p \in Pods : ~loaded[p] => num[p] = 0
  /\ \A p \in Pods, i \in Slots :
       groups[p][i].status \notin {"NONE", "FINISHED"} => groups[p][i].kernel <= i

(* Steps that finish no group and enqueue none. *)
LEMMA SameUsers ==
  ASSUME ReferenceInv, UNCHANGED <<refs, loaded, num>>,
         \A p \in Pods, i \in Slots :
           /\ groups'[p][i].status \in {"NONE", "FINISHED"} <=>
                groups[p][i].status \in {"NONE", "FINISHED"}
           /\ groups'[p][i].kernel = groups[p][i].kernel
  PROVE  ReferenceInv'
<1>1. \A p \in Pods, k \in Slots : Users(p, k)' = Users(p, k)
  BY DEF Users
<1>2. \A p \in Pods, k \in Slots : refs'[p][k] = Cardinality(Users(p, k)')
  BY <1>1 DEF ReferenceInv
<1> QED BY <1>2 DEF ReferenceInv

(* A group that is enqueued is counted by its kernel and by no other. *)
LEMMA EnqueueReferences ==
  ASSUME TypeInv, ReferenceInv,
         NEW p \in Pods, NEW g \in GridDims, NEW d \in Dims, NEW k \in Names,
         KernelEnqueue(p, g, d, k)
  PROVE  ReferenceInv'
<1> DEFINE size  == g[1] * g[2]
<1>1. size \in Nat /\ size > 0
  BY GridSize, ConfigAssumption
<1>2. num[p] \in Nat /\ MaxGroups \in Nat
  BY ConfigAssumption DEF TypeInv, TypeOK
<1>0. PICK first \in Nat, last \in Nat : first = num[p] + 1 /\ last = num[p] + size
  <2> HIDE DEF size
  <2> QED BY <1>1, <1>2
<1>3. /\ groups' = [groups EXCEPT ![p] =
           [i \in Slots |-> IF i \in first .. last THEN NewGroup(first, g, d, k, i)
                                                   ELSE groups[p][i]]]
      /\ num' = [num EXCEPT ![p] = last]
      /\ refs' = [refs EXCEPT ![p] = [@ EXCEPT ![first] = size]]
      /\ loaded' = loaded /\ loaded[p] /\ last <= MaxGroups
  BY <1>0 DEF KernelEnqueue
<1>4. first \in Slots /\ first .. last \subseteq Slots
  <2> HIDE DEF size
  <2> QED BY <1>0, <1>1, <1>2, <1>3 DEF Slots
<1>5. \A i \in first .. last : i > num[p] /\ i >= first /\ groups[p][i].status = "NONE"
  <2> TAKE i \in first .. last
  <2>1. i \in Nat /\ i >= first
    OBVIOUS
  <2>2. i > num[p]
    <3>1. first = num[p] + 1
      BY <1>0
    <3> QED BY <1>2, <2>1, <3>1
  <2> QED BY <1>4, <2>1, <2>2 DEF TypeInv, TypeOK
<1>6. Cardinality(first .. last) = size
  <2>1. Cardinality(first .. last) = IF first > last THEN 0 ELSE last - first + 1
    <3>1. first \in Int /\ last \in Int
      OBVIOUS
    <3> QED BY <3>1, FS_Interval
  <2>2. ~(first > last) /\ last - first + 1 = size
    <3> HIDE DEF size
    <3> QED BY <1>0, <1>1, <1>2
  <2> QED BY <2>1, <2>2
<1> HIDE DEF size
<1>7. \A i \in first .. last :
        /\ groups'[p][i].status = "INITIALIZED" /\ groups'[p][i].kernel = first
  <2> TAKE i \in first .. last
  <2>1. groups'[p][i] = NewGroup(first, g, d, k, i)
    BY <1>3, <1>4 DEF TypeInv, TypeOK
  <2> QED BY <2>1 DEF NewGroup
<1>8. \A i \in Slots \ (first .. last) : groups'[p][i] = groups[p][i]
  BY <1>3 DEF TypeInv, TypeOK
<1>9. \A q \in Pods \ {p} : groups'[q] = groups[q] /\ num'[q] = num[q] /\ refs'[q] = refs[q]
  BY <1>3 DEF TypeInv, TypeOK
<1>10. Users(p, first)' = first .. last
  <2>1. ASSUME NEW i \in Slots \ (first .. last),
               groups[p][i].status \notin {"NONE", "FINISHED"}
        PROVE  groups[p][i].kernel # first
    <3>1. i <= num[p] /\ groups[p][i].kernel <= i /\ groups[p][i].kernel \in Slots
      BY <1>2, <2>1 DEF TypeInv, TypeOK, GroupType, Slots, ReferenceInv, WellFormed
    <3> QED BY <1>0, <1>2, <3>1 DEF Slots
  <2>2. ASSUME NEW i \in first .. last PROVE i \in Users(p, first)'
    BY <1>4, <1>7 DEF Users
  <2>3. ASSUME NEW i \in Slots \ (first .. last) PROVE i \notin Users(p, first)'
    BY <1>8, <2>1 DEF Users
  <2>4. Users(p, first)' \subseteq Slots
    BY DEF Users
  <2> QED BY <2>2, <2>3, <2>4
<1>11. \A j \in Slots \ {first} : Users(p, j)' = Users(p, j)
  BY <1>5, <1>7, <1>8 DEF Users
<1>12. \A q \in Pods \ {p}, j \in Slots : Users(q, j)' = Users(q, j)
  BY <1>9 DEF Users
<1>13. ASSUME NEW q \in Pods, NEW j \in Slots
       PROVE  refs'[q][j] = Cardinality(Users(q, j)')
  <2>1. refs[q][j] = Cardinality(Users(q, j))
    BY DEF ReferenceInv
  <2>2. CASE q = p /\ j = first
    <3>1. refs'[p][first] = size
      BY <1>3, <1>4 DEF TypeInv, TypeOK
    <3> QED BY <1>6, <1>10, <2>2, <3>1
  <2>3. CASE q = p /\ j # first
    <3>1. refs'[q][j] = refs[q][j]
      BY <1>3, <1>4, <2>3 DEF TypeInv, TypeOK
    <3> QED BY <1>11, <2>1, <2>3, <3>1
  <2>4. CASE q # p
    BY <1>9, <1>12, <2>1, <2>4
  <2> QED BY <2>2, <2>3, <2>4
<1>14. ASSUME NEW q \in Pods, NEW i \in Slots,
              groups'[q][i].status \notin {"NONE", "FINISHED"}
       PROVE  groups'[q][i].kernel <= i
  BY <1>5, <1>7, <1>8, <1>9, <1>14 DEF ReferenceInv
<1>15. \A q \in Pods : ~loaded'[q] => num'[q] = 0
  BY <1>3, <1>9 DEF ReferenceInv
<1> QED BY <1>13, <1>14, <1>15 DEF ReferenceInv

(* A group that is cleaned up is dropped from its kernel's count alone. *)
LEMMA RetireReferences ==
  ASSUME TypeInv, ReferenceInv, NEW m \in rqst, NEW i \in Matches(m),
         Retire(m.pod, i), UNCHANGED <<loaded, num>>
  PROVE  ReferenceInv'
<1> DEFINE p == m.pod
<1>1. /\ p \in Pods /\ i \in Slots /\ groups[p][i].status = "LAUNCHED"
      /\ \A q \in Pods \ {p} : groups'[q] = groups[q]
      /\ \A j \in Slots \ {i} : groups'[p][j] = groups[p][j]
      /\ groups'[p][i].status = "FINISHED"
  BY RetireEffect DEF Retired
<1>2. PICK k \in Slots : k = groups[p][i].kernel
  BY <1>1 DEF TypeInv, WellFormed
<1>3. refs' = [refs EXCEPT ![p][k] = @ - 1]
  BY <1>2 DEF Retire
<1> HIDE DEF p
<1>4. /\ i \in Users(p, k)
      /\ Users(p, k)' = Users(p, k) \ {i}
  <2>1. i \in Users(p, k)
    BY <1>1, <1>2 DEF Users
  <2>2. \A j \in Slots : j \in Users(p, k)' <=> j \in Users(p, k) /\ j # i
    BY <1>1 DEF Users
  <2>3. Users(p, k)' \subseteq Slots /\ Users(p, k) \subseteq Slots
    BY DEF Users
  <2> QED BY <2>1, <2>2, <2>3
<1>5. \A q \in Pods, j \in Slots : q # p \/ j # k => Users(q, j)' = Users(q, j)
  BY <1>1, <1>2 DEF Users
<1>6. Cardinality(Users(p, k)') = Cardinality(Users(p, k)) - 1
  <2>1. IsFiniteSet(Slots)
    BY ConfigAssumption, FS_Interval DEF Slots
  <2>2. IsFiniteSet(Users(p, k))
    BY <2>1, FS_Subset DEF Users
  <2> QED BY <1>4, <2>2, FS_RemoveElement
<1>7. ASSUME NEW q \in Pods, NEW j \in Slots
      PROVE  refs'[q][j] = Cardinality(Users(q, j)')
  <2>1. refs[q][j] = Cardinality(Users(q, j))
    BY DEF ReferenceInv
  <2>2. CASE q = p /\ j = k
    <3>1. refs'[p][k] = refs[p][k] - 1
      BY <1>1, <1>2, <1>3 DEF TypeInv, TypeOK
    <3> QED BY <1>6, <2>1, <2>2, <3>1
  <2>3. CASE q # p \/ j # k
    <3>1. refs'[q][j] = refs[q][j]
      BY <1>1, <1>2, <1>3, <2>3 DEF TypeInv, TypeOK
    <3> QED BY <1>5, <2>1, <2>3, <3>1
  <2> QED BY <2>2, <2>3
<1>8. \A q \in Pods, j \in Slots :
        groups'[q][j].status \notin {"NONE", "FINISHED"} => groups'[q][j].kernel <= j
  BY <1>1 DEF ReferenceInv
<1> QED BY <1>7, <1>8 DEF ReferenceInv

(* Every step keeps the kernels' counts. *)
LEMMA ReferenceStep == TypeInv /\ ReferenceInv /\ [Next]_vars => ReferenceInv'
<1> SUFFICES ASSUME TypeInv, ReferenceInv, [Next]_vars
             PROVE  ReferenceInv'
  OBVIOUS
<1>1. ASSUME NEW p \in Pods, \/ \E b \in Binaries : ProgramInit(p, b)
                             \/ ProgramFinish(p)
      PROVE  ReferenceInv'
  <2>1. /\ groups' = [groups EXCEPT ![p] = [i \in Slots |-> NoGroup]]
        /\ num' = [num EXCEPT ![p] = 0]
        /\ \A q \in Pods \ {p} : loaded'[q] = loaded[q] /\ refs'[q] = refs[q]
    BY <1>1 DEF ProgramInit, ProgramFinish, TypeInv, TypeOK
  <2>2. /\ groups'[p] = [i \in Slots |-> NoGroup] /\ num'[p] = 0
        /\ \A q \in Pods \ {p} : groups'[q] = groups[q] /\ num'[q] = num[q]
    BY <2>1 DEF TypeInv, TypeOK
  <2>3. \A k \in Slots : Users(p, k)' = {}
    BY <2>2 DEF Users, NoGroup
  <2>4. ASSUME NEW k \in Slots
        PROVE  refs'[p][k] = 0
    <3>1. refs[p][k] = Cardinality(Users(p, k)) /\ refs[p][k] \in Int
      BY DEF ReferenceInv, TypeInv, TypeOK
    <3>2. CASE \E b \in Binaries : ProgramInit(p, b)
      <4>1. ~loaded[p] /\ refs' = refs
        BY <3>2 DEF ProgramInit
      <4>2. \A i \in Slots : groups[p][i].status = "NONE"
        <5>1. num[p] = 0
          BY <4>1 DEF ReferenceInv
        <5> QED BY <5>1 DEF TypeInv, TypeOK, Slots
      <4>3. Users(p, k) = {}
        BY <4>2 DEF Users
      <4> QED BY <3>1, <4>1, <4>3, FS_EmptySet
    <3>3. CASE ProgramFinish(p)
      <4>1. refs'[p][k] = refs[p][k] - Cardinality(Users(p, k))
        BY <3>3 DEF ProgramFinish, Users, TypeInv, TypeOK
      <4> QED BY <3>1, <4>1
    <3> QED BY <1>1, <3>2, <3>3
  <2>5. ASSUME NEW q \in Pods, NEW k \in Slots
        PROVE  refs'[q][k] = Cardinality(Users(q, k)')
    <3>1. CASE q = p
      BY <2>3, <2>4, <3>1, FS_EmptySet
    <3>2. CASE q # p
      <4>1. Users(q, k)' = Users(q, k)
        BY <2>2, <3>2 DEF Users
      <4> QED BY <2>1, <3>2, <4>1 DEF ReferenceInv
    <3> QED BY <3>1, <3>2
  <2>6. ASSUME NEW q \in Pods, NEW i \in Slots,
               groups'[q][i].status \notin {"NONE", "FINISHED"}
        PROVE  groups'[q][i].kernel <= i
    BY <2>2, <2>6 DEF NoGroup, ReferenceInv
  <2>7. \A q \in Pods : ~loaded'[q] => num'[q] = 0
    BY <2>1, <2>2 DEF ReferenceInv
  <2> QED BY <2>5, <2>6, <2>7 DEF ReferenceInv
<1>2. ASSUME NEW p \in Pods, NEW g \in GridDims, NEW d \in Dims, NEW k \in Names,
             KernelEnqueue(p, g, d, k)
      PROVE  ReferenceInv'
  BY <1>2, EnqueueReferences
<1>3. CASE AllocateTiles \/ LaunchPrepare \/ LaunchRunsOut \/ LaunchDone
  <2>1. PICK p \in Pods, i \in Slots : \/ Moves(p, i, "INITIALIZED", "ALLOCATED")
                                       \/ Moves(p, i, "ALLOCATED", "ALLOCATED")
                                       \/ Moves(p, i, "ALLOCATED", "LAUNCHED")
    BY <1>3, LaunchEffect, PlaceEffect
  <2>2. UNCHANGED <<refs, loaded, num>>
    BY <1>3 DEF AllocateTiles, LaunchPrepare, LaunchRunsOut, LaunchDone
  <2> QED BY <2>1, <2>2, SameUsers DEF Moves
<1>4. ASSUME NEW m \in rqst, ReceiveFinish(m)
      PROVE  ReferenceInv'
  BY <1>4, RetireReferences DEF ReceiveFinish
<1>5. CASE \/ \E p \in Pods : KernelsExecute(p)
           \/ \E podv \in SUBSET Pods : KernelsExecuteV(podv)
           \/ Check \/ ScanSkip \/ ScanNoRoom \/ ScanEnd \/ WakeTile
           \/ \E m \in rqst : ReceiveOther(m) \/ ReceiveFails(m)
           \/ Device
           \/ UNCHANGED vars
  <2>1. UNCHANGED <<groups, refs, loaded, num>>
    BY <1>5 DEF KernelsExecute, KernelsExecuteV, Check, ScanSkip, ScanNoRoom, ScanEnd,
                WakeTile, ReceiveOther, ReceiveFails, Device, DeviceFinish,
                DeviceChatter, podVars, vars
  <2> QED BY <2>1, SameUsers
<1> QED
  BY <1>1, <1>2, <1>3, <1>4, <1>5 DEF Next, Client, Host, Receive

(* A kernel object is released exactly when every group of its grid is       *)
(* finished, on every path through execute and with programs that end early. *)
THEOREM KernelsCounted == Spec => []KernelReferences
<1>1. ASSUME Init PROVE ReferenceInv
  <2>1. \A p \in Pods, k \in Slots : Users(p, k) = {}
    BY <1>1 DEF Init, Users, NoGroup
  <2> QED BY <1>1, <2>1, FS_EmptySet DEF Init, NoGroup, ReferenceInv
<1>2. ReferenceInv => KernelReferences
  BY DEF ReferenceInv, Users, KernelReferences
<1> QED BY <1>1, <1>2, TypeInit, TypeStep, ReferenceStep, PTL DEF Spec

-----------------------------------------------------------------------------
(* Calls that do not fail *)

(* Every program has the kernels that clients name, launches find memory for *)
(* their buffers, and no responder fails.                                    *)
NoFaults ==
  /\ ~ResponderFails /\ ~MemoryRunsOut
  /\ \A b \in Binaries : Names \subseteq b.symbols

LEMMA MemorySuffices == ASSUME NoFaults PROVE ~LaunchRunsOut
BY DEF NoFaults, LaunchRunsOut

(* Groups hold tiles only while the host executes their pod, and the only    *)
(* group that is placed and not launched is the one being launched.          *)
CallInv ==
  /\ host.pc = "idle" => host.podv = {}
  /\ Scans => host.cur \in host.podv
  /\ host.todo \subseteq host.podv
  /\ \A p \in Pods : Holding(p) # {} => p \in host.podv
  /\ \A p \in Pods, i \in Slots : groups[p][i].status = "ALLOCATED" =>
       host.pc \in {"launch", "wake"} /\ p = host.cur /\ i = host.idx
  /\ host.pc = "wake" => host.wake \subseteq GroupTiles(host.cur, host.idx)
  /\ \A p \in Pods : loaded[p] => Names \subseteq binary[p].symbols

(* Without faults, a launch that was prepared goes on to wake the tiles.     *)
LEMMA PreparedWakes ==
  ASSUME NoFaults, TypeInv, ReferenceInv, CallInv, LaunchPrepare
  PROVE  host' = [host EXCEPT !.pc = "wake", !.wake = GroupTiles(host.cur, host.idx)]
<1>1. PICK p \in Pods, i \in Slots : p = host.cur /\ i = host.idx
  BY DEF LaunchPrepare, TypeInv, TypeOK, WellFormed, HostType
<1>2. groups[p][i].status = "ALLOCATED" /\ groups[p][i].name \in Names
  BY <1>1 DEF LaunchPrepare, TypeInv, WellFormed
<1>3. num[p] # 0
  BY <1>2 DEF TypeInv, TypeOK, Slots
<1>4. loaded[p]
  BY <1>3 DEF ReferenceInv
<1>5. Current.name \in binary[host.cur].symbols
  BY <1>1, <1>2, <1>4 DEF Current, CallInv
<1> QED BY <1>5 DEF LaunchPrepare

(* Without failures, every step keeps what a call of kernels_execute expects. *)
LEMMA CallStep ==
  ASSUME NoFaults, TypeInv, ReferenceInv, CallInv, [Next]_vars
  PROVE  CallInv'
<1>a. host \in HostType /\ host.cur \in Pods /\ host.podv \subseteq Pods
  BY DEF TypeInv, TypeOK, HostType
<1>b. UNCHANGED groups =>
        /\ \A p \in Pods : Holding(p)' = Holding(p)
        /\ \A p \in Pods, i \in Slots : GroupTiles(p, i)' = GroupTiles(p, i)
  BY DEF Holding, GroupTiles
<1>1. ASSUME NEW p \in Pods, \/ \E b \in Binaries : ProgramInit(p, b)
                             \/ ProgramFinish(p)
      PROVE  CallInv'
  <2>1. /\ groups'[p] = [i \in Slots |-> NoGroup]
        /\ \A q \in Pods \ {p} : /\ groups'[q] = groups[q] /\ loaded'[q] = loaded[q]
                                 /\ binary'[q] = binary[q]
        /\ host' = host /\ host.pc = "idle"
    BY <1>1 DEF ProgramInit, ProgramFinish, TypeInv, TypeOK
  <2>2. loaded'[p] => Names \subseteq binary'[p].symbols
    BY <1>1 DEF ProgramInit, ProgramFinish, TypeInv, TypeOK, NoFaults
  <2>3. Holding(p)' = {}
    BY <2>1 DEF Holding, NoGroup
  <2>4. \A q \in Pods \ {p} : Holding(q)' = Holding(q)
    BY <2>1 DEF Holding
  <2>5. \A q \in Pods, i \in Slots : groups'[q][i].status # "ALLOCATED"
    BY <2>1 DEF CallInv, NoGroup
  <2> QED BY <2>1, <2>2, <2>3, <2>4, <2>5 DEF CallInv, Scans
<1>2. ASSUME NEW p \in Pods, NEW g \in GridDims, NEW d \in Dims, NEW k \in Names,
             KernelEnqueue(p, g, d, k)
      PROVE  CallInv'
  <2>1. /\ \A q \in Pods, i \in Slots :
             groups'[q][i] = groups[q][i] \/ groups'[q][i].status = "INITIALIZED"
        /\ UNCHANGED <<host, loaded, binary>> /\ host.pc = "idle"
    BY <1>2 DEF KernelEnqueue, TypeInv, TypeOK, NewGroup
  <2>2. \A q \in Pods : Holding(q)' \subseteq Holding(q)
    BY <2>1 DEF Holding
  <2> QED BY <2>1, <2>2 DEF CallInv, Scans
<1>3. CASE \/ \E p \in Pods : KernelsExecute(p)
           \/ \E podv \in SUBSET Pods : KernelsExecuteV(podv)
  <2>1. UNCHANGED <<groups, loaded, binary>>
    BY <1>3 DEF KernelsExecute, KernelsExecuteV, podVars
  <2>2. host.pc = "idle" /\ host.podv = {} /\ host.todo = {}
    BY <1>3, <1>a, CallFields DEF CallInv
  <2>3. /\ host'.pc \in {"check", "scan"} /\ host'.todo \subseteq host'.podv
        /\ host'.pc = "scan" => host'.cur \in host'.podv
    BY <1>3, <1>a, <2>2, CallFields
  <2>4. \A p \in Pods : Holding(p)' = {}
    BY <1>b, <2>1, <2>2 DEF CallInv
  <2> QED BY <2>1, <2>2, <2>3, <2>4 DEF CallInv, Scans
<1>4. CASE Check
  <2>1. UNCHANGED <<groups, loaded, binary>> /\ host.pc = "check"
    BY <1>4 DEF Check, podVars
  <2>2. \A p \in Pods, i \in Slots : groups'[p][i].status # "ALLOCATED"
    BY <2>1 DEF CallInv
  <2>3. CASE AllFinished(host.podv) /\ host' = IdleHost
    <3>1. ASSUME NEW p \in Pods PROVE Holding(p) = {}
      <4> SUFFICES ASSUME p \in host.podv, NEW i \in Slots
                   PROVE  i \notin Holding(p)
        BY DEF CallInv, Holding
      <4>1. CASE i > num[p]
        BY <4>1 DEF TypeInv, TypeOK, Holding
      <4>2. CASE i \in 1 .. num[p]
        BY <2>3, <4>2 DEF AllFinished, Holding
      <4>3. i \in Nat /\ i >= 1 /\ num[p] \in Nat
        BY ConfigAssumption DEF Slots, TypeInv, TypeOK
      <4> QED BY <4>1, <4>2, <4>3
    <3> QED BY <1>b, <2>1, <2>2, <2>3, <3>1 DEF CallInv, Scans, IdleHost
  <2>4. CASE \E p \in host.podv : host' = Scanning(p, {})
    <3>1. /\ host'.pc = "scan" /\ host'.podv = host.podv /\ host'.cur \in host.podv
          /\ host'.todo = {}
      BY <1>a, <2>4, ScanningFields
    <3> QED BY <1>b, <2>1, <2>2, <3>1 DEF CallInv, Scans
  <2>5. CASE host' = [host EXCEPT !.pc = "wait"]
    <3>1. host'.pc = "wait" /\ host'.podv = host.podv /\ host'.todo = host.todo
      BY <1>a, <2>5 DEF HostType
    <3> QED BY <1>b, <2>1, <2>2, <3>1 DEF CallInv, Scans
  <2> QED BY <1>4, <2>3, <2>4, <2>5 DEF Check
<1>5. CASE ScanSkip \/ ScanNoRoom
  <2>1. UNCHANGED <<groups, loaded, binary>> /\ host.pc = "scan"
    BY <1>5 DEF ScanSkip, ScanNoRoom, podVars
  <2>2. /\ host'.pc = "scan" /\ host'.podv = host.podv /\ host'.todo = host.todo
        /\ host'.cur = host.cur
    <3>1. CASE ScanSkip
      BY <1>a, <2>1, <3>1 DEF ScanSkip, HostType
    <3>2. CASE ScanNoRoom
      BY <1>a, <2>1, <3>2 DEF ScanNoRoom, HostType
    <3> QED BY <1>5, <3>1, <3>2
  <2> QED BY <1>b, <2>1, <2>2 DEF CallInv, Scans
<1>6. CASE AllocateTiles
  <2>1. PICK p \in Pods, i \in Slots : Moves(p, i, "INITIALIZED", "ALLOCATED")
    BY <1>6, PlaceEffect
  <2>2. /\ UNCHANGED <<loaded, binary>> /\ host.pc = "scan"
        /\ host'.pc = "launch" /\ host'.podv = host.podv /\ host'.todo = host.todo
        /\ host'.cur = host.cur /\ host'.idx = host.idx
    BY <1>6, <1>a DEF AllocateTiles, HostType
  <2>3. \A q \in Pods \ {p} : Holding(q)' = Holding(q)
    BY <2>1 DEF Moves, Holding
  <2>4. \A q \in Pods, j \in Slots : groups'[q][j].status = "ALLOCATED" => q = p /\ j = i
    BY <2>1, <2>2 DEF Moves, CallInv
  <2>5. p = host.cur /\ i = host.idx
    BY <2>1 DEF Moves
  <2> QED BY <2>2, <2>3, <2>4, <2>5 DEF CallInv, Scans
<1>7. CASE LaunchPrepare
  <2>1. PICK p \in Pods, i \in Slots : Moves(p, i, "ALLOCATED", "ALLOCATED")
    BY <1>7, LaunchEffect
  <2>2. /\ UNCHANGED <<loaded, binary>> /\ host.pc = "launch"
        /\ host'.pc = "wake" /\ host'.podv = host.podv /\ host'.todo = host.todo
        /\ host'.cur = host.cur /\ host'.idx = host.idx
        /\ host'.wake = GroupTiles(host.cur, host.idx)
    BY <1>7, <1>a, PreparedWakes DEF LaunchPrepare, HostType
  <2>3. \A q \in Pods : Holding(q)' = Holding(q)
    BY <2>1 DEF Moves, Holding
  <2>4. \A q \in Pods, j \in Slots : groups'[q][j].status = groups[q][j].status
    BY <2>1 DEF Moves
  <2>5. p = host.cur /\ i = host.idx /\ GroupTiles(p, i)' = GroupTiles(p, i)
    BY <2>1 DEF Moves, GroupTiles
  <2>6. host'.wake = GroupTiles(host.cur, host.idx)'
    BY <2>2, <2>5
  <2> QED BY <2>2, <2>3, <2>4, <2>6 DEF CallInv, Scans
<1>8. CASE WakeTile
  <2>1. UNCHANGED <<groups, loaded, binary>> /\ host.pc = "wake"
    BY <1>8 DEF WakeTile, podVars
  <2>2. /\ host'.pc = "wake" /\ host'.podv = host.podv /\ host'.todo = host.todo
        /\ host'.cur = host.cur /\ host'.idx = host.idx
        /\ host'.wake \subseteq host.wake
    BY <1>8, <1>a, <2>1 DEF WakeTile, HostType
  <2>3. GroupTiles(host.cur, host.idx)' = GroupTiles(host.cur, host.idx)
    BY <2>1, <2>2 DEF GroupTiles
  <2> QED BY <1>b, <2>1, <2>2, <2>3 DEF CallInv, Scans
<1>9. CASE LaunchDone
  <2>1. PICK p \in Pods, i \in Slots : Moves(p, i, "ALLOCATED", "LAUNCHED")
    BY <1>9, LaunchEffect
  <2>2. /\ UNCHANGED <<loaded, binary>> /\ host.pc = "wake"
        /\ host'.pc = "scan" /\ host'.podv = host.podv /\ host'.todo = host.todo
        /\ host'.cur = host.cur
    BY <1>9, <1>a DEF LaunchDone, HostType
  <2>3. \A q \in Pods : Holding(q)' = Holding(q)
    BY <2>1 DEF Moves, Holding
  <2>4. \A q \in Pods, j \in Slots : groups'[q][j].status # "ALLOCATED"
    BY <2>1 DEF Moves, CallInv
  <2> QED BY <2>2, <2>3, <2>4 DEF CallInv, Scans
<1>10. CASE ScanEnd
  <2>1. UNCHANGED <<groups, loaded, binary>> /\ host.pc = "scan"
    BY <1>10 DEF ScanEnd, podVars
  <2>2. /\ host'.pc \in {"scan", "wait", "check"} /\ host'.podv = host.podv
        /\ host'.todo \subseteq host.todo
        /\ host'.pc = "scan" => host'.cur \in host.podv
    <3>1. CASE \E p \in host.todo : host' = Scanning(p, host.todo \ {p})
      <4>1. PICK p \in host.todo : host' = Scanning(p, host.todo \ {p})
        BY <3>1
      <4>2. p \in Pods /\ p \in host.podv /\ host.todo \ {p} \in SUBSET Pods
        BY <1>a DEF CallInv
      <4> QED BY <1>a, <4>1, <4>2, ScanningFields
    <3>2. CASE \/ host' = [host EXCEPT !.pc = "wait"]
               \/ host' = [host EXCEPT !.pc = "check"]
      BY <1>a, <3>2 DEF HostType
    <3> QED BY <1>10, <3>1, <3>2 DEF ScanEnd
  <2> QED BY <1>b, <2>1, <2>2 DEF CallInv, Scans
<1>11. ASSUME NEW m \in rqst, ReceiveFinish(m)
       PROVE  CallInv'
  <2>1. PICK i \in Matches(m) : Retire(m.pod, i)
    BY <1>11 DEF ReceiveFinish
  <2>2. m.pod \in Pods /\ i \in Slots /\ Retired(m.pod, i)
    BY <2>1, RetireEffect DEF Retired
  <2>3. \A q \in Pods : Holding(q)' \subseteq Holding(q)
    BY <2>2 DEF Retired, Holding
  <2>4. i \in Holding(m.pod) /\ m.pod \in host.podv
    BY <2>2 DEF Retired, Holding, CallInv
  <2>5. UNCHANGED <<loaded, binary>> /\ host.pc = "wait"
    BY <1>11 DEF ReceiveFinish
  <2>6. \A q \in Pods, j \in Slots : groups'[q][j].status # "ALLOCATED"
    BY <2>2, <2>5 DEF Retired, CallInv
  <2>7. /\ host'.pc \in {"scan", "check"} /\ host'.podv = host.podv
        /\ host'.todo \subseteq host.podv
        /\ host'.pc = "scan" => host'.cur \in host.podv
    <3>1. CASE host' = [host EXCEPT !.pc = "check"]
      BY <1>a, <3>1 DEF HostType, CallInv
    <3>2. CASE host' = Scanning(m.pod, {})
      BY <1>a, <2>2, <2>4, <3>2, ScanningFields
    <3> QED BY <1>11, <3>1, <3>2 DEF ReceiveFinish
  <2> QED BY <2>3, <2>5, <2>6, <2>7 DEF CallInv, Scans
<1>12. CASE \/ \E m \in rqst : ReceiveOther(m) \/ ReceiveFails(m)
            \/ Device \/ UNCHANGED vars
  <2>1. UNCHANGED <<groups, loaded, binary, host>>
    BY <1>12 DEF ReceiveOther, ReceiveFails, Device, DeviceFinish, DeviceChatter,
       podVars, vars, NoFaults
  <2>2. GroupTiles(host.cur, host.idx)' = GroupTiles(host.cur, host.idx)
    BY <2>1 DEF GroupTiles
  <2> QED BY <1>b, <2>1, <2>2 DEF CallInv, Scans
<1> QED
  BY <1>1, <1>2, <1>3, <1>4, <1>5, <1>6, <1>7, <1>8, <1>9, <1>10, <1>11, <1>12,
     MemorySuffices
  DEF Next, Client, Host, Receive

-----------------------------------------------------------------------------
(* Tiles at work and packets under way *)

Waking(p, i) == host.pc = "wake" /\ host.cur = p /\ host.idx = i

(* Some tiles of the group were woken. *)
Awake(p, i) == groups[p][i].status = "LAUNCHED" \/ Waking(p, i)

(* A tile at work was woken, and works for the group that holds it. *)
RunsOwn(p, t) ==
  LET w == running[p][t]
  IN  w.slot # 0 => /\ Awake(p, w.slot)
                    /\ Waking(p, w.slot) => t \notin host.wake
                    /\ t \in GroupTiles(p, w.slot)
                    /\ w = WorkOf(p, w.slot)

(* A finish packet under way was sent by a group that holds its tiles, all   *)
(* of which were woken and are done.                                         *)
SentByHolder(m) ==
  LET p == m.pod
      i == m.from[2]
  IN  m.data = "finish" =>
        /\ m.from[1] = epoch[p] /\ i # 0
        /\ Awake(p, i)
        /\ Waking(p, i) => host.wake = {}
        /\ m.src = groups[p][i].origin /\ m.epa = groups[p][i].epa
        /\ \A t \in Tiles : running[p][t].slot # i

CustodyInv ==
  /\ \A p \in Pods, t \in Tiles : RunsOwn(p, t)
  /\ \A m \in rqst : SentByHolder(m)

(* A group that is awake holds its tiles. *)
LEMMA AwakeHolds ==
  ASSUME TypeInv, NEW p \in Pods, NEW i \in Slots, Awake(p, i)
  PROVE  i \in Holding(p) /\ groups[p][i].origin \in GroupTiles(p, i)
<1>1. groups[p][i].status \in {"ALLOCATED", "LAUNCHED"}
  BY DEF Awake, Waking, TypeInv, WellFormed
<1>2. /\ groups[p][i].dim \in Positive \X Positive
      /\ groups[p][i].origin \in Origins(groups[p][i].dim)
  BY <1>1, ConfigAssumption DEF TypeInv, WellFormed
<1>3. groups[p][i].origin \in GroupTiles(p, i)
  BY <1>2, ConfigAssumption DEF Origins, Tiles, GroupTiles, Footprint, Positive
<1> QED BY <1>1, <1>3 DEF Holding

(* What identifies the sender: the group that matches a packet under way is  *)
(* the group that sent it.                                                   *)
LEMMA MatchIsSender ==
  ASSUME TypeInv, TileOwnership, CustodyInv, NEW m \in rqst, m.data = "finish",
         NEW i \in Matches(m)
  PROVE  i \in Slots /\ i = m.from[2]
<1>1. m.pod \in Pods /\ m.from[2] \in Slots /\ Awake(m.pod, m.from[2])
  BY DEF CustodyInv, SentByHolder, TypeInv, TypeOK, PacketType
<1>2. i \in Slots /\ groups[m.pod][i].status = "LAUNCHED" /\ groups[m.pod][i].origin = m.src
  BY <1>1, ConfigAssumption DEF Matches, TypeInv, TypeOK, Slots
<1> DEFINE j == m.from[2]
<1>3. /\ i \in Holding(m.pod) /\ m.src \in GroupTiles(m.pod, i)
      /\ j \in Holding(m.pod) /\ m.src \in GroupTiles(m.pod, j)
  <2>1. Awake(m.pod, i)
    BY <1>2 DEF Awake
  <2>2. groups[m.pod][j].origin = m.src
    BY DEF CustodyInv, SentByHolder
  <2> QED BY <1>1, <1>2, <2>1, <2>2, AwakeHolds
<1> QED BY <1>1, <1>2, <1>3 DEF TileOwnership

(* Between calls no tile works and no finish packet is under way. *)
LEMMA IdleIsQuiet ==
  ASSUME TypeInv, CallInv, CustodyInv, host.pc = "idle"
  PROVE  /\ \A p \in Pods, t \in Tiles : running[p][t].slot = 0
         /\ \A m \in rqst : m.data # "finish"
<1>1. \A p \in Pods : Holding(p) = {}
  BY DEF CallInv
<1>2. ASSUME NEW p \in Pods, NEW t \in Tiles, running[p][t].slot # 0
      PROVE  FALSE
  <2>1. running[p][t].slot \in Slots
    BY <1>2 DEF TypeInv, TypeOK, WorkType
  <2> QED BY <1>1, <1>2, <2>1, AwakeHolds DEF CustodyInv, RunsOwn
<1>3. ASSUME NEW m \in rqst, m.data = "finish"
      PROVE  FALSE
  <2>1. m.pod \in Pods /\ m.from[2] \in Slots /\ Awake(m.pod, m.from[2])
    BY <1>3 DEF CustodyInv, SentByHolder, TypeInv, TypeOK, PacketType
  <2> QED BY <1>1, <2>1, AwakeHolds
<1> QED BY <1>2, <1>3

(* A tile goes on with its work when its group stays in place and awake.     *)
LEMMA StillRuns ==
  ASSUME NEW p \in Pods, NEW t \in Tiles, RunsOwn(p, t),
         NEW i, i = running[p][t].slot, running'[p][t] = running[p][t],
         i # 0 => /\ Awake(p, i)'
                  /\ Waking(p, i)' => t \notin host'.wake
                  /\ groups'[p][i].dim = groups[p][i].dim
                  /\ groups'[p][i].origin = groups[p][i].origin
                  /\ groups'[p][i].epa = groups[p][i].epa
  PROVE  RunsOwn(p, t)'
<1> SUFFICES ASSUME i # 0 PROVE RunsOwn(p, t)'
  BY DEF RunsOwn
<1>1. GroupTiles(p, i)' = GroupTiles(p, i)
  BY DEF GroupTiles
<1>2. WorkOf(p, i)' = WorkOf(p, i)
  BY <1>1 DEF WorkOf
<1>3. RunsOwn(p, t)' <=> (/\ Awake(p, i)' /\ (Waking(p, i)' => t \notin host'.wake)
                         /\ t \in GroupTiles(p, i)' /\ running'[p][t] = WorkOf(p, i)')
  BY DEF RunsOwn
<1> QED BY <1>1, <1>2, <1>3 DEF RunsOwn

(* A packet stays valid when its group stays in place and awake.             *)
LEMMA StillSent ==
  ASSUME NEW m, SentByHolder(m), NEW p, p = m.pod, NEW i, i = m.from[2],
         m.data = "finish" =>
           /\ epoch'[p] = epoch[p]
           /\ Awake(p, i)'
           /\ Waking(p, i)' => host'.wake = {}
           /\ groups'[p][i].origin = groups[p][i].origin
           /\ groups'[p][i].epa = groups[p][i].epa
           /\ \A t \in Tiles : running'[p][t].slot = i => running[p][t].slot = i
  PROVE  SentByHolder(m)'
BY DEF SentByHolder

(* Steps in which every group that is awake stays awake and in place, and no *)
(* tile starts or stops.                                                     *)
LEMMA CustodyFrame ==
  ASSUME TypeInv, CustodyInv, UNCHANGED <<running, epoch>>, rqst' \subseteq rqst,
         \A p \in Pods, i \in Slots : Awake(p, i) =>
           /\ Awake(p, i)'
           /\ Waking(p, i)' => Waking(p, i) /\ host'.wake = host.wake
           /\ groups'[p][i].dim = groups[p][i].dim
           /\ groups'[p][i].origin = groups[p][i].origin
           /\ groups'[p][i].epa = groups[p][i].epa
  PROVE  CustodyInv'
<1>1. ASSUME NEW p \in Pods, NEW t \in Tiles
      PROVE  RunsOwn(p, t)'
  <2>1. PICK i \in {0} \cup Slots : i = running[p][t].slot
    BY DEF TypeInv, TypeOK, WorkType
  <2>2. RunsOwn(p, t)
    BY DEF CustodyInv
  <2>3. i # 0 => Awake(p, i) /\ (Waking(p, i) => t \notin host.wake)
    BY <2>1, <2>2 DEF RunsOwn
  <2>4. i # 0 => /\ Awake(p, i)'
                 /\ Waking(p, i)' => t \notin host'.wake
                 /\ groups'[p][i].dim = groups[p][i].dim
                 /\ groups'[p][i].origin = groups[p][i].origin
                 /\ groups'[p][i].epa = groups[p][i].epa
    BY <2>3
  <2> QED BY <2>1, <2>2, <2>4, StillRuns
<1>2. ASSUME NEW m \in rqst'
      PROVE  SentByHolder(m)'
  <2>1. m \in rqst /\ SentByHolder(m) /\ m.pod \in Pods /\ m.from[2] \in {0} \cup Slots
    BY DEF CustodyInv, TypeInv, TypeOK, PacketType
  <2> DEFINE p == m.pod
             i == m.from[2]
  <2>2. m.data = "finish" => /\ i \in Slots /\ Awake(p, i)
                             /\ Waking(p, i) => host.wake = {}
    BY <2>1 DEF SentByHolder
  <2>3. m.data = "finish" => /\ Awake(p, i)'
                             /\ Waking(p, i)' => host'.wake = {}
                             /\ groups'[p][i].origin = groups[p][i].origin
                             /\ groups'[p][i].epa = groups[p][i].epa
    BY <2>1, <2>2
  <2> QED BY <2>1, <2>3, StillSent
<1> QED BY <1>1, <1>2 DEF CustodyInv

(* The next tile of the group that is being launched starts to work.         *)
LEMMA WakeCustody ==
  ASSUME TypeInv, CallInv, CustodyInv, WakeTile
  PROVE  CustodyInv'
<1>1. PICK p \in Pods, i \in Slots : p = host.cur /\ i = host.idx
  BY DEF WakeTile, TypeInv, TypeOK, WellFormed, HostType
<1>2. PICK u \in host.wake :
        /\ running' = [running EXCEPT ![p][u] = WorkOf(p, i)]
        /\ host' = [host EXCEPT !.wake = @ \ {u}]
  BY <1>1 DEF WakeTile
<1>3. UNCHANGED <<groups, epoch, rqst>> /\ host.pc = "wake"
  BY DEF WakeTile, podVars
<1>4. /\ host'.pc = "wake" /\ host'.cur = p /\ host'.idx = i
      /\ host'.wake = host.wake \ {u}
  BY <1>1, <1>2, <1>3 DEF TypeInv, TypeOK, HostType
<1>5. u \in Tiles /\ u \in GroupTiles(p, i)
  BY <1>1, <1>3 DEF CallInv, GroupTiles, Footprint
<1>6. /\ running'[p][u] = WorkOf(p, i)
      /\ \A q \in Pods, t \in Tiles : q # p \/ t # u => running'[q][t] = running[q][t]
  BY <1>2, <1>5 DEF TypeInv, TypeOK
<1>7. \A q \in Pods, j \in Slots : /\ Awake(q, j)' = Awake(q, j)
                                  /\ Waking(q, j)' = Waking(q, j)
  BY <1>1, <1>3, <1>4 DEF Awake, Waking
<1>8. GroupTiles(p, i)' = GroupTiles(p, i) /\ WorkOf(p, i)' = WorkOf(p, i)
  BY <1>3 DEF GroupTiles, WorkOf
<1>9. RunsOwn(p, u)'
  <2>1. running'[p][u].slot = i
    BY <1>6 DEF WorkOf
  <2>2. Awake(p, i)' /\ u \notin host'.wake
    BY <1>1, <1>3, <1>4 DEF Awake, Waking
  <2>3. running'[p][u] = WorkOf(p, i)' /\ u \in GroupTiles(p, i)'
    BY <1>5, <1>6, <1>8
  <2>4. RunsOwn(p, u)' <=>
          (running'[p][u].slot # 0 =>
             /\ Awake(p, running[p][u].slot)'
             /\ Waking(p, running[p][u].slot)' => u \notin host'.wake
             /\ u \in GroupTiles(p, running[p][u].slot)'
             /\ running'[p][u] = WorkOf(p, running[p][u].slot)')
    BY DEF RunsOwn
  <2> QED BY <2>1, <2>2, <2>3, <2>4
<1>10. ASSUME NEW q \in Pods, NEW t \in Tiles, q # p \/ t # u
       PROVE  RunsOwn(q, t)'
  <2>1. PICK j \in {0} \cup Slots : j = running[q][t].slot
    BY DEF TypeInv, TypeOK, WorkType
  <2>2. RunsOwn(q, t)
    BY DEF CustodyInv
  <2>3. j # 0 => Awake(q, j)' /\ (Waking(q, j)' => t \notin host'.wake)
    BY <1>4, <1>7, <2>1, <2>2 DEF RunsOwn
  <2> QED BY <1>3, <1>6, <1>10, <2>1, <2>2, <2>3, StillRuns
<1>11. ASSUME NEW m \in rqst'
       PROVE  SentByHolder(m)'
  <2>1. m \in rqst /\ SentByHolder(m) /\ m.pod \in Pods /\ m.from[2] \in {0} \cup Slots
    BY <1>3 DEF CustodyInv, TypeInv, TypeOK, PacketType
  <2> DEFINE r == m.pod
             j == m.from[2]
  <2>2. ASSUME m.data = "finish"
        PROVE  /\ Awake(r, j)'
               /\ Waking(r, j)' => host'.wake = {}
               /\ \A t \in Tiles : running'[r][t].slot = j => running[r][t].slot = j
    <3>1. j \in Slots /\ Awake(r, j) /\ (Waking(r, j) => host.wake = {})
      BY <2>1, <2>2 DEF SentByHolder
    <3>2. ~Waking(r, j)
      BY <3>1
    <3>3. r # p \/ j # i
      BY <1>1, <1>3, <3>2 DEF Waking
    <3>4. \A t \in Tiles : running'[r][t].slot = j => running[r][t].slot = j
      BY <1>6, <2>1, <3>3 DEF WorkOf
    <3> QED BY <1>7, <2>1, <3>1, <3>2, <3>4
  <2> QED BY <1>3, <2>1, <2>2, StillSent
<1> QED BY <1>9, <1>10, <1>11 DEF CustodyInv

(* The tiles of a group stop, and its finish packet is on its way.           *)
LEMMA FinishCustody ==
  ASSUME TypeInv, CallInv, CustodyInv, NEW p \in Pods, NEW t \in Tiles,
         DeviceFinish(p, t)
  PROVE  CustodyInv'
<1>1. PICK w \in WorkType : w = running[p][t]
  BY DEF TypeInv, TypeOK
<1>2. PICK i \in Slots : i = w.slot
  BY <1>1 DEF DeviceFinish, WorkType
<1>0. PICK new : new = [data |-> "finish", pod |-> p, src |-> t, epa |-> w.epa,
                        from |-> <<epoch[p], i>>]
  OBVIOUS
<1>3. /\ w.src = t
      /\ \A u \in w.tiles : running[p][u] = w
      /\ running' = [running EXCEPT ![p] = [u \in Tiles |->
                        IF u \in w.tiles THEN NoWork ELSE running[p][u]]]
      /\ rqst' = rqst \cup {new}
      /\ UNCHANGED <<groups, epoch, host>>
  BY <1>0, <1>1, <1>2 DEF DeviceFinish, podVars
<1>4. /\ Awake(p, i) /\ w = WorkOf(p, i)
  BY <1>1, <1>2, ConfigAssumption DEF CustodyInv, RunsOwn, Slots
<1>5. w.tiles = GroupTiles(p, i) /\ w.src = groups[p][i].origin /\ w.epa = groups[p][i].epa
  BY <1>4 DEF WorkOf
<1>6. /\ \A u \in Tiles : running'[p][u] = IF u \in w.tiles THEN NoWork
                                                          ELSE running[p][u]
      /\ \A q \in Pods \ {p} : running'[q] = running[q]
  BY <1>3 DEF TypeInv, TypeOK
<1>7. \A q \in Pods, j \in Slots : /\ Awake(q, j)' = Awake(q, j)
                                  /\ Waking(q, j)' = Waking(q, j)
  BY <1>3 DEF Awake, Waking
<1>8. ASSUME NEW q \in Pods, NEW u \in Tiles
      PROVE  RunsOwn(q, u)'
  <2>1. CASE running'[q][u].slot = 0
    BY <2>1 DEF RunsOwn
  <2>2. CASE running'[q][u].slot # 0
    <3>1. running'[q][u] = running[q][u]
      BY <1>6, <2>2 DEF NoWork
    <3>2. PICK j \in {0} \cup Slots : j = running[q][u].slot
      <4>1. running[q][u] \in WorkType
        BY DEF TypeInv, TypeOK
      <4> QED BY <4>1 DEF WorkType
    <3>3. RunsOwn(q, u)
      BY DEF CustodyInv
    <3>4. j # 0 => Awake(q, j)' /\ (Waking(q, j)' => u \notin host'.wake)
      BY <1>3, <1>7, <3>2, <3>3 DEF RunsOwn
    <3> QED BY <1>3, <3>1, <3>2, <3>3, <3>4, StillRuns
  <2> QED BY <2>1, <2>2
<1>9. \A q \in Pods, u \in Tiles :
        running'[q][u].slot = running[q][u].slot \/ running'[q][u].slot = 0
  BY <1>6 DEF NoWork
<1>10. ASSUME NEW m \in rqst
       PROVE  SentByHolder(m)'
  <2>1. SentByHolder(m) /\ m.pod \in Pods /\ m.from[2] \in {0} \cup Slots
    BY DEF CustodyInv, TypeInv, TypeOK, PacketType
  <2> DEFINE r == m.pod
             j == m.from[2]
  <2>2. ASSUME m.data = "finish"
        PROVE  /\ Awake(r, j)'
               /\ Waking(r, j)' => host'.wake = {}
               /\ \A u \in Tiles : running'[r][u].slot = j => running[r][u].slot = j
    <3>1. j # 0 /\ Awake(r, j) /\ (Waking(r, j) => host.wake = {})
      BY <2>1, <2>2 DEF SentByHolder
    <3> QED BY <1>3, <1>7, <1>9, <2>1, <3>1
  <2> QED BY <1>3, <2>1, <2>2, StillSent
<1>11. SentByHolder(new)'
  <2>1. Waking(p, i) => host.wake = {}
    <3> SUFFICES ASSUME Waking(p, i), NEW u \in host.wake PROVE FALSE
      OBVIOUS
    <3>1. u \in GroupTiles(p, i) /\ u \in Tiles
      BY DEF Waking, CallInv, GroupTiles, Footprint
    <3>2. running[p][u] = w
      BY <1>3, <1>5, <3>1
    <3>3. running[p][u].slot = i /\ i # 0
      BY <1>2, <3>2, ConfigAssumption DEF Slots
    <3> QED BY <3>1, <3>3 DEF CustodyInv, RunsOwn
  <2>2. \A u \in Tiles : running'[p][u].slot # i
    <3> SUFFICES ASSUME NEW u \in Tiles, running'[p][u].slot = i PROVE FALSE
      OBVIOUS
    <3>1. i # 0
      BY ConfigAssumption DEF Slots
    <3>2. running[p][u].slot = i /\ u \notin w.tiles
      BY <1>6, <3>1 DEF NoWork
    <3> QED BY <1>5, <3>1, <3>2 DEF CustodyInv, RunsOwn
  <2>3. /\ new.pod = p /\ new.from[1] = epoch[p] /\ new.from[2] = i
        /\ new.src = t /\ new.epa = w.epa
    BY <1>0
  <2>4. i # 0
    BY ConfigAssumption DEF Slots
  <2> QED BY <1>3, <1>4, <1>5, <1>7, <2>1, <2>2, <2>3, <2>4 DEF SentByHolder
<1> QED BY <1>3, <1>8, <1>10, <1>11 DEF CustodyInv

(* Two finish packets of the same group are one packet. *)
LEMMA OnePacket ==
  ASSUME TypeInv, CustodyInv, NEW m \in rqst, NEW n \in rqst,
         m.data = "finish", n.data = "finish", m.pod = n.pod, m.from[2] = n.from[2]
  PROVE  m = n
<1>1. m \in PacketType /\ n \in PacketType
  BY DEF TypeInv, TypeOK
<1>2. m.src = n.src /\ m.epa = n.epa /\ m.from[1] = n.from[1]
  BY DEF CustodyInv, SentByHolder
<1>3. m.from = n.from
  BY <1>1, <1>2 DEF PacketType
<1> QED BY <1>1, <1>2, <1>3 DEF PacketType

(* The host retires the group whose tiles have stopped. *)
LEMMA RetireCustody ==
  ASSUME TypeInv, TileOwnership, CustodyInv, NEW m \in rqst, ReceiveFinish(m)
  PROVE  CustodyInv'
<1> DEFINE p == m.pod
           i == m.from[2]
<1>1. PICK j \in Matches(m) : Retire(m.pod, j)
  BY DEF ReceiveFinish
<1>2. m.data = "finish" /\ host.pc = "wait" /\ rqst' = rqst \ {m}
      /\ UNCHANGED <<running, epoch>>
  BY DEF ReceiveFinish
<1>3. j = i /\ i \in Slots
  BY <1>1, <1>2, MatchIsSender
<1>4. Retired(p, i)
  BY <1>1, <1>3, RetireEffect
<1>5. p \in Pods /\ \A t \in Tiles : running[p][t].slot # i
  BY <1>2, <1>4 DEF CustodyInv, SentByHolder, Retired
<1> HIDE DEF p, i
<1>6. host'.pc \in {"check", "scan"}
  BY DEF ReceiveFinish, Scanning, TypeInv, TypeOK, HostType
<1>7. \A q \in Pods, k \in Slots : ~Waking(q, k) /\ ~Waking(q, k)'
  BY <1>2, <1>6 DEF Waking
<1>8. \A q \in Pods, k \in Slots : q # p \/ k # i => groups'[q][k] = groups[q][k]
  BY <1>4 DEF Retired
<1>9. ASSUME NEW q \in Pods, NEW t \in Tiles
      PROVE  RunsOwn(q, t)'
  <2>1. PICK k \in {0} \cup Slots : k = running[q][t].slot
    <3>1. running[q][t] \in WorkType
      BY DEF TypeInv, TypeOK
    <3> QED BY <3>1 DEF WorkType
  <2>2. RunsOwn(q, t)
    BY DEF CustodyInv
  <2>3. q # p \/ k # i
    BY <1>5, <2>1
  <2>4. k # 0 => /\ Awake(q, k)'
                 /\ ~Waking(q, k)'
                 /\ groups'[q][k] = groups[q][k]
    BY <1>7, <1>8, <2>1, <2>2, <2>3 DEF RunsOwn, Awake
  <2> QED BY <1>2, <2>1, <2>2, <2>4, StillRuns
<1>10. ASSUME NEW n \in rqst'
       PROVE  SentByHolder(n)'
  <2>1. n \in rqst /\ n # m /\ SentByHolder(n) /\ n.pod \in Pods
        /\ n.from[2] \in {0} \cup Slots
    BY <1>2 DEF CustodyInv, TypeInv, TypeOK, PacketType
  <2> DEFINE q == n.pod
             k == n.from[2]
  <2>2. ASSUME n.data = "finish"
        PROVE  Awake(q, k)' /\ ~Waking(q, k)' /\ groups'[q][k] = groups[q][k]
    <3>1. q # p \/ k # i
      BY <1>2, <2>1, <2>2, OnePacket DEF p, i
    <3>2. k \in Slots /\ Awake(q, k)
      BY <2>1, <2>2 DEF SentByHolder
    <3> QED BY <1>7, <1>8, <2>1, <3>1, <3>2 DEF Awake
  <2> QED BY <1>2, <2>1, <2>2, StillSent
<1> QED BY <1>9, <1>10 DEF CustodyInv

(* Without failures, every step keeps tiles, packets and groups in agreement. *)
LEMMA CustodyStep ==
  ASSUME NoFaults, TypeInv, TileOwnership, ReferenceInv, CallInv, CustodyInv,
         [Next]_vars
  PROVE  CustodyInv'
<1>a. host \in HostType /\ host.cur \in Pods /\ host.podv \subseteq Pods
      /\ host.todo \subseteq Pods
  BY DEF TypeInv, TypeOK, HostType
<1>1. ASSUME NEW p \in Pods, \/ \E b \in Binaries : ProgramInit(p, b)
                             \/ ProgramFinish(p)
      PROVE  CustodyInv'
  <2>1. /\ running' = [running EXCEPT ![p] = [t \in Tiles |-> NoWork]]
        /\ rqst' = rqst /\ host.pc = "idle"
    BY <1>1 DEF ProgramInit, ProgramFinish
  <2>2. \A q \in Pods, t \in Tiles : running'[q][t].slot = 0
    BY <2>1, IdleIsQuiet DEF TypeInv, TypeOK, NoWork
  <2>3. \A m \in rqst' : m.data # "finish"
    BY <2>1, IdleIsQuiet
  <2> QED BY <2>2, <2>3 DEF CustodyInv, RunsOwn, SentByHolder
<1>2. CASE \/ \E p \in Pods, g \in GridDims, d \in Dims, k \in Names :
                KernelEnqueue(p, g, d, k)
           \/ \E p \in Pods : KernelsExecute(p)
           \/ \E podv \in SUBSET Pods : KernelsExecuteV(podv)
  <2>1. UNCHANGED <<running, rqst>> /\ host.pc = "idle"
    BY <1>2 DEF KernelEnqueue, KernelsExecute, KernelsExecuteV, deviceVars
  <2>2. \A q \in Pods, t \in Tiles : running'[q][t].slot = 0
    BY <2>1, IdleIsQuiet
  <2>3. \A m \in rqst' : m.data # "finish"
    BY <2>1, IdleIsQuiet
  <2> QED BY <2>2, <2>3 DEF CustodyInv, RunsOwn, SentByHolder
<1>3. CASE Check \/ ScanSkip \/ ScanNoRoom \/ ScanEnd
  <2>1. UNCHANGED <<running, epoch, rqst, groups>> /\ host.pc # "wake"
    BY <1>3 DEF Check, ScanSkip, ScanNoRoom, ScanEnd, podVars, deviceVars
  <2>2. host'.pc # "wake"
    <3>1. CASE Check
      BY <1>a, <3>1, ScanningFields DEF Check, IdleHost, HostType
    <3>2. CASE ScanSkip
      BY <1>a, <3>2 DEF ScanSkip, HostType
    <3>3. CASE ScanNoRoom
      BY <1>a, <3>3 DEF ScanNoRoom, HostType
    <3>4. CASE ScanEnd
      <4>1. CASE \E p \in host.todo : host' = Scanning(p, host.todo \ {p})
        <5>1. PICK p \in host.todo : host' = Scanning(p, host.todo \ {p})
          BY <4>1
        <5>2. p \in Pods /\ host.todo \ {p} \in SUBSET Pods
          BY <1>a
        <5> QED BY <1>a, <5>1, <5>2, ScanningFields
      <4>2. CASE \/ host' = [host EXCEPT !.pc = "wait"]
                 \/ host' = [host EXCEPT !.pc = "check"]
        BY <1>a, <4>2 DEF HostType
      <4> QED BY <3>4, <4>1, <4>2 DEF ScanEnd
    <3> QED BY <1>3, <3>1, <3>2, <3>3, <3>4
  <2>3. \A p \in Pods, i \in Slots : Awake(p, i) => Awake(p, i)' /\ ~Waking(p, i)'
    BY <2>1, <2>2 DEF Awake, Waking
  <2> QED BY <2>1, <2>3, CustodyFrame
<1>4. CASE AllocateTiles
  <2>1. PICK p \in Pods, i \in Slots : Moves(p, i, "INITIALIZED", "ALLOCATED")
    BY <1>4, PlaceEffect
  <2>2. /\ UNCHANGED <<running, epoch, rqst>> /\ host.pc # "wake" /\ host'.pc # "wake"
    BY <1>4, <1>a DEF AllocateTiles, deviceVars, HostType
  <2>3. \A q \in Pods, j \in Slots : Awake(q, j) =>
          Awake(q, j)' /\ ~Waking(q, j)' /\ groups'[q][j] = groups[q][j]
    BY <2>1, <2>2 DEF Awake, Waking, Moves
  <2> QED BY <2>2, <2>3, CustodyFrame
<1>5. CASE LaunchPrepare
  <2>1. PICK p \in Pods, i \in Slots : Moves(p, i, "ALLOCATED", "ALLOCATED")
    BY <1>5, LaunchEffect
  <2>2. /\ UNCHANGED <<running, epoch, rqst>> /\ host.pc # "wake"
        /\ host'.cur = host.cur /\ host'.idx = host.idx
    BY <1>5, <1>a, PreparedWakes DEF LaunchPrepare, deviceVars, HostType
  <2>3. \A q \in Pods, j \in Slots : Awake(q, j) =>
          Awake(q, j)' /\ ~Waking(q, j)' /\ groups'[q][j] = groups[q][j]
    BY <2>1, <2>2 DEF Awake, Waking, Moves
  <2> QED BY <2>2, <2>3, CustodyFrame
<1>6. CASE WakeTile
  BY <1>6, WakeCustody
<1>7. CASE LaunchDone
  <2>1. PICK p \in Pods, i \in Slots : Moves(p, i, "ALLOCATED", "LAUNCHED")
    BY <1>7, LaunchEffect
  <2>2. /\ UNCHANGED <<running, epoch, rqst>> /\ host'.pc # "wake"
    BY <1>7, <1>a DEF LaunchDone, deviceVars, HostType
  <2>3. \A q \in Pods, j \in Slots : Awake(q, j) =>
          /\ Awake(q, j)' /\ ~Waking(q, j)'
          /\ groups'[q][j].dim = groups[q][j].dim
          /\ groups'[q][j].origin = groups[q][j].origin
          /\ groups'[q][j].epa = groups[q][j].epa
    BY <2>1, <2>2 DEF Awake, Waking, Moves
  <2> QED BY <2>2, <2>3, CustodyFrame
<1>8. ASSUME NEW m \in rqst, ReceiveFinish(m)
      PROVE  CustodyInv'
  BY <1>8, RetireCustody
<1>9. CASE \/ \E m \in rqst : ReceiveOther(m) \/ ReceiveFails(m)
           \/ UNCHANGED vars
  <2>1. UNCHANGED <<running, epoch, groups, host>> /\ rqst' \subseteq rqst
    BY <1>9 DEF ReceiveOther, ReceiveFails, podVars, vars, NoFaults
  <2> QED BY <2>1, CustodyFrame DEF Awake, Waking
<1>10. ASSUME NEW p \in Pods, NEW t \in Tiles, DeviceFinish(p, t)
       PROVE  CustodyInv'
  BY <1>10, FinishCustody
<1>11. ASSUME NEW p \in Pods, NEW t \in Tiles, DeviceChatter(p, t)
       PROVE  CustodyInv'
  <2>1. /\ UNCHANGED <<running, epoch, groups, host>>
        /\ \A m \in rqst' : m \in rqst \/ m.data # "finish"
    BY <1>11 DEF DeviceChatter, podVars
  <2>2. ASSUME NEW q \in Pods, NEW u \in Tiles
        PROVE  RunsOwn(q, u)'
    <3>1. PICK i : i = running[q][u].slot
      OBVIOUS
    <3>2. RunsOwn(q, u)
      BY DEF CustodyInv
    <3>3. i # 0 => Awake(q, i)' /\ (Waking(q, i)' => u \notin host'.wake)
      BY <2>1, <3>1, <3>2 DEF RunsOwn, Awake, Waking
    <3> QED BY <2>1, <3>1, <3>2, <3>3, StillRuns
  <2>3. \A m \in rqst' : SentByHolder(m)'
    BY <2>1 DEF CustodyInv, SentByHolder, Awake, Waking
  <2> QED BY <2>2, <2>3 DEF CustodyInv
<1> QED
  BY <1>1, <1>2, <1>3, <1>4, <1>5, <1>6, <1>7, <1>8, <1>9, <1>10, <1>11,
     MemorySuffices
  DEF Next, Client, Host, Receive, Device

(* Without faults these facts hold together. *)
ExecuteInv ==
  /\ TypeInv /\ TileOwnership /\ RoomInv /\ ReferenceInv
  /\ CallInv /\ CustodyInv

(* The initial states satisfy the inductive invariant. *)
LEMMA ExecuteInit == Init => ExecuteInv
<1> SUFFICES ASSUME Init PROVE ExecuteInv
  OBVIOUS
<1>1. TypeInv
  BY TypeInit
<1>2. \A p \in Pods : Holding(p) = {}
  BY DEF Init, Holding, NoGroup
<1>3. TileOwnership
  BY <1>2 DEF Init, TileOwnership
<1>4. RoomInv
  BY DEF Init, IdleHost, RoomInv, Scans, Searched
<1>5. ReferenceInv
  <2>1. \A p \in Pods, k \in Slots : Users(p, k) = {}
    BY DEF Init, Users, NoGroup
  <2> QED BY <2>1, FS_EmptySet DEF Init, NoGroup, ReferenceInv
<1>6. CallInv
  BY <1>2 DEF Init, IdleHost, CallInv, Scans, NoGroup
<1>7. CustodyInv
  BY DEF Init, CustodyInv, RunsOwn, NoWork
<1> QED BY <1>1, <1>3, <1>4, <1>5, <1>6, <1>7 DEF ExecuteInv

(* Every step keeps the inductive invariant when nothing fails. *)
LEMMA ExecuteStep ==
  ASSUME NoFaults, ExecuteInv, [Next]_vars
  PROVE  ExecuteInv'
BY TypeStep, OwnershipStep, RoomStep, ReferenceStep, CallStep, CustodyStep DEF ExecuteInv

(* The inductive invariant holds in every state when nothing fails. *)
LEMMA ExecuteHolds == ASSUME NoFaults PROVE Spec => []ExecuteInv
<1>1. ExecuteInv /\ [Next]_vars => ExecuteInv'
  BY ExecuteStep
<1> QED BY <1>1, ExecuteInit, PTL DEF Spec

(* When neither launches nor responders fail, whatever a tile executes, it   *)
(* executes for the group that holds it, under the origin and finish address *)
(* the host has for that group: however packets are ordered, the host hands  *)
(* no running tile to another group.                                         *)
THEOREM TilesRunOwned == ASSUME NoFaults PROVE Spec => []RunningOwned
<1>1. ExecuteInv => RunningOwned
  <2> SUFFICES ASSUME ExecuteInv, NEW p \in Pods, NEW t \in Tiles,
                      running[p][t].slot # 0
               PROVE  /\ running[p][t].slot \in Holding(p)
                      /\ t \in GroupTiles(p, running[p][t].slot)
                      /\ running[p][t] = WorkOf(p, running[p][t].slot)
    BY DEF RunningOwned
  <2> USE DEF ExecuteInv
  <2>1. running[p][t].slot \in Slots
    BY DEF TypeInv, TypeOK, WorkType
  <2>2. RunsOwn(p, t)
    BY DEF CustodyInv
  <2> QED BY <2>1, <2>2, AwakeHolds DEF RunsOwn
<1> QED BY <1>1, ExecuteHolds, PTL

(* While the host waits, the sender of a finish packet is LAUNCHED. *)
LEMMA SenderMatches ==
  ASSUME ExecuteInv, NEW m \in rqst, m.data = "finish", host.pc = "wait"
  PROVE  m.from[2] \in Matches(m)
<1> USE DEF ExecuteInv
<1> DEFINE i == m.from[2]
<1>1. SentByHolder(m) /\ m.pod \in Pods /\ i \in Slots
  BY DEF CustodyInv, SentByHolder, TypeInv, TypeOK, PacketType
<1>2. groups[m.pod][i].status = "LAUNCHED"
  BY <1>1 DEF SentByHolder, Awake, Waking
<1>3. i \in 1 .. num[m.pod]
  <2>1. ~(i > num[m.pod]) /\ num[m.pod] \in Nat
    BY <1>1, <1>2, ConfigAssumption DEF TypeInv, TypeOK
  <2> HIDE DEF i
  <2>2. i \in Nat /\ i >= 1
    BY <1>1 DEF Slots
  <2> QED BY <2>1, <2>2
<1> QED BY <1>1, <1>2, <1>3 DEF SentByHolder, Matches

(* When neither launches nor responders fail, a finish packet on its way     *)
(* stands for exactly one group, the one that sent it, also when the same    *)
(* finish address is shared by groups of different grids.                    *)
THEOREM FinishIsIdentified == ASSUME NoFaults PROVE Spec => []FinishIdentifiesSender
<1>1. ExecuteInv => FinishIdentifiesSender
  <2> SUFFICES ASSUME ExecuteInv, NEW m \in rqst, m.data = "finish"
               PROVE  /\ m.from[1] = epoch[m.pod]
                      /\ \A i \in Matches(m) : i = m.from[2]
                      /\ host.pc = "wait" => m.from[2] \in Matches(m)
    BY DEF FinishIdentifiesSender
  <2>1. m.from[1] = epoch[m.pod]
    BY DEF ExecuteInv, CustodyInv, SentByHolder
  <2>2. \A i \in Matches(m) : i = m.from[2]
    BY MatchIsSender DEF ExecuteInv
  <2> QED BY <2>1, <2>2, SenderMatches
<1> QED BY <1>1, ExecuteHolds, PTL

(* When neither launches nor responders fail, kernels_execute returns success *)
(* only when every tile of its pods is done with its kernel.                 *)
THEOREM ExecuteIsComplete == ASSUME NoFaults PROVE Spec => ExecuteCompletes
<1>1. ASSUME NoFaults, ExecuteInv, [Next]_vars,
             host.pc = "check", host'.pc = "idle"
      PROVE  \A p \in host.podv, t \in Tiles : running[p][t].slot = 0
  <2>1. ExecuteInv'
    BY <1>1, ExecuteStep
  <2>2. \A p \in Pods, t \in Tiles : running'[p][t].slot = 0
    <3>1. \A p \in Pods : Holding(p)' = {}
      BY <1>1, <2>1 DEF ExecuteInv, CallInv
    <3> TAKE p \in Pods, t \in Tiles
    <3>2. running'[p][t].slot \in {0} \cup Slots
      BY <2>1 DEF ExecuteInv, TypeInv, TypeOK, WorkType
    <3>3. running'[p][t].slot # 0 =>
            groups'[p][running'[p][t].slot].status = "LAUNCHED"
      BY <1>1, <2>1 DEF ExecuteInv, CustodyInv, RunsOwn, Awake, Waking
    <3> QED BY <3>1, <3>2, <3>3 DEF Holding
  <2>3. running' = running
    BY <1>1 DEF Next, Client, Host, Receive, Device, vars, ProgramInit, ProgramFinish,
       KernelEnqueue, KernelsExecute, KernelsExecuteV, Check, ScanSkip, ScanNoRoom,
       AllocateTiles, ScanEnd, LaunchPrepare, LaunchRunsOut, WakeTile, LaunchDone, ReceiveFinish,
       ReceiveOther, ReceiveFails, DeviceFinish, DeviceChatter, deviceVars, podVars
  <2>4. host.podv \subseteq Pods
    BY <1>1 DEF ExecuteInv, TypeInv, TypeOK, HostType
  <2> QED BY <2>2, <2>3, <2>4
<1>2. ExecuteInv /\ [Next]_vars =>
        [host.pc = "check" /\ host'.pc = "idle" =>
           \A p \in host.podv, t \in Tiles : running[p][t].slot = 0]_vars
  BY <1>1
<1> QED BY <1>2, ExecuteHolds, PTL DEF Spec, ExecuteCompletes

-----------------------------------------------------------------------------
(* A packet to wait for *)

(* Every shape that clients ask for fits in an empty mesh. *)
ShapesFit == \A d \in Dims : Origins(d) # {}

FinishFrom(p, i) == {m \in rqst : m.data = "finish" /\ m.pod = p /\ m.from[2] = i}

(* A group that is awake has all its tiles at work or about to be woken, or  *)
(* its finish packet on the way.                                             *)
Covered(p, i) ==
  Awake(p, i) =>
    \/ \A t \in GroupTiles(p, i) :
         running[p][t].slot = i \/ (Waking(p, i) /\ t \in host.wake)
    \/ FinishFrom(p, i) # {}

(* A call scans a single pod, or waits, only while some group is unfinished. *)
SenderInv ==
  /\ \A p \in Pods, i \in Slots : Covered(p, i)
  /\ (host.op = "pod" /\ Scans) \/ host.pc = "wait" => ~AllFinished(host.podv)

(* A launched group keeps its sender when its tiles and packets are kept. *)
LEMMA StillCovered ==
  ASSUME NEW p \in Pods, NEW i \in Slots, Covered(p, i),
         Awake(p, i)' =>
           /\ Awake(p, i)
           /\ groups'[p][i].dim = groups[p][i].dim
           /\ groups'[p][i].origin = groups[p][i].origin
           /\ \A t \in Tiles :
                running[p][t].slot = i \/ (Waking(p, i) /\ t \in host.wake) =>
                  running'[p][t].slot = i \/ (Waking(p, i)' /\ t \in host'.wake)
           /\ FinishFrom(p, i) \subseteq rqst'
  PROVE  Covered(p, i)'
<1> SUFFICES ASSUME Awake(p, i)' PROVE Covered(p, i)'
  BY DEF Covered
<1>1. GroupTiles(p, i)' = GroupTiles(p, i) /\ GroupTiles(p, i) \subseteq Tiles
  BY DEF GroupTiles, Footprint
<1>2. CASE FinishFrom(p, i) # {}
  <2>1. FinishFrom(p, i)' # {}
    BY <1>2 DEF FinishFrom
  <2> QED BY <2>1 DEF Covered
<1>3. CASE \A t \in GroupTiles(p, i) :
             running[p][t].slot = i \/ (Waking(p, i) /\ t \in host.wake)
  <2>1. \A t \in GroupTiles(p, i) :
          running'[p][t].slot = i \/ (Waking(p, i)' /\ t \in host'.wake)
    BY <1>1, <1>3
  <2>2. Covered(p, i)' <=>
          (Awake(p, i)' =>
             \/ \A t \in GroupTiles(p, i)' :
                  running'[p][t].slot = i \/ (Waking(p, i)' /\ t \in host'.wake)
             \/ FinishFrom(p, i)' # {})
    BY DEF Covered
  <2> QED BY <1>1, <2>1, <2>2
<1> QED BY <1>2, <1>3 DEF Covered

(* Groups that stay unfinished keep the call from returning. *)
LEMMA StaysUnfinished ==
  ASSUME TypeInv, NEW podv \in SUBSET Pods, ~AllFinished(podv), num' = num,
         \A p \in Pods, i \in Slots :
           groups'[p][i].status = "FINISHED" => groups[p][i].status = "FINISHED"
  PROVE  ~AllFinished(podv)'
<1>1. PICK p \in podv : \E i \in 1 .. num[p] : groups[p][i].status # "FINISHED"
  BY DEF AllFinished
<1>2. PICK i \in 1 .. num[p] : groups[p][i].status # "FINISHED"
  BY <1>1
<1>3. p \in Pods /\ i \in Slots
  <2>1. num[p] \in 0 .. MaxGroups /\ MaxGroups \in Nat
    BY ConfigAssumption DEF TypeInv, TypeOK
  <2> QED BY <2>1 DEF Slots
<1> QED BY <1>2, <1>3 DEF AllFinished

(* Without failures, every step keeps a sender for each launched group. *)
LEMMA SenderStep ==
  ASSUME NoFaults, ExecuteInv, SenderInv, [Next]_vars
  PROVE  SenderInv'
<1> USE DEF ExecuteInv
<1>a. /\ host \in HostType /\ host.cur \in Pods /\ host.podv \in SUBSET Pods
      /\ host.todo \subseteq Pods
  BY DEF TypeInv, TypeOK, HostType
<1>b. ASSUME UNCHANGED <<groups, running, rqst>>, host.pc # "wake", host'.pc # "wake"
      PROVE  \A p \in Pods, i \in Slots : Covered(p, i)'
  <2> TAKE p \in Pods, i \in Slots
  <2>1. Awake(p, i)' => Awake(p, i) /\ ~Waking(p, i)
    BY <1>b DEF Awake, Waking
  <2>2. Covered(p, i)
    BY DEF SenderInv
  <2> QED BY <1>b, <2>1, <2>2, StillCovered DEF FinishFrom
<1>c. ASSUME UNCHANGED <<groups, num>>, ~AllFinished(host.podv), host'.podv = host.podv
      PROVE  ~AllFinished(host.podv)'
  BY <1>a, <1>c, StaysUnfinished DEF AllFinished
<1>1. CASE \/ \E p \in Pods, b \in Binaries : ProgramInit(p, b)
           \/ \E p \in Pods : ProgramFinish(p)
           \/ \E p \in Pods, g \in GridDims, d \in Dims, k \in Names :
                KernelEnqueue(p, g, d, k)
  <2>1. host.pc = "idle" /\ host' = host
    BY <1>1 DEF ProgramInit, ProgramFinish, KernelEnqueue
  <2>2. CallInv'
    BY ExecuteStep
  <2>3. \A p \in Pods, i \in Slots : ~Awake(p, i)'
    BY <2>1, <2>2 DEF CallInv, Awake, Waking, Holding
  <2> QED BY <2>1, <2>3 DEF SenderInv, Covered, Scans
<1>2. CASE \/ \E p \in Pods : KernelsExecute(p)
           \/ \E podv \in SUBSET Pods : KernelsExecuteV(podv)
  <2>1. UNCHANGED <<groups, running, rqst>>
    BY <1>2 DEF KernelsExecute, KernelsExecuteV, podVars, deviceVars
  <2>2. host.pc = "idle" /\ \/ host'.pc = "check"
                            \/ host'.pc = "scan" /\ host'.op = "podv"
    BY <1>2, <1>a, CallFields
  <2> QED BY <1>b, <2>1, <2>2 DEF SenderInv, Scans
<1>3. CASE Check
  <2>1. UNCHANGED <<groups, running, rqst, num>> /\ host.pc = "check"
    BY <1>3 DEF Check, podVars, deviceVars
  <2>2. CASE host' = IdleHost
    BY <1>b, <2>1, <2>2 DEF IdleHost, SenderInv, Scans
  <2>3. CASE ~AllFinished(host.podv) /\ \E p \in host.podv : host' = Scanning(p, {})
    <3>1. host'.pc = "scan" /\ host'.podv = host.podv
      BY <1>a, <2>3, ScanningFields
    <3>2. ~AllFinished(host.podv)'
      BY <1>c, <2>1, <2>3, <3>1
    <3> QED BY <1>b, <2>1, <3>1, <3>2 DEF SenderInv
  <2>4. CASE ~AllFinished(host.podv) /\ host' = [host EXCEPT !.pc = "wait"]
    <3>1. host'.pc = "wait" /\ host'.podv = host.podv
      BY <1>a, <2>4 DEF HostType
    <3>2. ~AllFinished(host.podv)'
      BY <1>c, <2>1, <2>4, <3>1
    <3> QED BY <1>b, <2>1, <3>1, <3>2 DEF SenderInv
  <2> QED BY <1>3, <2>2, <2>3, <2>4 DEF Check
<1>4. CASE ScanSkip \/ ScanNoRoom
  <2>1. UNCHANGED <<groups, running, rqst, num>> /\ host.pc = "scan"
    BY <1>4 DEF ScanSkip, ScanNoRoom, podVars, deviceVars
  <2>2. host'.pc = "scan" /\ host'.podv = host.podv /\ host'.op = host.op
    <3>1. CASE ScanSkip
      BY <1>a, <2>1, <3>1 DEF ScanSkip, HostType
    <3>2. CASE ScanNoRoom
      BY <1>a, <2>1, <3>2 DEF ScanNoRoom, HostType
    <3> QED BY <1>4, <3>1, <3>2
  <2>3. host'.op = "pod" => ~AllFinished(host.podv)'
    BY <1>c, <2>1, <2>2 DEF SenderInv, Scans
  <2> QED BY <1>b, <2>1, <2>2, <2>3 DEF SenderInv
<1>5. CASE AllocateTiles
  <2>1. PICK p \in Pods, i \in Slots : Moves(p, i, "INITIALIZED", "ALLOCATED")
    BY <1>5, PlaceEffect
  <2>2. /\ UNCHANGED <<running, rqst, num>> /\ host.pc = "scan" /\ host'.pc = "launch"
        /\ host'.podv = host.podv /\ host'.op = host.op
    BY <1>5, <1>a DEF AllocateTiles, deviceVars, HostType
  <2>3. ASSUME NEW q \in Pods, NEW j \in Slots
        PROVE  Covered(q, j)'
    <3>1. Awake(q, j)' => /\ Awake(q, j) /\ ~Waking(q, j)
                          /\ groups'[q][j] = groups[q][j]
      BY <2>1, <2>2 DEF Moves, Awake, Waking
    <3>2. Covered(q, j)
      BY DEF SenderInv
    <3> QED BY <2>2, <3>1, <3>2, StillCovered DEF FinishFrom
  <2>4. host'.op = "pod" => ~AllFinished(host.podv)'
    <3> SUFFICES ASSUME host.op = "pod" PROVE ~AllFinished(host.podv)'
      BY <2>2
    <3>1. ~AllFinished(host.podv)
      BY <2>2 DEF SenderInv, Scans
    <3>2. \A q \in Pods, j \in Slots : groups'[q][j].status = "FINISHED" =>
            groups[q][j].status = "FINISHED"
      BY <2>1 DEF Moves
    <3> QED BY <1>a, <2>2, <3>1, <3>2, StaysUnfinished DEF AllFinished
  <2> QED BY <2>2, <2>3, <2>4 DEF SenderInv
<1>6. CASE LaunchPrepare \/ LaunchDone
  <2>1. PICK p \in Pods, i \in Slots :
          /\ LaunchPrepare => Moves(p, i, "ALLOCATED", "ALLOCATED")
          /\ LaunchDone => Moves(p, i, "ALLOCATED", "LAUNCHED")
    BY <1>6, LaunchEffect
  <2>2. p = host.cur /\ i = host.idx
    BY <1>6, <2>1 DEF Moves
  <2>3. /\ UNCHANGED <<running, rqst, num>>
        /\ LaunchPrepare => /\ host.pc = "launch" /\ host'.pc = "wake"
                            /\ host'.cur = p /\ host'.idx = i
                            /\ host'.wake = GroupTiles(p, i)
        /\ LaunchDone => host.pc = "wake" /\ host.wake = {} /\ host'.pc = "scan"
        /\ host'.podv = host.podv /\ host'.op = host.op
    <3>1. CASE LaunchPrepare
      BY <1>a, <2>2, <3>1, PreparedWakes DEF LaunchPrepare, LaunchDone, deviceVars, HostType
    <3>2. CASE LaunchDone
      BY <1>a, <2>2, <3>2 DEF LaunchPrepare, LaunchDone, deviceVars, HostType
    <3> QED BY <1>6, <3>1, <3>2
  <2>4. /\ \A q \in Pods, j \in Slots : q # p \/ j # i => groups'[q][j] = groups[q][j]
        /\ groups'[p][i].dim = groups[p][i].dim
        /\ groups'[p][i].origin = groups[p][i].origin
        /\ groups'[p][i].status # "FINISHED"
        /\ LaunchPrepare => groups'[p][i].status = "ALLOCATED"
    BY <1>6, <2>1 DEF Moves
  <2>5. ASSUME NEW q \in Pods, NEW j \in Slots
        PROVE  Covered(q, j)'
    <3>1. Covered(q, j)
      BY DEF SenderInv
    <3>2. CASE q # p \/ j # i
      <4>1. groups'[q][j] = groups[q][j] /\ ~Waking(q, j) /\ ~Waking(q, j)'
        BY <1>6, <2>2, <2>3, <2>4, <3>2 DEF Waking
      <4>2. Awake(q, j)' => Awake(q, j)
        BY <4>1 DEF Awake
      <4> QED BY <2>3, <3>1, <4>1, <4>2, StillCovered DEF FinishFrom
    <3>3. CASE q = p /\ j = i /\ LaunchPrepare
      <4>1. GroupTiles(p, i)' = GroupTiles(p, i)
        BY <2>4 DEF GroupTiles
      <4>2. Waking(p, i)' /\ host'.wake = GroupTiles(p, i)'
        BY <2>3, <3>3, <4>1 DEF Waking
      <4>3. Covered(p, i)'
        BY <4>2 DEF Covered
      <4> QED BY <3>3, <4>3
    <3>4. CASE q = p /\ j = i /\ LaunchDone
      <4>1. Awake(p, i) /\ host.wake = {}
        BY <2>2, <2>3, <3>4 DEF Awake, Waking
      <4> QED BY <2>3, <2>4, <3>1, <3>4, <4>1, StillCovered DEF FinishFrom
    <3> QED BY <1>6, <3>2, <3>3, <3>4
  <2>6. host'.op = "pod" => ~AllFinished(host.podv)'
    <3> SUFFICES ASSUME host.op = "pod" PROVE ~AllFinished(host.podv)'
      BY <2>3
    <3>1. ~AllFinished(host.podv)
      BY <1>6, <2>3 DEF SenderInv, Scans
    <3>2. \A q \in Pods, j \in Slots : groups'[q][j].status = "FINISHED" =>
            groups[q][j].status = "FINISHED"
      BY <2>4
    <3> QED BY <1>a, <2>3, <3>1, <3>2, StaysUnfinished DEF AllFinished
  <2> QED BY <1>6, <2>3, <2>5, <2>6 DEF SenderInv
<1>7. CASE WakeTile
  <2>1. PICK p \in Pods, i \in Slots : p = host.cur /\ i = host.idx
    BY <1>7 DEF WakeTile, TypeInv, TypeOK, WellFormed, HostType
  <2>2. PICK u \in host.wake :
          /\ running' = [running EXCEPT ![p][u] = WorkOf(p, i)]
          /\ host' = [host EXCEPT !.wake = @ \ {u}]
    BY <1>7, <2>1 DEF WakeTile
  <2>3. UNCHANGED <<groups, rqst, num>> /\ host.pc = "wake" /\ u \in Tiles
    BY <1>7, <1>a DEF WakeTile, podVars, HostType
  <2>4. /\ host'.pc = "wake" /\ host'.cur = p /\ host'.idx = i
        /\ host'.podv = host.podv /\ host'.op = host.op
        /\ host'.wake = host.wake \ {u}
    BY <1>a, <2>1, <2>2, <2>3 DEF HostType
  <2>5. /\ running'[p][u].slot = i
        /\ \A q \in Pods, t \in Tiles : q # p \/ t # u => running'[q][t] = running[q][t]
    BY <2>2, <2>3 DEF TypeInv, TypeOK, WorkOf
  <2>6. running[p][u].slot = 0 \/ running[p][u].slot = i
    <3>1. PICK j \in {0} \cup Slots : j = running[p][u].slot
      <4>1. running[p][u] \in WorkType
        BY <2>3 DEF TypeInv, TypeOK
      <4> QED BY <4>1 DEF WorkType
    <3>2. j # 0 => Awake(p, j) /\ u \in GroupTiles(p, j)
      BY <2>3, <3>1 DEF CustodyInv, RunsOwn
    <3>3. u \in GroupTiles(p, i) /\ Awake(p, i)
      BY <2>1, <2>3 DEF CallInv, Awake, Waking
    <3>4. j # 0 => j \in Holding(p)
      BY <3>1, <3>2, AwakeHolds
    <3>5. i \in Holding(p)
      BY <3>3, AwakeHolds
    <3> QED BY <3>1, <3>2, <3>3, <3>4, <3>5 DEF TileOwnership
  <2>7. ASSUME NEW q \in Pods, NEW j \in Slots
        PROVE  Covered(q, j)'
    <3>1. /\ Covered(q, j) /\ j # 0
          /\ Awake(q, j)' = Awake(q, j) /\ Waking(q, j)' = Waking(q, j)
          /\ Waking(q, j) => q = p /\ j = i
      BY <2>1, <2>3, <2>4, ConfigAssumption DEF SenderInv, Awake, Waking, Slots
    <3>2. ASSUME NEW t \in Tiles,
                 running[q][t].slot = j \/ (Waking(q, j) /\ t \in host.wake)
          PROVE  running'[q][t].slot = j \/ (Waking(q, j)' /\ t \in host'.wake)
      <4>1. CASE q = p /\ t = u
        <5>1. j = i
          BY <2>6, <3>1, <3>2, <4>1
        <5> QED BY <2>5, <4>1, <5>1
      <4>2. CASE q # p \/ t # u
        <5>1. running'[q][t] = running[q][t]
          BY <2>5, <4>2
        <5>2. Waking(q, j) /\ t \in host.wake => t \in host'.wake
          BY <2>4, <3>1, <4>2
        <5> QED BY <3>1, <3>2, <5>1, <5>2
      <4> QED BY <4>1, <4>2
    <3> QED BY <2>3, <3>1, <3>2, StillCovered DEF FinishFrom
  <2>8. host'.op = "pod" => ~AllFinished(host.podv)'
    BY <1>c, <2>3, <2>4 DEF SenderInv, Scans
  <2> QED BY <2>4, <2>7, <2>8 DEF SenderInv
<1>8. CASE ScanEnd
  <2>1. UNCHANGED <<groups, running, rqst, num>> /\ host.pc = "scan"
    BY <1>8 DEF ScanEnd, podVars, deviceVars
  <2>2. CASE \E p \in host.todo : host' = Scanning(p, host.todo \ {p})
    <3>1. PICK p \in host.todo : host' = Scanning(p, host.todo \ {p})
      BY <2>2
    <3>2. p \in Pods /\ host.todo \ {p} \in SUBSET Pods
      BY <1>a
    <3>3. host'.pc = "scan" /\ host'.podv = host.podv /\ host'.op = host.op
      BY <1>a, <3>1, <3>2, ScanningFields
    <3>4. host'.op = "pod" => ~AllFinished(host.podv)'
      BY <1>c, <2>1, <3>3 DEF SenderInv, Scans
    <3> QED BY <1>b, <2>1, <3>3, <3>4 DEF SenderInv
  <2>3. CASE host.op = "pod" /\ host' = [host EXCEPT !.pc = "wait"]
    <3>1. host'.pc = "wait" /\ host'.podv = host.podv
      BY <1>a, <2>3 DEF HostType
    <3>2. ~AllFinished(host.podv)'
      BY <1>c, <2>1, <2>3, <3>1 DEF SenderInv, Scans
    <3> QED BY <1>b, <2>1, <3>1, <3>2 DEF SenderInv
  <2>4. CASE host' = [host EXCEPT !.pc = "check"]
    <3>1. host'.pc = "check"
      BY <1>a, <2>4 DEF HostType
    <3> QED BY <1>b, <2>1, <3>1 DEF SenderInv, Scans
  <2> QED BY <1>8, <2>2, <2>3, <2>4 DEF ScanEnd
<1>9. ASSUME NEW m \in rqst, ReceiveFinish(m)
      PROVE  SenderInv'
  <2>1. PICK i \in Matches(m) : Retire(m.pod, i)
    BY <1>9 DEF ReceiveFinish
  <2>2. /\ m.data = "finish" /\ host.pc = "wait" /\ rqst' = rqst \ {m}
        /\ running' = running
    BY <1>9 DEF ReceiveFinish
  <2>3. i = m.from[2] /\ Retired(m.pod, i)
    BY <2>1, <2>2, MatchIsSender, RetireEffect
  <2>4. host'.pc = "check" \/ (host'.pc = "scan" /\ host'.op # "pod")
    BY <1>9 DEF ReceiveFinish, Scanning, TypeInv, TypeOK, HostType
  <2>5. ASSUME NEW q \in Pods, NEW j \in Slots
        PROVE  Covered(q, j)'
    <3>1. ~Waking(q, j) /\ ~Waking(q, j)' /\ Covered(q, j)
      BY <2>2, <2>4 DEF Waking, SenderInv
    <3>2. CASE q = m.pod /\ j = i
      BY <2>3, <3>1, <3>2 DEF Retired, Covered, Awake
    <3>3. CASE q # m.pod \/ j # i
      <4>1. groups'[q][j] = groups[q][j]
        BY <2>3, <3>3 DEF Retired
      <4>2. Awake(q, j)' => Awake(q, j)
        BY <3>1, <4>1 DEF Awake
      <4>3. FinishFrom(q, j) \subseteq rqst'
        BY <2>2, <2>3, <3>3 DEF FinishFrom
      <4> QED BY <2>2, <3>1, <4>1, <4>2, <4>3, StillCovered
    <3> QED BY <3>2, <3>3
  <2> QED BY <2>4, <2>5 DEF SenderInv, Scans
<1>10. ASSUME NEW m \in rqst, ReceiveOther(m) \/ ReceiveFails(m)
       PROVE  SenderInv'
  <2>1. UNCHANGED <<groups, running, num, host>> /\ host.pc = "wait" /\ rqst' = rqst \ {m}
    BY <1>10 DEF ReceiveOther, ReceiveFails, podVars, NoFaults
  <2>2. m.data # "finish"
    <3> SUFFICES ASSUME m.data = "finish" PROVE FALSE
      OBVIOUS
    <3>1. Matches(m) = {}
      BY <1>10 DEF ReceiveOther, ReceiveFails, NoFaults
    <3> QED BY <2>1, <3>1, SenderMatches
  <2>3. ASSUME NEW q \in Pods, NEW j \in Slots
        PROVE  Covered(q, j)'
    <3>1. Covered(q, j) /\ ~Waking(q, j) /\ Awake(q, j)' = Awake(q, j)
      BY <2>1 DEF SenderInv, Awake, Waking
    <3>2. FinishFrom(q, j) \subseteq rqst'
      BY <2>1, <2>2 DEF FinishFrom
    <3> QED BY <2>1, <3>1, <3>2, StillCovered
  <2>4. ~AllFinished(host.podv)'
    BY <1>c, <2>1 DEF SenderInv
  <2> QED BY <2>3, <2>4 DEF SenderInv
<1>11. ASSUME NEW p \in Pods, NEW t \in Tiles, DeviceFinish(p, t)
       PROVE  SenderInv'
  <2>1. PICK w \in WorkType, i \in Slots : w = running[p][t] /\ i = w.slot
    <3>1. running[p][t] \in WorkType /\ running[p][t].slot # 0
      BY <1>11 DEF TypeInv, TypeOK, DeviceFinish
    <3> QED BY <3>1 DEF WorkType
  <2>2. PICK new : new = [data |-> "finish", pod |-> p, src |-> t, epa |-> w.epa,
                          from |-> <<epoch[p], i>>]
    OBVIOUS
  <2>3. /\ \A u \in w.tiles : running[p][u] = w
        /\ running' = [running EXCEPT ![p] = [u \in Tiles |->
                          IF u \in w.tiles THEN NoWork ELSE running[p][u]]]
        /\ rqst' = rqst \cup {new}
        /\ UNCHANGED <<groups, num, host>>
    BY <1>11, <2>1, <2>2 DEF DeviceFinish, podVars
  <2>4. /\ \A u \in Tiles :
             running'[p][u].slot = running[p][u].slot \/ running[p][u].slot = i
        /\ \A q \in Pods \ {p} : running'[q] = running[q]
    BY <2>1, <2>3 DEF TypeInv, TypeOK
  <2>5. ASSUME NEW q \in Pods, NEW j \in Slots
        PROVE  Covered(q, j)'
    <3>1. CASE q = p /\ j = i
      <4>1. new \in FinishFrom(p, i)'
        BY <2>2, <2>3 DEF FinishFrom
      <4> QED BY <3>1, <4>1 DEF Covered
    <3>2. CASE q # p \/ j # i
      <4>1. /\ Covered(q, j) /\ Awake(q, j)' = Awake(q, j)
            /\ Waking(q, j)' = Waking(q, j)
        BY <2>3 DEF SenderInv, Awake, Waking
      <4>2. \A u \in Tiles : running[q][u].slot = j => running'[q][u].slot = j
        BY <2>4, <3>2
      <4> QED BY <2>3, <4>1, <4>2, StillCovered DEF FinishFrom
    <3> QED BY <3>1, <3>2
  <2>6. (host.op = "pod" /\ Scans) \/ host.pc = "wait" => ~AllFinished(host.podv)'
    BY <1>c, <2>3 DEF SenderInv
  <2> QED BY <2>3, <2>5, <2>6 DEF SenderInv, Scans
<1>12. CASE (\E p \in Pods, t \in Tiles : DeviceChatter(p, t)) \/ UNCHANGED vars
  <2>1. UNCHANGED <<groups, running, num, host>> /\ rqst \subseteq rqst'
    BY <1>12 DEF DeviceChatter, podVars, vars
  <2>2. ASSUME NEW q \in Pods, NEW j \in Slots
        PROVE  Covered(q, j)'
    <3>1. /\ Covered(q, j) /\ Awake(q, j)' = Awake(q, j)
          /\ Waking(q, j)' = Waking(q, j)
      BY <2>1 DEF SenderInv, Awake, Waking
    <3> QED BY <2>1, <3>1, StillCovered DEF FinishFrom
  <2>3. (host.op = "pod" /\ Scans) \/ host.pc = "wait" => ~AllFinished(host.podv)'
    BY <1>c, <2>1 DEF SenderInv
  <2> QED BY <2>1, <2>2, <2>3 DEF SenderInv, Scans
<1> QED
  BY <1>1, <1>2, <1>3, <1>4, <1>5, <1>6, <1>7, <1>8, <1>9, <1>10, <1>11, <1>12,
     MemorySuffices
  DEF Next, Client, Host, Receive, Device

(* When no launch and no responder fails and every shape fits in an empty    *)
(* mesh, the host never waits for a packet that will not come: some launched *)
(* group has its finish packet on the way or all of its tiles at work.       *)
THEOREM WaitIsAnswered ==
  ASSUME NoFaults, ShapesFit
  PROVE  Spec => []WaitHasSender
<1>1. Init => SenderInv
  <2> SUFFICES ASSUME Init PROVE SenderInv
    OBVIOUS
  <2>1. \A p \in Pods, i \in Slots : ~Awake(p, i)
    BY DEF Init, Awake, Waking, NoGroup, IdleHost
  <2> QED BY <2>1 DEF Init, IdleHost, SenderInv, Covered, Scans
<1>2. ExecuteInv /\ SenderInv /\ [Next]_vars => SenderInv'
  BY SenderStep
<1>3. ExecuteInv /\ SenderInv => WaitHasSender
  <2> SUFFICES ASSUME ExecuteInv, SenderInv, host.pc = "wait"
               PROVE  \E p \in Pods, i \in Slots :
                        /\ groups[p][i].status = "LAUNCHED"
                        /\ \/ \E m \in rqst : m.data = "finish" /\ i \in Matches(m)
                           \/ \A t \in GroupTiles(p, i) : running[p][t].slot = i
    BY DEF WaitHasSender
  <2> USE DEF ExecuteInv
  <2>1. PICK p \in host.podv : \E i \in 1 .. num[p] : groups[p][i].status # "FINISHED"
    BY DEF SenderInv, AllFinished
  <2>2. PICK i \in 1 .. num[p] : groups[p][i].status # "FINISHED"
    BY <2>1
  <2>3. /\ p \in Pods /\ i \in Slots /\ groups[p][i].status # "NONE"
        /\ groups[p][i] \in GroupType
    <3>1. p \in Pods
      BY DEF TypeInv, TypeOK, HostType
    <3>2. num[p] \in 0 .. MaxGroups /\ MaxGroups \in Nat
      BY <3>1, ConfigAssumption DEF TypeInv, TypeOK
    <3>3. i \in Slots /\ ~(i > num[p])
      BY <3>2 DEF Slots
    <3> QED BY <3>1, <3>3 DEF TypeInv, TypeOK
  <2>4. \E j \in Slots : groups[p][j].status = "LAUNCHED"
    <3> SUFFICES ASSUME \A j \in Slots : groups[p][j].status # "LAUNCHED"
                 PROVE  FALSE
      OBVIOUS
    <3>1. \A j \in Slots : groups[p][j].status # "ALLOCATED"
      BY <2>3 DEF CallInv
    <3>2. Holding(p) = {}
      BY <3>1 DEF Holding
    <3>3. \A t \in Tiles : tile[p][t] = "FREE"
      BY <2>3, <3>2 DEF TileOwnership, TypeInv, TypeOK
    <3>4. groups[p][i].status = "INITIALIZED"
      BY <2>2, <2>3, <3>1 DEF GroupType
    <3>5. FreeOrigins(p, groups[p][i].dim) = {} /\ groups[p][i].dim \in Dims
      BY <2>3, <3>4 DEF RoomInv, Searched, Exhausted, TypeInv, WellFormed
    <3>6. FreeOrigins(p, groups[p][i].dim) = Origins(groups[p][i].dim)
      BY <3>3 DEF FreeOrigins, Footprint
    <3> QED BY <3>5, <3>6 DEF ShapesFit
  <2>5. PICK j \in Slots : groups[p][j].status = "LAUNCHED"
    BY <2>4
  <2>6. ~Waking(p, j) /\ Awake(p, j) /\ Covered(p, j)
    BY <2>3, <2>5 DEF SenderInv, Awake, Waking
  <2>7. CASE FinishFrom(p, j) # {}
    <3>1. PICK m \in rqst : m.data = "finish" /\ m.pod = p /\ m.from[2] = j
      BY <2>7 DEF FinishFrom
    <3>2. j \in Matches(m)
      BY <3>1, SenderMatches
    <3> QED BY <2>3, <2>5, <3>1, <3>2
  <2>8. CASE \A t \in GroupTiles(p, j) : running[p][t].slot = j
    BY <2>3, <2>5, <2>8
  <2> QED BY <2>6, <2>7, <2>8 DEF Covered
<1> QED BY <1>1, <1>2, <1>3, ExecuteHolds, PTL DEF Spec

-----------------------------------------------------------------------------
(* The job queue *)

Stages == [p \in Pods |-> [i \in Slots |-> StageOf(p, i)]]

Areas ==
  [p \in Pods |-> [i \in Slots |-> IF i \in Holding(p) THEN GroupTiles(p, i) ELSE {}]]

(* A group holds tiles exactly while its job is placed or has ended.         *)
LEMMA HoldersHold ==
  ASSUME TypeInv, NEW p \in Pods, NEW i \in Slots
  PROVE  /\ i \in Holding(p) => StageOf(p, i) \in {"placed", "ended"}
         /\ i \notin Holding(p) => StageOf(p, i) \in {"none", "queued", "done"}
<1>1. groups[p][i] \in GroupType
  BY DEF TypeInv, TypeOK
<1>2. groups[p][i].status \in {"NONE", "INITIALIZED", "ALLOCATED", "LAUNCHED", "FINISHED"}
  BY <1>1 DEF GroupType
<1> QED BY <1>2 DEF Holding, StageOf

(* A job stays as it is when its group keeps its tiles and its packet.       *)
LEMMA SameJob ==
  ASSUME NEW p \in Pods, NEW i \in Slots,
         FinishSent(p, i)' <=> FinishSent(p, i),
         \/ groups'[p][i].status = groups[p][i].status
         \/ /\ groups[p][i].status \in {"ALLOCATED", "LAUNCHED"}
            /\ groups'[p][i].status \in {"ALLOCATED", "LAUNCHED"},
         groups[p][i].status \in {"ALLOCATED", "LAUNCHED"} =>
           groups'[p][i].dim = groups[p][i].dim /\ groups'[p][i].origin = groups[p][i].origin
  PROVE  Stages'[p][i] = Stages[p][i] /\ Areas'[p][i] = Areas[p][i]
<1>1. StageOf(p, i)' = StageOf(p, i)
  BY DEF StageOf
<1>2. i \in Holding(p)' <=> i \in Holding(p)
  BY DEF Holding
<1>3. i \in Holding(p) => GroupTiles(p, i)' = GroupTiles(p, i)
  BY DEF Holding, GroupTiles
<1> QED BY <1>1, <1>2, <1>3 DEF Stages, Areas

(* The packets under way of a group are those of its program.                *)
LEMMA SentIsFrom ==
  ASSUME TypeInv, CustodyInv, NEW p \in Pods, NEW i \in Slots
  PROVE  FinishSent(p, i) <=> FinishFrom(p, i) # {}
<1>1. ASSUME NEW m \in rqst, m.data = "finish", m.pod = p
      PROVE  m.from = <<epoch[p], i>> <=> m.from[2] = i
  <2>1. m \in PacketType
    BY DEF TypeInv, TypeOK
  <2>2. m.from \in Nat \X ({0} \cup Slots)
    BY <2>1 DEF PacketType
  <2>3. m.from[1] = epoch[p]
    BY <1>1 DEF CustodyInv, SentByHolder
  <2> QED BY <2>2, <2>3
<1> QED BY <1>1 DEF FinishSent, FinishFrom

(* Only a group that holds tiles has its finish packet under way. *)
LEMMA SentHolds ==
  ASSUME TypeInv, CustodyInv, NEW p \in Pods, NEW i \in Slots, FinishFrom(p, i) # {}
  PROVE  i \in Holding(p)
<1>1. PICK m \in rqst : m.data = "finish" /\ m.pod = p /\ m.from[2] = i
  BY DEF FinishFrom
<1>2. Awake(p, i)
  BY <1>1 DEF CustodyInv, SentByHolder
<1> QED BY <1>2, AwakeHolds

(* Steps that neither move a group nor send or take a finish packet.         *)
LEMMA QueueStutters ==
  ASSUME TypeInv, CustodyInv, TypeInv', CustodyInv',
         \A p \in Pods, i \in Slots :
           /\ FinishFrom(p, i)' = FinishFrom(p, i)
           /\ \/ groups'[p][i].status = groups[p][i].status
              \/ /\ groups[p][i].status \in {"ALLOCATED", "LAUNCHED"}
                 /\ groups'[p][i].status \in {"ALLOCATED", "LAUNCHED"}
           /\ groups[p][i].status \in {"ALLOCATED", "LAUNCHED"} =>
                groups'[p][i].dim = groups[p][i].dim
                /\ groups'[p][i].origin = groups[p][i].origin
  PROVE  UNCHANGED Queue!vars
<1>1. \A p \in Pods, i \in Slots : FinishSent(p, i)' <=> FinishSent(p, i)
  <2> TAKE p \in Pods, i \in Slots
  <2>1. FinishSent(p, i)' <=> FinishFrom(p, i)' # {}
    <3>1. ASSUME NEW m \in rqst', m.data = "finish", m.pod = p
          PROVE  m.from = <<epoch'[p], i>> <=> m.from[2] = i
      <4>1. m \in PacketType
        BY DEF TypeInv, TypeOK
      <4>2. m.from \in Nat \X ({0} \cup Slots)
        BY <4>1 DEF PacketType
      <4>3. m.from[1] = epoch'[p]
        BY <3>1 DEF CustodyInv, SentByHolder
      <4> QED BY <4>2, <4>3
    <3> QED BY <3>1 DEF FinishSent, FinishFrom
  <2> QED BY <2>1, SentIsFrom
<1>2. \A p \in Pods, i \in Slots : Stages'[p][i] = Stages[p][i] /\ Areas'[p][i] = Areas[p][i]
  BY <1>1, SameJob
<1>3. Stages' = Stages /\ Areas' = Areas
  BY <1>2 DEF Stages, Areas
<1> QED BY <1>3 DEF Queue!vars, Stages, Areas

(* How maps of pods and slots differ. *)
Table(f) == f = [p \in Pods |-> [i \in Slots |-> f[p][i]]]

LEMMA Tables == Table(Stages) /\ Table(Areas) /\ Table(Stages') /\ Table(Areas')
BY DEF Table, Stages, Areas

LEMMA SameTable ==
  ASSUME NEW f, NEW g, Table(f), Table(g),
         \A p \in Pods, i \in Slots : g[p][i] = f[p][i]
  PROVE  g = f
BY DEF Table

LEMMA OneEntry ==
  ASSUME NEW f, NEW g, Table(f), Table(g), NEW p \in Pods, NEW i \in Slots,
         \A q \in Pods, j \in Slots : q # p \/ j # i => g[q][j] = f[q][j]
  PROVE  g = [f EXCEPT ![p][i] = g[p][i]]
<1> DEFINE h == [f EXCEPT ![p][i] = g[p][i]]
<1>1. DOMAIN f = Pods /\ \A q \in Pods : f[q] = [j \in Slots |-> f[q][j]]
  BY DEF Table
<1>2. \A q \in Pods : DOMAIN f[q] = Slots
  BY <1>1
<1>3. h = [q \in Pods |-> IF q = p THEN [f[p] EXCEPT ![i] = g[p][i]] ELSE f[q]]
  BY <1>1
<1>4. \A q \in Pods : h[q] = [j \in Slots |-> g[q][j]]
  <2> TAKE q \in Pods
  <2>1. CASE q = p
    <3>1. h[q] = [f[p] EXCEPT ![i] = g[p][i]]
      BY <1>3, <2>1
    <3>2. @ = [j \in Slots |-> IF j = i THEN g[p][i] ELSE f[p][j]]
      BY <1>1, <1>2
    <3>3. @ = [j \in Slots |-> g[q][j]]
      BY <2>1
    <3> QED BY <3>1, <3>2, <3>3
  <2>2. CASE q # p
    BY <1>1, <1>3, <2>2
  <2> QED BY <2>1, <2>2
<1>5. h = [q \in Pods |-> h[q]]
  BY <1>3
<1> HIDE DEF h
<1>6. h = [q \in Pods |-> [j \in Slots |-> g[q][j]]]
  BY <1>4, <1>5
<1> QED BY <1>6 DEF Table, h

LEMMA OneRow ==
  ASSUME NEW f, NEW g, Table(f), Table(g), NEW p \in Pods,
         \A q \in Pods \ {p}, j \in Slots : g[q][j] = f[q][j]
  PROVE  g = [f EXCEPT ![p] = [i \in Slots |-> g[p][i]]]
<1> DEFINE h == [f EXCEPT ![p] = [i \in Slots |-> g[p][i]]]
<1>1. DOMAIN f = Pods /\ \A q \in Pods : f[q] = [j \in Slots |-> f[q][j]]
  BY DEF Table
<1>2. h = [q \in Pods |-> IF q = p THEN [i \in Slots |-> g[p][i]] ELSE f[q]]
  BY <1>1
<1>3. \A q \in Pods : h[q] = [j \in Slots |-> g[q][j]]
  BY <1>1, <1>2
<1>4. h = [q \in Pods |-> h[q]]
  BY <1>2
<1> HIDE DEF h
<1>5. h = [q \in Pods |-> [j \in Slots |-> g[q][j]]]
  BY <1>3, <1>4
<1> QED BY <1>5 DEF Table, h

(* A program is initialised or finished between calls: no job holds tiles.   *)
LEMMA QueueClears ==
  ASSUME ExecuteInv, ExecuteInv', NEW p \in Pods,
         (\E b \in Binaries : ProgramInit(p, b)) \/ ProgramFinish(p)
  PROVE  Queue!Clear(p)
<1> USE DEF ExecuteInv
<1>1. /\ groups'[p] = [i \in Slots |-> NoGroup]
      /\ \A q \in Pods \ {p} : groups'[q] = groups[q] /\ epoch'[q] = epoch[q]
      /\ host' = host /\ host.pc = "idle" /\ rqst' = rqst
  BY DEF ProgramInit, ProgramFinish, TypeInv, TypeOK
<1>2. \A q \in Pods : Holding(q) = {} /\ Holding(q)' = {}
  BY <1>1 DEF CallInv
<1>3. Areas' = Areas
  BY <1>2 DEF Areas
<1>4. \A i \in Slots : StageOf(p, i) \notin {"placed", "ended"}
  BY <1>2, HoldersHold
<1>5. \A i \in Slots : Stages'[p][i] = "none"
  BY <1>1 DEF Stages, StageOf, NoGroup
<1>6. ASSUME NEW q \in Pods \ {p}, NEW i \in Slots
      PROVE  Stages'[q][i] = Stages[q][i]
  <2>1. FinishSent(q, i)' <=> FinishSent(q, i)
    BY <1>1 DEF FinishSent
  <2> QED BY <1>1, <2>1, SameJob
<1>7. Stages' = [Stages EXCEPT ![p] = [i \in Slots |-> "none"]]
  <2>1. Stages' = [Stages EXCEPT ![p] = [i \in Slots |-> Stages'[p][i]]]
    BY <1>6, Tables, OneRow
  <2> QED BY <1>5, <2>1
<1>8. Queue!Holders(p) = {}
  BY <1>4 DEF Queue!Holders
<1> QED BY <1>3, <1>7, <1>8 DEF Queue!Clear, Stages, Areas

(* The groups of a grid are submitted as one set of jobs. *)
LEMMA QueueSubmits ==
  ASSUME ExecuteInv, NEW p \in Pods, NEW g \in GridDims, NEW d \in Dims, NEW k \in Names,
         KernelEnqueue(p, g, d, k)
  PROVE  \E S \in SUBSET Slots : Queue!Submit(p, S)
<1> USE DEF ExecuteInv
<1> DEFINE first == num[p] + 1
           last  == num[p] + g[1] * g[2]
           S     == {i \in Slots : i \in first .. last}
<1>1. /\ groups' = [groups EXCEPT ![p] =
                      [i \in Slots |-> IF i \in first .. last
                                         THEN NewGroup(first, g, d, k, i)
                                         ELSE groups[p][i]]]
      /\ rqst' = rqst /\ epoch' = epoch
  BY DEF KernelEnqueue, deviceVars
<1> HIDE DEF last
<1>2. \A i \in S : groups[p][i].status = "NONE"
  BY DEF TypeInv, TypeOK, Slots
<1> HIDE DEF first
<1>3. /\ \A i \in S : groups'[p][i].status = "INITIALIZED"
      /\ \A i \in Slots \ S : groups'[p][i] = groups[p][i]
      /\ \A q \in Pods \ {p} : groups'[q] = groups[q]
  BY <1>1 DEF NewGroup, TypeInv, TypeOK
<1> HIDE DEF S
<1>4. S \subseteq Slots
  BY DEF S
<1>5. \A q \in Pods, i \in Slots : FinishSent(q, i)' <=> FinishSent(q, i)
  BY <1>1 DEF FinishSent
<1>6. \A i \in S : Stages[p][i] = "none" /\ Stages'[p][i] = "queued"
  BY <1>2, <1>3, <1>4 DEF Stages, StageOf
<1>7. \A i \in S : Areas'[p][i] = Areas[p][i]
  BY <1>2, <1>3, <1>4 DEF Areas, Holding
<1>8. \A q \in Pods, i \in Slots : q # p \/ i \notin S =>
        Stages'[q][i] = Stages[q][i] /\ Areas'[q][i] = Areas[q][i]
  BY <1>3, <1>5, SameJob
<1>9. Stages' = [Stages EXCEPT ![p] = [i \in Slots |-> IF i \in S THEN "queued"
                                                                ELSE Stages[p][i]]]
  <2>1. Stages' = [Stages EXCEPT ![p] = [i \in Slots |-> Stages'[p][i]]]
    BY <1>8, Tables, OneRow
  <2>2. \A i \in Slots : Stages'[p][i] = IF i \in S THEN "queued" ELSE Stages[p][i]
    BY <1>6, <1>8
  <2> QED BY <2>1, <2>2
<1>10. Areas' = Areas
  BY <1>7, <1>8, Tables, SameTable
<1>11. Queue!Submit(p, S)
  BY <1>6, <1>9, <1>10 DEF Queue!Submit, Stages, Areas
<1> QED BY <1>4, <1>11

(* A queued group is placed on tiles that no other job holds. *)
LEMMA QueuePlaces ==
  ASSUME ExecuteInv, ExecuteInv', AllocateTiles
  PROVE  \E p \in Pods, i \in Slots, A \in SUBSET Tiles : Queue!Place(p, i, A)
<1> USE DEF ExecuteInv
<1>1. PICK p \in Pods, i \in Slots, o \in Tiles :
        p = host.cur /\ i = host.idx /\ Allocated(p, i, o)
  BY AllocateEffect
<1>a. PICK A : A = Footprint(o, groups[p][i].dim)
  OBVIOUS
<1>2. rqst' = rqst /\ epoch' = epoch
  BY DEF AllocateTiles, deviceVars
<1>3. \A q \in Pods, j \in Slots : FinishSent(q, j)' <=> FinishSent(q, j)
  BY <1>2 DEF FinishSent
<1>4. \A q \in Pods, j \in Slots : q # p \/ j # i =>
        Stages'[q][j] = Stages[q][j] /\ Areas'[q][j] = Areas[q][j]
  <2>1. \A q \in Pods, j \in Slots : q # p \/ j # i => groups'[q][j] = groups[q][j]
    BY <1>1 DEF Allocated
  <2> QED BY <1>3, <2>1, SameJob
<1>5. Stages[p][i] = "queued"
  BY <1>1 DEF Stages, StageOf, Allocated
<1>6. Stages'[p][i] = "placed"
  <2>1. i \notin Holding(p)
    BY <1>1 DEF Holding, Allocated
  <2>2. ~FinishSent(p, i)
    BY <2>1, SentIsFrom, SentHolds
  <2> QED BY <1>1, <1>3, <2>2 DEF Stages, StageOf, Allocated
<1>7. Areas'[p][i] = A
  BY <1>1, <1>a DEF Areas, Holding, GroupTiles, Allocated, Footprint
<1>8. A \in SUBSET Tiles /\ o \in A
  <2>1. groups[p][i].dim \in Positive \X Positive
    BY <1>1, ConfigAssumption DEF Allocated, TypeInv, WellFormed
  <2>2. o \in Tiles /\ \A x \in Positive : x \in Nat /\ x > 0
    BY <1>1 DEF Positive
  <2> QED BY <1>a, <2>1, <2>2, ConfigAssumption DEF Footprint, Tiles, Positive
<1>9. \A j \in Holding(p) : GroupTiles(p, j) \cap A = {}
  <2>1. \A t \in A : tile[p][t] = "FREE"
    BY <1>1, <1>a DEF Allocated, FreeOrigins
  <2>2. \A j \in Holding(p), t \in Tiles : t \in GroupTiles(p, j) => tile[p][t] = "BUSY"
    BY DEF TileOwnership
  <2> QED BY <1>8, <2>1, <2>2
<1>10. \A j \in Queue!Holders(p) : Areas[p][j] \cap A = {}
  <2>1. \A j \in Queue!Holders(p) : j \in Slots /\ StageOf(p, j) \in {"placed", "ended"}
    BY DEF Queue!Holders
  <2>2. \A j \in Queue!Holders(p) : j \in Holding(p)
    BY <2>1, HoldersHold
  <2> QED BY <1>9, <2>1, <2>2 DEF Areas
<1>11. Stages' = [Stages EXCEPT ![p][i] = "placed"] /\ Areas' = [Areas EXCEPT ![p][i] = A]
  <2>1. Stages' = [Stages EXCEPT ![p][i] = Stages'[p][i]]
    BY <1>4, Tables, OneEntry
  <2>2. Areas' = [Areas EXCEPT ![p][i] = Areas'[p][i]]
    BY <1>4, Tables, OneEntry
  <2> QED BY <1>6, <1>7, <2>1, <2>2
<1>12. Queue!Place(p, i, A)
  BY <1>5, <1>8, <1>10, <1>11 DEF Queue!Place, Stages, Areas
<1> QED BY <1>8, <1>12

(* The tile at a group's origin ends the job, once. *)
LEMMA QueueEnds ==
  ASSUME ExecuteInv, ExecuteInv', NEW p \in Pods, NEW t \in Tiles, DeviceFinish(p, t)
  PROVE  \E i \in Slots : Queue!End(p, i)
<1> USE DEF ExecuteInv
<1>0. PICK i : i = running[p][t].slot
  OBVIOUS
<1>1. PICK w \in WorkType : w = running[p][t]
  BY DEF TypeInv, TypeOK
<1>2. i \in Slots /\ i # 0
  BY <1>0, <1>1 DEF DeviceFinish, WorkType
<1>n. PICK new : new = [data |-> "finish", pod |-> p, src |-> t, epa |-> w.epa,
                        from |-> <<epoch[p], i>>]
  OBVIOUS
<1>3. rqst' = rqst \cup {new} /\ groups' = groups /\ epoch' = epoch
  BY <1>0, <1>1, <1>n DEF DeviceFinish, podVars
<1>4. Awake(p, i)
  BY <1>0, <1>2 DEF CustodyInv, RunsOwn
<1>5. i \in Holding(p)
  BY <1>2, <1>4, AwakeHolds
<1>6. FinishFrom(p, i) = {}
  <2> SUFFICES ASSUME NEW m \in rqst, m.data = "finish", m.pod = p, m.from[2] = i
               PROVE  FALSE
    BY DEF FinishFrom
  <2> QED BY <1>0 DEF CustodyInv, SentByHolder
<1>7. StageOf(p, i) = "placed"
  BY <1>2, <1>5, <1>6, SentIsFrom DEF StageOf, Holding
<1>8. new.data = "finish" /\ new.pod = p /\ new.from = <<epoch[p], i>>
  BY <1>n
<1>9. StageOf(p, i)' = "ended"
  <2>1. FinishSent(p, i)'
    BY <1>3, <1>8 DEF FinishSent
  <2>2. groups'[p][i].status \in {"ALLOCATED", "LAUNCHED"}
    BY <1>3, <1>5 DEF Holding
  <2> QED BY <2>1, <2>2 DEF StageOf
<1>10. \A q \in Pods, j \in Slots : q # p \/ j # i =>
        Stages'[q][j] = Stages[q][j] /\ Areas'[q][j] = Areas[q][j]
  <2> SUFFICES ASSUME NEW q \in Pods, NEW j \in Slots, q # p \/ j # i
               PROVE  Stages'[q][j] = Stages[q][j] /\ Areas'[q][j] = Areas[q][j]
    OBVIOUS
  <2>1. FinishSent(q, j)' <=> FinishSent(q, j)
    BY <1>3, <1>8 DEF FinishSent
  <2> QED BY <1>3, <2>1, SameJob
<1>11. Areas'[p][i] = Areas[p][i]
  BY <1>3 DEF Areas, Holding, GroupTiles
<1>12. Stages' = [Stages EXCEPT ![p][i] = "ended"] /\ Areas' = Areas
  <2>1. Stages' = [Stages EXCEPT ![p][i] = Stages'[p][i]]
    BY <1>2, <1>10, Tables, OneEntry
  <2>2. Stages'[p][i] = "ended"
    BY <1>2, <1>9 DEF Stages
  <2>3. Areas' = Areas
    BY <1>10, <1>11, Tables, SameTable
  <2> QED BY <2>1, <2>2, <2>3
<1>13. Queue!End(p, i)
  BY <1>2, <1>7, <1>12 DEF Queue!End, Stages, Areas
<1> QED BY <1>2, <1>13

(* The host retires the job whose packet it reads. *)
LEMMA QueueRetires ==
  ASSUME ExecuteInv, ExecuteInv', NEW m \in rqst, ReceiveFinish(m)
  PROVE  \E p \in Pods, i \in Slots : Queue!Retire(p, i)
<1> USE DEF ExecuteInv
<1> DEFINE p == m.pod
           i == m.from[2]
<1>1. PICK j \in Matches(m) : Retire(m.pod, j)
  BY DEF ReceiveFinish
<1>2. m.data = "finish" /\ rqst' = rqst \ {m} /\ epoch' = epoch
  BY DEF ReceiveFinish
<1>3. j = i /\ i \in Slots
  BY <1>1, <1>2, MatchIsSender
<1>4. Retired(p, i) /\ p \in Pods
  BY <1>1, <1>3, RetireEffect DEF Retired
<1>5. m \in FinishFrom(p, i)
  BY <1>2 DEF FinishFrom
<1>6. \A q \in Pods, k \in Slots : q # p \/ k # i => FinishFrom(q, k)' = FinishFrom(q, k)
  BY <1>2 DEF FinishFrom
<1>7. m.from = <<epoch[p], i>>
  <2>1. FinishSent(p, i)
    BY <1>3, <1>4, <1>5, SentIsFrom
  <2>2. PICK n \in rqst : n.data = "finish" /\ n.pod = p /\ n.from = <<epoch[p], i>>
    BY <2>1 DEF FinishSent
  <2> QED BY <1>2, <2>2, OnePacket
<1> HIDE DEF p, i
<1>8. StageOf(p, i) = "ended"
  <2>1. FinishSent(p, i)
    BY <1>3, <1>4, <1>5, SentIsFrom
  <2> QED BY <1>4, <2>1 DEF StageOf, Retired
<1>9. Stages'[p][i] = "done" /\ Areas'[p][i] = {}
  BY <1>3, <1>4 DEF Stages, Areas, StageOf, Holding, Retired
<1>10. \A q \in Pods, k \in Slots : q # p \/ k # i =>
         Stages'[q][k] = Stages[q][k] /\ Areas'[q][k] = Areas[q][k]
  <2> SUFFICES ASSUME NEW q \in Pods, NEW k \in Slots, q # p \/ k # i
               PROVE  Stages'[q][k] = Stages[q][k] /\ Areas'[q][k] = Areas[q][k]
    OBVIOUS
  <2>1. FinishSent(q, k)' <=> FinishSent(q, k)
    BY <1>2, <1>7 DEF FinishSent, p
  <2>2. groups'[q][k] = groups[q][k]
    BY <1>4 DEF Retired
  <2> QED BY <2>1, <2>2, SameJob
<1>11. /\ Stages' = [Stages EXCEPT ![p][i] = "done"]
       /\ Areas' = [Areas EXCEPT ![p][i] = {}]
  <2>1. Stages' = [Stages EXCEPT ![p][i] = Stages'[p][i]]
    BY <1>3, <1>4, <1>10, Tables, OneEntry
  <2>2. Areas' = [Areas EXCEPT ![p][i] = Areas'[p][i]]
    BY <1>3, <1>4, <1>10, Tables, OneEntry
  <2> QED BY <1>9, <2>1, <2>2
<1>12. Queue!Retire(p, i)
  BY <1>3, <1>4, <1>8, <1>11 DEF Queue!Retire, Stages, Areas
<1> QED BY <1>3, <1>4, <1>12

(* Every step of the engine is a step of the queue, or none. *)
LEMMA QueueStep ==
  ASSUME NoFaults, ExecuteInv, [Next]_vars
  PROVE  [Queue!Next]_(Queue!vars)
<1>0. ExecuteInv'
  BY ExecuteStep
<1> USE DEF ExecuteInv
<1>1. CASE \E p \in Pods : (\E b \in Binaries : ProgramInit(p, b)) \/ ProgramFinish(p)
  BY <1>0, <1>1, QueueClears DEF Queue!Next
<1>2. CASE \E p \in Pods, g \in GridDims, d \in Dims, k \in Names : KernelEnqueue(p, g, d, k)
  BY <1>2, QueueSubmits DEF Queue!Next
<1>3. CASE AllocateTiles
  BY <1>0, <1>3, QueuePlaces DEF Queue!Next
<1>4. CASE \E p \in Pods, t \in Tiles : DeviceFinish(p, t)
  BY <1>0, <1>4, QueueEnds DEF Queue!Next
<1>5. CASE \E m \in rqst : ReceiveFinish(m)
  BY <1>0, <1>5, QueueRetires DEF Queue!Next
<1>6. CASE \/ \E p \in Pods : KernelsExecute(p)
           \/ \E podv \in SUBSET Pods : KernelsExecuteV(podv)
           \/ Check \/ ScanSkip \/ ScanNoRoom \/ ScanEnd \/ WakeTile
           \/ UNCHANGED vars
  <2>1. groups' = groups /\ rqst' = rqst
    BY <1>6 DEF KernelsExecute, KernelsExecuteV, Check, ScanSkip, ScanNoRoom, ScanEnd,
       WakeTile, podVars, deviceVars, vars
  <2>2. \A p \in Pods, i \in Slots : FinishFrom(p, i)' = FinishFrom(p, i)
    BY <2>1 DEF FinishFrom
  <2> QED BY <1>0, <2>1, <2>2, QueueStutters
<1>7. CASE LaunchPrepare \/ LaunchDone
  <2>1. PICK p \in Pods, i \in Slots : Moves(p, i, "ALLOCATED", "ALLOCATED")
                                       \/ Moves(p, i, "ALLOCATED", "LAUNCHED")
    BY <1>7, LaunchEffect
  <2>2. \A q \in Pods, j \in Slots : FinishFrom(q, j)' = FinishFrom(q, j)
    BY <1>7 DEF LaunchPrepare, LaunchDone, deviceVars, FinishFrom
  <2>3. \A q \in Pods, j \in Slots :
          \/ groups'[q][j] = groups[q][j]
          \/ /\ groups[q][j].status = "ALLOCATED"
             /\ groups'[q][j].status \in {"ALLOCATED", "LAUNCHED"}
             /\ groups'[q][j].dim = groups[q][j].dim
             /\ groups'[q][j].origin = groups[q][j].origin
    BY <2>1 DEF Moves
  <2> QED BY <1>0, <2>2, <2>3, QueueStutters
<1>8. CASE \/ \E m \in rqst : ReceiveOther(m) \/ ReceiveFails(m)
           \/ \E p \in Pods, t \in Tiles : DeviceChatter(p, t)
  <2>1. groups' = groups
    BY <1>8 DEF ReceiveOther, ReceiveFails, DeviceChatter, podVars
  <2>2. \A p \in Pods, i \in Slots : FinishFrom(p, i)' = FinishFrom(p, i)
    <3>1. CASE \E m \in rqst : ReceiveOther(m) \/ ReceiveFails(m)
      <4>1. PICK m \in rqst : ReceiveOther(m) \/ ReceiveFails(m)
        BY <3>1
      <4>2. m.data # "finish"
        BY <4>1, SenderMatches DEF ReceiveOther, ReceiveFails
      <4>3. rqst' = rqst \ {m}
        BY <4>1 DEF ReceiveOther, ReceiveFails
      <4> QED BY <4>2, <4>3 DEF FinishFrom
    <3>2. CASE \E p \in Pods, t \in Tiles : DeviceChatter(p, t)
      BY <3>2 DEF DeviceChatter, FinishFrom
    <3> QED BY <1>8, <3>1, <3>2
  <2> QED BY <1>0, <2>1, <2>2, QueueStutters
<1> QED
  BY <1>1, <1>2, <1>3, <1>4, <1>5, <1>6, <1>7, <1>8, MemorySuffices
  DEF Next, Client, Host, Receive, Device

(* When neither launches nor responders fail, the execution engine is a job  *)
(* queue: each tile group of each pod is placed once, on tiles that no other *)
(* group holds, ends once, and is retired once, on its own packet; programs  *)
(* come and go only while no group holds tiles.                              *)
THEOREM EngineIsQueue == ASSUME NoFaults PROVE Spec => ImplementsQueue
<1>1. Init => Queue!Init
  <2> SUFFICES ASSUME Init PROVE Queue!Init
    OBVIOUS
  <2>1. \A p \in Pods, i \in Slots : StageOf(p, i) = "none" /\ i \notin Holding(p)
    BY DEF Init, NoGroup, StageOf, Holding
  <2> QED BY <2>1 DEF Queue!Init
<1>2. ExecuteInv /\ [Next]_vars => [Queue!Next]_(Queue!vars)
  BY QueueStep
<1> QED BY <1>1, <1>2, ExecuteHolds, PTL DEF Spec, Queue!Spec, ImplementsQueue

=============================================================================

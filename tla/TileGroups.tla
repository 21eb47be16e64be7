----------------------------- MODULE TileGroups -----------------------------
(***************************************************************************)
(* The CUDA-lite execution engine of bsg_manycore_cuda.cpp: programs are   *)
(* loaded on pods, grids of tile groups are enqueued, and one host thread  *)
(* runs kernels_execute: it scans the list of tile groups, allocates a     *)
(* rectangle of FREE tiles for each group that fits, wakes the tiles one   *)
(* by one, and retires a LAUNCHED group when its finish packet arrives.    *)
(*                                                                         *)
(* The device is the environment: the tiles of a woken group run and, when *)
(* all have been woken and are done, the tile at the group's origin writes *)
(* the finish value to the group's finish address on the host.  Packets of *)
(* different tiles reach the host in any order.                            *)
(*                                                                         *)
(* Tiles are named relative to the origin of their pod's mesh, and a       *)
(* packet's source names its pod and its tile.                             *)
(***************************************************************************)
EXTENDS Integers, FiniteSets

CONSTANTS
  Pods,            \* the pods of the device
  MeshX, MeshY,    \* dimensions of a pod's mesh
  Dims,            \* tile group dimensions <<x, y>> that clients ask for
  GridDims,        \* grid dimensions <<x, y>> that clients ask for
  Names,           \* kernel names that clients ask for
  Binaries,        \* programs: [symbols : SUBSET Names, barrier : BOOLEAN]
  ResponderFails,  \* whether a responder may fail on a packet
  MemoryRunsOut,   \* whether a launch may find device memory full
  MaxGroups,       \* bound: tile groups enqueued per program
  MaxPrograms,     \* bound: programs initialised per pod
  MaxChatter       \* bound: packets that are not finish packets

Positive == Nat \ {0}

ASSUME ConfigAssumption ==
  /\ Pods # {}
  /\ MeshX \in Positive /\ MeshY \in Positive
  /\ Dims \subseteq Positive \X Positive
  /\ GridDims \subseteq Positive \X Positive
  /\ Binaries \subseteq [symbols : SUBSET Names, barrier : BOOLEAN]
  /\ ResponderFails \in BOOLEAN /\ MemoryRunsOut \in BOOLEAN
  /\ MaxGroups \in Nat /\ MaxPrograms \in Nat /\ MaxChatter \in Nat

Tiles == (0 .. MeshX - 1) \X (0 .. MeshY - 1)
Slots == 1 .. MaxGroups

NoBinary == [symbols |-> {}, barrier |-> FALSE]

VARIABLES
  loaded,   \* pod->program_loaded
  binary,   \* pod->program->bin, what the model needs of it
  tile,     \* pod->mesh->tiles[].status
  groups,   \* pod->tile_groups[]; slots above num are "NONE"
  num,      \* pod->num_tile_groups
  refs,     \* kernel->refcount, for the kernel of the grid that starts at a slot
  heap,     \* device buffers the execution engine holds: argv and barcfg
  host,     \* where the host thread is in kernels_execute
  running,  \* device: the work a tile executes, NoWork when it waits
  rqst,     \* packets on their way to the host or in its request FIFO
  epoch,    \* ghost: number of programs initialised on the pod
  chatter   \* number of packets sent that are not finish packets

hostVars   == <<host>>
podVars    == <<loaded, binary, tile, groups, num, refs, heap, epoch>>
deviceVars == <<running, rqst, chatter>>
vars == <<loaded, binary, tile, groups, num, refs, heap, host, running, rqst,
          epoch, chatter>>

(* Blocks of device memory are named after the launch that asks for them.  *)
Blocks  == Slots \X {"argv", "barcfg"}
NoBlock == <<0, "none">>

NoGroup ==
  [status |-> "NONE", dim |-> <<0, 0>>, origin |-> <<0, 0>>, epa |-> 0,
   kernel |-> 0, name |-> "none", argv |-> NoBlock, barcfg |-> NoBlock]

(* What a tile knows of the group it works for: the symbols it was given. *)
NoWork == [slot |-> 0, tiles |-> {}, src |-> <<0, 0>>, epa |-> 0]

(* The host thread between two calls of the interface. *)
IdleHost ==
  [pc |-> "idle", op |-> "none", podv |-> {}, todo |-> {},
   cur |-> CHOOSE p \in Pods : TRUE, idx |-> 0, failed |-> <<0, 0>>,
   wake |-> {}]

-----------------------------------------------------------------------------
(* Geometry *)

(* The order in which foreach_coordinate visits tiles: y moves first. *)
Before(a, b) == a[1] < b[1] \/ (a[1] = b[1] /\ a[2] <= b[2])

Footprint(o, d) ==
  {t \in Tiles : /\ o[1] <= t[1] /\ t[1] < o[1] + d[1]
                 /\ o[2] <= t[2] /\ t[2] < o[2] + d[2]}

GroupTiles(p, i) == Footprint(groups[p][i].origin, groups[p][i].dim)

(* Origins at which a group of dimensions d stays inside the mesh; none when *)
(* d exceeds the mesh, which the code reports as an error of the allocation. *)
Origins(d) == {o \in Tiles : o[1] + d[1] <= MeshX /\ o[2] + d[2] <= MeshY}

(* Mutant of FreeOrigins: only the tile at the origin is looked at.          *)
FreeOriginsCornerOnly(p, d) == {o \in Origins(d) : tile[p][o] = "FREE"}

FreeOrigins(p, d) ==
  {o \in Origins(d) : \A t \in Footprint(o, d) : tile[p][t] = "FREE"}

(* The finish address of the k-th group (from 0) of a grid, as a word offset. *)
FinishEpa(g, k) == (k % g[2]) * g[1] + (k \div g[2])

-----------------------------------------------------------------------------
(* Programs *)

Init ==
  /\ loaded  = [p \in Pods |-> FALSE]
  /\ binary  = [p \in Pods |-> NoBinary]
  /\ tile    = [p \in Pods |-> [t \in Tiles |-> "FREE"]]
  /\ groups  = [p \in Pods |-> [i \in Slots |-> NoGroup]]
  /\ num     = [p \in Pods |-> 0]
  /\ refs    = [p \in Pods |-> [i \in Slots |-> 0]]
  /\ heap    = [p \in Pods |-> {}]
  /\ host    = IdleHost
  /\ running = [p \in Pods |-> [t \in Tiles |-> NoWork]]
  /\ rqst    = {}
  /\ epoch   = [p \in Pods |-> 0]
  /\ chatter = 0

(* Fresh mesh, fresh list of groups; all tiles are frozen, loaded, given     *)
(* their configuration and unfrozen with no kernel.                          *)
ProgramInit(p, b) ==
  /\ host.pc = "idle"
  /\ ~loaded[p]
  /\ epoch[p] < MaxPrograms
  /\ loaded'  = [loaded EXCEPT ![p] = TRUE]
  /\ binary'  = [binary EXCEPT ![p] = b]
  /\ tile'    = [tile EXCEPT ![p] = [t \in Tiles |-> "FREE"]]
  /\ groups'  = [groups EXCEPT ![p] = [i \in Slots |-> NoGroup]]
  /\ num'     = [num EXCEPT ![p] = 0]
  /\ heap'    = [heap EXCEPT ![p] = {}]
  /\ running' = [running EXCEPT ![p] = [t \in Tiles |-> NoWork]]
  /\ epoch'   = [epoch EXCEPT ![p] = @ + 1]
  /\ UNCHANGED <<refs, host, rqst, chatter>>

(* All tiles are frozen, every unfinished group is cleaned up, the mesh, the *)
(* groups and the allocator are freed.  Packets already sent stay where they *)
(* are: the fence waits for the host's own requests only.                    *)
ProgramFinish(p) ==
  /\ host.pc = "idle"
  /\ loaded[p]
  /\ loaded'  = [loaded EXCEPT ![p] = FALSE]
  /\ binary'  = [binary EXCEPT ![p] = NoBinary]
  /\ tile'    = [tile EXCEPT ![p] = [t \in Tiles |-> "FREE"]]
  /\ groups'  = [groups EXCEPT ![p] = [i \in Slots |-> NoGroup]]
  /\ num'     = [num EXCEPT ![p] = 0]
  /\ refs'    = [refs EXCEPT ![p] =
                   [k \in Slots |->
                      refs[p][k] - Cardinality({i \in Slots :
                         /\ groups[p][i].status \notin {"NONE", "FINISHED"}
                         /\ groups[p][i].kernel = k})]]
  /\ heap'    = [heap EXCEPT ![p] = {}]
  /\ running' = [running EXCEPT ![p] = [t \in Tiles |-> NoWork]]
  /\ UNCHANGED <<host, rqst, epoch, chatter>>

-----------------------------------------------------------------------------
(* Enqueueing: one kernel object per grid, one tile group per grid point. *)

(* Mutants of NewGroup: no status is set; each group has a kernel of its own. *)
NewGroupUnset(first, g, d, k, i) ==
  [NoGroup EXCEPT !.dim = d, !.epa = FinishEpa(g, i - first), !.kernel = first,
                  !.name = k]

NewGroupOwnKernel(first, g, d, k, i) ==
  [NoGroup EXCEPT !.status = "INITIALIZED", !.dim = d,
                  !.epa = FinishEpa(g, i - first), !.kernel = i, !.name = k]

NewGroup(first, g, d, k, i) ==
  [status |-> "INITIALIZED", dim |-> d, origin |-> <<0, 0>>,
   epa |-> FinishEpa(g, i - first), kernel |-> first, name |-> k,
   argv |-> NoBlock, barcfg |-> NoBlock]

KernelEnqueue(p, g, d, k) ==
  LET first == num[p] + 1
      last  == num[p] + g[1] * g[2]
  IN  /\ host.pc = "idle"
      /\ loaded[p]
      /\ last <= MaxGroups
      /\ groups' = [groups EXCEPT ![p] =
                      [i \in Slots |-> IF i \in first .. last
                                         THEN NewGroup(first, g, d, k, i)
                                         ELSE groups[p][i]]]
      /\ num'    = [num EXCEPT ![p] = last]
      /\ refs'   = [refs EXCEPT ![p] = [@ EXCEPT ![first] = g[1] * g[2]]]
      /\ UNCHANGED <<loaded, binary, tile, heap, host, epoch, deviceVars>>

-----------------------------------------------------------------------------
(* The execute loops *)

(* Mutant of AllFinished: every group was launched.                          *)
AllLaunched(podv) ==
  \A p \in podv : \A i \in 1 .. num[p] : groups[p][i].status # "INITIALIZED"

AllFinished(podv) ==
  \A p \in podv : \A i \in 1 .. num[p] : groups[p][i].status = "FINISHED"

(* Mutant of Scanning: the shape that failed is remembered from the last scan. *)
ScanningKeepsFailed(p, todo) ==
  [host EXCEPT !.pc = "scan", !.cur = p, !.todo = todo, !.idx = 1, !.wake = {}]

(* podv_try_launch: scan pod p, and then the pods of todo. *)
Scanning(p, todo) ==
  [host EXCEPT !.pc = "scan", !.cur = p, !.todo = todo, !.idx = 1,
               !.failed = <<0, 0>>, !.wake = {}]

(* pod_kernels_execute on one pod *)
KernelsExecute(p) ==
  /\ host.pc = "idle"
  /\ host' = [host EXCEPT !.pc = "check", !.op = "pod", !.podv = {p}]
  /\ UNCHANGED <<podVars, deviceVars>>

(* podv_kernels_execute on several pods, in the order the caller lists them *)
KernelsExecuteV(podv) ==
  /\ host.pc = "idle"
  /\ \E p \in podv :
       host' = [Scanning(p, podv \ {p}) EXCEPT !.op = "podv", !.podv = podv]
  /\ UNCHANGED <<podVars, deviceVars>>

(* The loop condition: return, scan the pod (pod), or wait (podv). *)
Check ==
  /\ host.pc = "check"
  /\ \/ /\ AllFinished(host.podv)
        /\ host' = IdleHost
     \/ /\ ~AllFinished(host.podv)
        /\ host.op = "pod"
        /\ \E p \in host.podv : host' = Scanning(p, {})
     \/ /\ ~AllFinished(host.podv)
        /\ host.op = "podv"
        /\ host' = [host EXCEPT !.pc = "wait"]
  /\ UNCHANGED <<podVars, deviceVars>>

(* The group the scan looks at, and whether it is a candidate. *)
Current == groups[host.cur][host.idx]

(* Mutant of Candidate: only the width of the shape that failed is compared. *)
CandidateWidth ==
  /\ Current.status = "INITIALIZED"
  /\ Current.dim[1] # host.failed[1]

Candidate ==
  /\ Current.status = "INITIALIZED"
  /\ Current.dim # host.failed

(* A group that is not ready, or whose shape was the last one to fail. *)
ScanSkip ==
  /\ host.pc = "scan"
  /\ host.idx <= num[host.cur]
  /\ ~Candidate
  /\ host' = [host EXCEPT !.idx = @ + 1]
  /\ UNCHANGED <<podVars, deviceVars>>

(* No rectangle of free tiles of that shape: remember the shape. *)
ScanNoRoom ==
  /\ host.pc = "scan"
  /\ host.idx <= num[host.cur]
  /\ Candidate
  /\ FreeOrigins(host.cur, Current.dim) = {}
  /\ host' = [host EXCEPT !.idx = @ + 1, !.failed = Current.dim]
  /\ UNCHANGED <<podVars, deviceVars>>

(* allocate_tiles: the first origin whose tiles are all free. *)
AllocateTiles ==
  LET p == host.cur
      i == host.idx
  IN  /\ host.pc = "scan"
      /\ i <= num[p]
      /\ Candidate
      /\ \E o \in FreeOrigins(p, Current.dim) :
           /\ \A u \in FreeOrigins(p, Current.dim) : Before(o, u)
           /\ tile' = [tile EXCEPT ![p] =
                         [t \in Tiles |-> IF t \in Footprint(o, Current.dim)
                                            THEN "BUSY" ELSE tile[p][t]]]
           /\ groups' = [groups EXCEPT ![p][i].status = "ALLOCATED",
                                       ![p][i].origin = o]
      /\ host' = [host EXCEPT !.pc = "launch"]
      /\ UNCHANGED <<loaded, binary, num, refs, heap, epoch, deviceVars>>

(* The head of launch: argv is allocated and written, then the barrier       *)
(* configuration when the program has one, then the kernel is looked up.  A  *)
(* missing kernel makes kernels_execute return an error, with the group      *)
(* left ALLOCATED.                                                           *)
LaunchPrepare ==
  LET p      == host.cur
      i      == host.idx
      argv   == <<i, "argv">>
      barcfg == IF binary[p].barrier THEN <<i, "barcfg">> ELSE NoBlock
      found  == Current.name \in binary[p].symbols
  IN  /\ host.pc = "launch"
      /\ groups' = [groups EXCEPT ![p][i].argv = argv, ![p][i].barcfg = barcfg]
      /\ heap' = [heap EXCEPT ![p] = @ \cup ({argv, barcfg} \ {NoBlock})]
      /\ \/ /\ found
            /\ host' = [host EXCEPT !.pc = "wake", !.wake = GroupTiles(p, i)]
         \/ /\ ~found
            /\ host' = IdleHost
      /\ UNCHANGED <<loaded, binary, tile, num, refs, epoch, deviceVars>>

(* Memory is full when argv is allocated, or with argv allocated when the    *)
(* barrier configuration is.  malloc reports neither, but the copy to the    *)
(* address it gives fails, and kernels_execute returns an error with the     *)
(* group left ALLOCATED.                                                     *)
LaunchRunsOut ==
  LET p == host.cur
      i == host.idx
  IN  /\ MemoryRunsOut
      /\ host.pc = "launch"
      /\ \E argv \in {NoBlock, <<i, "argv">>} :
           /\ argv # NoBlock => binary[p].barrier
           /\ groups' = [groups EXCEPT ![p][i].argv = argv]
           /\ heap' = [heap EXCEPT ![p] = @ \cup ({argv} \ {NoBlock})]
      /\ host' = IdleHost
      /\ UNCHANGED <<loaded, binary, tile, num, refs, epoch, deviceVars>>

(* What the configuration and runtime symbols tell a tile of its group. *)
WorkOf(p, i) ==
  [slot |-> i, tiles |-> GroupTiles(p, i), src |-> groups[p][i].origin,
   epa |-> groups[p][i].epa]

(* tile_set_runtime_symbols on the next tile; its last write, to             *)
(* cuda_kernel_ptr, wakes the tile up.                                       *)
WakeTile ==
  /\ host.pc = "wake"
  /\ \E t \in host.wake :
       /\ \A u \in host.wake : Before(t, u)
       /\ running' = [running EXCEPT ![host.cur][t] = WorkOf(host.cur, host.idx)]
       /\ host' = [host EXCEPT !.wake = @ \ {t}]
  /\ UNCHANGED <<podVars, rqst, chatter>>

(* All tiles are awake: the group is LAUNCHED and the scan goes on. *)
LaunchDone ==
  /\ host.pc = "wake"
  /\ host.wake = {}
  /\ groups' = [groups EXCEPT ![host.cur][host.idx].status = "LAUNCHED"]
  /\ host' = [host EXCEPT !.pc = "scan", !.idx = @ + 1]
  /\ UNCHANGED <<loaded, binary, tile, num, refs, heap, epoch, deviceVars>>

(* Mutant of ScanEnd: the pod's loop scans again without reading a packet.   *)
ScanEndNeverWaits ==
  /\ host.pc = "scan"
  /\ host.idx > num[host.cur]
  /\ \/ \E p \in host.todo : host' = Scanning(p, host.todo \ {p})
     \/ host.todo = {} /\ host' = [host EXCEPT !.pc = "check"]
  /\ UNCHANGED <<podVars, deviceVars>>

(* The end of the list: the next pod, or back to the caller of the scan. *)
ScanEnd ==
  /\ host.pc = "scan"
  /\ host.idx > num[host.cur]
  /\ \/ \E p \in host.todo : host' = Scanning(p, host.todo \ {p})
     \/ /\ host.todo = {}
        /\ host.op = "pod"
        /\ host' = [host EXCEPT !.pc = "wait"]
     \/ /\ host.todo = {}
        /\ host.op = "podv"
        /\ host' = [host EXCEPT !.pc = "check"]
  /\ UNCHANGED <<podVars, deviceVars>>

-----------------------------------------------------------------------------
(* Waiting for a tile group to finish *)

(* Mutants of Matches: the origin, the status, or the last group is ignored. *)
MatchesEpaOnly(m) ==
  {i \in 1 .. num[m.pod] : /\ groups[m.pod][i].status = "LAUNCHED"
                            /\ groups[m.pod][i].epa = m.epa}

MatchesAnyStatus(m) ==
  {i \in 1 .. num[m.pod] : /\ groups[m.pod][i].origin = m.src
                            /\ groups[m.pod][i].epa = m.epa}

MatchesNotLast(m) ==
  {i \in 1 .. num[m.pod] - 1 : /\ groups[m.pod][i].status = "LAUNCHED"
                                /\ groups[m.pod][i].origin = m.src
                                /\ groups[m.pod][i].epa = m.epa}

(* The groups a finish packet can stand for, as the host sees it. *)
Matches(m) ==
  {i \in 1 .. num[m.pod] :
     /\ groups[m.pod][i].status = "LAUNCHED"
     /\ groups[m.pod][i].origin = m.src
     /\ groups[m.pod][i].epa = m.epa}

(* Mutant of Buffers: tile_group_exit forgets the barrier configuration.     *)
ArgvOnly(g) == {g.argv}

(* The device buffers that tile_group_exit frees.                            *)
Buffers(g) == {g.argv, g.barcfg}

(* deallocate_tiles and tile_group_exit *)
Retire(p, i) ==
  LET g == groups[p][i]
  IN  /\ tile' = [tile EXCEPT ![p] = [t \in Tiles |->
                    IF t \in GroupTiles(p, i) THEN "FREE" ELSE tile[p][t]]]
      /\ heap' = [heap EXCEPT ![p] = @ \ Buffers(g)]
      /\ refs' = [refs EXCEPT ![p][g.kernel] = @ - 1]
      /\ groups' = [groups EXCEPT ![p][i].status = "FINISHED",
                                  ![p][i].dim = <<0, 0>>,
                                  ![p][i].origin = <<0, 0>>,
                                  ![p][i].kernel = 0]

(* After a retirement, pod goes back to its loop condition and podv scans    *)
(* the pod the packet came from.                                             *)
ReceiveFinish(m) ==
  /\ host.pc = "wait"
  /\ m.data = "finish"
  /\ \E i \in Matches(m) :
       /\ \A j \in Matches(m) : i <= j
       /\ Retire(m.pod, i)
  /\ rqst' = rqst \ {m}
  /\ host' = IF host.op = "pod" THEN [host EXCEPT !.pc = "check"]
                                ELSE Scanning(m.pod, {})
  /\ UNCHANGED <<loaded, binary, num, epoch, running, chatter>>

(* Not a finish packet, or no group matches: read the next packet. *)
ReceiveOther(m) ==
  /\ host.pc = "wait"
  /\ m.data # "finish" \/ Matches(m) = {}
  /\ rqst' = rqst \ {m}
  /\ UNCHANGED <<podVars, host, running, chatter>>

(* A responder that serves the packet fails: kernels_execute returns. *)
ReceiveFails(m) ==
  /\ host.pc = "wait"
  /\ ResponderFails
  /\ m.data = "other"
  /\ rqst' = rqst \ {m}
  /\ host' = IdleHost
  /\ UNCHANGED <<podVars, running, chatter>>

-----------------------------------------------------------------------------
(* The device *)

(* All tiles of the group at origin t were woken and have returned from the  *)
(* kernel: the tiles go back to waiting and t sends the finish packet.       *)
DeviceFinish(p, t) ==
  LET w == running[p][t]
  IN  /\ w.slot # 0
      /\ w.src = t
      /\ \A u \in w.tiles : running[p][u] = w
      /\ running' = [running EXCEPT ![p] = [u \in Tiles |->
                       IF u \in w.tiles THEN NoWork ELSE running[p][u]]]
      /\ rqst' = rqst \cup
           {[data |-> "finish", pod |-> p, src |-> t, epa |-> w.epa,
             from |-> <<epoch[p], w.slot>>]}
      /\ UNCHANGED <<podVars, host, chatter>>

(* A running tile sends a packet that is served by a responder, or nothing. *)
DeviceChatter(p, t) ==
  /\ running[p][t].slot # 0
  /\ chatter < MaxChatter
  /\ chatter' = chatter + 1
  /\ rqst' = rqst \cup
       {[data |-> "other", pod |-> p, src |-> t, epa |-> 0,
         from |-> <<epoch[p], 0>>]}
  /\ UNCHANGED <<podVars, host, running>>

-----------------------------------------------------------------------------

Client ==
  \/ \E p \in Pods, b \in Binaries : ProgramInit(p, b)
  \/ \E p \in Pods : ProgramFinish(p)
  \/ \E p \in Pods, g \in GridDims, d \in Dims, k \in Names :
       KernelEnqueue(p, g, d, k)
  \/ \E p \in Pods : KernelsExecute(p)
  \/ \E podv \in SUBSET Pods : KernelsExecuteV(podv)

Receive ==
  \E m \in rqst : ReceiveFinish(m) \/ ReceiveOther(m) \/ ReceiveFails(m)

Host ==
  \/ Check
  \/ ScanSkip \/ ScanNoRoom \/ AllocateTiles \/ ScanEnd
  \/ LaunchPrepare \/ LaunchRunsOut \/ WakeTile \/ LaunchDone
  \/ Receive

Device ==
  \/ \E p \in Pods, t \in Tiles : DeviceFinish(p, t)
  \/ \E p \in Pods, t \in Tiles : DeviceChatter(p, t)

Next == Client \/ Host \/ Device

Spec == Init /\ [][Next]_vars

(* The host thread is scheduled and keeps reading its request FIFO, and      *)
(* kernels terminate.  Nothing makes a client call, or a tile send chatter.  *)
Fairness ==
  /\ WF_vars(Host)
  /\ \A p \in Pods, t \in Tiles : WF_vars(DeviceFinish(p, t))

FairSpec == Spec /\ Fairness

-----------------------------------------------------------------------------
(* Types *)

Coords == Nat \X Nat

GroupType ==
  [status : {"NONE", "INITIALIZED", "ALLOCATED", "LAUNCHED", "FINISHED"},
   dim : Coords, origin : Coords, epa : Nat, kernel : {0} \cup Slots,
   name : Names \cup {"none"}, argv : Blocks \cup {NoBlock},
   barcfg : Blocks \cup {NoBlock}]

WorkType ==
  [slot : {0} \cup Slots, tiles : SUBSET Tiles, src : Coords, epa : Nat]

HostType ==
  [pc : {"idle", "check", "scan", "launch", "wake", "wait"},
   op : {"none", "pod", "podv"}, podv : SUBSET Pods, todo : SUBSET Pods,
   cur : Pods, idx : Nat, failed : Coords, wake : SUBSET Tiles]

PacketType ==
  [data : {"finish", "other"}, pod : Pods, src : Coords, epa : Nat,
   from : Nat \X ({0} \cup Slots)]

(* Every variable has its type, and the list of groups is as long as the pod *)
(* says it is.                                                               *)
TypeOK ==
  /\ loaded  \in [Pods -> BOOLEAN]
  /\ binary  \in [Pods -> [symbols : SUBSET Names, barrier : BOOLEAN]]
  /\ tile    \in [Pods -> [Tiles -> {"FREE", "BUSY"}]]
  /\ groups  \in [Pods -> [Slots -> GroupType]]
  /\ num     \in [Pods -> 0 .. MaxGroups]
  /\ refs    \in [Pods -> [Slots -> Int]]
  /\ heap    \in [Pods -> SUBSET Blocks]
  /\ host    \in HostType
  /\ running \in [Pods -> [Tiles -> WorkType]]
  /\ rqst    \subseteq PacketType
  /\ epoch   \in [Pods -> Nat]
  /\ chatter \in Nat
  /\ \A p \in Pods, i \in Slots : groups[p][i].status = "NONE" <=> i > num[p]

-----------------------------------------------------------------------------
(* Safety *)

(* The groups that own tiles. *)
Holding(p) ==
  {i \in Slots : groups[p][i].status \in {"ALLOCATED", "LAUNCHED"}}

(* Two groups that hold tiles of a pod hold disjoint rectangles, and the     *)
(* mesh marks BUSY exactly the tiles that some group holds: allocate_tiles,  *)
(* deallocate_tiles and the error paths between them never lose a tile or    *)
(* give one away twice.                                                      *)
TileOwnership ==
  \A p \in Pods :
    /\ \A i, j \in Holding(p) :
         i # j => GroupTiles(p, i) \cap GroupTiles(p, j) = {}
    /\ \A t \in Tiles :
         tile[p][t] = "BUSY" <=> \E i \in Holding(p) : t \in GroupTiles(p, i)

(* The device buffers alive are those of the groups that hold tiles: launch  *)
(* and tile_group_exit leak no argv and no barrier configuration, whichever  *)
(* way execute returns, and a group is LAUNCHED with its argv alive.         *)
BuffersOfHolders ==
  \A p \in Pods :
    /\ heap[p] = (UNION {{groups[p][i].argv, groups[p][i].barcfg} : i \in Holding(p)})
                   \ {NoBlock}
    /\ \A i \in Slots : groups[p][i].status = "LAUNCHED" =>
         groups[p][i].argv \in heap[p]

(* A kernel object is released (refcount 0) exactly when every group of its  *)
(* grid is finished: no group is launched with a freed name and argv.        *)
KernelReferences ==
  \A p \in Pods, k \in Slots :
    refs[p][k] = Cardinality({i \in Slots :
                    /\ groups[p][i].status \notin {"NONE", "FINISHED"}
                    /\ groups[p][i].kernel = k})

(* Whatever a tile executes, it executes for the group that holds it, under  *)
(* the origin and finish address the host has for that group: the host never *)
(* hands a running tile to another group.                                    *)
RunningOwned ==
  \A p \in Pods, t \in Tiles :
    LET w == running[p][t]
    IN  w.slot # 0 => /\ w.slot \in Holding(p)
                      /\ t \in GroupTiles(p, w.slot)
                      /\ w = WorkOf(p, w.slot)

(* A finish packet on its way stands for exactly one group, the one that     *)
(* sent it: the host cannot retire another group on it.                      *)
FinishIdentifiesSender ==
  \A m \in rqst : m.data = "finish" =>
    /\ m.from[1] = epoch[m.pod]
    /\ \A i \in Matches(m) : i = m.from[2]
    /\ host.pc = "wait" => m.from[2] \in Matches(m)

(* When the host waits, no group that is still to be launched fits in the    *)
(* free tiles of a pod it executes: skipping the shape that last failed, and *)
(* scanning only the pod that last finished a group, leave no room unused.   *)
NoRoomLeft ==
  host.pc = "wait" =>
    \A p \in host.podv, i \in Slots :
      groups[p][i].status = "INITIALIZED" => FreeOrigins(p, groups[p][i].dim) = {}

(* The host waits only for a packet that a launched group has sent or will   *)
(* send: it never blocks on an empty request FIFO with nothing running.      *)
WaitHasSender ==
  host.pc = "wait" =>
    \E p \in Pods, i \in Slots :
      /\ groups[p][i].status = "LAUNCHED"
      /\ \/ \E m \in rqst : m.data = "finish" /\ i \in Matches(m)
         \/ \A t \in GroupTiles(p, i) : running[p][t].slot = i

(* kernels_execute returns success only when every tile of its pods is done  *)
(* with the kernels that were enqueued.                                      *)
ExecuteCompletes ==
  [][host.pc = "check" /\ host'.pc = "idle" =>
       \A p \in host.podv, t \in Tiles : running[p][t].slot = 0]_vars

(* A call to kernels_execute returns. *)
ExecuteReturns == host.pc # "idle" ~> host.pc = "idle"

=============================================================================

# Verification of the CUDA-lite host runtime

This directory holds TLA+ models of the host side of BSG Manycore's CUDA-lite
(`libraries/`) and of one kernel that runs on it, the TLC configurations that
check them, and theorems about them that TLAPS checks. Paths below are relative to `src/libraries/` unless they say
otherwise.

## 1. Inventory

| Component | State | Operations | Hard behaviour |
|---|---|---|---|
| **Execution engine** `bsg_manycore_cuda.cpp` | per pod: program, mesh of tiles with a status, list of tile groups, kernels with a reference count | program init / finish, kernel enqueue, kernels execute on one pod and on several, wait for any finish packet | tiles run while the host scans; finish packets arrive in any order; a launch or a responder fails half way; packets outlive programs |
| **Device memory** `bsg_manycore_cuda.cpp` (malloc, free) | the allocator of the program on a pod | malloc, free, program init / finish | 32-bit addresses over a 64-bit allocator; buffers held by the engine and by clients |
| **Memory manager** `bsg_manycore_memory_manager.cpp` | free list, busy list, free byte count | alloc, free, coalesce, reset, reserve, lookup | unsorted list, coalesced only above a threshold |
| **Copies and DMA** `bsg_manycore_cuda.cpp`, `features/dma` | none | memcpy, memset, dma to device / host | order of DMA, cache maintenance and ordinary writes |
| **Replicated API** `bsg_manycore_cuda_legacy_replicate.cpp` | none | the single-pod API over all pods | a pod that fails; pods whose memory managers disagree |
| **Manycore interface** `bsg_manycore.cpp` | FIFOs, id of loads in flight, cached DRAM mode | init / exit, read, write, request and response rx / tx, cache maintenance, fence | responses out of order, reuse of load ids, credits |
| **Victim cache** `bsg_manycore_vcache.cpp` and ranges in `bsg_manycore.cpp` | cache tags on the device | flush, invalidate, mark dirty over ranges | every line of every stripe of a range |
| **EVA maps** `bsg_manycore_eva.cpp`, `bsg_manycore_origin_eva_map.cpp` | none | EVA to NPA, NPA to EVA, sizes | inverse of each other; bounds of each segment |
| **Hardware barrier** `bsg_manycore_cuda_barrier.h` | none | value of a tile's barrier register | the values of a group form one tree |
| **Harris kernel** `src/examples/apps/harris_color/kernel.cpp` | arrays in the tiles' memory, `Output` in DRAM | warm-up, four phases with a barrier after each | tiles read each other's memory; stores overtake |
| **Platform** `platforms/*/bsg_manycore_platform.cpp` | simulator, FIFOs, credits | init / cleanup, transmit, receive, fence, credits | drain at start-up, back pressure, fence |
| **Endpoint adapter** `src/hardware/bsg_manycore_endpoint_to_fifos.sv` | FIFO occupancy | request and response paths | credit and FIFO limits |
| **Loader, ELF** `bsg_manycore_loader.cpp` | none | load segments, look up symbols | segment bounds, per-tile and shared sections |
| **Responders** `bsg_manycore_responder.cpp`, `*_responder.cpp` | list of responders, uart buffers | add, delete, respond | a failure in the middle of the list |
| **Configuration** `bsg_manycore_config.cpp` | a record | parse the ROM | bounds of its fields |
| Printing, tracing, profiling | none | output | none |

How they interact: a client calls the execution engine, which calls the memory
manager, the loader and the EVA maps directly and reaches the tiles through the
manycore interface: writes to DRAM and to tiles go out as requests, finish
packets come back through the request FIFO, where every packet first visits the
responders (`bsg_manycore.cpp:304-320`). One host thread does all of this; the
tiles are the concurrency.

What makes the components correct:

* Execution engine: a tile belongs to one group at a time and is never handed
  over while it runs; a group is retired on its own finish packet; execute
  returns, and only when the work is done; tiles, device buffers and kernels are
  released exactly once on every path.
* Device memory and memory manager: free and busy buffers partition the region
  at all times; success means that the memory is the caller's.
* Manycore interface: every read is answered with its own response; the number
  of loads and requests in flight respects ids and credits.
* Victim cache and DMA: after maintenance over a range nothing stale is read in it.
* EVA maps: translation is injective within a map and its inverse is one.
* Platform: initialisation leaves empty FIFOs; a fence returns when everything
  sent has arrived.
* Hardware barrier: every tile's value reaches the root, the root's reaches every
  tile, and no tile goes on before all have arrived.
* Harris kernel: rows of other tiles are complete when they are read and exist
  until they have been read; `Output` is complete when a tile returns.

The hazards, each at its line, are in `PROJECT.json`.

## 2. Modules

    JobQueue  <-- TileGroupsRefines --> TileGroups <-- TileGroupsProofs
                    ^      ^                              ^
           MCTileGroups    +-- TileGroupsExecuteProofs ---+

    Allocator <-- PodMemory <-- DeviceReplicate <-- MCDeviceReplicate, MemoryProofs
                   |     ^
                   v     RepeatedAllocation <-- MCRepeatedAllocation
              MemoryManager

    WordMemory <-- HostMemory <-- MCHostMemory, HostMemoryProofs

    DramMap <-- DeviceCopies <-- DeviceCopiesProofs (with DramMapProofs)
       ^             ^
       |       MCDeviceCopies --> EvaMap
    EvaMap --> PodGeometry
       ^
    EvaMapProofs (with DramMapProofs)

    HarrisKernel <-- HarrisBarrier --> BarrierTree
                           ^
                MCHarrisBarrier, HarrisProofs

Arrows point to the module that is extended or instantiated. The layers fit
together by what each promises the next: `HostMemory` shows that a store has
landed when its call returns and that a read returns the words of its
addresses; `DeviceCopies` takes a load or a store as one step for that reason
and shows that copies find the words last written; `TileGroups` takes a launch's
writes as done when the next call starts.

### TileGroups

The execution engine and the tiles it drives.

| Variable | Code |
|---|---|
| `loaded`, `binary` | `pod->program_loaded`, what the engine asks of `pod->program->bin`: which kernels it has, and whether it has `__cuda_barrier_cfg` |
| `tile` | `pod->mesh->tiles[].status` |
| `groups`, `num` | `pod->tile_groups[]`, `pod->num_tile_groups`; a slot above `num` is `"NONE"` |
| `refs` | `kernel->refcount`; a kernel is named after the first slot of its grid |
| `heap` | device buffers held by launches: `argv_eva`, `barcfg_eva` |
| `host` | where the host thread is: in which call, on which pod and group, `last_failed`, the tiles still to be woken |
| `running`, `rqst` | the device: what each tile executes, packets under way or in the request FIFO |
| `epoch` | ghost: which program of the pod sent a packet |

| Action | Code (`bsg_manycore_cuda.cpp`) |
|---|---|
| `ProgramInit` | `hb_mc_device_pod_program_init_binary_opts`, with mesh, tile group and program load |
| `ProgramFinish` | `hb_mc_device_pod_program_finish`, with the exit of all unfinished groups |
| `KernelEnqueue` | `hb_mc_device_pod_kernel_enqueue`, all groups of the grid |
| `KernelsExecute`, `KernelsExecuteV`, `Check` | the two execute loops and their condition |
| `ScanSkip`, `ScanNoRoom`, `AllocateTiles`, `ScanEnd` | one iteration or the end of `try_launch_tile_groups` |
| `LaunchPrepare`, `WakeTile`, `LaunchDone` | `tile_group_launch`, cut where a tile can run: each wake-up is a step |
| `LaunchRunsOut` | `tile_group_launch` when device memory is full, at the argument vector or, with that taken, at the barrier configuration |
| `ReceiveFinish`, `ReceiveOther`, `ReceiveFails` | one iteration of the wait loop |
| `DeviceFinish`, `DeviceChatter` | external: the tiles' runtime |

The host thread's steps are cut where the device can act or a call can fail.
Allocation is one step because the tiles it marks do nothing in between.
A launch that finds memory full (`MemoryRunsOut`) fails although malloc succeeds
(`malloc_full`): the copy to the address it gives is refused. A kernel without
arguments copies nothing and would go on without a vector; the model takes argument
vectors of at least one word.
`rqst` is a set because packets of different tiles reach the host in any order;
a packet is consumed when it is read. A set cannot hold two equal packets, and
never has to: a finish packet carries (as a ghost) the program and slot it was
sent for, each of which finishes once, and equal chatter is not told apart.

Properties: `TypeOK`; `TileOwnership`, `BuffersOfHolders`, `KernelReferences`
(accounting, on every path); `RunningOwned`, `FinishIdentifiesSender` (host and
device agree); `NoRoomLeft`, `WaitHasSender`, `ExecuteCompletes`,
`ExecuteReturns` (the loops). `ExecuteReturns` is a liveness property under
`FairSpec`.

### JobQueue and TileGroupsRefines

`JobQueue` says what a client is promised, without host thread, tiles or packets:
a job is queued, placed on an area nobody else holds, ends, and is done only
after it ended. `TileGroupsRefines` maps a tile group to a job: it has *ended*
while its finish packet is under way. `ImplementsQueue` is the refinement,
`PlacedIsRetired` its liveness.

### MemoryManager and Allocator

`MemoryManager` has no state of its own: a manager is a record of its free list,
busy list and counter, and each operation is the operator that gives the manager
after it, so that modules can keep one for each pod. The free list is the sequence
that the code keeps, in its order; the busy list is a set because only addresses are
looked up in it. `Allocator` promises aligned, disjoint blocks inside the region,
given back whole; `ImplementsAllocator` is the refinement, pod by pod. `Partition`,
`LongListCoalesced` and `FreeSizeExact` are the invariants of the two lists.

### PodMemory, DeviceReplicate and RepeatedAllocation

`PodMemory` puts a manager behind `hb_mc_device_pod_malloc` and `_free` of every pod,
with their 32-bit addresses. `RepeatedAllocation` adds the client of
`src/examples/cuda/test_memory_leak/main.cpp` and the two buffers of a launch.

`DeviceReplicate` is `bsg_manycore_cuda_legacy_replicate.cpp`: one address for all
pods. Its loops stop at the first pod that returns an error (`Reached`). Between two
calls of the client, an execute allocates an argument vector for each group of each pod
and frees it when the group ends, in an order of the pod's own, which leaves
the pods with free lists in different orders. `SuccessIsEverywhere`: what a successful
malloc returned is the same block in every pod until it is freed, also after
mallocs that failed or disagreed, an execute that failed, a `program_init` that stopped
half way, and a `program_finish`, which is that of the default pod only. `NothingStranded`:
as long as no call fails, all memory in use belongs to the client or to a running group.
The host is one thread and only the host touches a manager, so a loop over pods
is one step.

### HostMemory and WordMemory

`HostMemory` is the word-sized part of `bsg_manycore.cpp` on
`platforms/bigblade-vcs/bsg_manycore_platform.cpp`: the host thread in a call,
the transmit and the response FIFO, the network and the nodes.

| Variable | Code |
|---|---|
| `pc`, `call`, `rqst_i`, `rsp_i`, `ids`, `id_to_rsp_i`, `result` | the locals of `read_mem_internal` and of the loops of `write_mem` and `memset` |
| `tx`, `rx`, `pending` | the FIFOs; responses that the DPI layer expects or holds |
| `net`, `back`, `mem` | external: requests and responses under way, words of the nodes |
| `broken` | ghost: a read has failed with responses outstanding |

| Action | Code |
|---|---|
| `Begin` | entry of any of the functions |
| `Store`, `StoreReturns` | one iteration of `write_mem` or `memset`, their fence; `write8/16/32` without fence |
| `SendSingle`, `TakeSingle` | `read8/16/32`, `amoadd32` |
| `Request`, `RequestFails`, `Respond` | the two inner loops of `read_mem_internal` and its error path |
| `Inject`, `Serve`, `GiveBack` | external: endpoint, node, and the way back |

The network keeps the order of requests to one node and no other, which is why
load ids are needed. `LoadIdConserved`: an id is on the stack or in flight, never
both. `ResponsesFit`: the response FIFO has room although the endpoint ignores
its full flag. `WriteLanded`: the fence waits for all. `ImplementsMemory` refines
`WordMemory`, a memory that takes one call at a time: a word is mapped to its
value with all requests under way applied. After a read that failed half way
`WordMemory` promises nothing about reads, because the code does not: responses
to its first words stay behind with load ids that the next read uses again.
`ReadsReturnMemory` makes no such exception, and `failed_read` shows it violated.

### DramMap, PodGeometry and EvaMap

Pure operators. `PodGeometry` is `bsg_manycore_config_pod.h`: which coordinate
is a tile, a cache or the host, of which pod, and the numbers of the caches.
`DramMap` is the striping of DRAM over the caches, `EvaMap` all segments of the
default map both ways. Addresses count words. The bits of an EVA are quotients
and remainders of powers of two that the code fixes.

### DeviceCopies

memcpy, memset, DMA, victim caches and kernels on one DRAM. A cache is a set of
slots with tag, block and dirty flag; which slot of a set a line takes is free.
Flushes and invalidations are stores to tags that the cache serves later, in
order; the host knows of it only through a load that returns (`ReadBack`) or a
fence.

| Action | Code |
|---|---|
| `Call` | entry of `memcpy_to_device`, `memcpy_to_host`, `dma_to_device`, `dma_to_host`, a launch; DMA begins with the stores of `pod_flush_vcache` |
| `ReadBack` | the loads of `pod_flush_vcache` |
| `Translate`, `TranslateFails`, `NextJob` | loop heads of `eva_write_internal`, `eva_read_internal`, `eva_memset` and of the DMA job list |
| `StoreWord`, `LoadWord`, `Fence` | word transfers through the caches |
| `DmaWrite`, `DmaRead` | one segment around the caches |
| `Return` | end of the call, with `pod_invalidate_vcache` after a DMA to the device |
| `Launch`, `TileLoad`, `TileStore`, `KernelEnds` | tiles that use the DRAM between launch and finish |
| `ServeInvalidate`, `ServeFlush` | external: the caches |

`Coherent` is the property the order of these steps is for: a load finds the
word last written once what is pending at its cache has been served. It excepts
exactly the words that a failed DMA has written and not invalidated.

### BarrierTree, HarrisKernel and HarrisBarrier

`BarrierTree` holds the output and the input mask that
`hb_mc_hw_barrier_csr_val` computes for each tile. `HarrisKernel` is the corner
detection of `examples/apps/harris_color`, with the barrier as one step. Of the
pixels it keeps the set of columns in which a row is what the algorithm asks
for; an out-of-step or misplaced read makes it smaller. `HarrisBarrier` replaces
the barrier by nodes and wires: `BarSend` and `BarRecv` of a tile, `Gather` up
the tree, `Release` down it. `ImplementsKernel` says that this is the barrier
that the kernel relies on.

`HaloReady`: while a tile computes, the rows it reads from others are right and
stay so. `OutputRight`: when any tile returns, `Output` is complete and no zero
of the warm-up is to come. `KernelReturns`: no tile waits for ever.

## 3. Runs

| Run | Configuration | What it shows |
|---|---|---|
| `tile_groups` | one pod of 2x2 tiles; groups of one tile, of a row, of the mesh; grids of one and two groups; 3 groups; 2 programs; 1 packet that is not a finish | no failures: `TypeOK RunningOwned FinishIdentifiesSender NoRoomLeft ExecuteCompletes ImplementsQueue` |
| `pods` | two pods of 2x1 tiles, 2 groups each, one program | `podv_kernels_execute`: `NoRoomLeft WaitHasSender ExecuteReturns PlacedIsRetired` |
| `faults` | one pod of a row of 3 tiles, kernels that do not exist, device memory that runs out, responders that fail, two programs, 3 groups | accounting: `TileOwnership BuffersOfHolders KernelReferences` |
| `pod_memory` | two pods of 6 units of memory, threshold 2; requests of nothing and of 3 bytes; 2 groups in each pod; 1 failing call per program | the memory manager behind malloc and free of all pods: `MemoryTypeOK Partition LongListCoalesced FreeSizeExact SuccessIsEverywhere NothingStranded ImplementsAllocator` |
| `host_memory` | a DRAM node and a tile, three words; 2 load ids, 2 credits, a transmit FIFO of one; reads of three words, a word twice, invalid addresses first and second | `TypeOK LoadIdConserved ResponsesFit WriteLanded ImplementsMemory CallReturns` |
| `device_copies` | two columns, four caches of one slot for two lines, 16 words; 7 calls | `CopiesTypeOK Coherent InvalidationLosesNothing FlushedForDma ReadsReturnLatest CopiesReturn` |
| `harris` | six tiles on a row of six nodes, `N_X` = 8 | `KernelTypeOK HaloReady OutputRight ImplementsKernel KernelReturns` |
| `stale_finish` | as `faults` on 2x1 | violation of `ExecuteCompletes` |
| `oversized` | a group of three tiles on a mesh of two | violation of `ExecuteReturns` |
| `malloc_full` | one pod of 7 units | violation of `MallocSuccessIsLive` |
| `failed_read` | as `host_memory` | violation of `ReadsReturnMemory` |
| `memory_leak_test` | 12 units, threshold 4, three buffers | violation of `AddressesMatch` |

Bounds.

* `tile_groups`, `pods`, `faults`: three groups on four tiles are enough for a
  group that must wait while two others hold disjoint or differently shaped
  areas, for two groups at different origins with one finish address (two
  grids), for a third one to get the area of a retired one, and for
  `last_failed` to hide a group behind another shape. Two programs are enough
  for a packet of one to meet a group of the next; a longer chain of restarts
  only delays the same meeting. Two pods of two tiles make the scan of the wrong
  pod visible.
* The memory runs use a region of a few cache lines and the threshold 2 instead
  of 4, so that a list above the threshold, of buffers that are not adjacent,
  still fits; the threshold is a parameter of the code's class.
  `memory_leak_test` keeps the threshold 4 and the three buffers of the test.
* `host_memory`: three words are more than the two load ids, so ids are used
  twice in one read; two nodes reorder responses; one place in the transmit FIFO
  and two credits make the host wait for each. One read fails half way (the
  guard in `Begin`): a second one would hold capacity the same way, and with all
  of it held nothing can be said to return.
* `pod_memory`: six units leave room for three free buffers that do not touch, one
  more than the threshold, and for blocks of two sizes in between. Two groups in each
  pod are enough for lists that differ between pods although no call has failed, and one
  failing call for pods that hold different blocks; what follows a second failure
  starts from states of the same kind. The address of null is no address of the region.
* `device_copies`: one slot for the two lines behind a cache makes every second
  access replace a line; the calls start inside a stripe, cross one, have two
  jobs, overlap each other, run past the end of DRAM, and alternate with kernels
  that use a word of each of the two lines that compete for a slot.
* `harris`: the six tiles hold the first and the last strip and those on both
  sides of the seam between the upper and lower rows of tiles, where the maps of
  neighbours have their special cases; the theorems cover all 32. Six nodes in a
  row with the centre at the fourth have links of both kinds, neighbour and
  ruche.

`faults`, `host_memory`, `harris` and the violation runs do not check deadlock:
an execute whose launch failed leaves an `ALLOCATED` group that a later execute
waits for without end (`oversized`: the same wait); after a read that failed half
way the host may wait for capacity that never comes back; the kernel ends.

Fairness. `FairSpec` has weak fairness of the host's steps (one thread that runs
or polls its FIFO) and of each group's `DeviceFinish`, the assumption that
kernels terminate. Nothing makes a client call or a tile send other packets.
Each packet can be skipped over while others are read; the number of packets is
bounded by the groups and `MaxChatter`, so each is read in the end.
`HostMemory`: the host thread, the endpoint and each node run. `DeviceCopies`:
the host thread runs and the caches serve; nothing makes a kernel end, and
`CopiesReturn` does not ask for it. `HarrisBarrier`: `WF(BarrierNext)` alone.
Every step of a tile, a store or a wire is taken once per phase, so weak
fairness of the whole is enough and nothing stronger is assumed of any tile.

### Findings

* **A finish packet can outlive its program** (`stale_finish`). After a failed
  execute the client finishes the program while a group still runs, or after its
  packet was sent. `program_finish` freezes the tiles and fences the host's own
  requests, but leaves the request FIFO as it is. The next program's execute may
  take the packet for one of its own group at the same origin and finish address.
* **An oversized tile group hangs execute** (`oversized`).
* **malloc on full memory succeeds** (`malloc_full`): the 64-bit null is compared
  after truncation to 32 bits.
* **A read that fails half way corrupts the next one** (`failed_read`).
  `read_mem_internal` returns its error with responses outstanding
  (`bsg_manycore.cpp:1103`) and nothing drains them. A later read takes one for its
  own and returns success with the word of another address.
* **The test for leaks can fail without one** (`memory_leak_test`), for programs
  with a hardware barrier, because adjacent buffers stay apart in a short list.

Met while modelling, without a run of their own: a replicated malloc fails with
memory to spare, and keeps what it took in every pod, once groups have ended in
different orders in two pods, without any other failure. TLC shows it also for the code's
threshold of 4, with five groups of one argument vector in each pod and twelve units of
memory (`Malloc` in `DeviceReplicate`; dropping the comparison is the mutant of
`SuccessIsEverywhere`); `hb_mc_device_program_finish` leaves the programs of
all pods but one (`ProgramFinish` there); the group segment of the EVA
map works for the first pods only and is one row too wide
(theorems `GroupOfOtherPods`, `GroupBeyondMesh`); a cache of another pod in the
same column is given the EVA of a word of the own pod (`DramWords`); a DMA to
the device that fails in its second job leaves stale lines (`torn` in
`DeviceCopies`); the barrier's input masks fit a ruche factor
of 3 only (`OnlyThree`), while
`src/machines/pod_X1Y1_mesh_X2Y2_hbm_one_pseudo_channel` is built with 1.

## 4. Proofs

Every invariant, action property and refinement that a passing run checks is also a
theorem, for every value of the constants that the assumptions of its module allow
(TLC evaluates those in every run), liveness excepted. Some of these theorems name a hypothesis besides:

| Hypothesis | Used by | What it leaves out |
|---|---|---|
| `NoFaults` | the theorems about `kernels_execute` that say so below | launches that fail (a missing kernel, full memory) and responders that fail; `stale_finish` shows what can happen then |
| `ShapesFit` | `WaitIsAnswered` | a group that is larger than the mesh (`oversized`) |
| `RegionFits` | `SuccessEverywhere`, `StrandsNothing` | a region that ends beyond 2^32, where the 32-bit address of a block is not its own: the allocator is given the size of the whole DRAM although it starts behind the program (`bsg_manycore_cuda.cpp:193`), so this happens on the machines with 2 GB of DRAM and not on those with 1 GB (`one_pseudo_channel`) |
| `R = 3` | `WiresAreBarrier` | ruche factors for which the input masks do not fit (`OnlyThree`) |

`TileGroupsProofs` proves, for every set of pods, mesh, shapes, binaries and
bounds, with launches and responders that fail or not:

* `TypeCorrect`: `Spec => []TypeOK`.
* `Ownership`: `Spec => []TileOwnership`.
* `BuffersAccounted`: `Spec => []BuffersOfHolders`.

The only assumption is `ConfigAssumption` of `TileGroups`.

`TypeOK` is not inductive: what the next step reads of one variable is decided
by another. The invariant that is proved is `TypeInv`: `TypeOK` and `WellFormed`,
which says that a group in use has dimensions and a name that a client asked for
and a kernel of the pod, that a group that holds tiles lies inside the mesh, that
a scan has an index, and that in `launch` and `wake` the group under the host's
hand is a slot that is `ALLOCATED`. Without the last part `LaunchDone` could mark
a slot that no grid filled; without the third, a footprint could leave the mesh.
`TileOwnership` is inductive on top of
`TypeInv`: `AllocateEffect` and `RetireEffect` describe what the two steps
that move tiles do to one pod, `AllocateOwns` and `RetireOwns` show that they
keep the ownership, and `SameHolders` covers every step that changes neither the
tiles nor who holds them. `NoHolders` covers a fresh mesh.

`BuffersOfHolders` needs what it does not say itself: a slot's buffers are alive
exactly while the group holds tiles and was given them, a group not yet launched
has none, and in `launch` the group under the host's hand has none yet, in `wake`
its argument vector (`SlotBuffers`, `LaunchBuffers`). Without the last part a
second `LaunchPrepare` of a slot could overwrite the name of a live buffer.
A launch that runs out of memory leaves either no buffer or the argument vector
alone (`RunsOutBuffers`); `program_finish` gives it back with the group.

### TileGroupsExecuteProofs

The loops of `hb_mc_device_podv_kernels_execute` and
`hb_mc_device_pod_kernels_execute`, for every set of pods, mesh, shapes and
programs. Two theorems hold on every path, failures included:

* `NoRoomUnused`: `NoRoomLeft`. The scan remembers one shape that did not fit.
  `RoomInv` says that nothing of that shape fits, nor any group that the scan has
  passed, nor any group of the pods it has finished with, because tiles are only
  taken during a scan (`Taking`, `LessRoom`).
* `KernelsCounted`: `KernelReferences`. `ReferenceInv` makes each count the
  cardinality of the set of groups that use the kernel (`Users`), and says that a
  group's kernel stands at its slot or before it, so that enqueuing a grid, which
  writes slots at the end of the list, changes no other count.

Five assume `NoFaults`: no responder fails, every binary has every kernel that is
enqueued, and launches find the memory they ask for (`MemorySuffices`).

* `TilesRunOwned`: `RunningOwned`; `FinishIsIdentified`: `FinishIdentifiesSender`.
  `CustodyInv` ties what a tile runs, and each packet under way, to the slot that holds
  the tile and to the load of the program it was started under.
* `ExecuteIsComplete`: `ExecuteCompletes`. `CallInv` says that groups hold tiles only
  in the pods of the call, and that the only group placed and not launched is the
  one under the host's hand.
* `WaitIsAnswered`: `WaitHasSender`, which also assumes `ShapesFit`: every shape fits a
  mesh with nothing on it. `SenderInv` says that a group that is awake has all its
  tiles at work or still to be woken, or its finish packet under way (`Covered`), and that
  a wait has a group to wait for. With `RoomInv`, an unfinished group that cannot be
  placed means that tiles are held, so some group is awake and will send.
* `EngineIsQueue`: `ImplementsQueue`. A grid that is enqueued is one `Submit`,
  `AllocateTiles` a `Place`, the tiles' `DeviceFinish` an `End`, the packet that is read
  a `Retire`, and a program that starts or ends a `Clear`; the rest of scans, launches,
  wake-ups and chatter are stutters. `Place` asks for an area that nobody holds:
  `TileOwnership` gives that. `Retire` asks that the job has ended:
  `FinishIdentifiesSender` says that the packet is the job's own. `Clear` asks that
  no job holds an area: `CallInv`, because a client starts and ends programs between calls only.

Both assumptions are needed: a call that fails returns with groups still placed and
running, and `stale_finish` shows what a later call makes of them; for a shape
larger than the mesh the host waits while no tile runs (`oversized`).

### DramMapProofs, EvaMapProofs

From `DramAssumption`, `PodAssumption` and `EvaAssumption` (which TLC evaluates
in `device_copies`), for every size: `RoundTrip`, `NpaRoundTrip` and
`HomeInjective` say that EVAs and words of DRAM correspond one to one;
`SegmentContiguous` that the words of a segment follow each other, so translating
its first EVA is enough. `TilesOfPod`, `CachesOfPod`, `DramIds`: the geometry of
pods is free of overlap, if a pod is at least two tiles high; with one row, the
row south of a pod would be the row north of the next. `TileWords`, `DramWords`:
`EvaToNpa` undoes `EvaOf`. They rest on quotients and remainders being unique;
products of variables are beyond the SMT solver's linear arithmetic, so each
bound on them is a step of its own.

### DeviceCopiesProofs

`CopiesTyped`, `CachesCoherent`, `NothingLost`, `DmaSeesDram`, `CopiesOutLatest`,
for every geometry of caches, set of calls and set of words that kernels use,
from `CopiesAssumption` and `DramAssumption`. `Coherent` alone is not inductive. The invariant `IInv` adds
where the host is (`Control`), that the rest of the current segment is next to it
(`InTransfer`), that caches read back during a flush are clean (`Flushing`), that
during DMA all of them are (`FlushedForDma`), that what a DMA has sent is in DRAM
and is what was last written (`SentArrived`), and that what was read is as long as what
was moved (`DataRead`). `MemInv` holds the memory's own part: a line is in one
slot only (`LinesPlaced`), `Coherent`, `InvalidationLosesNothing`, and that clean
blocks equal DRAM. Without `Flushing` a write-back during DMA could overwrite
what DMA has written; without `SentArrived` the invalidation at the end could
drop to a DRAM word that is older. The memory's part is proved per access
(`LoadKeeps`, `StoreKeeps`, `InvalidateKeeps`, `FlushKeeps`), the host's per action.

### HarrisProofs

From `TreeAssumption`, for groups of any size: `TreeMatched` (ruche factor 3),
`TowardsRoot`, `OneRoot`, `OnlyThree`. `NeighbourStrips` and `EveryRowOnce` settle
the tables of the kernel for all 32 tiles. `KernelTyped`, `HalosReady` and
`OutputComplete` hold for every width and set of tiles, from `KernelAssumption`,
of `HarrisKernel`, the kernel with the barrier as one step. The invariant `IInv` says that no tile is more
than one barrier ahead (`Lockstep`), that arrays are right from the end of their
phase until the tile returns (`ArraysRight`), that stores are under way only while
their tile waits at its fence (`Flying`, `Fences`, `StoresRight`), and that rows
that have landed stay (`RowsLanded`). The last one needs `Flying` for the warm-up:
its zeroes go to rows of other tiles.

`WiresAreBarrier`: `HarrisBarrier`, with nodes and wires, implements that kernel. What has
to be shown is that a tile which sees its node released finds every tile arrived.
`Round` is the picture of a barrier under way: each tile is behind it, in it or waits
at the next (`Stands`); a node whose output has changed has a subtree in which all
have; and the released value spreads from the root. That the subtree of the root is
the whole group, and that the way from any tile leads to the root, is an argument
about the tree by its distance to the root (`TowardsRoot`), for a least counterexample.

### MemoryProofs

From `RegionAssumption` and `PodAssumption`, for every region, alignment, threshold, number of
pods, requests and sequence of calls:

* `CoalesceKeeps`: sorting a list of disjoint buffers and one pass over the neighbours
  keep what is free (`Covered`) and leave no two entries that touch (`Joinless`).
  Prefixes of the fold are the invariant of the loop, and the pass needs the sorted order: a
  buffer that touches an earlier one touches the last one merged.
* `AllocKeeps`, `FreeKeeps`: the two operations keep `ManagerInv` (buffers are whole
  units of the region, disjoint, and cover it; the counter is the size of what is
  free) and change the busy list as `Allocator` says.
* `DeviceInvariant`: all steps of `DeviceReplicate` keep it in every pod. From it
  `MemoryTyped`, `MemoryPartitioned`, `MemoryCoalesced`, `MemoryCounted`
  (the properties of `pod_memory`) and `MemoryImplementsAllocator` (`ImplementsAllocator`).
* `SuccessEverywhere` and `StrandsNothing`, with `RegionFits`. `HeldInv` adds that no two
  things the client or the groups hold have one address; without it a free could
  take back a block that is another's vector.

### HostMemoryProofs

From `MemoryAssumption`, for every finite set of nodes, words, reads, number of load ids and
credits and depth of the transmit FIFO:

* `QueuesAreRight`: `CountsInv`, a counting invariant. Every queue of the path (stack of
  ids, transmit FIFO, network, way back, response FIFO) is a list, and a step moves one entry from the end
  of one to the front of another, so the number of entries with a given mark changes by at
  most one (`MarkedTail`, `MarkedAppend`, `MarkedMove`). The count of the DPI layer is the
  number of entries that wait for a response (`WaitInv`), on every path. Until a read
  fails half way, all of these belong to the call in progress, and each load id
  of a read is in one place (`IdsInv`). `HostTyped`, `ResponsesHaveRoom`
  and `LoadIdsConserved` follow.
* `WritesLanded`: `WriteLanded`. `WriteInv` says that of a write, the words sent are those that
  a later request would find (`Effective`), and `NoCredits` that after a fence these are in memory.
* `MemoryIsServed`: `ImplementsMemory`. A word is mapped to its value with all requests on the way to its
  node applied, a fold over the network and the transmit FIFO. The lemmas `After...` say what
  appending, serving or moving a request does to it, `Effective...` that only a request of the
  host changes it, and only the host's own word: what `Inject` and `Serve` do is invisible. That is so
  although `Inject` takes a request past those to other nodes. For the answer of reads,
  `OrderInv` says that nothing which changes a word comes after a request that waits for its
  response, `PacketsInv` that a response has the word that its load id's request was for,
  and `ResultInv` that the words of a read that are still missing have
  load ids that are not free. When the last response has come, none is left to be missing. A word
  that amoadd returns is the one before it added, while its request is already in effect.

### What is proved by induction

The prover has no induction over data: the library's induction theorems take an operator.
For functions defined by recursion over `0 .. n` (`MergeAll`, `FreeBytes`, `After`) the
proofs take a least counterexample instead (`LeastNumber`, from
`WFMin`): a set of numbers without a least element is empty. All recursion in the modules that have theorems
is written as such functions.

### What is only model-checked

Liveness (`ExecuteReturns`, `PlacedIsRetired`, `CallReturns`, `CopiesReturn`,
`KernelReturns`) needs `ENABLED` under fairness, which is out of the prover's reach, and stays with TLC. So do
the runs that expect a violation. All else that the passing runs check is proved, the properties of
`kernels_execute` without `NoFaults` and of regions beyond 2^32 excepted.

## 5. Plan

What is left, in order of what matters most:

1. What `EngineIsQueue` promises after a fault: which groups and tiles a failed launch leaves
   usable, as a theorem without `NoFaults`.
2. `Lifecycle`: platform initialisation, drain and clean-up around `HostMemory`.
3. `RepeatedAllocation`: for which sequences of allocations the addresses do match.
4. `Responders`: the list of responders with its failures, in the request loop of
   `TileGroups`.
5. Other example kernels that synchronise by barriers, by the method of
   `HarrisKernel`.

## 6. Not modelled

* Ranges of cache lines (`bsg_manycore.cpp:486-586`, `1424-1543`) have no caller;
  one of them is flawed (see the hazards).
* Initialisation, drain, clean-up and the packet formats of the manycore
  interface and the platforms. Nothing runs concurrently with them.
* The copies and DMA of the replicated API: those of `DeviceCopies` on one pod after
  the other.
* Loader and ELF: one pass over the segments of a file; the symbols a program
  has are a constant of `TileGroups`.
* `reserve` and `reset` of the memory manager have no caller. From the source, `reserve`
  loses the rest of a free buffer whose start it takes, and `reset` leaves the counter of
  free bytes at 0 (see the hazards).
* Responders, beyond whether one fails on a packet.
* In `TileGroups`, the error path of allocation on an I/O error
  (`bsg_manycore_cuda.cpp:1511-1526`) and a `program_init` that fails; the latter is part of
  `DeviceReplicate`.
* EVA maps: the sizes of segments outside DRAM, and the map that replaces only
  the origin. `DramMap` has the sizes of DRAM segments, which copies depend on.
* The configuration parser, printing, tracing and profiling keep no state that
  later operations change. Host memory that runs out (`XMALLOC`) and I/O errors of the
  platform below `hb_mc_manycore_*` make a call return its error at once.
* The deprecated platforms cannot be selected (`src/platform.mk:51-53` lists the
  directories of `platforms/`). The other platforms are variants of
  `bigblade-vcs` over another simulator or board.
* Most lines of the repository are examples and their hosts
  (`src/examples/cuda`, `src/examples/spmd`, `src/examples/apps`): allocate, copy,
  run one data-parallel kernel, compare with a reference. What they ask of the
  library is what the modules above promise; their arithmetic has no state
  that tiles share, except in kernels with barriers, of which `HarrisKernel` is
  one. `examples/apps/harris_color/bk` holds earlier versions of that kernel.
  Hardware sources, apart from what `HostMemory` takes from
  `src/hardware/bsg_manycore_endpoint_to_fifos.sv`, and build scripts are outside.

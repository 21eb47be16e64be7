----------------------------- MODULE PodMemory ------------------------------
(***************************************************************************)
(* The device memory of the pods (bsg_manycore_cuda.cpp): program_init     *)
(* puts a MemoryManager after the end of the program, malloc and free go   *)
(* through 32-bit EVAs, program_finish drops the allocator with everything *)
(* in it.                                                                  *)
(***************************************************************************)
EXTENDS MemoryManager

CONSTANTS
  NumPods,     \* device->num_pods
  ProgramEnd,  \* the EVA of symbol _bsg_dram_end_addr
  EvaBits      \* width of an EVA, 32

(* hb_mc_program_allocator_init: the region starts at the block of a cache   *)
(* line after the program.                                                   *)
ASSUME PodAssumption ==
  /\ NumPods \in Nat \ {0}
  /\ ProgramEnd \in Nat /\ EvaBits \in Nat
  /\ Start = (ProgramEnd + Alignment - (ProgramEnd % Alignment)) % 2 ^ EvaBits

Pods == 0 .. NumPods - 1

VARIABLES
  memory,   \* program->allocator->memory_manager of each pod
  program   \* "none": no program; "set": pod->program # NULL; "loaded":
            \* program_loaded as well

podVars == <<memory, program>>

(* device->default_pod_id.                                                   *)
Default == 0

PodsInit ==
  /\ memory = [p \in Pods |-> NewManager]
  /\ program = [p \in Pods |-> "none"]

(* The pods of a set are given a new manager.                                *)
Renew(pods) ==
  memory' = [p \in Pods |-> IF p \in pods THEN NewManager ELSE memory[p]]

(* An address in a variable of type hb_mc_eva_t.                             *)
Eva(address) == address % 2 ^ EvaBits

(* What hb_mc_device_pod_malloc gives: the result is stored in an EVA before *)
(* it is compared with the 64-bit mNull, so the comparison never holds.      *)
Given(p, size) == Eva(AllocResult(memory[p], size))

(* malloc of each pod of a set of pods that have a program.                  *)
MallocOn(pods, size) ==
  /\ memory' = [p \in Pods |->
                  IF p \in pods THEN Alloc(memory[p], size) ELSE memory[p]]
  /\ UNCHANGED program

FreeOn(pods, eva) ==
  /\ memory' = [p \in Pods |->
                  IF p \in pods THEN Free(memory[p], eva) ELSE memory[p]]
  /\ UNCHANGED program

-----------------------------------------------------------------------------

(* Addresses and sizes are whole units of the region, and a pod without a    *)
(* program has no memory in use.                                             *)
MemoryTypeOK ==
  /\ program \in [Pods -> {"none", "set", "loaded"}]
  /\ DOMAIN memory = Pods
  /\ \A p \in Pods : WellTyped(memory[p])
  /\ \A p \in Pods : program[p] = "none" => memory[p].busy = {}

(* Every unit of a pod's region is in exactly one buffer, free or busy:      *)
(* first fit, resizing and coalescing neither lose memory nor give it out    *)
(* twice.                                                                    *)
Partition == \A p \in Pods : Partitioned(memory[p])

(* A free list longer than the threshold has just been coalesced: no entry   *)
(* starts where another ends, so a failing alloc is short of memory and not  *)
(* a victim of the list's order.                                             *)
LongListCoalesced == \A p \in Pods : Coalesced(memory[p])

(* The counter of free bytes is the size of the free list.                   *)
FreeSizeExact == \A p \in Pods : memory[p].freeSize = FreeBytes(memory[p])

Contract(p) == INSTANCE Allocator WITH live <- memory[p].busy

(* The memory manager of every pod implements the allocator: the conjunction *)
(* of the pods' Contract(p)!Spec.                                            *)
ImplementsAllocator ==
  /\ \A p \in Pods : Contract(p)!Init
  /\ [][\A p \in Pods : Contract(p)!Next \/ UNCHANGED memory[p].busy]_memory

=============================================================================

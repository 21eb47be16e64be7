------------------------- MODULE RepeatedAllocation -------------------------
(***************************************************************************)
(* The client of examples/cuda/test_memory_leak: in every iteration it     *)
(* allocates three buffers, executes a kernel and frees the buffers.  The  *)
(* execution engine allocates the kernel's argument vector, and a barrier  *)
(* configuration when the program has hardware barriers, and frees both    *)
(* when the kernel finishes.                                               *)
(***************************************************************************)
EXTENDS PodMemory

CONSTANTS
  Buffers,   \* number of buffers the client allocates, 3
  Width,     \* their size
  Launch     \* sizes of the buffers a launch allocates, a sequence

VARIABLES
  step,      \* position in the iteration
  given      \* the addresses allocated so far in this iteration

leakVars == <<podVars, step, given>>

(* The sizes of an iteration's allocations, in order.                        *)
Sizes == [i \in 1 .. Buffers |-> Width] \o Launch

(* The order in which they are freed: the launch's, then the client's.       *)
Frees == [i \in 1 .. Len(Launch) |-> Buffers + i] \o [i \in 1 .. Buffers |-> i]

LeakInit ==
  /\ memory = [p \in Pods |-> NewManager]
  /\ program = [p \in Pods |-> "loaded"]
  /\ step = 1
  /\ given = <<>>

LeakAlloc ==
  /\ step <= Len(Sizes)
  /\ MallocOn({Default}, Sizes[step])
  /\ given' = Append(given, Given(Default, Sizes[step]))
  /\ step' = step + 1

LeakFree ==
  LET i == step - Len(Sizes)
  IN  /\ i \in 1 .. Len(Frees)
      /\ FreeOn({Default}, given[Frees[i]])
      /\ step' = step + 1
      /\ UNCHANGED given

(* The end of the loop body: the next iteration.                             *)
LeakNextIteration ==
  /\ step > Len(Sizes) + Len(Frees)
  /\ step' = 1
  /\ given' = <<>>
  /\ UNCHANGED podVars

LeakSpec ==
  LeakInit /\ [][LeakAlloc \/ LeakFree \/ LeakNextIteration]_leakVars

(* "If the CUDA API doesn't have memory leaks, the address of allocated      *)
(* spaces should match every time": in every iteration the client is given   *)
(* the addresses that first fit gives out on empty memory.                   *)
AddressesMatch ==
  \A i \in 1 .. Buffers : i <= Len(given) => given[i] = Start + (i - 1) * Padded(Width)

=============================================================================

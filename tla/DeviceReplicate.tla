-------------------------- MODULE DeviceReplicate ---------------------------
(***************************************************************************)
(* One address for all pods: the replicated API                            *)
(* (bsg_manycore_cuda_legacy_replicate.cpp) calls malloc and free of one   *)
(* pod after the other and takes the addresses of a malloc only if they    *)
(* agree.  Between its calls the execution engine allocates an argument    *)
(* vector for every tile group of every pod, and frees it when the group   *)
(* ends, in an order that each pod has for itself.                         *)
(*                                                                         *)
(* The host is one thread and nothing but the host touches a manager, so a *)
(* loop over the pods is one step.                                         *)
(***************************************************************************)
EXTENDS PodMemory

CONSTANTS
  Requests,  \* sizes that clients ask for
  ArgvSize,  \* size of an argument vector
  Groups,    \* tile groups that an execute runs in each pod
  MaxFailed  \* bound on the calls that fail

ASSUME ReplicateAssumption ==
  Requests \subseteq Nat /\ {ArgvSize, Groups, MaxFailed} \subseteq Nat

VARIABLES
  held,       \* the blocks the client was given and has not freed
  executing,  \* the host is in tile_groups_execute
  todo,       \* groups of each pod that are still to be launched
  argv,       \* argv_eva of the groups that run, for each pod
  failed      \* calls that failed since the last program_init that did not

execVars == <<executing, todo, argv>>
vars == <<podVars, held, execVars, failed>>

(* BSG_CUDA_CALL leaves the loop at the first pod that has no program.       *)
Reached == {p \in Pods : \A q \in 0 .. p : program[q] # "none"}

Init ==
  /\ PodsInit
  /\ held = {} /\ executing = FALSE /\ failed = 0
  /\ todo = [p \in Pods |-> 0]
  /\ argv = [p \in Pods |-> {}]

(* A call returns an error; MaxFailed bounds how many do.                    *)
Fails == failed < MaxFailed /\ failed' = failed + 1

-----------------------------------------------------------------------------
(* The client *)

ProgramInit ==
  /\ ~executing /\ program[Default] # "loaded"
  /\ Renew(Pods)
  /\ program' = [p \in Pods |-> "loaded"]
  /\ argv' = [p \in Pods |-> {}]
  /\ held' = {} /\ failed' = 0
  /\ UNCHANGED <<executing, todo>>

(* The initialisation of a pod fails, after the pod has its new program or   *)
(* before; the pods after it keep what they had.                             *)
ProgramInitFails(failing, late) ==
  LET renewed == {p \in Pods : p < failing \/ (p = failing /\ late)}
  IN  /\ ~executing /\ program[Default] # "loaded"
      /\ Fails
      /\ Renew(renewed)
      /\ program' = [p \in Pods |->
                       IF p < failing THEN "loaded"
                       ELSE IF p \in renewed /\ program[p] = "none" THEN "set"
                       ELSE program[p]]
      /\ argv' = [p \in Pods |-> IF p \in renewed THEN {} ELSE argv[p]]
      /\ held' = {}
      /\ UNCHANGED <<executing, todo>>

(* hb_mc_device_program_finish, which the replicated API does not replace,   *)
(* finishes the default pod only.                                            *)
ProgramFinish ==
  /\ ~executing /\ program[Default] = "loaded"
  /\ Renew({Default})
  /\ program' = [program EXCEPT ![Default] = "none"]
  /\ argv' = [argv EXCEPT ![Default] = {}]
  /\ held' = {}
  /\ UNCHANGED <<executing, todo, failed>>

(* Mutant of Agreed: the addresses are not compared.                         *)
AgreedUnchecked(size) == Reached = Pods

(* A replicated malloc succeeds.                                             *)
Agreed(size) ==
  /\ Reached = Pods
  /\ \A p \in Pods : Given(p, size) = Given(Default, size)

(* A malloc that fails gives nothing back to the pods it has reached.        *)
Malloc(size) ==
  /\ ~executing
  /\ MallocOn(Reached, size)
  /\ held' = IF Agreed(size) THEN held \cup {[eva |-> Given(Default, size), size |-> size]}
                             ELSE held
  /\ IF Agreed(size) THEN UNCHANGED failed ELSE Fails
  /\ UNCHANGED execVars

(* Mutant of FreeAll: free of the default pod, which the library replaces.   *)
FreeAllDefault(eva) == FreeOn(Reached \cap {Default}, eva)

FreeAll(eva) == FreeOn(Reached, eva)

FreeHeld(block) ==
  /\ ~executing
  /\ FreeAll(block.eva)
  /\ held' = held \ {block}
  /\ IF Reached = Pods THEN UNCHANGED failed ELSE Fails
  /\ UNCHANGED execVars

-----------------------------------------------------------------------------
(* The execution engine *)

(* A grid is enqueued in every pod and executed.  After a failed execute no  *)
(* other follows, nor after MaxFailed failures, for it may fail.             *)
Execute ==
  /\ ~executing /\ failed < MaxFailed
  /\ \A p \in Pods : program[p] = "loaded" /\ argv[p] = {}
  /\ executing' = TRUE
  /\ todo' = [p \in Pods |-> Groups]
  /\ UNCHANGED <<podVars, held, argv, failed>>

Launch(p) ==
  /\ todo[p] > 0
  /\ AllocResult(memory[p], ArgvSize) # Null
  /\ MallocOn({p}, ArgvSize)
  /\ argv' = [argv EXCEPT ![p] = @ \cup {Given(p, ArgvSize)}]
  /\ todo' = [todo EXCEPT ![p] = @ - 1]
  /\ UNCHANGED <<held, executing, failed>>

(* Without memory for the argument vector, its copy to an address that does  *)
(* not exist fails, and with it the execute: the groups that run stay.       *)
LaunchFails(p) ==
  /\ todo[p] > 0
  /\ AllocResult(memory[p], ArgvSize) = Null
  /\ todo' = [q \in Pods |-> 0]
  /\ executing' = FALSE
  /\ Fails
  /\ UNCHANGED <<podVars, held, argv>>

(* The finish packet of a group has arrived.                                 *)
GroupExit(p, eva) ==
  /\ executing
  /\ FreeOn({p}, eva)
  /\ argv' = [argv EXCEPT ![p] = @ \ {eva}]
  /\ UNCHANGED <<held, executing, todo, failed>>

ExecuteReturns ==
  /\ executing
  /\ \A p \in Pods : todo[p] = 0 /\ argv[p] = {}
  /\ executing' = FALSE
  /\ UNCHANGED <<podVars, held, todo, argv, failed>>

Next ==
  \/ ProgramInit \/ ProgramFinish
  \/ \E p \in Pods, late \in BOOLEAN : ProgramInitFails(p, late)
  \/ \E size \in Requests : Malloc(size)
  \/ \E block \in held : FreeHeld(block)
  \/ Execute \/ ExecuteReturns
  \/ \E p \in Pods : Launch(p) \/ LaunchFails(p) \/ \E eva \in argv[p] : GroupExit(p, eva)

Spec == Init /\ [][Next]_vars

-----------------------------------------------------------------------------
(* Safety *)

(* Where the block that was asked for lies.                                  *)
Block(eva, size) == Buffer(eva, Padded(size))

(* A malloc that reports success has allocated the memory it names.          *)
MallocSuccessIsLive ==
  \A block \in held, p \in Pods : Block(block.eva, block.size) \in memory[p].busy

(* An address that a replicated malloc has given stays the address of a      *)
(* block of the right size in every pod, however the pods' lists have come   *)
(* to differ, until it is freed; full memory apart, which malloc does not    *)
(* report.                                                                   *)
SuccessIsEverywhere ==
  \A block \in held, p \in Pods :
    block.eva # Eva(Null) => Block(block.eva, block.size) \in memory[p].busy

(* As long as no call fails, all memory in use belongs to the client or to a *)
(* group that runs: freeing an address frees the same block in every pod.    *)
NothingStranded ==
  failed = 0 /\ (\A p \in Pods : program[p] = "loaded") =>
    \A p \in Pods :
      memory[p].busy = {Block(b.eva, b.size) : b \in {c \in held : c.eva # Eva(Null)}}
                       \cup {Block(eva, ArgvSize) : eva \in argv[p]}

=============================================================================

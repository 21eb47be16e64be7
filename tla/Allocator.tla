----------------------------- MODULE Allocator ------------------------------
(***************************************************************************)
(* What a memory manager promises: it gives out aligned blocks of its      *)
(* region that no live block overlaps, and takes back whole blocks.  When  *)
(* it fails to find a block is not said.                                   *)
(***************************************************************************)
EXTENDS Integers

CONSTANTS Start, Size, Alignment

VARIABLE live  \* set of blocks [first, second]: address and size

Units(b) == b.first .. b.first + b.second - 1

Block(b) ==
  /\ b.second > 0
  /\ b.first % Alignment = 0 /\ b.second % Alignment = 0
  /\ Units(b) \subseteq Start .. Start + Size - 1

Init == live = {}

Allocate(b) ==
  /\ Block(b)
  /\ \A c \in live : Units(b) \cap Units(c) = {}
  /\ live' = live \cup {b}

Release(b) == live' = live \ {b}

(* The allocator is torn down, or gives up all its blocks at once.           *)
Clear == live' = {}

Next ==
  \/ \E first \in Start .. Start + Size - 1, second \in 1 .. Size :
       Allocate([first |-> first, second |-> second])
  \/ \E b \in live : Release(b)
  \/ Clear

Spec == Init /\ [][Next]_live

=============================================================================

--------------------------- MODULE HarrisBarrier ---------------------------
(***************************************************************************)
(* The kernel of HarrisKernel with its barrier in hardware: the tiles'     *)
(* barrier nodes, wired as BarrierTree says.  A tile sends by turning the  *)
(* value of its own input over.  A node turns its output over once its own *)
(* input and all enabled ones have done so; the root's value goes back     *)
(* down the tree, and a tile that waits goes on when its value arrives.    *)
(***************************************************************************)
EXTENDS HarrisKernel, BarrierTree

CONSTANT Place   \* where the tiles of the group are

ASSUME PlaceAssumption ==
  /\ Place \in [Tiles -> Grid]
  /\ \A n \in Grid : \E t \in Tiles : Place[t] = n
  /\ \A t, u \in Tiles : Place[t] = Place[u] => t = u

TileAt(n) == CHOOSE t \in Tiles : Place[t] = n

VARIABLES
  waiting,   \* tiles that have sent to the barrier and wait
  own,       \* the value of a tile's own input
  up,        \* the value of a node's output
  down       \* the value a node has received from the root

wires == <<own, up, down>>
bvars == <<vars, waiting, wires>>

BarrierInit ==
  /\ Init
  /\ waiting = {}
  /\ own = [t \in Tiles |-> FALSE] /\ up = own /\ down = own

BarSend(t) ==
  /\ stage[t] = "sync" /\ t \notin waiting
  /\ own' = [own EXCEPT ![t] = ~@]
  /\ waiting' = waiting \cup {t}
  /\ UNCHANGED <<vars, up, down>>

(* Variant: the barrier after the last phase is left out.                    *)
BarRecvEarly(t) ==
  /\ t \in waiting /\ (down[t] = own[t] \/ phase[t] = LocalMax)
  /\ waiting' = waiting \ {t}
  /\ Proceed(t)
  /\ UNCHANGED wires

BarRecv(t) ==
  /\ t \in waiting /\ down[t] = own[t]
  /\ waiting' = waiting \ {t}
  /\ Proceed(t)
  /\ UNCHANGED wires

(* A link that its other end does not use keeps its first value.             *)
Input(t, d) ==
  LET n == Neighbour(Place[t], d)
  IN n \in Grid /\ Output(n) = Opposite[d] /\ up[TileAt(n)]

Gather(t) ==
  /\ \A d \in Inputs(Place[t]) : Input(t, d) = own[t]
  /\ up[t] # own[t]
  /\ up' = [up EXCEPT ![t] = own[t]]
  /\ UNCHANGED <<vars, waiting, own, down>>

Release(t) ==
  LET d == Output(Place[t])
      n == Neighbour(Place[t], d)
  IN \/ /\ d = "Root" /\ down[t] # up[t]
        /\ down' = [down EXCEPT ![t] = up[t]]
        /\ UNCHANGED <<vars, waiting, own, up>>
     \/ /\ d # "Root" /\ n \in Grid
        /\ Opposite[d] \in Inputs(n) /\ down[t] # down[TileAt(n)]
        /\ down' = [down EXCEPT ![t] = down[TileAt(n)]]
        /\ UNCHANGED <<vars, waiting, own, up>>

Step(t) ==
  \/ Work(t) /\ UNCHANGED <<waiting, wires>>
  \/ BarSend(t) \/ BarRecv(t) \/ Gather(t) \/ Release(t)

BarrierNext == \E t \in Tiles : Step(t)

(* Something goes on as long as something can: the tiles run, their stores   *)
(* arrive, and the wires carry their values.                                 *)
BarrierSpec == BarrierInit /\ [][BarrierNext]_bvars /\ WF_bvars(BarrierNext)

-----------------------------------------------------------------------------
(* The wires make the barrier that the kernel relies on: no tile goes on     *)
(* before all have arrived, also when some are already at the next one.      *)
ImplementsKernel == Spec

(* All tiles return: no barrier waits for an input that nobody drives.       *)
KernelReturns == <>(\A t \in Tiles : phase[t] = Returned)
=============================================================================

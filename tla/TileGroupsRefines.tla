------------------------- MODULE TileGroupsRefines --------------------------
(***************************************************************************)
(* TileGroups implements JobQueue when no launch and no responder fails: a *)
(* job has ended from the moment the tile at its origin sends the finish   *)
(* packet until the host retires the group on that packet.                 *)
(***************************************************************************)
EXTENDS TileGroups

(* The group's finish packet is on its way or waits in the request FIFO.     *)
FinishSent(p, i) ==
  \E m \in rqst : m.data = "finish" /\ m.pod = p /\ m.from = <<epoch[p], i>>

StageOf(p, i) ==
  CASE groups[p][i].status = "NONE"        -> "none"
    [] groups[p][i].status = "INITIALIZED" -> "queued"
    [] groups[p][i].status = "FINISHED"    -> "done"
    [] OTHER -> IF FinishSent(p, i) THEN "ended" ELSE "placed"

Queue == INSTANCE JobQueue WITH
  Jobs  <- Slots,
  Areas <- Tiles,
  stage <- [p \in Pods |-> [i \in Slots |-> StageOf(p, i)]],
  area  <- [p \in Pods |-> [i \in Slots |->
              IF i \in Holding(p) THEN GroupTiles(p, i) ELSE {}]]

(* The execution engine implements the job queue: one placement, one end and *)
(* one retirement per tile group, each area exclusive, each retirement on    *)
(* the group's own packet, and program_finish never frees a mesh in use.     *)
ImplementsQueue == Queue!Spec

(* Every tile group that got tiles is retired.                               *)
PlacedIsRetired == Queue!PlacedIsDone

=============================================================================

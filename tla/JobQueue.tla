------------------------------ MODULE JobQueue ------------------------------
(***************************************************************************)
(* What the execution engine promises to its clients, without its host     *)
(* thread, its device or its packets: each pod has a queue of jobs (tile   *)
(* groups); a job is placed once on an area of tiles that no other job     *)
(* holds, ends once, and is done, its area free again, only after it has   *)
(* ended.  A pod's queue is cleared only when no job holds tiles.          *)
(***************************************************************************)
CONSTANTS Pods, Jobs, Areas

VARIABLES
  stage,  \* [Pods -> [Jobs -> {"none", "queued", "placed", "ended", "done"}]]
  area    \* [Pods -> [Jobs -> SUBSET Areas]]: the tiles a job holds

vars == <<stage, area>>

Holders(p) == {i \in Jobs : stage[p][i] \in {"placed", "ended"}}

Init ==
  /\ stage = [p \in Pods |-> [i \in Jobs |-> "none"]]
  /\ area  = [p \in Pods |-> [i \in Jobs |-> {}]]

Submit(p, S) ==
  /\ \A i \in S : stage[p][i] = "none"
  /\ stage' = [stage EXCEPT ![p] =
                 [i \in Jobs |-> IF i \in S THEN "queued" ELSE stage[p][i]]]
  /\ UNCHANGED area

Place(p, i, A) ==
  /\ stage[p][i] = "queued"
  /\ A # {}
  /\ \A j \in Holders(p) : area[p][j] \cap A = {}
  /\ stage' = [stage EXCEPT ![p][i] = "placed"]
  /\ area'  = [area EXCEPT ![p][i] = A]

End(p, i) ==
  /\ stage[p][i] = "placed"
  /\ stage' = [stage EXCEPT ![p][i] = "ended"]
  /\ UNCHANGED area

Retire(p, i) ==
  /\ stage[p][i] = "ended"
  /\ stage' = [stage EXCEPT ![p][i] = "done"]
  /\ area'  = [area EXCEPT ![p][i] = {}]

Clear(p) ==
  /\ Holders(p) = {}
  /\ stage' = [stage EXCEPT ![p] = [i \in Jobs |-> "none"]]
  /\ UNCHANGED area

Next ==
  \E p \in Pods :
    \/ \E S \in SUBSET Jobs : Submit(p, S)
    \/ \E i \in Jobs, A \in SUBSET Areas : Place(p, i, A)
    \/ \E i \in Jobs : End(p, i) \/ Retire(p, i)
    \/ Clear(p)

Spec == Init /\ [][Next]_vars

-----------------------------------------------------------------------------

(* A job that was placed is done in the end: no finished kernel is forgotten *)
(* and no area is kept.                                                      *)
PlacedIsDone ==
  \A p \in Pods, i \in Jobs : stage[p][i] = "placed" ~> stage[p][i] = "done"

=============================================================================

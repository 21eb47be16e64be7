---------------------------- MODULE MCTileGroups ----------------------------
(* Instances of TileGroups, and of its refinement of JobQueue, for TLC. *)
EXTENDS TileGroupsRefines, TLC

(* Shapes: a single tile, a column, a row, the whole 2x2 mesh. *)
MCDims     == {<<1, 1>>, <<2, 1>>, <<2, 2>>}
MCGridDims == {<<1, 1>>, <<2, 1>>}
MCNames    == {"kernel"}
MCBinaries == {[symbols |-> {"kernel"}, barrier |-> TRUE]}

(* Two pods of two tiles. *)
RowDims     == {<<1, 1>>, <<2, 1>>}
RowGridDims == {<<1, 1>>, <<2, 1>>}

(* A tile group that fits no mesh of two tiles. *)
OversizedDims == {<<1, 1>>, <<3, 1>>}

(* A client that may name a kernel the program does not have. *)
FaultNames    == {"kernel", "missing"}
FaultBinaries == {[symbols |-> {"kernel"}, barrier |-> TRUE]}
=============================================================================

---------------------------- MODULE MCHostMemory ----------------------------
(* An instance of HostMemory for TLC: a DRAM node, a tile, and a coordinate  *)
(* outside of the network.                                                   *)
EXTENDS HostMemory

CONSTANTS dram, tile, outside

MCAddrs == {<<dram, 0>>, <<dram, 1>>, <<tile, 0>>}

(* More words than load ids, from both nodes; a word twice; and lists with   *)
(* an invalid address first, and behind a valid one.                         *)
MCReadLists ==
  {<<<<dram, 0>>, <<tile, 0>>, <<dram, 1>>>>,
   <<<<tile, 0>>, <<dram, 0>>, <<tile, 0>>>>,
   <<<<outside, 0>>>>, <<<<tile, 0>>, <<outside, 0>>>>}
=============================================================================

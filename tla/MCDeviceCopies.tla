--------------------------- MODULE MCDeviceCopies ---------------------------
(* An instance of DeviceCopies for TLC: two columns with a cache at the      *)
(* north and one at the south end, each with one slot for the two lines      *)
(* behind it; EVAs 0 .. 15 are words, two to a stripe.  EvaMap comes with    *)
(* its constants, for four pods of that shape, so that its assumptions and   *)
(* those of PodGeometry are evaluated.                                       *)
EXTENDS DeviceCopies, EvaMap

In(eva, vals)  == [eva |-> eva, n |-> Len(vals), vals |-> vals]
Out(eva, n)    == [eva |-> eva, n |-> n]
Does(kind, js) == [kind |-> kind, jobs |-> js]

(* Copies over the end of a stripe, of parts of lines, in two jobs, and past *)
(* the end of the DRAM; and of words that kernels use.                       *)
MCCalls ==
  {Does("memcpy_in", <<In(1, <<1, 0>>)>>),
   Does("memcpy_in", <<In(15, <<1, 1>>)>>),
   Does("memcpy_out", <<Out(0, 5)>>),
   Does("dma_in", <<In(1, <<0, 1>>), In(8, <<1>>)>>),
   Does("dma_in", <<In(0, <<1>>), In(15, <<0, 0>>)>>),
   Does("dma_out", <<Out(4, 3), Out(1, 2)>>),
   Does("launch", <<>>)}
=============================================================================

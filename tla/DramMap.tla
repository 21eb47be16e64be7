------------------------------ MODULE DramMap ------------------------------
(***************************************************************************)
(* The DRAM part of the default EVA map (bsg_manycore_eva.cpp).  A word of *)
(* the DRAM of a pod is striped over the victim caches at the north and    *)
(* the south end of the columns:                                           *)
(*                                                                         *)
(*     EVA = ((Epa div Stripe) * 2 + South) * ColSpan + Column             *)
(*           as the number of a block of Stripe words, then the offset     *)
(*                                                                         *)
(* Addresses count words, without the bit that marks an EVA as DRAM.       *)
(***************************************************************************)
EXTENDS Integers

CONSTANTS
  Stripe,    \* words of a stripe, a power of two
  Cols,      \* columns of the pod
  ColSpan,   \* 2 ^ ceil(log2(Cols)): columns that the bits of an EVA can name
  MaxEpa     \* words of DRAM behind one cache, a power of two

ASSUME DramAssumption ==
  /\ Stripe \in Nat \ {0} /\ Cols \in Nat \ {0} /\ ColSpan \in Nat /\ Cols <= ColSpan
  /\ MaxEpa \in Nat \ {0} /\ MaxEpa % Stripe = 0

Caches == (0 .. Cols - 1) \X {0, 1}
Npas   == Caches \X (0 .. MaxEpa - 1)

Block(w)  == w \div Stripe
Column(w) == Block(w) % ColSpan
Row(w)    == Block(w) \div ColSpan
South(w)  == Row(w) % 2
Epa(w)    == Stripe * (Row(w) \div 2) + (w % Stripe)

(* Where a word is: the NPA of its cache and the address behind it.          *)
Home(w) == <<<<Column(w), South(w)>>, Epa(w)>>

(* The translation fails for columns and addresses that do not exist...      *)
ValidEva(w) == Column(w) < Cols /\ Epa(w) < MaxEpa

(* ... and otherwise says how many words follow on the same cache.           *)
Room(w) == Stripe - (w % Stripe)

NpaToEva(npa) ==
  (npa[2] % Stripe)
  + Stripe * (npa[1][1] + ColSpan * (npa[1][2] + 2 * (npa[2] \div Stripe)))
=============================================================================

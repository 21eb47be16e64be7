----------------------------- MODULE WordMemory -----------------------------
(***************************************************************************)
(* What the memory functions of bsg_manycore.h promise their one caller: a *)
(* memory of words on which one call at a time takes effect.  A write      *)
(* stores its words in order, an amoadd adds and returns the old word, and *)
(* a read returns the words of its addresses.                              *)
(*                                                                         *)
(* A read with an invalid address among its addresses fails.  From then on *)
(* the memory is broken: writes still take effect, but what reads return   *)
(* is not promised any more, nor that they succeed.                        *)
(***************************************************************************)
EXTENDS Integers, Sequences

CONSTANTS
  Addrs,     \* valid word addresses
  WordMod,   \* words are integers modulo WordMod
  Calls      \* [kind, addrs, vals]: the calls clients make

NoCall == [kind |-> "none", addrs |-> <<>>, vals |-> <<>>]

VARIABLES
  mem,      \* the words
  call,     \* the call in progress
  done,     \* number of words the call has stored
  result,   \* what the last call returned
  broken    \* a read has failed after it asked for some of its words

vars == <<mem, call, done, result, broken>>

Words == 0 .. WordMod - 1

Init ==
  /\ mem \in [Addrs -> Words]
  /\ call = NoCall /\ done = 0 /\ result = <<>> /\ broken = FALSE

Begin ==
  /\ call = NoCall
  /\ call' \in Calls
  /\ done' = 0 /\ result' = <<>>
  /\ UNCHANGED <<mem, broken>>

Updates(c) == c.kind \in {"write", "store", "amoadd"}

Update ==
  LET a == call.addrs[done + 1]
      v == call.vals[done + 1]
  IN /\ Updates(call) /\ done < Len(call.addrs)
     /\ mem' = [mem EXCEPT ![a] =
                  IF call.kind = "amoadd" THEN (@ + v) % WordMod ELSE v]
     /\ done' = done + 1
     /\ UNCHANGED <<call, result, broken>>

Reads(c) == c.kind \in {"read", "load"}

Valid(c) == \A i \in DOMAIN c.addrs : c.addrs[i] \in Addrs

(* What a call that succeeds returns.                                        *)
Answer(c) ==
  CASE Reads(c)          -> [i \in DOMAIN c.addrs |-> mem[c.addrs[i]]]
    [] c.kind = "amoadd" -> <<(mem[c.addrs[1]] - c.vals[1]) % WordMod>>
    [] OTHER             -> <<>>

(* What is left of that: some of the words, and these any words.             *)
PartOfAnswer(c, r) ==
  DOMAIN r \subseteq DOMAIN c.addrs /\ \A i \in DOMAIN r : r[i] \in Words

Return ==
  /\ call # NoCall
  /\ Updates(call) => done = Len(call.addrs)
  /\ \/ broken /\ PartOfAnswer(call, result')
     \/ Valid(call) /\ result' = Answer(call)
  /\ call' = NoCall /\ done' = 0
  /\ UNCHANGED <<mem, broken>>

Fail ==
  /\ Reads(call)
  /\ broken \/ ~Valid(call)
  /\ call' = NoCall /\ done' = 0 /\ result' = <<>>
  /\ broken' \in {broken, TRUE}
  /\ UNCHANGED mem

Next == Begin \/ Update \/ Return \/ Fail

Spec == Init /\ [][Next]_vars
=============================================================================

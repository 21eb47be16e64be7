--------------------------- MODULE MemoryManager ----------------------------
(***************************************************************************)
(* awsbwhal::MemoryManager (bsg_manycore_memory_manager.cpp): a first-fit  *)
(* allocator of a region of device memory.  Free buffers are kept in a     *)
(* list that is neither sorted nor coalesced until it grows longer than    *)
(* the threshold.  Busy buffers are found by their address only.           *)
(*                                                                         *)
(* A manager is a record m of its two lists and its counter; an operation  *)
(* is the operator that gives the manager after it.  A call is atomic: the *)
(* manager's mutex, or its single client.                                  *)
(***************************************************************************)
EXTENDS Integers, Sequences, FiniteSets, SequencesExt

CONSTANTS
  Start, Size,   \* the region: mStart, mSize
  Alignment,     \* mAlignment
  Threshold      \* mCoalesceThreshold, 4 in the constructor

ASSUME RegionAssumption ==
  /\ Start \in Nat /\ Size \in Nat /\ Threshold \in Nat
  /\ Alignment \in Nat \ {0}
  /\ Start % Alignment = 0      \* asserted by the constructor
  /\ Size % Alignment = 0 /\ Size > 0

Buffer(first, second) == [first |-> first, second |-> second]

(* mNull, all ones: -1 modulo any power of two.                              *)
Null == -1

(* free: mFreeBufferList, a sequence of buffers [first, second].             *)
(* busy: mBusyBufferList, a set, for nothing depends on its order.           *)
NewManager == [free |-> <<Buffer(Start, Size)>>, busy |-> {}, freeSize |-> Size]

-----------------------------------------------------------------------------

(* Mutant of Padded: a request of 0 bytes stays 0.                           *)
PaddedZero(size) ==
  LET mod == size % Alignment
  IN  size + (IF mod > 0 THEN Alignment - mod ELSE 0)

(* A request of 0 bytes becomes one unit; others are padded to a unit.       *)
Padded(size) ==
  LET wanted == IF size = 0 THEN Alignment ELSE size
      mod    == wanted % Alignment
  IN  wanted + (IF mod > 0 THEN Alignment - mod ELSE 0)

(* Mutant of FirstFit: a buffer that is one unit short is large enough.      *)
FirstFitShort(list, size) == SelectInSeq(list, LAMBDA b : b.second >= size - Alignment)

(* Position of the first free buffer that is large enough, 0 if none is.     *)
FirstFit(list, size) == SelectInSeq(list, LAMBDA b : b.second >= size)

(* Mutant of Carve: the rest of a larger buffer is dropped.                  *)
CarveWhole(list, i, size) == RemoveAt(list, i)

(* The free list once size bytes are taken from the front of its i-th entry. *)
Carve(list, i, size) ==
  LET b == list[i]
  IN  IF b.second > size
        THEN ReplaceAt(list, i, Buffer(b.first + size, b.second - size))
        ELSE RemoveAt(list, i)

(* What alloc returns.                                                       *)
AllocResult(m, size) ==
  LET i == FirstFit(m.free, Padded(size))
  IN  IF i = 0 THEN Null ELSE m.free[i].first

Alloc(m, size) ==
  LET padded == Padded(size)
      i      == FirstFit(m.free, padded)
  IN  IF i = 0 THEN m
      ELSE [free     |-> Carve(m.free, i, padded),
            busy     |-> m.busy \cup {Buffer(m.free[i].first, padded)},
            freeSize |-> m.freeSize - padded]

-----------------------------------------------------------------------------

(* Order of std::pair.                                                       *)
Less(a, b) == a.first < b.first \/ (a.first = b.first /\ a.second < b.second)

(* The next buffer is merged into the last one when it starts where that one *)
(* ends.                                                                     *)
Merge(list, b) ==
  IF list # <<>> /\ Last(list).first + Last(list).second = b.first
    THEN ReplaceAt(list, Len(list),
                   Buffer(Last(list).first, Last(list).second + b.second))
    ELSE Append(list, b)

(* The loop over the neighbours in a list, from its front.                   *)
MergeAll(list) ==
  LET merged[k \in 0 .. Len(list)] ==
        IF k = 0 THEN <<>> ELSE Merge(merged[k - 1], list[k])
  IN  merged[Len(list)]

(* std::list::sort, which keeps the order of equal entries.                  *)
Before(list, i, j) ==
  Less(list[i], list[j]) \/ (list[i] = list[j] /\ i < j)

Rank(list, j) == Cardinality({i \in DOMAIN list : Before(list, i, j)}) + 1

Sorted(list) ==
  [k \in DOMAIN list |-> list[CHOOSE j \in DOMAIN list : Rank(list, j) = k]]

(* Mutant of Coalesce: neighbours are looked for in the unsorted list.       *)
CoalesceUnsorted(list) == MergeAll(list)

(* Mutant of Coalesce: a merged neighbour stays in the list.                 *)
CoalesceKeepsNext(list) ==
  LET kept[k \in 0 .. Len(list)] ==
        IF k = 0 THEN <<>>
        ELSE LET next == Sorted(list)[k]
                 more == Merge(kept[k - 1], next)
             IN  IF Len(more) = Len(kept[k - 1]) THEN Append(more, next) ELSE more
  IN  kept[Len(list)]

Coalesce(list) == MergeAll(Sorted(list))

(* An address that no busy buffer starts at is ignored.                      *)
Free(m, buf) ==
  LET found == {b \in m.busy : b.first = buf}
  IN  IF found = {} THEN m
      ELSE LET b    == CHOOSE b \in found : TRUE
               list == Append(m.free, b)
           IN  [free     |-> IF Len(list) > Threshold THEN Coalesce(list) ELSE list,
                busy     |-> m.busy \ {b},
                freeSize |-> m.freeSize + b.second]

-----------------------------------------------------------------------------
(* What a manager should be, for the modules that keep one.                  *)

(* Addresses and sizes are whole units of the region.                        *)
BufferType ==
  {b \in [first : Start .. Start + Size - 1, second : 1 .. Size] :
     b.first % Alignment = 0 /\ b.second % Alignment = 0}

WellTyped(m) ==
  /\ m.free \in Seq(BufferType)
  /\ m.busy \subseteq BufferType
  /\ m.freeSize \in 0 .. Size

Units(b) == b.first .. b.first + b.second - 1

(* Every unit of the region is in exactly one buffer, free or busy.          *)
Partitioned(m) ==
  \A u \in Start .. Start + Size - 1 :
    LET frees == {i \in DOMAIN m.free : u \in Units(m.free[i])}
        busys == {b \in m.busy : u \in Units(b)}
    IN  Cardinality(frees) + Cardinality(busys) = 1

(* If the list is longer than the threshold, no entry starts where another   *)
(* ends.                                                                     *)
Coalesced(m) ==
  Len(m.free) > Threshold =>
    \A i, j \in DOMAIN m.free : m.free[i].first + m.free[i].second # m.free[j].first

(* The size of the free list.                                                *)
FreeBytes(m) ==
  LET sum[k \in 0 .. Len(m.free)] ==
        IF k = 0 THEN 0 ELSE sum[k - 1] + m.free[k].second
  IN  sum[Len(m.free)]

=============================================================================

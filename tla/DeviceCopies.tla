---------------------------- MODULE DeviceCopies ----------------------------
(***************************************************************************)
(* Copies between the host and the DRAM of a pod (memcpy and DMA of        *)
(* bsg_manycore_cuda.cpp over bsg_manycore_eva.cpp and bsg_manycore.cpp)   *)
(* with the victim caches between them.                                    *)
(*                                                                         *)
(* memcpy goes through the victim caches, DMA around them: a DMA flushes   *)
(* the caches of the pod first, and one towards the device invalidates     *)
(* them last.  Flushes and invalidations are stores to the tags of a       *)
(* cache.  A cache serves what the host sends it in order, and nothing     *)
(* but a load that returns or a fence tells the host how far it is.        *)
(*                                                                         *)
(* HostMemory shows that words a call has stored are in memory when it     *)
(* returns: here a load or a store takes effect in one step.               *)
(***************************************************************************)
EXTENDS DramMap, Sequences

CONSTANTS
  LineWords,   \* words of a cache line
  Sets, Ways,  \* of a victim cache
  Vals,        \* values of a word
  Calls,       \* bound: [kind, jobs], the calls the client makes
  TileWords    \* bound: the EVAs that kernels use

Kinds == {"memcpy_in", "memcpy_out", "dma_in", "dma_out", "launch"}

ASSUME CopiesAssumption ==
  /\ LineWords \in Nat \ {0} /\ Sets \in Nat \ {0} /\ Ways \in Nat \ {0}
  /\ MaxEpa % LineWords = 0 /\ Vals # {}
  /\ TileWords \subseteq {w \in Nat : ValidEva(w)}
  /\ \A c \in Calls :
       /\ c.kind \in Kinds /\ c.jobs \in Seq({c.jobs[j] : j \in DOMAIN c.jobs})
       /\ c.kind # "launch" => c.jobs # <<>>
       /\ \A j \in DOMAIN c.jobs : c.jobs[j].eva \in Nat /\ c.jobs[j].n \in Nat
       /\ c.kind \in {"memcpy_in", "dma_in"} =>
            \A j \in DOMAIN c.jobs : c.jobs[j].vals \in [1 .. c.jobs[j].n -> Vals]

NoCall == [kind |-> "none", jobs |-> <<>>]
NoLine == -1
NoWord == CHOOSE v \in Vals : TRUE

Slots == Caches \X (0 .. Sets - 1) \X (0 .. Ways - 1)

VARIABLES
  pc,      \* where the host is
  call,    \* the call in progress, or the last one
  job,     \* index of its current job
  moved,   \* words of the job that have been transferred
  npa,     \* where the next word is
  left,    \* words left in the segment at npa
  data,    \* words of the job read so far
  tag,     \* the line in each slot of the caches
  block,   \* the words of that line
  dirty,   \* slots whose line has to be written back
  dram,    \* the words of the DRAM
  inv,     \* slots whose invalidation is under way
  fl,      \* slots whose flush is under way
  rb,      \* caches still to be read from after a flush
  latest,  \* ghost: the word last written to each EVA
  torn     \* ghost: EVAs written by DMA and not invalidated

host    == <<pc, call, job, moved, npa, left, data>>
caches  == <<tag, block, dirty>>
pending == <<inv, fl, rb>>
vars    == <<host, caches, dram, pending, latest, torn>>

Evas == {NpaToEva(a) : a \in Npas}

Init ==
  /\ pc = "idle" /\ call = NoCall /\ job = 1 /\ moved = 0
  /\ npa = <<<<0, 0>>, 0>> /\ left = 0 /\ data = <<>>
  /\ tag = [s \in Slots |-> NoLine] /\ dirty = {}
  /\ block = [s \in Slots |-> [i \in 0 .. LineWords - 1 |-> NoWord]]
  /\ dram = [a \in Npas |-> NoWord] /\ latest = [w \in Evas |-> NoWord]
  /\ inv = {} /\ fl = {} /\ rb = {} /\ torn = {}

-----------------------------------------------------------------------------
(* The victim caches. *)

Line(a)     == a[2] \div LineWords
Offset(a)   == a[2] % LineWords
SlotsFor(a) == {s \in Slots : s[1] = a[1] /\ s[2] = Line(a) % Sets}
InSlot(s, a) == s[1] = a[1] /\ tag[s] = Line(a)

(* A slot of its set takes the line of a: the one that has it, or any.       *)
Takes(s, a) ==
  /\ s \in SlotsFor(a)
  /\ InSlot(s, a) \/ \A t \in SlotsFor(a) : ~InSlot(t, a)

(* The DRAM after the line in s has been written back.                       *)
WrittenBack(s) ==
  IF s \in dirty
  THEN [a \in Npas |-> IF InSlot(s, a) THEN block[s][Offset(a)] ELSE dram[a]]
  ELSE dram

(* The words of the line of a once it is in s.                               *)
Filled(s, a) ==
  IF InSlot(s, a)
  THEN block[s]
  ELSE [i \in 0 .. LineWords - 1 |-> dram[<<a[1], Line(a) * LineWords + i>>]]

(* A load of a through slot s.                                               *)
Load(s, a) ==
  /\ Takes(s, a)
  /\ tag' = [tag EXCEPT ![s] = Line(a)]
  /\ block' = [block EXCEPT ![s] = Filled(s, a)]
  /\ dirty' = IF InSlot(s, a) THEN dirty ELSE dirty \ {s}
  /\ dram' = IF InSlot(s, a) THEN dram ELSE WrittenBack(s)

(* A store of v to a through slot s.                                         *)
Store(s, a, v) ==
  /\ Takes(s, a)
  /\ tag' = [tag EXCEPT ![s] = Line(a)]
  /\ block' = [block EXCEPT ![s] = [Filled(s, a) EXCEPT ![Offset(a)] = v]]
  /\ dirty' = dirty \cup {s}
  /\ dram' = IF InSlot(s, a) THEN dram ELSE WrittenBack(s)

(* Variant: some cache has.                                                  *)
CaughtUpAny(c) == \E d \in Caches : \A s \in inv \cup fl : s[1] # d

(* The cache c has served all that the host has sent it.                     *)
CaughtUp(c) == \A s \in inv \cup fl : s[1] # c

(* A tag without the valid bit: the line is dropped, not written back.       *)
ServeInvalidate(s) ==
  /\ s \in inv
  /\ inv' = inv \ {s}
  /\ tag' = [tag EXCEPT ![s] = NoLine]
  /\ block' = [block EXCEPT ![s] = [i \in 0 .. LineWords - 1 |-> NoWord]]
  /\ dirty' = dirty \ {s}
  /\ UNCHANGED <<host, dram, fl, rb, latest, torn>>

ServeFlush(s) ==
  /\ s \in fl /\ \A t \in inv : t[1] # s[1]
  /\ fl' = fl \ {s}
  /\ dram' = WrittenBack(s)
  /\ dirty' = dirty \ {s}
  /\ UNCHANGED <<host, tag, block, inv, rb, latest, torn>>

-----------------------------------------------------------------------------
(* The host. *)

Job == call.jobs[job]

(* Variant: a DMA only flushes towards the host.                             *)
FlushesOut == {"dma_out"}

Flushes == {"dma_in", "dma_out"}

Call(c) ==
  /\ pc = "idle"
  /\ call' = c /\ job' = 1 /\ moved' = 0 /\ data' = <<>>
  /\ IF c.kind \in Flushes
     THEN pc' = "flush" /\ fl' = Slots /\ rb' = Caches
     ELSE pc' = (IF c.kind = "launch" THEN "launch" ELSE "head") /\ UNCHANGED <<fl, rb>>
  /\ UNCHANGED <<npa, left, caches, dram, inv, latest, torn>>

(* pod_flush_vcache reads a word of each cache, which the cache returns when *)
(* it has flushed.                                                           *)
ReadBack(c) ==
  /\ pc = "flush" /\ c \in rb /\ CaughtUp(c)
  /\ \E s \in Slots : Load(s, <<c, 0>>)
  /\ rb' = rb \ {c}
  /\ pc' = IF rb' = {} THEN "head" ELSE "flush"
  /\ UNCHANGED <<call, job, moved, npa, left, data, inv, fl, latest, torn>>

(* Variant: the segment is taken to be needed to its end.                    *)
SegmentRoom(w) == Room(w)

Segment(w) == IF Job.n - moved <= Room(w) THEN Job.n - moved ELSE Room(w)

(* The head of the loops of eva_write_internal, eva_read_internal and        *)
(* eva_memset: translate the next EVA into a segment.                        *)
Translate ==
  LET w == Job.eva + moved
  IN /\ pc = "head" /\ moved < Job.n /\ ValidEva(w)
     /\ npa' = Home(w) /\ left' = Segment(w) /\ pc' = "xfer"
     /\ UNCHANGED <<call, job, moved, data, caches, dram, pending, latest, torn>>

(* An invalid EVA ends the call, what was transferred stays; in particular a *)
(* DMA to the device returns without invalidating.                           *)
TranslateFails ==
  /\ pc = "head" /\ moved < Job.n /\ ~ValidEva(Job.eva + moved)
  /\ pc' = "idle"
  /\ UNCHANGED <<call, job, moved, npa, left, data, caches, dram, pending, latest, torn>>

NextJob ==
  /\ pc = "head" /\ moved = Job.n /\ job < Len(call.jobs)
  /\ job' = job + 1 /\ moved' = 0 /\ data' = <<>>
  /\ UNCHANGED <<pc, call, npa, left, caches, dram, pending, latest, torn>>

Owed == {w \in Evas : \E j \in DOMAIN call.jobs :
           w - call.jobs[j].eva \in 0 .. call.jobs[j].n - 1}

(* Variant: the invalidation is forgotten.                                   *)
InvalidatesNone == {}

Invalidates == {"dma_in"}

(* The call is done.  A DMA to the device sends the invalidations of the     *)
(* caches and returns without waiting for them.                              *)
Return ==
  /\ pc = "head" /\ moved = Job.n /\ job = Len(call.jobs)
  /\ pc' = "idle"
  /\ inv' = IF call.kind \in Invalidates THEN Slots ELSE inv
  /\ torn' = IF call.kind = "dma_in" THEN torn \ Owed ELSE torn
  /\ UNCHANGED <<call, job, moved, npa, left, data, caches, dram, fl, rb, latest>>

(* One word further in the segment, and where to go behind the last one.     *)
Advance(next) ==
  /\ npa' = <<npa[1], npa[2] + 1>> /\ left' = left - 1 /\ moved' = moved + 1
  /\ pc' = IF left = 1 THEN next ELSE "xfer"

StoreWord ==
  LET w == Job.eva + moved
      v == Job.vals[moved + 1]
  IN /\ pc = "xfer" /\ call.kind = "memcpy_in" /\ CaughtUp(npa[1])
     /\ \E s \in Slots : Store(s, npa, v)
     /\ latest' = [latest EXCEPT ![w] = v] /\ torn' = torn \ {w}
     /\ Advance("fence")
     /\ UNCHANGED <<call, job, data, pending>>

(* Variant: a load overtakes the invalidations of its cache.                 *)
LoadWordEarly ==
  /\ pc = "xfer" /\ call.kind = "memcpy_out"
  /\ \E s \in Slots :
       Load(s, npa) /\ data' = Append(data, Filled(s, npa)[Offset(npa)])
  /\ Advance("head")
  /\ UNCHANGED <<call, job, pending, latest, torn>>

LoadWord ==
  /\ pc = "xfer" /\ call.kind = "memcpy_out" /\ CaughtUp(npa[1])
  /\ \E s \in Slots :
       Load(s, npa) /\ data' = Append(data, Filled(s, npa)[Offset(npa)])
  /\ Advance("head")
  /\ UNCHANGED <<call, job, pending, latest, torn>>

(* write_mem and memset end with a fence.                                    *)
Fence ==
  /\ pc = "fence" /\ inv = {} /\ fl = {}
  /\ pc' = "head"
  /\ UNCHANGED <<call, job, moved, npa, left, data, caches, dram, pending, latest, torn>>

(* A DMA moves a segment at once.                                            *)
InSegment(a) == a[1] = npa[1] /\ a[2] - npa[2] \in 0 .. left - 1

(* Variant: the EVA is not moved on.                                         *)
EndSegmentStays ==
  /\ pc' = "head" /\ left' = 0
  /\ UNCHANGED <<call, job, moved, npa>>

EndSegment ==
  /\ pc' = "head" /\ moved' = moved + left /\ left' = 0
  /\ UNCHANGED <<call, job, npa>>

DmaWrite ==
  /\ pc = "xfer" /\ call.kind = "dma_in"
  /\ dram' = [a \in Npas |-> IF InSegment(a) THEN Job.vals[moved + 1 + a[2] - npa[2]]
                             ELSE dram[a]]
  /\ LET At(w) == w - Job.eva - moved
     IN /\ latest' = [w \in Evas |-> IF At(w) \in 0 .. left - 1 THEN Job.vals[moved + 1 + At(w)]
                                     ELSE latest[w]]
        /\ torn' = torn \cup {w \in Evas : At(w) \in 0 .. left - 1}
  /\ EndSegment
  /\ UNCHANGED <<data, caches, pending>>

DmaRead ==
  /\ pc = "xfer" /\ call.kind = "dma_out"
  /\ data' = data \o [i \in 1 .. left |-> dram[<<npa[1], npa[2] + i - 1>>]]
  /\ EndSegment
  /\ UNCHANGED <<caches, dram, pending, latest, torn>>

(* Waking the tiles takes stores with a fence each.                          *)
Launch ==
  /\ pc = "launch" /\ inv = {} /\ fl = {}
  /\ pc' = "kernel"
  /\ UNCHANGED <<call, job, moved, npa, left, data, caches, dram, pending, latest, torn>>

KernelEnds ==
  /\ pc = "kernel" /\ pc' = "idle"
  /\ UNCHANGED <<call, job, moved, npa, left, data, caches, dram, pending, latest, torn>>

TileLoad(w) ==
  /\ pc = "kernel"
  /\ \E s \in Slots : Load(s, Home(w))
  /\ UNCHANGED <<host, pending, latest, torn>>

TileStore(w, v) ==
  /\ pc = "kernel"
  /\ \E s \in Slots : Store(s, Home(w), v)
  /\ latest' = [latest EXCEPT ![w] = v] /\ torn' = torn \ {w}
  /\ UNCHANGED <<host, pending>>

HostStep ==
  \/ \E c \in Caches : ReadBack(c)
  \/ Translate \/ TranslateFails \/ NextJob \/ Return
  \/ StoreWord \/ LoadWord \/ Fence \/ DmaWrite \/ DmaRead \/ Launch

Serve == \E s \in Slots : ServeInvalidate(s) \/ ServeFlush(s)

Next ==
  \/ \E c \in Calls : Call(c)
  \/ HostStep
  \/ Serve
  \/ KernelEnds
  \/ \E w \in TileWords : TileLoad(w) \/ \E v \in Vals : TileStore(w, v)

(* The host runs and the caches serve.                                       *)
Fairness == WF_vars(HostStep) /\ WF_vars(Serve)

Spec == Init /\ [][Next]_vars /\ Fairness

-----------------------------------------------------------------------------
(* Type invariant: what is transferred stays within the job.                 *)
CopiesTypeOK ==
  /\ pc \in {"idle", "flush", "head", "xfer", "fence", "launch", "kernel"}
  /\ call \in Calls \cup {NoCall}
  /\ job \in Nat /\ moved \in Nat /\ left \in Nat /\ data \in Seq(Vals)
  /\ job \in DOMAIN call.jobs => moved + left <= Job.n
  /\ tag \in [Slots -> Nat \cup {NoLine}]
  /\ block \in [Slots -> [0 .. LineWords - 1 -> Vals]]
  /\ dram \in [Npas -> Vals] /\ latest \in [Evas -> Vals]
  /\ dirty \subseteq Slots /\ inv \subseteq Slots /\ fl \subseteq Slots
  /\ rb \subseteq Caches /\ torn \subseteq Evas

(* A line is in one slot of its cache, and in the set of its address.        *)
LinesPlaced ==
  \A s \in Slots : tag[s] # NoLine =>
    /\ s[2] = tag[s] % Sets
    /\ \A t \in Slots : t[1] = s[1] /\ tag[t] = tag[s] => t = s

(* Once the invalidations under way are served, a load of any EVA finds the  *)
(* word last written to it, by memcpy, DMA or a kernel - unless a DMA to it  *)
(* has failed half way.                                                      *)
Coherent ==
  \A w \in Evas \ torn :
    LET a == Home(w)
    IN \/ \E s \in Slots \ inv : InSlot(s, a) /\ block[s][Offset(a)] = latest[w]
       \/ (\A s \in Slots \ inv : ~InSlot(s, a)) /\ dram[a] = latest[w]

(* An invalidation drops no word that only the cache has.                    *)
InvalidationLosesNothing == inv \cap dirty = {}

(* While a DMA touches the DRAM no victim cache holds a newer word, nor is   *)
(* one still under way to write it back.                                     *)
FlushedForDma ==
  pc \in {"head", "xfer"} /\ call.kind \in {"dma_in", "dma_out"} =>
    dirty = {} /\ inv = {} /\ fl = {}

(* What memcpy and DMA give to the client are the words last written.        *)
ReadsReturnLatest ==
  \A i \in DOMAIN data :
    LET w == Job.eva + i - 1 IN w \in Evas \ torn => data[i] = latest[w]

(* Every copy and every launch gets through, whatever is under way.          *)
CopiesReturn == (pc \notin {"idle", "kernel"}) ~> (pc \in {"idle", "kernel"})
=============================================================================

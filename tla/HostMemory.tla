----------------------------- MODULE HostMemory -----------------------------
(***************************************************************************)
(* The memory functions of bsg_manycore.cpp (write_mem, memset, read_mem,  *)
(* read_mem_scatter_gather, read8/16/32, write8/16/32, amoadd32) on the    *)
(* platform layer: transmit, receive, credits and fence.                   *)
(*                                                                         *)
(* A request goes from the transmit FIFO into the network, which keeps the *)
(* order of the requests to one node and no other; the node's response     *)
(* takes the way back.  The endpoint counts the requests without response  *)
(* as credits in use and absorbs the responses of stores; responses of     *)
(* loads and of amoadd wait in the response FIFO.                          *)
(***************************************************************************)
EXTENDS Integers, Sequences, FiniteSets, Functions

CONSTANTS
  Nodes,       \* destinations of requests, by their coordinates
  Addrs,       \* the words <<node, EPA >> 2>> that clients use
  BadNodes,    \* coordinates outside of the network
  Drams,       \* the nodes that execute amoadd
  WordMod,     \* words are integers modulo WordMod
  Cap,         \* io_remote_load_cap: the capacity of the response FIFO
  Credits,     \* requests the endpoint may have in the network
  TxDepth,     \* requests the transmit FIFO holds
  MaxWords,    \* bound: words of one call
  ReadLists    \* bound: the address lists that clients gather words from

Words == 0 .. WordMod - 1
Ids   == 0 .. Cap - 1

ASSUME MemoryAssumption ==
  /\ IsFiniteSet(Nodes) /\ Nodes \cap BadNodes = {} /\ Drams \subseteq Nodes
  /\ Addrs \subseteq Nodes \X Nat
  /\ \A l \in ReadLists : \E k \in 1 .. MaxWords :
       l \in [1 .. k -> Addrs \cup (BadNodes \X Nat)]
  /\ WordMod \in Nat \ {0} /\ MaxWords \in Nat \ {0}
  /\ Cap \in Nat \ {0} /\ Credits \in Nat \ {0} /\ TxDepth \in Nat \ {0}

Transfers(kind, as, vs) == {[kind |-> kind, addrs |-> a, vals |-> v] : a \in as, v \in vs}

(* write_mem and memset go through consecutive words of one node.            *)
Writes ==
  LET Run(a, k) == [i \in 1 .. k |-> <<a[1], a[2] + i - 1>>]
  IN UNION {Transfers("write", {Run(a, k) : a \in {b \in Addrs : Range(Run(b, k)) \subseteq Addrs}},
                      [1 .. k -> Words]) : k \in 1 .. MaxWords}

Calls ==
  Writes
  \cup Transfers("store", [1 .. 1 -> Addrs], [1 .. 1 -> Words])
  \cup Transfers("amoadd", [1 .. 1 -> {a \in Addrs : a[1] \in Drams}], [1 .. 1 -> Words])
  \cup Transfers("load", [1 .. 1 -> Addrs], {<<>>})
  \cup Transfers("read", ReadLists, {<<>>})

NoCall == [kind |-> "none", addrs |-> <<>>, vals |-> <<>>]

VARIABLES
  pc,          \* where the host thread is
  call,        \* the call in progress
  rqst_i,      \* requests sent by the call
  rsp_i,       \* responses received by the call
  ids,         \* the stack of free load ids, the top first
  id_to_rsp_i, \* the index each load id was last used for
  result,      \* the words read by the call
  tx,          \* transmit FIFO
  net,         \* requests in the network, for each node
  back,        \* responses in the network, for each node
  rx,          \* response FIFO
  pending,     \* responses the DPI layer expects or holds
  mem,         \* the words of the nodes
  broken       \* ghost: a read failed with responses outstanding

host   == <<pc, call, rqst_i, rsp_i, ids, id_to_rsp_i, result>>
device == <<net, back, mem>>
vars   == <<host, tx, device, rx, pending, broken>>

AllIds == [i \in 1 .. Cap |-> i - 1]

Init ==
  /\ pc = "idle" /\ call = NoCall /\ rqst_i = 0 /\ rsp_i = 0
  /\ ids = AllIds /\ id_to_rsp_i = <<>> /\ result = <<>>
  /\ tx = <<>> /\ rx = <<>> /\ pending = 0
  /\ net = [n \in Nodes |-> <<>>] /\ back = [n \in Nodes |-> <<>>]
  /\ mem \in [Addrs -> Words]
  /\ broken = FALSE

-----------------------------------------------------------------------------
(* The platform. *)

ExpectsResponse(kind) == kind \notin {"write", "store"}

(* Variant: the transmit FIFO takes requests beyond its depth.               *)
TransmitOverfull(rqst) ==
  /\ IF ExpectsResponse(rqst.kind)
     THEN pending < Cap /\ pending' = pending + 1
     ELSE UNCHANGED pending
  /\ tx' = Append(tx, rqst)

(* Variant: the capacity of the response FIFO is not waited for.             *)
TransmitUncounted(rqst) ==
  /\ Len(tx) < TxDepth
  /\ tx' = Append(tx, rqst)
  /\ UNCHANGED pending

(* transmit returns when the DPI layer takes the request.                    *)
Transmit(rqst) ==
  /\ Len(tx) < TxDepth
  /\ IF ExpectsResponse(rqst.kind)
     THEN pending < Cap /\ pending' = pending + 1
     ELSE UNCHANGED pending
  /\ tx' = Append(tx, rqst)

(* receive returns when a response is there.                                 *)
Receive ==
  /\ rx # <<>>
  /\ rx' = Tail(rx)
  /\ pending' = pending - 1

(* The requests without a response that has come back to the endpoint.       *)
CreditsUsed ==
  Cardinality(UNION {{n} \X DOMAIN net[n] : n \in Nodes})
  + Cardinality(UNION {{n} \X DOMAIN back[n] : n \in Nodes})

(* Variant: the fence forgets the transmit FIFO.                             *)
SettledCredits == CreditsUsed = 0

(* fence samples the credits and the transmit FIFO until both are clear.     *)
Settled == CreditsUsed = 0 /\ tx = <<>>

Inject ==
  /\ tx # <<>> /\ CreditsUsed < Credits
  /\ LET n == Head(tx).addr[1] IN net' = [net EXCEPT ![n] = Append(@, Head(tx))]
  /\ tx' = Tail(tx)
  /\ UNCHANGED <<host, back, mem, rx, pending, broken>>

(* The word after a request, and the word a request returns.                 *)
Effect(w, rqst) ==
  CASE rqst.kind \in {"write", "store"} -> rqst.val
    [] rqst.kind = "amoadd"             -> (w + rqst.val) % WordMod
    [] OTHER                            -> w

Serve(n) ==
  /\ net[n] # <<>>
  /\ LET rqst == Head(net[n])
     IN /\ mem' = [mem EXCEPT ![rqst.addr] = Effect(@, rqst)]
        /\ back' = [back EXCEPT ![n] =
                      Append(@, [kind |-> rqst.kind, id |-> rqst.id, val |-> mem[rqst.addr]])]
  /\ net' = [net EXCEPT ![n] = Tail(@)]
  /\ UNCHANGED <<host, tx, rx, pending, broken>>

GiveBack(n) ==
  /\ back[n] # <<>>
  /\ LET rsp == Head(back[n])
     IN rx' = IF ExpectsResponse(rsp.kind)
              THEN Append(rx, [id |-> rsp.id, val |-> rsp.val]) ELSE rx
  /\ back' = [back EXCEPT ![n] = Tail(@)]
  /\ UNCHANGED <<host, tx, net, mem, pending, broken>>

-----------------------------------------------------------------------------
(* The functions. *)

Count == Len(call.addrs)

(* Returning drops the locals of the function.                               *)
LeaveWith(r) ==
  /\ pc' = "idle" /\ call' = NoCall /\ result' = r
  /\ rqst_i' = 0 /\ rsp_i' = 0 /\ ids' = AllIds /\ id_to_rsp_i' = <<>>

Start(c) ==
  CASE c.kind \in {"write", "store"} -> "store"
    [] c.kind = "read"               -> "request"
    [] OTHER                         -> "single"

Begin(c) ==
  /\ pc = "idle"
  /\ broken => Range(c.addrs) \subseteq Addrs  \* bound: one read fails half way
  /\ pc' = Start(c) /\ call' = c
  /\ result' = <<>>
  /\ UNCHANGED <<rqst_i, rsp_i, ids, id_to_rsp_i, tx, device, rx, pending, broken>>

(* One store of write_mem or memset, or the one store of write8/16/32.       *)
Store ==
  /\ pc = "store"
  /\ Transmit([kind |-> call.kind, addr |-> call.addrs[rqst_i + 1],
               val |-> call.vals[rqst_i + 1], id |-> 0])
  /\ rqst_i' = rqst_i + 1
  /\ pc' = IF rqst_i + 1 < Count THEN "store" ELSE "stored"
  /\ UNCHANGED <<call, rsp_i, ids, id_to_rsp_i, result, device, rx, broken>>

(* write_mem and memset return after a fence, write8/16/32 without one.      *)
StoreReturns ==
  /\ pc = "stored"
  /\ call.kind = "write" => Settled
  /\ LeaveWith(<<>>)
  /\ UNCHANGED <<tx, device, rx, pending, broken>>

(* read8/16/32 and amoadd32 send one request and take the next response.     *)
SendSingle ==
  /\ pc = "single"
  /\ Transmit([kind |-> call.kind, addr |-> call.addrs[1], id |-> 0,
               val |-> IF call.kind = "amoadd" THEN call.vals[1] ELSE 0])
  /\ pc' = "answer" /\ rqst_i' = 1
  /\ UNCHANGED <<call, rsp_i, ids, id_to_rsp_i, result, device, rx, broken>>

TakeSingle ==
  /\ pc = "answer"
  /\ Receive
  /\ LeaveWith(<<Head(rx).val>>)
  /\ UNCHANGED <<tx, device, broken>>

(* An entry of an array is written.                                          *)
Put(array, i, x) ==
  [j \in DOMAIN array \cup {i} |-> IF j = i THEN x ELSE array[j]]

(* read_mem_internal: requests while there are words and load ids left...    *)
Request ==
  /\ pc = "request" /\ ids # <<>>
  /\ LET a == call.addrs[rqst_i + 1]
     IN /\ a \in Addrs
        /\ Transmit([kind |-> "read", addr |-> a, id |-> Head(ids), val |-> 0])
  /\ id_to_rsp_i' = Put(id_to_rsp_i, Head(ids), rqst_i + 1)
  /\ ids' = Tail(ids) /\ rqst_i' = rqst_i + 1
  /\ pc' = IF rqst_i + 1 < Count /\ Tail(ids) # <<>> THEN "request" ELSE "receive"
  /\ UNCHANGED <<call, rsp_i, result, device, rx, broken>>

(* ... and at an invalid address returns with its responses outstanding.     *)
RequestFails ==
  /\ pc = "request" /\ ids # <<>>
  /\ call.addrs[rqst_i + 1] \notin Addrs
  /\ LeaveWith(<<>>)
  /\ broken' = (broken \/ rsp_i < rqst_i)
  /\ UNCHANGED <<tx, device, rx, pending>>

(* Variant: responses are taken to come in the order of the requests.        *)
SlotInOrder(id) == rsp_i + 1

(* Variant: the load id of another request is freed, or none.                *)
RecycleInOrder(id) == <<rsp_i>> \o ids
RecycleNothing(id) == ids

(* The word a response is for, and the stack with its load id back on top.   *)
Slot(id) == id_to_rsp_i[id]
Recycle(id) == <<id>> \o ids

(* ... then as many responses as are outstanding, stored by their load ids.  *)
Respond ==
  /\ pc = "receive"
  /\ Receive
  /\ LET id   == Head(rx).id
         data == Put(result, Slot(id), Head(rx).val)
     IN \/ id \notin DOMAIN id_to_rsp_i /\ LeaveWith(<<>>)
        \/ /\ id \in DOMAIN id_to_rsp_i
           /\ IF rsp_i + 1 = Count
              THEN LeaveWith(data)
              ELSE /\ pc' = IF rsp_i + 1 < rqst_i THEN "receive" ELSE "request"
                   /\ result' = data
                   /\ rsp_i' = rsp_i + 1 /\ ids' = Recycle(id)
                   /\ UNCHANGED <<call, rqst_i, id_to_rsp_i>>
  /\ UNCHANGED <<tx, device, broken>>

Next ==
  \/ \E c \in Calls : Begin(c)
  \/ Store \/ StoreReturns \/ SendSingle \/ TakeSingle
  \/ Request \/ RequestFails \/ Respond
  \/ Inject
  \/ \E n \in Nodes : Serve(n) \/ GiveBack(n)

(* The host thread runs, the platform moves packets on, and nodes answer.    *)
Fairness ==
  /\ WF_vars(Store \/ StoreReturns \/ SendSingle \/ TakeSingle \/ Request \/ RequestFails \/ Respond)
  /\ WF_vars(Inject)
  /\ \A n \in Nodes : WF_vars(Serve(n)) /\ WF_vars(GiveBack(n))

Spec == Init /\ [][Next]_vars /\ Fairness

-----------------------------------------------------------------------------
PartialWords(r) == DOMAIN r \subseteq 1 .. MaxWords /\ \A i \in DOMAIN r : r[i] \in Words

(* The queues that a load id is in: the stack of read_mem_internal, and the  *)
(* FIFOs and the network with the packets of reads.                          *)
Queues == {"ids", "tx", "rx"} \X {"host"} \cup {"net", "back"} \X Nodes

Queue ==
  [q \in Queues |-> CASE q[1] = "ids"  -> ids
                      [] q[1] = "tx"   -> tx
                      [] q[1] = "rx"   -> rx
                      [] q[1] = "net"  -> net[q[2]]
                      [] q[1] = "back" -> back[q[2]]]

Carries(q, x, id) ==
  CASE q[1] = "ids" -> x = id
    [] q[1] = "rx"  -> x.id = id
    [] OTHER        -> x.kind = "read" /\ x.id = id

Places(id) ==
  UNION {{q} \X {i \in DOMAIN Queue[q] : Carries(q, Queue[q][i], id)} : q \in Queues}

(* Type invariant: the loop counters and stacks of the host, the FIFOs and   *)
(* the DPI layer's count of expected responses stay in their ranges.         *)
TypeOK ==
  /\ pc \in {"idle", "store", "stored", "single", "answer", "request", "receive"}
  /\ call \in Calls \cup {NoCall}
  /\ 0 <= rsp_i /\ rqst_i <= Count
  /\ ids \in Seq(Ids) /\ DOMAIN id_to_rsp_i \subseteq Ids
  /\ PartialWords(result)
  /\ mem \in [Addrs -> Words]
  /\ pending \in 0 .. Cap /\ Len(tx) <= TxDepth

(* Every load id is on the stack of read_mem_internal or in flight, and only *)
(* once, so a response never finds the index of another request.             *)
LoadIdConserved ==
  call.kind = "read" /\ ~broken =>
    \A id \in Ids : Cardinality(Places(id)) = 1

(* The response FIFO, whose full flag the endpoint ignores, always has room. *)
ResponsesFit == Len(rx) <= Cap

(* When write_mem or memset returns, its words are in memory and not only on *)
(* their way: what the tiles rely on when the host wakes them next.          *)
WriteLanded ==
  [][call.kind = "write" /\ pc' = "idle" =>
       \A i \in DOMAIN call.addrs : mem[call.addrs[i]] = call.vals[i]]_vars

(* The word at an address before and after requests are served in order.     *)
Served(w, a, rqst) == IF rqst.addr = a THEN Effect(w, rqst) ELSE w

After(w, a, s) ==
  LET word[k \in 0 .. Len(s)] == IF k = 0 THEN w ELSE Served(word[k - 1], a, s[k])
  IN  word[Len(s)]

(* A word with the requests under way applied: those to its node in the      *)
(* order of the network, then those in the transmit FIFO.                    *)
Effective(a) == After(mem[a], a, net[a[1]] \o tx)

Memory == INSTANCE WordMemory WITH
  mem    <- [a \in Addrs |-> Effective(a)],
  done   <- IF call.kind \in {"read", "load"} THEN 0 ELSE rqst_i,
  result <- IF pc = "idle" THEN result ELSE <<>>

(* To their caller, pipelined and reordered requests look like a memory that *)
(* handles one call at a time, until a read has failed half way.             *)
ImplementsMemory == Memory!Spec

(* A read that succeeds returns the words of its own addresses, whatever was *)
(* called before.  A read that failed half way leaves its responses behind,  *)
(* and a later read takes them for its own.                                  *)
ReadsReturnMemory ==
  [][call.kind \in {"load", "read"} /\ pc' = "idle" /\ result' # <<>> =>
       result' = [i \in DOMAIN call.addrs |-> Effective(call.addrs[i])]]_vars

(* Every call returns: neither full FIFOs, nor missing credits or load ids,  *)
(* nor the fence block the host for ever - unless a read has failed half way *)
(* before and its responses hold the capacity of the response FIFO.          *)
CallReturns == (pc # "idle") ~> (pc = "idle" \/ broken)
=============================================================================

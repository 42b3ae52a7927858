------------------------------ MODULE SendQueue ------------------------------
(***************************************************************************)
(* The queue of RTP packets between the thread that encodes video and the  *)
(* thread that sends it: packed/packets_list.c, with the two functions of  *)
(* transport_udp.c that work on it, transport_send_rtp_seq (the producer)  *)
(* and the loop of worker_rtp_sendto (the sender).                         *)
(*                                                                         *)
(* A node of the list lives in a block of a pool.  The pool moves blocks   *)
(* between a used and a free list, bzeroes a block when it hands it out    *)
(* and leaves its content alone when it takes it back.  The queue itself   *)
(* is the chain of `next` pointers from list_current_send; a new node is   *)
(* linked behind list_current_write, which nobody resets when the queue    *)
(* runs empty.                                                             *)
(*                                                                         *)
(* rtp_cache_mutex is held by the producer around the add, which is one    *)
(* action here, and by the sender around packet_list_node_offset.  The     *)
(* producer's overflow check and packet_list_reset take no lock, and the   *)
(* sender's reads of list_current_send and of the node take none: they are *)
(* split into the steps another thread can come between.  So is each call  *)
(* of memory_list_free, whose search of the used list and whose relinking  *)
(* the other thread's call can fall between.                               *)
(***************************************************************************)
EXTENDS Integers, Sequences, FiniteSets

CONSTANTS
  MaxSize,     \* RTP_LIST_MAX_SIZE
  MaxLoop,     \* MAX_LOOP_NUM, where the two counters wrap
  Word,        \* 2^32, the width of pj_uint32_t
  ResendSize,  \* RESEND_BUFF_NUMBER
  SeqMod,      \* 2^16, the width of an RTP sequence number
  NumPackets,  \* bound: packets the encoder makes
  MaxBlocks    \* bound: blocks malloc can provide

ASSUME Assumption ==
  /\ MaxSize \in Nat \ {0}
  /\ Word \in Nat /\ MaxSize < Word \div 2
  /\ MaxLoop \in Nat /\ MaxSize <= MaxLoop /\ MaxLoop < Word
  /\ ResendSize \in Nat \ {0} /\ SeqMod \in Nat \ {0}
  /\ NumPackets \in Nat
  /\ MaxBlocks \in Nat

VARIABLES
  \* the pool (memory_list) and what the blocks hold
  nblocks,     \* blocks malloc'ed so far, which are 1..nblocks
  used,        \* the blocks on the used list; its order is never looked at
  free,        \* the free list, free_head first
  buf,         \* block -> the packet in rtp_buf, Blank when bzero'ed
  next,        \* block -> the node's next pointer
  \* the list (rtp_sendto_thread_list_header)
  writeSize, sendSize, curSend, curWrite,
  pack_type,   \* "H264" or "H265", from vid_stream_create
  \* the resend cache (transport_udp.resend): slot -> id of the packet saved
  resend,
  \* the producer, inside transport_send_rtp_seq
  pPc,         \* "idle", "scan", "drop", "free", "counters" or "add"
  pNode,       \* packet_list_reset's node
  pDrop,       \* its idrIndex: nodes still to drop
  pFreed,      \* its freeCount
  pFound,      \* in memory_list_free: the search found the block
  \* the sender, inside worker_rtp_sendto
  sPc,         \* "fetch", "send", "offset" or "free"
  sNode,       \* rtp_node; in "free", packet_list_node_offset's node
  sFound,      \* in memory_list_free: the search found the block
  fault,       \* a NULL pointer was dereferenced: the process is gone
  \* history, read by properties only
  added,       \* number of packets queued; the n-th has id n
  tried,       \* ids handed to sendto
  dropped,     \* ids freed by packet_list_reset before they were tried
  pending,     \* while damage = {}: the blocks the queue consists of, in order
  resets,      \* number of resets done
  damage       \* what has gone wrong with the list so far, see Clean

poolVars == <<nblocks, used, free>>
nodeVars == <<buf, next>>
listVars == <<writeSize, sendSize, curSend, curWrite>>
producerVars == <<pPc, pNode, pDrop, pFreed, pFound>>
senderVars == <<sPc, sNode, sFound>>
historyVars == <<added, tried, dropped, pending, resets, damage>>
vars == <<poolVars, nodeVars, listVars, resend, producerVars, senderVars,
          fault, pack_type, historyVars>>

NULL == 0
Block == 1..MaxBlocks
Packet == [id : 1..NumPackets, sps : BOOLEAN]
Blank == [id |-> 0, sps |-> FALSE]
-----------------------------------------------------------------------------
(***************************************************************************)
(* The pool.                                                               *)
(***************************************************************************)

\* Hands out block b: the head of the free list, or a new block.
memory_list_malloc(b) ==
  /\ \/ /\ free = <<>>
        /\ b = nblocks + 1
        /\ nblocks' = b
        /\ free' = free
     \/ /\ free # <<>>
        /\ b = Head(free)
        /\ free' = Tail(free)
        /\ nblocks' = nblocks
  /\ used' = used \cup {b}

\* A plausible slip: the block goes to the free list unsearched.
FreeUnsearched(b, found) ==
  /\ used' = used \ {b}
  /\ free' = Append(free, b)
  /\ nblocks' = nblocks

\* The end of memory_list_free(b), whose search has found b on the used list or
\* not.  Of two calls that relink at the same time one may undo what the other
\* did to the used or to the free list.
memory_list_free(b, found) ==
  /\ \/ /\ found
        /\ used' = used \ {b}
        /\ free' = Append(free, b)
     \/ /\ ~found
        /\ UNCHANGED <<used, free>>
     \/ /\ found /\ pPc = "free" /\ sPc = "free"
        /\ used' = used
        /\ free' = Append(free, b)
     \/ /\ found /\ pPc = "free" /\ sPc = "free"
        /\ used' = used \ {b}
        /\ free' = free
  /\ nblocks' = nblocks
-----------------------------------------------------------------------------
(***************************************************************************)
(* The list.                                                               *)
(***************************************************************************)

\* hop[k] is the node k next-pointers away from list_current_send.
hop[k \in 0..MaxBlocks] ==
  IF k = 0 THEN curSend
  ELSE IF hop[k - 1] = NULL THEN NULL ELSE next[hop[k - 1]]

\* The number of nodes a walk from list_current_send meets (idrTrack).
ChainLength == Cardinality({k \in 0..(MaxBlocks - 1) : hop[k] # NULL})

\* The place of the last SPS in the chain, counted from 1; 0 if there is none.
LastSpsPlace ==
  Cardinality({k \in 0..(MaxBlocks - 1) :
                 \E m \in k..(MaxBlocks - 1) : hop[m] # NULL /\ buf[hop[m]].sps})

\* Plausible slips: no cap at RTP_LIST_MAX_SIZE, and the SPS is dropped too.
IdrUncapped == IF LastSpsPlace = 0 THEN ChainLength ELSE LastSpsPlace - 1

IdrWithSps ==
  LET n == IF LastSpsPlace = 0 THEN ChainLength ELSE LastSpsPlace
  IN  IF n > MaxSize THEN MaxSize ELSE n

\* How many nodes an H.264 reset drops: up to, not including, the last SPS.
IdrIndex ==
  LET n == IF LastSpsPlace = 0 THEN ChainLength ELSE LastSpsPlace - 1
  IN  IF n > MaxSize THEN MaxSize ELSE n

\* abs((int)(write - send)) > bufsize, on Word-wide unsigned counters.
Overflow ==
  LET d == (writeSize - sendSize) % Word
  IN  (IF d < Word \div 2 THEN d ELSE Word - d) > MaxSize

\* A plausible slip: the size used as a mask.
ResendMasked(extSeq) == (extSeq % SeqMod) % (ResendSize - 1)

\* index in resend_save_rtp, for the 16-bit extSeq it is given.
ResendSlot(extSeq) == (extSeq % SeqMod) % ResendSize

\* A plausible slip: wraps one too late.
CountUpLate(n) == IF n > MaxLoop THEN 0 ELSE n + 1

\* The wrap of writePackSize.
CountUp(n) == IF n = MaxLoop THEN 0 ELSE n + 1

\* The queue as its history should have made it.
Clean == damage = {}
-----------------------------------------------------------------------------
(***************************************************************************)
(* The producer: transport_send_rtp_seq, one call per packet.              *)
(***************************************************************************)

\* The unlocked overflow check, which decides whether to reset.
CheckOverflow ==
  /\ pPc = "idle"
  /\ added < NumPackets
  /\ pPc' = IF Overflow THEN "scan" ELSE "add"
  /\ UNCHANGED <<poolVars, nodeVars, listVars, resend, pNode, pDrop, pFreed,
                 pFound, senderVars, historyVars>>

\* packet_list_reset reads list_current_send and looks for the last SPS.  On a
\* chain that never ends it would not come back.
ResetScan ==
  /\ pPc = "scan"
  /\ hop[MaxBlocks] = NULL
  /\ pNode' = curSend
  /\ pDrop' = IF pack_type = "H264" THEN IdrIndex ELSE 0
  /\ pFreed' = 0
  /\ pPc' = "drop"
  /\ UNCHANGED <<poolVars, nodeVars, listVars, resend, pFound, senderVars,
                 historyVars>>

MoreToDrop == pNode # NULL /\ (pack_type = "H264" => pDrop > 0)

\* A turn of the loop that frees nodes begins: memory_list_free searches the
\* used list, with no lock.
ResetFree ==
  /\ pPc = "drop"
  /\ MoreToDrop
  /\ pFound' = (pNode \in used)
  /\ damage' = IF sPc = "free" THEN damage \cup {"pool"} ELSE damage
  /\ pPc' = "free"
  /\ UNCHANGED <<poolVars, nodeVars, listVars, resend, pNode, pDrop, pFreed,
                 senderVars, added, tried, dropped, pending, resets>>

\* The turn ends: the node is relinked, the next one is read from it.
ResetDrop ==
  /\ pPc = "free"
  /\ memory_list_free(pNode, pFound)
  /\ pNode' = next[pNode]
  /\ pDrop' = IF pack_type = "H264" THEN pDrop - 1 ELSE pDrop
  /\ pFreed' = pFreed + 1
  /\ dropped' = dropped \cup ({buf[pNode].id} \ tried)
  /\ pPc' = "drop"
  /\ pFound' = FALSE
  /\ UNCHANGED <<nodeVars, listVars, resend, senderVars,
                 added, tried, pending, resets, damage>>

\* H.264: the first node kept becomes the node to send next.
ResetRelinkH264 ==
  /\ pack_type = "H264"
  /\ curSend' = pNode
  /\ damage' = IF sPc \in {"send", "offset"} /\ sNode # pNode
               THEN damage \cup {"race"} ELSE damage
  /\ pending' = IF damage' = {} THEN SubSeq(pending, pFreed + 1, Len(pending))
                ELSE pending
  /\ UNCHANGED <<poolVars, nodeVars, curWrite>>

\* H.265: the list starts again with one node that holds no packet.
ResetRelinkH265 ==
  /\ pack_type = "H265"
  /\ \E b \in Block :
       /\ memory_list_malloc(b)
       /\ buf' = [buf EXCEPT ![b] = Blank]
       /\ next' = [next EXCEPT ![b] = NULL]
       /\ curSend' = b
       /\ curWrite' = b
  /\ damage' = damage \cup {"blankHead"}
                      \cup (IF sPc = "free" THEN {"pool"} ELSE {})
  /\ pending' = pending

\* The loop is over.
ResetRelink ==
  /\ pPc = "drop"
  /\ ~MoreToDrop
  /\ ResetRelinkH264 \/ ResetRelinkH265
  /\ pPc' = "counters"
  /\ UNCHANGED <<writeSize, sendSize, resend, pNode, pDrop, pFreed, pFound,
                 senderVars, added, tried, dropped, resets>>

\* A plausible slip: writePackSize is reset to 0 whatever was kept.
CountersZero ==
  /\ pPc = "counters"
  /\ writeSize' = 0
  /\ sendSize' = 0
  /\ resets' = resets + 1
  /\ pPc' = "add"
  /\ pNode' = NULL /\ pDrop' = 0 /\ pFreed' = 0
  /\ UNCHANGED <<poolVars, nodeVars, curSend, curWrite, resend, pFound,
                 senderVars, added, tried, dropped, pending, damage>>

\* The last two assignments of the reset, which returns.
ResetCounters ==
  /\ pPc = "counters"
  /\ writeSize' = IF pack_type = "H264" THEN MaxSize - pFreed ELSE 0
  /\ sendSize' = 0
  /\ resets' = resets + 1
  /\ pPc' = "add"
  /\ pNode' = NULL /\ pDrop' = 0 /\ pFreed' = 0
  /\ UNCHANGED <<poolVars, nodeVars, curSend, curWrite, resend, pFound,
                 senderVars, added, tried, dropped, pending, damage>>

\* Plausible slips: the new node's next pointer is not cleared, and the first
\* node is not made the one to send next.
AddUncleared(p) ==
  \E b \in Block :
    /\ memory_list_malloc(b)
    /\ buf' = [buf EXCEPT ![b] = p]
    /\ next' = IF curWrite = NULL THEN next ELSE [next EXCEPT ![curWrite] = b]
    /\ writeSize' = CountUp(writeSize)
    /\ curSend' = IF curSend = NULL THEN b ELSE curSend
    /\ curWrite' = b
    /\ damage' = IF curWrite = b THEN damage \cup {"selfLink"} ELSE damage
    /\ pending' = IF damage' = {} THEN Append(pending, b) ELSE pending
    /\ UNCHANGED sendSize

AddHeadless(p) ==
  \E b \in Block :
    /\ memory_list_malloc(b)
    /\ buf' = [buf EXCEPT ![b] = p]
    /\ next' = IF curWrite = NULL THEN [next EXCEPT ![b] = NULL]
               ELSE [next EXCEPT ![b] = NULL, ![curWrite] = b]
    /\ writeSize' = CountUp(writeSize)
    /\ curWrite' = b
    /\ damage' = IF curWrite = b THEN damage \cup {"selfLink"} ELSE damage
    /\ pending' = IF damage' = {} THEN Append(pending, b) ELSE pending
    /\ UNCHANGED <<sendSize, curSend>>

\* packet_list_node_add.
packet_list_node_add(p) ==
  \E b \in Block :
    /\ memory_list_malloc(b)
    /\ buf' = [buf EXCEPT ![b] = p]
    /\ next' = IF curWrite = NULL THEN [next EXCEPT ![b] = NULL]
               ELSE [next EXCEPT ![b] = NULL, ![curWrite] = b]
    /\ writeSize' = CountUp(writeSize)
    /\ curSend' = IF curSend = NULL THEN b ELSE curSend
    /\ curWrite' = b
    /\ damage' = IF curWrite = b THEN damage \cup {"selfLink"} ELSE damage
    /\ pending' = IF damage' = {} THEN Append(pending, b) ELSE pending
    /\ UNCHANGED sendSize

\* The part under the mutex: the packet is queued and saved for a resend, in the
\* slot of the session's out_extseq, which is by now one past the packet's own
\* number: the n-th packet has number n - 1 and goes where n belongs.  Whether a
\* packet is an SPS is only looked at in H.264.
Add ==
  /\ pPc = "add"
  /\ sPc # "free"
  /\ \E sps \in BOOLEAN :
       /\ sps => pack_type = "H264"
       /\ packet_list_node_add([id |-> added + 1, sps |-> sps])
  /\ resend' = [resend EXCEPT ![ResendSlot(added + 1)] = added + 1]
  /\ added' = added + 1
  /\ pPc' = "idle"
  /\ UNCHANGED <<pNode, pDrop, pFreed, pFound, senderVars, tried, dropped, resets>>
-----------------------------------------------------------------------------
(***************************************************************************)
(* The sender: the loop of worker_rtp_sendto.                              *)
(***************************************************************************)

\* Reads list_current_send and the node's size.  Without a node, or with an
\* empty one, the loop turns without effect.
Fetch ==
  /\ sPc = "fetch"
  /\ curSend # NULL
  /\ buf[curSend] # Blank
  /\ sNode' = curSend
  /\ sPc' = "send"
  /\ UNCHANGED <<poolVars, nodeVars, listVars, resend, producerVars, sFound,
                 historyVars>>

\* sendto, on what the node's buffer holds by now.  Whether it succeeds makes
\* no difference to what follows: there is no second attempt.
Transmit ==
  /\ sPc = "send"
  /\ tried' = tried \cup {buf[sNode].id}
  /\ sPc' = "offset"
  /\ UNCHANGED <<poolVars, nodeVars, listVars, resend, producerVars, sNode, sFound,
                 added, dropped, pending, resets, damage>>

\* packet_list_node_offset: list_current_send moves on, and memory_list_free
\* searches the used list for the node it leaves.
packet_list_node_offset ==
  /\ sendSize' = IF sendSize = MaxLoop THEN 0
                 ELSE IF sendSize < writeSize THEN sendSize + 1 ELSE sendSize
  /\ curSend' = next[curSend]
  /\ sNode' = curSend
  /\ sFound' = (curSend \in used)

\* The locked part begins.  The head that is taken off need not be the node sent.
Offset ==
  /\ sPc = "offset"
  /\ curSend # NULL
  /\ packet_list_node_offset
  /\ sPc' = "free"
  /\ damage' = damage
       \cup (IF pPc \in {"drop", "free", "counters"} THEN {"race"} ELSE {})
       \cup (IF pPc = "free" THEN {"pool"} ELSE {})
  /\ pending' = IF damage' = {} THEN SubSeq(pending, 2, Len(pending)) ELSE pending
  /\ UNCHANGED <<poolVars, nodeVars, writeSize, curWrite, resend, producerVars,
                 added, tried, dropped, resets>>

\* A plausible slip: the loop goes on with the node it has.
OffsetNoRefetch ==
  /\ sPc = "free"
  /\ memory_list_free(sNode, sFound)
  /\ sPc' = "send"
  /\ UNCHANGED <<nodeVars, listVars, resend, producerVars, sNode, sFound, historyVars>>

\* The locked part ends: the node that was left is relinked.
OffsetFree ==
  /\ sPc = "free"
  /\ memory_list_free(sNode, sFound)
  /\ sPc' = "fetch"
  /\ sNode' = NULL /\ sFound' = FALSE
  /\ UNCHANGED <<nodeVars, listVars, resend, producerVars, historyVars>>

\* packet_list_node_offset on an empty list reads list_current_send->next.
OffsetOfNull ==
  /\ sPc = "offset"
  /\ curSend = NULL
  /\ fault' = TRUE
  /\ UNCHANGED <<poolVars, nodeVars, listVars, resend, producerVars, senderVars,
                 pack_type, historyVars>>
-----------------------------------------------------------------------------
Init ==
  /\ nblocks = 0 /\ used = {} /\ free = <<>>
  /\ buf = [b \in Block |-> Blank]
  /\ next = [b \in Block |-> NULL]
  /\ writeSize = 0 /\ sendSize = 0 /\ curSend = NULL /\ curWrite = NULL
  /\ pack_type \in {"H264", "H265"}
  /\ resend = [i \in 0..(ResendSize - 1) |-> 0]
  /\ pPc = "idle" /\ pNode = NULL /\ pDrop = 0 /\ pFreed = 0 /\ pFound = FALSE
  /\ sPc = "fetch" /\ sNode = NULL /\ sFound = FALSE
  /\ fault = FALSE
  /\ added = 0 /\ tried = {} /\ dropped = {} /\ pending = <<>>
  /\ resets = 0 /\ damage = {}

Producer ==
  /\ \/ CheckOverflow \/ ResetScan \/ ResetFree \/ ResetDrop
     \/ ResetRelink \/ ResetCounters \/ Add
  /\ UNCHANGED <<fault, pack_type>>

Sender ==
  \/ (Fetch \/ Transmit \/ Offset \/ OffsetFree) /\ UNCHANGED <<fault, pack_type>>
  \/ OffsetOfNull

Next == ~fault /\ (Producer \/ Sender)

Spec == Init /\ [][Next]_vars

\* Each thread goes on whenever it can: both are pthreads the kernel schedules,
\* and the mutex is only held for the length of a list operation.
FairSpec == Spec /\ WF_vars(~fault /\ Producer) /\ WF_vars(~fault /\ Sender)
-----------------------------------------------------------------------------
(***************************************************************************)
(* Properties.                                                             *)
(***************************************************************************)

\* The types of the variables.
TypeOK ==
  /\ nblocks \in 0..MaxBlocks
  /\ used \subseteq Block
  /\ free \in Seq(Block)
  /\ buf \in [Block -> Packet \cup {Blank}]
  /\ next \in [Block -> Block \cup {NULL}]
  /\ writeSize \in 0..MaxLoop
  /\ sendSize \in 0..MaxLoop
  /\ curSend \in Block \cup {NULL}
  /\ curWrite \in Block \cup {NULL}
  /\ resend \in [0..(ResendSize - 1) -> 0..NumPackets]
  /\ pPc \in {"idle", "scan", "drop", "free", "counters", "add"}
  /\ pNode \in Block \cup {NULL}
  /\ pPc = "free" => pNode # NULL /\ (pack_type = "H264" => pDrop > 0)
  /\ pFound \in BOOLEAN
  /\ pDrop \in Nat
  /\ pFreed \in Nat
  /\ pack_type \in {"H264", "H265"}
  /\ pack_type = "H264" => pDrop + pFreed <= MaxSize
  /\ sPc \in {"fetch", "send", "offset", "free"}
  /\ sFound \in BOOLEAN
  /\ sNode \in Block \cup {NULL}
  /\ sPc # "fetch" => sNode # NULL
  /\ fault \in BOOLEAN
  /\ added \in 0..NumPackets
  /\ pPc # "idle" => added < NumPackets
  /\ tried \subseteq 0..NumPackets
  /\ dropped \subseteq 0..NumPackets
  /\ pending \in Seq(Block)
  /\ resets \in Nat
  /\ damage \subseteq {"selfLink", "race", "blankHead", "pool"}

\* Every block malloc'ed is on the used list or on the free list, once, and on
\* one of them only.
Partition ==
  /\ \A i, j \in DOMAIN free : free[i] = free[j] => i = j
  /\ \A i \in DOMAIN free : free[i] \notin used
  /\ used \cup {free[i] : i \in DOMAIN free} = 1..nblocks

\* One thread at most is inside memory_list_free, and what its search found is
\* still so.
Calls ==
  /\ ~(pPc = "free" /\ sPc = "free")
  /\ pPc = "free" => (pFound <=> pNode \in used)
  /\ sPc = "free" => (sFound <=> sNode \in used)

\* For as long as no two calls on the pool have overlapped no block is handed out
\* twice or leaks out of the pool, even when packet_list_reset and
\* packet_list_node_offset free the same node one after the other, or a reset
\* works on a list the sender has changed under it.  The reset frees without
\* rtp_cache_mutex, so calls can overlap; from then on nothing is promised.
PoolPartition == "pool" \notin damage => Partition /\ Calls

\* The first node of the queue that a reset under way has not freed.
FirstKept == IF pPc \in {"drop", "free"} THEN pFreed + 1 ELSE 1

\* The pointers of packets_list.c spell out the queue: the chain from
\* list_current_send runs through its blocks and ends, list_current_write is
\* the last of them, and the blocks in use are these, but for those that a
\* reset under way has freed already and the one the sender is about to free.
Shape ==
  /\ curSend = IF pending = <<>> THEN NULL ELSE pending[1]
  /\ pending # <<>> => curWrite = pending[Len(pending)]
  /\ \A i \in 1..Len(pending) :
       next[pending[i]] = IF i < Len(pending) THEN pending[i + 1] ELSE NULL
  /\ sPc = "free" => \A i \in 1..Len(pending) : pending[i] # sNode
  /\ used = {pending[i] : i \in FirstKept..Len(pending)}
              \cup (IF sPc = "free" THEN {sNode} ELSE {})

\* The queue holds the newest packets without a gap, and each older one was
\* tried or dropped by a reset.
Complete ==
  /\ Len(pending) <= added
  /\ \A i \in 1..Len(pending) : buf[pending[i]].id = added - Len(pending) + i
  /\ 1..(added - Len(pending)) \subseteq tried \cup dropped

\* While the list is clean, its pointers have the shape of the queue.
QueueShape == Clean => Shape

\* What the sender has in hand between its read of the head and the offset.
InHand ==
  sPc \in {"send", "offset"} =>
    /\ pending # <<>> /\ sNode = pending[1]
    /\ sPc = "offset" => buf[sNode].id \in tried

\* How far packet_list_reset has come.
DropProgress ==
  pPc \in {"drop", "free"} =>
    /\ pFreed <= Len(pending)
    /\ pNode = IF pFreed < Len(pending) THEN pending[pFreed + 1] ELSE NULL
    /\ \A i \in 1..pFreed : buf[pending[i]].id \in tried \cup dropped

\* The packets tried are older than those in the queue, but for the head.
TriedAreOld ==
  \A id \in tried :
    id <= added - Len(pending) + (IF sPc = "offset" THEN 1 ELSE 0)

Distinct == \A i, j \in 1..Len(pending) : pending[i] = pending[j] => i = j

\* While the list is clean its pointers have the shape of the queue and no packet
\* goes missing; with what makes that inductive: no block is in the queue twice,
\* the sender holds its head, no packet behind that was tried.
CleanInv ==
  Clean => Shape /\ Complete /\ Distinct /\ InHand /\ DropProgress /\ TriedAreOld

\* list_current_send->next is read through a NULL pointer only after a reset
\* has emptied the list under a packet the sender had in hand.
FaultOnlyByRace == fault => "race" \in damage

\* Until the counters wrap, their difference, from which an overflow is told, is
\* the queue's length up to the first reset; after that it falls short of the
\* length by at most one per reset (and may exceed it).
Accounting ==
  (Clean /\ added < MaxLoop /\ pPc # "counters") =>
    /\ Len(pending) <= writeSize - sendSize + resets
    /\ resets = 0 => Len(pending) = writeSize - sendSize

\* A reset that is not raced leaves the last SPS in the queue, and right at its
\* head unless it dropped all the MaxSize nodes it may drop.
ResetKeepsLastSps ==
  [][(pPc = "drop" /\ pPc' = "counters" /\ Clean') =>
       \A i \in DOMAIN pending :
         (/\ buf[pending[i]].sps
          /\ \A j \in DOMAIN pending : j > i => ~buf[pending[j]].sps)
         => /\ \E j \in DOMAIN pending' : pending'[j] = pending[i]
            /\ pending'[1] = pending[i] \/ Len(pending) - Len(pending') = MaxSize]_vars

\* The own number of the packet with a given id, in its RTP header.
Number(id) == (id - 1) % SeqMod

\* resend_save_rtp files a packet one slot late: with the cache's size dividing
\* the width of the numbers, each of the last ResendSize packets lies where the
\* number after its own belongs, and in the slot of its own number lies the
\* packet made before it - for the oldest that is kept, the newest.
ResendOneLate ==
  SeqMod % ResendSize = 0 =>
    \A id \in 1..added : id > added - ResendSize =>
      /\ resend[ResendSlot(Number(id) + 1)] = id
      /\ resend[ResendSlot(Number(id))] =
           IF id - 1 > added - ResendSize THEN id - 1 ELSE added

\* Every packet queued on a clean list is tried or dropped in the end.
EveryPacketLeaves ==
  \A id \in 1..NumPackets : added >= id ~> (id \in tried \cup dropped \/ ~Clean)

\* The list is a FIFO of packets for as long as it is clean.
Fifo == INSTANCE SendFifo WITH
          queue <- [i \in DOMAIN pending |-> buf[pending[i]]],
          ok <- Clean
ImplementsFifo == Fifo!Spec
-----------------------------------------------------------------------------
(***************************************************************************)
(* What comments of packets_list.c say and the code does not do.           *)
(***************************************************************************)

\* The ids of the packets in the chain from list_current_send.
Queued == {buf[hop[k]].id : k \in {m \in 0..MaxBlocks : hop[m] # NULL}}

\* :336 "copy the rtp pkg into the list of sendto thread  and return": a packet
\* that was added is in the list until it is tried or a reset drops it.
AddedIsInList ==
  damage \cap {"race", "pool"} = {} => 1..added \subseteq tried \cup dropped \cup Queued
=============================================================================

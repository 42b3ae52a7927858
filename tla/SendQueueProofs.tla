--------------------------- MODULE SendQueueProofs ---------------------------
(***************************************************************************)
(* Proofs about SendQueue, for every list size, counter width, packet type *)
(* and number of packets.                                                  *)
(***************************************************************************)
EXTENDS SendQueue, NumberLemmas, FiniteSetTheorems, SequenceTheorems, TLAPS

-----------------------------------------------------------------------------
(***************************************************************************)
(* The operators.                                                          *)
(***************************************************************************)

\* A reset drops between none and MaxSize nodes: the walk over the list yields
\* two numbers of places, whatever the pointers are.
LEMMA IdrIndexType == IdrIndex \in 0..MaxSize
<1>1. IsFiniteSet(0..(MaxBlocks - 1))
  BY Assumption, FS_Interval
<1>2. ChainLength \in Nat
  BY <1>1, FS_Subset, FS_CardinalityType DEF ChainLength
<1>3. LastSpsPlace \in Nat
  BY <1>1, FS_Subset, FS_CardinalityType DEF LastSpsPlace
<1>4. QED
  BY <1>2, <1>3, Assumption DEF IdrIndex

\* memory_list_malloc keeps the pool's types.
LEMMA MallocType ==
  ASSUME TypeOK, NEW b \in Block, memory_list_malloc(b)
  PROVE  nblocks' \in 0..MaxBlocks /\ used' \subseteq Block /\ free' \in Seq(Block)
<1>1. free \in Seq(Block) /\ nblocks \in 0..MaxBlocks /\ used \subseteq Block
  BY DEF TypeOK
<1>2. CASE free = <<>>
  BY <1>1, <1>2, Assumption DEF memory_list_malloc, Block
<1>3. CASE free # <<>>
  <2>1. Tail(free) \in Seq(Block)
    BY <1>1, <1>3
  <2>2. QED
    BY <1>1, <1>3, <2>1 DEF memory_list_malloc
<1>4. QED
  BY <1>2, <1>3

\* memory_list_free keeps the pool's types.
LEMMA FreeType ==
  ASSUME TypeOK, NEW b \in Block, NEW found, memory_list_free(b, found)
  PROVE  nblocks' \in 0..MaxBlocks /\ used' \subseteq Block /\ free' \in Seq(Block)
<1>1. free \in Seq(Block) /\ nblocks \in 0..MaxBlocks /\ used \subseteq Block
  BY DEF TypeOK
<1>2. Append(free, b) \in Seq(Block)
  BY <1>1
<1>3. QED
  BY <1>1, <1>2 DEF memory_list_free

\* A packet's id is a number up to NumPackets, a bzero'ed buffer's is 0.
LEMMA IdType ==
  ASSUME NEW p \in Packet \cup {Blank}
  PROVE  p.id \in 0..NumPackets
<1>1. CASE p \in Packet
  BY <1>1, Assumption DEF Packet
<1>2. CASE p = Blank
  BY <1>2, Assumption DEF Blank
<1>3. QED
  BY <1>1, <1>2

\* A slot of the resend cache.
LEMMA ResendSlotType ==
  ASSUME NEW n \in Nat
  PROVE  ResendSlot(n) \in 0..(ResendSize - 1)
BY Assumption DEF ResendSlot

\* A sequence is empty when its length is 0.
LEMMA EmptyLen ==
  ASSUME NEW S, NEW s \in Seq(S)
  PROVE  s = <<>> <=> Len(s) = 0
OBVIOUS

\* No block is NULL.
LEMMA BlockNotNull ==
  ASSUME NEW b \in Block
  PROVE  b # NULL
BY Assumption DEF Block, NULL

\* CountUp stays below the number it wraps at.
LEMMA CountUpType ==
  ASSUME NEW n \in 0..MaxLoop
  PROVE  CountUp(n) \in 0..MaxLoop
BY Assumption DEF CountUp

-----------------------------------------------------------------------------
(***************************************************************************)
(* Type correctness.                                                       *)
(***************************************************************************)

LEMMA TypeInit == Init => TypeOK
<1> SUFFICES ASSUME Init PROVE TypeOK
  OBVIOUS
<1>1. buf \in [Block -> Packet \cup {Blank}] /\ next \in [Block -> Block \cup {NULL}]
  BY DEF Init
<1>2. free \in Seq(Block) /\ pending \in Seq(Block)
  BY DEF Init
<1>3. resend \in [0..(ResendSize - 1) -> 0..NumPackets]
  BY Assumption DEF Init
<1>4. QED
  BY <1>1, <1>2, <1>3, Assumption DEF Init, TypeOK

LEMMA TypeProducer == TypeOK /\ Producer => TypeOK'
<1> SUFFICES ASSUME TypeOK, Producer PROVE TypeOK'
  OBVIOUS
<1> USE DEF TypeOK
<1> fault' = fault /\ pack_type' = pack_type
  BY DEF Producer
<1>1. CASE CheckOverflow
  BY <1>1 DEF CheckOverflow, poolVars, nodeVars, listVars, senderVars, historyVars
<1>2. CASE ResetScan
  <2>1. pDrop' \in 0..MaxSize /\ pFreed' = 0
    BY <1>2, IdrIndexType, Assumption DEF ResetScan
  <2>2. QED
    BY SMTT(30), <1>2, <2>1 DEF ResetScan, poolVars, nodeVars, listVars, senderVars, historyVars
<1>8. CASE ResetFree
  <2>1. pPc' = "free" /\ pNode # NULL /\ (pack_type = "H264" => pDrop > 0)
    BY <1>8 DEF ResetFree, MoreToDrop
  <2>2. damage' \subseteq {"selfLink", "race", "blankHead", "pool"} /\ pFound' \in BOOLEAN
    BY <1>8 DEF ResetFree
  <2>3. QED
    BY <1>8, <2>1, <2>2 DEF ResetFree, poolVars, nodeVars, listVars, senderVars
<1>3. CASE ResetDrop
  <2>1. pNode \in Block
    BY <1>3 DEF ResetDrop
  <2>2. nblocks' \in 0..MaxBlocks /\ used' \subseteq Block /\ free' \in Seq(Block)
    BY <1>3, <2>1, FreeType DEF ResetDrop
  <2>3. /\ pDrop' \in Nat /\ pFreed' \in Nat
        /\ pack_type = "H264" => pDrop' + pFreed' <= MaxSize
    BY <1>3 DEF ResetDrop
  <2>4. buf[pNode].id \in 0..NumPackets
    BY <2>1, IdType
  <2>5. QED
    BY <1>3, <2>1, <2>2, <2>3, <2>4 DEF ResetDrop, nodeVars, listVars, senderVars
<1>4. CASE ResetRelink
  <2>1. CASE ResetRelinkH264
    <3>1. pending' \in Seq(Block)
      BY <2>1 DEF ResetRelinkH264
    <3>2. QED
      BY <1>4, <2>1, <3>1 DEF ResetRelink, ResetRelinkH264, poolVars, nodeVars,
                              senderVars
  <2>2. CASE ResetRelinkH265
    <3>1. PICK b \in Block : /\ memory_list_malloc(b)
                             /\ buf' = [buf EXCEPT ![b] = Blank]
                             /\ next' = [next EXCEPT ![b] = NULL]
                             /\ curSend' = b
                             /\ curWrite' = b
      BY <2>2 DEF ResetRelinkH265
    <3>2. nblocks' \in 0..MaxBlocks /\ used' \subseteq Block /\ free' \in Seq(Block)
      BY <3>1, MallocType
    <3>3. QED
      BY <1>4, <2>2, <3>1, <3>2 DEF ResetRelink, ResetRelinkH265, senderVars
  <2>3. QED
    BY <1>4, <2>1, <2>2 DEF ResetRelink
<1>5. CASE ResetCounters
  <2>1. writeSize' \in 0..MaxLoop /\ sendSize' \in 0..MaxLoop
    BY <1>5, Assumption DEF ResetCounters
  <2>2. pNode' = NULL /\ pDrop' = 0 /\ pFreed' = 0 /\ resets' \in Nat /\ pPc' = "add"
    BY <1>5 DEF ResetCounters
  <2>3. pack_type' = "H264" => pDrop' + pFreed' <= MaxSize
    BY <2>2, Assumption
  <2>4. added < NumPackets
    BY <1>5 DEF ResetCounters
  <2>5. QED
    BY <1>5, <2>1, <2>2, <2>3, <2>4 DEF ResetCounters, poolVars, nodeVars, senderVars
<1>6. CASE Add
  <2>1. PICK sps \in BOOLEAN : packet_list_node_add([id |-> added + 1, sps |-> sps])
    BY <1>6 DEF Add
  <2>2. PICK b \in Block :
          /\ memory_list_malloc(b)
          /\ buf' = [buf EXCEPT ![b] = [id |-> added + 1, sps |-> sps]]
          /\ next' = IF curWrite = NULL THEN [next EXCEPT ![b] = NULL]
                     ELSE [next EXCEPT ![b] = NULL, ![curWrite] = b]
          /\ writeSize' = CountUp(writeSize)
          /\ curSend' = IF curSend = NULL THEN b ELSE curSend
          /\ curWrite' = b
          /\ damage' = IF curWrite = b THEN damage \cup {"selfLink"} ELSE damage
          /\ pending' = IF damage' = {} THEN Append(pending, b) ELSE pending
          /\ UNCHANGED sendSize
    BY <2>1 DEF packet_list_node_add
  <2>3. nblocks' \in 0..MaxBlocks /\ used' \subseteq Block /\ free' \in Seq(Block)
    BY <2>2, MallocType
  <2>4. added + 1 \in 1..NumPackets
    BY <1>6, Assumption DEF Add
  <2>5. buf' \in [Block -> Packet \cup {Blank}]
    BY <2>2, <2>4 DEF Packet
  <2>6. next' \in [Block -> Block \cup {NULL}]
    BY <2>2
  <2>7. writeSize' \in 0..MaxLoop /\ sendSize' \in 0..MaxLoop
    BY <2>2, CountUpType
  <2>8. resend' \in [0..(ResendSize - 1) -> 0..NumPackets]
    BY <1>6, <2>4, ResendSlotType DEF Add
  <2>9. pending' \in Seq(Block) /\ damage' \subseteq {"selfLink", "race", "blankHead", "pool"}
    BY <2>2
  <2>10. added' \in 0..NumPackets /\ pPc' = "idle"
    BY <1>6, <2>4 DEF Add
  <2>11. QED
    BY <1>6, <2>2, <2>3, <2>5, <2>6, <2>7, <2>8, <2>9, <2>10 DEF Add, senderVars
<1>7. QED
  BY <1>1, <1>2, <1>3, <1>4, <1>5, <1>6, <1>8 DEF Producer

LEMMA TypeSender == TypeOK /\ Sender => TypeOK'
<1> SUFFICES ASSUME TypeOK, Sender PROVE TypeOK'
  OBVIOUS
<1> USE DEF TypeOK
<1>1. CASE Fetch /\ UNCHANGED <<fault, pack_type>>
  BY <1>1 DEF Fetch, poolVars, nodeVars, listVars, producerVars, historyVars
<1>2. CASE Transmit /\ UNCHANGED <<fault, pack_type>>
  <2>1. buf[sNode].id \in 0..NumPackets
    BY <1>2, IdType DEF Transmit
  <2>2. QED
    BY <1>2, <2>1 DEF Transmit, poolVars, nodeVars, listVars, producerVars
<1>3. CASE Offset /\ UNCHANGED <<fault, pack_type>>
  <2>1. curSend \in Block
    BY <1>3 DEF Offset
  <2>2. sNode' = curSend /\ sFound' \in BOOLEAN /\ sPc' = "free" /\ curSend # NULL
    BY <1>3 DEF Offset, packet_list_node_offset
  <2>3. sendSize' \in 0..MaxLoop
    BY <1>3, Assumption DEF Offset, packet_list_node_offset
  <2>4. pending' \in Seq(Block)
    BY <1>3 DEF Offset
  <2>5. curSend' \in Block \cup {NULL}
    BY <1>3, <2>1 DEF Offset, packet_list_node_offset
  <2>7. damage' \subseteq {"selfLink", "race", "blankHead", "pool"}
    BY <1>3 DEF Offset
  <2>6. QED
    BY <1>3, <2>1, <2>2, <2>3, <2>4, <2>5, <2>7 DEF Offset, poolVars, nodeVars, producerVars
<1>6. CASE OffsetFree /\ UNCHANGED <<fault, pack_type>>
  <2>1. sNode \in Block
    BY <1>6 DEF OffsetFree
  <2>2. nblocks' \in 0..MaxBlocks /\ used' \subseteq Block /\ free' \in Seq(Block)
    BY <1>6, <2>1, FreeType DEF OffsetFree
  <2>3. QED
    BY <1>6, <2>2 DEF OffsetFree, nodeVars, listVars, producerVars, historyVars
<1>4. CASE OffsetOfNull
  BY <1>4 DEF OffsetOfNull, poolVars, nodeVars, listVars, producerVars, senderVars,
              historyVars
<1>5. QED
  BY <1>1, <1>2, <1>3, <1>4, <1>6 DEF Sender

\* Type correctness of the whole specification.
THEOREM TypeCorrect == Spec => []TypeOK
<1>1. TypeOK /\ [Next]_vars => TypeOK'
  <2> SUFFICES ASSUME TypeOK, [Next]_vars PROVE TypeOK'
    OBVIOUS
  <2>1. CASE Next
    BY <2>1, TypeProducer, TypeSender DEF Next
  <2>2. CASE UNCHANGED vars
    BY <2>2 DEF vars, poolVars, nodeVars, listVars, producerVars, senderVars,
                historyVars, TypeOK
  <2>3. QED
    BY <2>1, <2>2
<1>2. QED
  BY TypeInit, <1>1, PTL DEF Spec

-----------------------------------------------------------------------------
(***************************************************************************)
(* The pool.                                                               *)
(***************************************************************************)

\* Handing out a block keeps the partition, and the block was not in use.
LEMMA MallocPartition ==
  ASSUME TypeOK, Partition, NEW b \in Block, memory_list_malloc(b)
  PROVE  Partition' /\ b \notin used
<1>1. free \in Seq(Block) /\ nblocks \in Nat
  BY Assumption DEF TypeOK
<1>2. CASE free = <<>>
  <2>1. /\ free' = <<>> /\ b = nblocks + 1 /\ nblocks' = nblocks + 1
        /\ used' = used \cup {b}
    BY <1>2 DEF memory_list_malloc
  <2>2. DOMAIN free = {} /\ {free[i] : i \in DOMAIN free} = {}
    BY <1>2
  <2>3. used = 1..nblocks
    BY <2>2 DEF Partition
  <2>4. b \notin used /\ used' = 1..nblocks'
    BY <1>1, <2>1, <2>3
  <2>5. DOMAIN free' = {} /\ {free'[i] : i \in DOMAIN free'} = {}
    BY <2>1
  <2>6. QED
    BY <2>4, <2>5 DEF Partition
<1>3. CASE free # <<>>
  <2>1. /\ b = free[1] /\ free' = Tail(free) /\ nblocks' = nblocks
        /\ used' = used \cup {b}
    BY <1>1, <1>3 DEF memory_list_malloc
  <2>2. /\ DOMAIN free = 1..Len(free) /\ Len(free) \in Nat \ {0}
        /\ DOMAIN free' = 1..(Len(free) - 1)
        /\ \A i \in 1..(Len(free) - 1) : free'[i] = free[i + 1]
    BY <1>1, <1>3, <2>1
  <2>3. b \notin used
    BY <2>1, <2>2 DEF Partition
  <2>4. \A i, j \in DOMAIN free' : free'[i] = free'[j] => i = j
    <3>1. TAKE i, j \in DOMAIN free'
    <3>2. HAVE free'[i] = free'[j]
    <3>3. free[i + 1] = free[j + 1] /\ i + 1 \in DOMAIN free /\ j + 1 \in DOMAIN free
      BY <2>2, <3>2
    <3>4. i + 1 = j + 1
      BY <3>3 DEF Partition
    <3>5. QED
      BY <2>2, <3>4
  <2>5. \A i \in DOMAIN free' : free'[i] \notin used'
    <3>1. TAKE i \in DOMAIN free'
    <3>2. free'[i] = free[i + 1] /\ i + 1 \in DOMAIN free /\ 1 \in DOMAIN free /\ i + 1 # 1
      BY <2>2
    <3>3. free[i + 1] # b /\ free[i + 1] \notin used
      BY <2>1, <3>2 DEF Partition
    <3>4. QED
      BY <2>1, <3>2, <3>3
  <2>6. {free[i] : i \in DOMAIN free} = {free'[i] : i \in DOMAIN free'} \cup {b}
    <3>1. \A i \in DOMAIN free : i = 1 \/ (i - 1 \in DOMAIN free' /\ free'[i - 1] = free[i])
      BY <2>2
    <3>2. \A i \in DOMAIN free' : i + 1 \in DOMAIN free /\ free'[i] = free[i + 1]
      BY <2>2
    <3>3. 1 \in DOMAIN free /\ free[1] = b
      BY <2>1, <2>2
    <3>4. ASSUME NEW x \in {free[i] : i \in DOMAIN free}
          PROVE  x \in {free'[i] : i \in DOMAIN free'} \cup {b}
      BY <3>1, <3>3
    <3>5. ASSUME NEW x \in {free'[i] : i \in DOMAIN free'} \cup {b}
          PROVE  x \in {free[i] : i \in DOMAIN free}
      BY <3>2, <3>3
    <3>6. QED
      BY <3>4, <3>5
  <2>7. used' \cup {free'[i] : i \in DOMAIN free'} = 1..nblocks'
    BY <2>1, <2>6 DEF Partition
  <2>8. QED
    BY <2>3, <2>4, <2>5, <2>7 DEF Partition
<1>4. QED
  BY <1>2, <1>3

\* Taking a block back keeps the partition when it is still where the search saw
\* it and no other call relinks at the same time.
LEMMA FreePartition ==
  ASSUME TypeOK, Partition, NEW b \in Block, NEW found, memory_list_free(b, found),
         ~(pPc = "free" /\ sPc = "free"), found <=> b \in used
  PROVE  Partition'
<1>1. free \in Seq(Block)
  BY DEF TypeOK
<1>2. CASE b \notin used
  BY <1>2 DEF Partition, memory_list_free
<1>3. CASE b \in used
  <2>1. free' = Append(free, b) /\ used' = used \ {b} /\ nblocks' = nblocks
    BY <1>3 DEF memory_list_free
  <2>2. /\ DOMAIN free = 1..Len(free) /\ Len(free) \in Nat
        /\ DOMAIN free' = 1..(Len(free) + 1)
        /\ free'[Len(free) + 1] = b
        /\ \A i \in 1..Len(free) : free'[i] = free[i]
    BY <1>1, <2>1
  <2>3. \A i \in DOMAIN free : free[i] # b
    BY <1>3 DEF Partition
  <2>4. \A i, j \in DOMAIN free' : free'[i] = free'[j] => i = j
    BY <2>2, <2>3 DEF Partition
  <2>5. \A i \in DOMAIN free' : free'[i] \notin used'
    BY <2>1, <2>2, <2>3 DEF Partition
  <2>6. {free'[i] : i \in DOMAIN free'} = {free[i] : i \in DOMAIN free} \cup {b}
    <3>1. \A i \in DOMAIN free' : i \in DOMAIN free \/ i = Len(free) + 1
      BY <2>2
    <3>2. \A i \in DOMAIN free : i \in DOMAIN free' /\ free'[i] = free[i]
      BY <2>2
    <3>3. Len(free) + 1 \in DOMAIN free'
      BY <2>2
    <3>4. QED
      BY <2>2, <3>1, <3>2, <3>3
  <2>7. used' \cup {free'[i] : i \in DOMAIN free'} = 1..nblocks'
    BY <1>3, <2>1, <2>6 DEF Partition
  <2>8. QED
    BY <2>4, <2>5, <2>7 DEF Partition
<1>4. QED
  BY <1>2, <1>3

\* A step that ends before the first overlap began before it.
LEMMA PoolBefore == Next /\ "pool" \notin damage' => "pool" \notin damage
BY DEF Next, Producer, Sender, CheckOverflow, ResetScan, ResetFree, ResetDrop, ResetRelink,
       ResetRelinkH264, ResetRelinkH265, ResetCounters, Add, packet_list_node_add,
       Fetch, Transmit, Offset, OffsetFree, OffsetOfNull, historyVars

LEMMA PartitionStep ==
  ASSUME TypeOK, Partition, Calls, Next, "pool" \notin damage'
  PROVE  Partition' /\ Calls'
<1> "pool" \notin damage
  BY PoolBefore
<1>1. CASE CheckOverflow \/ ResetScan \/ ResetCounters
  BY <1>1 DEF CheckOverflow, ResetScan, ResetCounters, poolVars, senderVars, Partition, Calls
<1>2. CASE ResetFree
  <2>1. UNCHANGED <<nblocks, used, free, pNode, sPc, sNode, sFound>>
    BY <1>2 DEF ResetFree, poolVars, senderVars
  <2>2. pPc' = "free" /\ sPc # "free" /\ pFound' = (pNode \in used)
    BY <1>2 DEF ResetFree
  <2>3. QED
    BY <2>1, <2>2 DEF Partition, Calls
<1>3. CASE ResetDrop
  <2>1. /\ pPc = "free" /\ pPc' = "drop" /\ UNCHANGED <<sPc, sNode, sFound>>
        /\ pNode \in Block /\ memory_list_free(pNode, pFound)
    BY <1>3 DEF ResetDrop, senderVars, TypeOK
  <2>2. sPc # "free" /\ (pFound <=> pNode \in used)
    BY <2>1 DEF Calls
  <2>3. Partition'
    BY <2>1, <2>2, FreePartition
  <2>4. QED
    BY <2>1, <2>2, <2>3 DEF Calls
<1>4. CASE ResetRelink
  <2>1. pPc' = "counters" /\ UNCHANGED <<sPc, sNode, sFound>>
    BY <1>4 DEF ResetRelink, senderVars
  <2>2. CASE ResetRelinkH264
    BY <2>1, <2>2 DEF ResetRelinkH264, poolVars, Partition, Calls
  <2>3. CASE ResetRelinkH265
    <3>1. PICK b \in Block : memory_list_malloc(b)
      BY <2>3 DEF ResetRelinkH265
    <3>2. sPc # "free"
      BY <2>3 DEF ResetRelinkH265
    <3>3. Partition'
      BY <3>1, MallocPartition
    <3>4. QED
      BY <2>1, <3>2, <3>3 DEF Calls
  <2>4. QED
    BY <1>4, <2>2, <2>3 DEF ResetRelink
<1>5. CASE Add
  <2>1. PICK b \in Block : memory_list_malloc(b)
    BY <1>5 DEF Add, packet_list_node_add
  <2>2. pPc' = "idle" /\ sPc' = sPc /\ sPc # "free"
    BY <1>5 DEF Add, senderVars
  <2>3. Partition'
    BY <2>1, MallocPartition
  <2>4. QED
    BY <2>2, <2>3 DEF Calls
<1>6. CASE Offset
  <2>1. /\ UNCHANGED <<nblocks, used, free, pPc>> /\ pPc # "free" /\ sPc' = "free"
        /\ sNode' = curSend /\ sFound' = (curSend \in used)
    BY <1>6 DEF Offset, packet_list_node_offset, poolVars, producerVars
  <2>2. QED
    BY <2>1 DEF Partition, Calls
<1>7. CASE OffsetFree
  <2>1. /\ sPc = "free" /\ sPc' = "fetch" /\ pPc' = pPc
        /\ sNode \in Block /\ memory_list_free(sNode, sFound)
    BY <1>7 DEF OffsetFree, producerVars, TypeOK
  <2>2. pPc # "free" /\ (sFound <=> sNode \in used)
    BY <2>1 DEF Calls
  <2>3. Partition'
    BY <2>1, <2>2, FreePartition
  <2>4. QED
    BY <2>1, <2>2, <2>3 DEF Calls
<1>8. CASE Fetch \/ Transmit \/ OffsetOfNull
  BY <1>8 DEF Fetch, Transmit, OffsetOfNull, poolVars, producerVars, senderVars, Partition, Calls
<1>9. QED
  BY <1>1, <1>2, <1>3, <1>4, <1>5, <1>6, <1>7, <1>8 DEF Next, Producer, Sender

\* Until two of their calls on the pool overlap no block is handed out twice,
\* freed twice or lost, whatever else the two threads do to the list.
THEOREM PoolSafe == Spec => []PoolPartition
<1>1. Init => PoolPartition
  BY DEF Init, PoolPartition, Partition, Calls
<1>2. TypeOK /\ PoolPartition /\ [Next]_vars => PoolPartition'
  <2> SUFFICES ASSUME TypeOK, PoolPartition, [Next]_vars, "pool" \notin damage'
               PROVE  Partition' /\ Calls'
    BY DEF PoolPartition
  <2>1. CASE Next
    BY <2>1, PoolBefore, PartitionStep DEF PoolPartition
  <2>2. CASE UNCHANGED vars
    BY <2>2 DEF vars, poolVars, producerVars, senderVars, historyVars, PoolPartition,
                Partition, Calls
  <2>3. QED
    BY <2>1, <2>2
<1>3. QED
  BY <1>1, <1>2, TypeCorrect, PTL DEF Spec

-----------------------------------------------------------------------------
(***************************************************************************)
(* The queue, while the list is clean: CleanInv is inductive.  A step that *)
(* ends clean began clean, so each action is looked at on a clean list.    *)
(***************************************************************************)

CleanBody ==
  Shape /\ Complete /\ Distinct /\ InHand /\ DropProgress /\ TriedAreOld

\* Damage is for good.
LEMMA CleanBefore == Next /\ Clean' => Clean
BY DEF Next, Producer, Sender, CheckOverflow, ResetScan, ResetFree, ResetDrop, ResetRelink,
       ResetRelinkH264, ResetRelinkH265, ResetCounters, Add, packet_list_node_add,
       Fetch, Transmit, Offset, OffsetFree, OffsetOfNull, historyVars, Clean

LEMMA CleanScan ==
  ASSUME TypeOK, CleanBody, CheckOverflow \/ ResetScan \/ ResetCounters
  PROVE  CleanBody'
<1>1. /\ UNCHANGED <<used, buf, next, curSend, curWrite, sPc, sNode>>
      /\ UNCHANGED <<added, tried, dropped, pending>>
  BY DEF CheckOverflow, ResetScan, ResetCounters, poolVars, nodeVars, listVars,
         senderVars, historyVars
<1>2. Complete' /\ Distinct' /\ InHand' /\ TriedAreOld'
  BY <1>1 DEF CleanBody, Complete, Distinct, InHand, TriedAreOld
<1>3. /\ pPc \notin {"drop", "free"} /\ pPc' # "free"
      /\ pPc' = "drop" => pFreed' = 0 /\ pNode' = curSend
  BY DEF CheckOverflow, ResetScan, ResetCounters
<1>4. Shape'
  <2>1. FirstKept = 1 /\ FirstKept' = 1
    BY <1>3 DEF FirstKept
  <2>2. QED
    BY <1>1, <2>1 DEF CleanBody, Shape
<1>5. DropProgress'
  BY <1>1, <1>3 DEF CleanBody, Shape, DropProgress, TypeOK
<1>6. QED
  BY <1>2, <1>4, <1>5 DEF CleanBody

\* The search disturbs nothing.
LEMMA CleanSearch ==
  ASSUME TypeOK, CleanBody, ResetFree
  PROVE  CleanBody'
<1>1. /\ UNCHANGED <<used, buf, next, curSend, curWrite, sPc, sNode, pNode, pFreed>>
      /\ UNCHANGED <<added, tried, dropped, pending>>
      /\ pPc = "drop" /\ pPc' = "free"
  BY DEF ResetFree, poolVars, nodeVars, listVars, senderVars
<1>2. FirstKept' = FirstKept
  BY <1>1 DEF FirstKept
<1>3. Shape' /\ Complete' /\ Distinct' /\ InHand' /\ DropProgress' /\ TriedAreOld'
  BY <1>1, <1>2 DEF CleanBody, Shape, Complete, Distinct, InHand, DropProgress, TriedAreOld
<1>4. QED
  BY <1>3 DEF CleanBody

LEMMA CleanDrop ==
  ASSUME TypeOK, Calls, CleanBody, ResetDrop
  PROVE  CleanBody'
<1> DEFINE n == Len(pending)
<1>1. /\ UNCHANGED <<buf, next, curSend, curWrite, sPc, sNode>>
      /\ UNCHANGED <<added, tried, pending>>
      /\ pPc = "free" /\ pPc' = "drop" /\ pNode # NULL
      /\ pNode' = next[pNode] /\ pFreed' = pFreed + 1
      /\ dropped' = dropped \cup ({buf[pNode].id} \ tried)
      /\ memory_list_free(pNode, pFound)
  BY DEF ResetDrop, nodeVars, listVars, senderVars, TypeOK
<1>8. sPc # "free" /\ (pFound <=> pNode \in used)
  BY <1>1 DEF Calls
<1>2. pending \in Seq(Block) /\ n \in Nat /\ pFreed \in Nat
  BY DEF TypeOK
<1>3. pFreed < n /\ pNode = pending[pFreed + 1]
  BY <1>1, <1>2 DEF CleanBody, DropProgress
<1>4. Complete' /\ Distinct' /\ InHand' /\ TriedAreOld'
  BY <1>1 DEF CleanBody, Complete, Distinct, InHand, TriedAreOld
<1>5. Shape'
  <2>1. used = {pending[i] : i \in (pFreed + 1)..n}
    BY <1>1, <1>8 DEF CleanBody, Shape, FirstKept
  <2>6. used' = used \ {pNode}
    <3>1. pFreed + 1 \in (pFreed + 1)..n
      BY <1>2, <1>3
    <3>2. pNode \in used
      BY <1>3, <2>1, <3>1
    <3>3. QED
      BY <1>1, <1>8, <3>2 DEF memory_list_free
  <2>2. \A i \in (pFreed + 1)..n : pending[i] = pNode <=> i = pFreed + 1
    BY <1>2, <1>3 DEF CleanBody, Distinct
  <2>3. used' = {pending[i] : i \in (pFreed + 2)..n}
    <3>1. \A i \in (pFreed + 1)..n : i = pFreed + 1 \/ i \in (pFreed + 2)..n
      BY <1>2
    <3>2. \A i \in (pFreed + 2)..n : i \in (pFreed + 1)..n /\ i # pFreed + 1
      BY <1>2
    <3>3. QED
      BY <2>1, <2>2, <2>6, <3>1, <3>2
  <2>4. FirstKept' = pFreed + 2 /\ sPc' # "free"
    BY <1>1, <1>2, <1>8 DEF FirstKept
  <2>5. QED
    BY <1>1, <2>3, <2>4 DEF CleanBody, Shape
<1>6. DropProgress'
  <2>1. pNode' = IF pFreed + 1 < n THEN pending[pFreed + 2] ELSE NULL
    BY <1>1, <1>2, <1>3 DEF CleanBody, Shape
  <2>2. \A i \in 1..(pFreed + 1) : buf[pending[i]].id \in tried \cup dropped'
    BY <1>1, <1>2, <1>3 DEF CleanBody, DropProgress
  <2>3. QED
    BY <1>1, <1>2, <1>3, <2>1, <2>2 DEF DropProgress
<1>7. QED
  BY <1>4, <1>5, <1>6 DEF CleanBody

\* A reset that ends clean has freed nothing the sender has in hand.
LEMMA CleanRelink ==
  ASSUME TypeOK, CleanBody, ResetRelink, Clean'
  PROVE  CleanBody'
<1> DEFINE n == Len(pending)
<1>1. ResetRelinkH264
  BY DEF ResetRelink, ResetRelinkH265, Clean
<1>2. /\ UNCHANGED <<used, buf, next, curWrite, sPc, sNode, added, tried, dropped>>
      /\ curSend' = pNode /\ pPc = "drop" /\ pPc' = "counters"
      /\ sPc \notin {"send", "offset"} \/ sNode = pNode
  BY <1>1 DEF ResetRelink, ResetRelinkH264, poolVars, nodeVars, senderVars, Clean
<1>0. pending' = SubSeq(pending, pFreed + 1, n)
  BY <1>1 DEF ResetRelink, ResetRelinkH264, Clean
<1>3. pending \in Seq(Block) /\ n \in Nat /\ pFreed \in Nat /\ pFreed <= n
  BY <1>2 DEF TypeOK, CleanBody, DropProgress
<1>4. /\ pending' \in Seq(Block) /\ Len(pending') = n - pFreed
      /\ \A i \in 1..(n - pFreed) : pending'[i] = pending[pFreed + i]
      /\ pending' = <<>> <=> pFreed = n
  BY <1>0, <1>3
<1>5. sPc \in {"send", "offset"} => pFreed = 0 /\ pending' = pending
  <2>1. SUFFICES ASSUME sPc \in {"send", "offset"} PROVE pFreed = 0 /\ pending' = pending
    OBVIOUS
  <2>2. pending # <<>> /\ sNode = pending[1] /\ sNode = pNode
    BY <1>2, <2>1 DEF CleanBody, InHand
  <2>3. sNode # NULL
    BY <2>1 DEF TypeOK
  <2>4. pFreed < n /\ pending[pFreed + 1] = pending[1]
    BY <1>2, <1>3, <2>2, <2>3 DEF CleanBody, DropProgress
  <2>5. pFreed + 1 = 1
    BY <1>3, <2>4 DEF CleanBody, Distinct
  <2>6. QED
    BY <1>0, <1>3, <2>5
<1>6. Shape'
  <2>1. curSend' = IF pending' = <<>> THEN NULL ELSE pending'[1]
    BY <1>2, <1>3, <1>4 DEF CleanBody, DropProgress
  <2>2. pending' # <<>> => curWrite' = pending'[Len(pending')]
    BY <1>2, <1>3, <1>4 DEF CleanBody, Shape
  <2>3. \A i \in 1..Len(pending') :
          next'[pending'[i]] = IF i < Len(pending') THEN pending'[i + 1] ELSE NULL
    <3>1. TAKE i \in 1..Len(pending')
    <3>2. pFreed + i \in 1..n /\ pending'[i] = pending[pFreed + i]
      BY <1>3, <1>4
    <3>3. next[pending[pFreed + i]] =
            IF pFreed + i < n THEN pending[pFreed + i + 1] ELSE NULL
      BY <3>2 DEF CleanBody, Shape
    <3>4. i < Len(pending') <=> pFreed + i < n
      BY <1>3, <1>4
    <3>5. i < Len(pending') => pending'[i + 1] = pending[pFreed + i + 1]
      BY <1>3, <1>4
    <3>6. QED
      BY <1>2, <3>2, <3>3, <3>4, <3>5
  <2>4. {pending[i] : i \in (pFreed + 1)..n} = {pending'[i] : i \in 1..Len(pending')}
    <3> DEFINE left == {pending[i] : i \in (pFreed + 1)..n}
    <3>2. \A i \in (pFreed + 1)..n :
            i - pFreed \in 1..Len(pending') /\ pending'[i - pFreed] = pending[i]
      BY <1>3, <1>4
    <3>3. \A i \in 1..Len(pending') :
            pFreed + i \in (pFreed + 1)..n /\ pending'[i] = pending[pFreed + i]
      BY <1>3, <1>4
    <3>4. ASSUME NEW x \in left PROVE x \in {pending'[i] : i \in 1..Len(pending')}
      BY <3>2
    <3>5. ASSUME NEW x \in {pending'[i] : i \in 1..Len(pending')} PROVE x \in left
      BY <3>3
    <3>6. QED
      BY <3>4, <3>5
  <2>6. FirstKept = pFreed + 1 /\ FirstKept' = 1
    BY <1>2 DEF FirstKept
  <2>7. sPc = "free" => \A i \in 1..Len(pending') : pending'[i] # sNode
    <3>1. \A i \in 1..Len(pending') : pFreed + i \in 1..n /\ pending'[i] = pending[pFreed + i]
      BY <1>3, <1>4
    <3>2. QED
      BY <3>1 DEF CleanBody, Shape
  <2>8. used = {pending[i] : i \in (pFreed + 1)..n} \cup (IF sPc = "free" THEN {sNode} ELSE {})
    BY <2>6 DEF CleanBody, Shape
  <2>5. QED
    BY <1>2, <2>1, <2>2, <2>3, <2>4, <2>6, <2>7, <2>8 DEF Shape
<1>7. Complete'
  <2>1. added \in Nat /\ n <= added
    BY Assumption DEF TypeOK, CleanBody, Complete
  <2>2. Len(pending') <= added'
    BY <1>2, <1>3, <1>4, <2>1
  <2>3. \A i \in 1..Len(pending') : buf'[pending'[i]].id = added' - Len(pending') + i
    <3>1. TAKE i \in 1..Len(pending')
    <3>2. pFreed + i \in 1..n /\ pending'[i] = pending[pFreed + i]
      BY <1>3, <1>4
    <3>3. buf[pending[pFreed + i]].id = added - n + (pFreed + i)
      BY <3>2 DEF CleanBody, Complete
    <3>4. buf' = buf /\ added' = added /\ Len(pending') = n - pFreed
      BY <1>2, <1>4
    <3>5. added - n + (pFreed + i) = added - (n - pFreed) + i
      BY <1>3, <2>1, <3>4
    <3>6. QED
      BY <3>2, <3>3, <3>4, <3>5
  <2>4. ASSUME NEW id \in 1..(added' - Len(pending'))
        PROVE  id \in tried' \cup dropped'
    <3>1. id \in 1..(added - n + pFreed)
      BY <1>2, <1>3, <1>4, <2>1, <2>4
    <3>2. CASE id \in 1..(added - n)
      BY <1>2, <3>2 DEF CleanBody, Complete
    <3>3. CASE id > added - n
      <4>1. id - (added - n) \in 1..pFreed
        BY <1>3, <2>1, <3>1, <3>3
      <4>2. buf[pending[id - (added - n)]].id = id
        BY SMTT(30), <1>3, <2>1, <4>1 DEF CleanBody, Complete
      <4>3. buf[pending[id - (added - n)]].id \in tried \cup dropped
        BY <1>2, <4>1 DEF CleanBody, DropProgress
      <4>4. QED
        BY <1>2, <4>2, <4>3
    <3>4. QED
      BY <1>3, <2>1, <3>1, <3>2, <3>3
  <2>5. QED
    BY <2>2, <2>3, <2>4 DEF Complete
<1>8. Distinct'
  <2>1. SUFFICES ASSUME NEW i \in 1..Len(pending'), NEW j \in 1..Len(pending'),
                        pending'[i] = pending'[j]
                 PROVE  i = j
    BY DEF Distinct
  <2>3. /\ pFreed + i \in 1..n /\ pFreed + j \in 1..n
        /\ pending[pFreed + i] = pending[pFreed + j]
    BY <1>3, <1>4, <2>1
  <2>4. pFreed + i = pFreed + j
    BY <2>3 DEF CleanBody, Distinct
  <2>5. QED
    BY <1>3, <1>4, <2>4
<1>9. InHand'
  BY <1>2, <1>5 DEF CleanBody, InHand
<1>10. DropProgress'
  BY <1>2 DEF DropProgress
<1>11. TriedAreOld'
  <2>1. tried \subseteq Nat /\ added \in Nat
    BY Assumption DEF TypeOK
  <2>2. QED
    BY <1>2, <1>3, <1>4, <1>5, <2>1 DEF CleanBody, TriedAreOld
<1>12. QED
  BY <1>6, <1>7, <1>8, <1>9, <1>10, <1>11 DEF CleanBody

\* The new node's block was not in use, so it is not in the queue.
LEMMA CleanAdd ==
  ASSUME TypeOK, Partition, CleanBody, Add, Clean'
  PROVE  CleanBody'
<1> DEFINE n == Len(pending)
<1>1. PICK sps \in BOOLEAN : packet_list_node_add([id |-> added + 1, sps |-> sps])
  BY DEF Add
<1>2. PICK b \in Block :
        /\ memory_list_malloc(b)
        /\ buf' = [buf EXCEPT ![b] = [id |-> added + 1, sps |-> sps]]
        /\ next' = IF curWrite = NULL THEN [next EXCEPT ![b] = NULL]
                   ELSE [next EXCEPT ![b] = NULL, ![curWrite] = b]
        /\ curSend' = IF curSend = NULL THEN b ELSE curSend
        /\ curWrite' = b
        /\ damage' = IF curWrite = b THEN damage \cup {"selfLink"} ELSE damage
        /\ pending' = IF damage' = {} THEN Append(pending, b) ELSE pending
  BY <1>1 DEF packet_list_node_add
<1>3. /\ UNCHANGED <<sPc, sNode, tried, dropped>>
      /\ pPc = "add" /\ pPc' = "idle" /\ added' = added + 1 /\ sPc # "free"
      /\ FirstKept = 1 /\ FirstKept' = 1
  BY DEF Add, senderVars, FirstKept
<1>4. curWrite # b
  BY <1>2 DEF Clean
<1>5. /\ pending \in Seq(Block) /\ n \in Nat /\ added \in Nat /\ n <= added
      /\ tried \subseteq Nat
  BY Assumption DEF TypeOK, CleanBody, Complete
<1>6. /\ pending' \in Seq(Block) /\ Len(pending') = n + 1 /\ pending'[n + 1] = b
      /\ \A i \in 1..n : pending'[i] = pending[i]
      /\ pending' # <<>>
  BY <1>2, <1>5 DEF Clean
<1>7. used = {pending[i] : i \in 1..n} /\ used' = used \cup {b} /\ b \notin used
  <2>1. used = {pending[i] : i \in 1..n}
    BY <1>3 DEF CleanBody, Shape
  <2>2. b \notin used
    BY <1>2, MallocPartition
  <2>3. QED
    BY <1>2, <2>1, <2>2 DEF memory_list_malloc
<1>8. \A i \in 1..n : pending[i] \in Block /\ pending[i] # b
  BY <1>5, <1>7
<1>9. /\ \A i \in 1..n : buf'[pending[i]] = buf[pending[i]]
      /\ buf'[b].id = added + 1
  BY <1>2, <1>8 DEF TypeOK
<1>10. Shape'
  <2>1. curWrite' = b /\ curWrite' = pending'[n + 1]
    BY <1>2, <1>6
  <2>2. curSend' = pending'[1]
    <3>1. CASE n = 0
      <4>1. curSend = NULL
        BY <1>5, <3>1 DEF CleanBody, Shape
      <4>2. QED
        BY <1>2, <1>6, <3>1, <4>1
    <3>2. CASE n # 0
      <4>1. pending # <<>> /\ pending[1] \in Block /\ pending[1] # NULL
        BY <1>5, <3>2, BlockNotNull
      <4>2. curSend = pending[1] /\ 1 \in 1..n
        BY <1>5, <3>2, <4>1 DEF CleanBody, Shape
      <4>3. QED
        BY <1>2, <1>6, <4>1, <4>2
    <3>3. QED
      BY <3>1, <3>2
  <2>3. next'[b] = NULL
    BY <1>2, <1>4 DEF TypeOK
  <2>4. ASSUME NEW i \in 1..n
        PROVE  next'[pending[i]] = IF i < n THEN pending[i + 1] ELSE b
    <3>1. next[pending[i]] = IF i < n THEN pending[i + 1] ELSE NULL
      BY DEF CleanBody, Shape
    <3>2. n # 0 /\ pending # <<>> /\ curWrite = pending[n]
      BY <1>5 DEF CleanBody, Shape
    <3>3. curWrite # NULL /\ curWrite \in Block
      BY <1>5, <3>2, BlockNotNull
    <3>4. pending[i] = curWrite <=> i = n
      BY <1>5, <3>2 DEF CleanBody, Distinct
    <3>5. next' = [next EXCEPT ![b] = NULL, ![curWrite] = b]
      BY <1>2, <3>3
    <3>6. next'[curWrite] = b /\ (pending[i] # curWrite => next'[pending[i]] = next[pending[i]])
      BY <1>8, <3>3, <3>5 DEF TypeOK
    <3>7. QED
      BY <1>5, <3>1, <3>4, <3>6
  <2>5. \A i \in 1..(n + 1) :
          next'[pending'[i]] = IF i < n + 1 THEN pending'[i + 1] ELSE NULL
    <3>1. TAKE i \in 1..(n + 1)
    <3>2. CASE i = n + 1
      BY <1>5, <1>6, <2>3, <3>2
    <3>3. CASE i \in 1..n
      <4>1. CASE i < n
        BY <1>5, <1>6, <2>4, <3>3, <4>1
      <4>2. CASE i = n
        BY <1>5, <1>6, <2>4, <3>3, <4>2
      <4>3. QED
        BY <1>5, <3>3, <4>1, <4>2
    <3>4. QED
      BY <1>5, <3>2, <3>3
  <2>6. used' = {pending'[i] : i \in 1..(n + 1)}
    <3>1. ASSUME NEW x \in used' PROVE x \in {pending'[i] : i \in 1..(n + 1)}
      <4>1. CASE x = b
        BY <1>5, <1>6, <4>1
      <4>2. CASE x \in used
        <5>1. PICK i \in 1..n : x = pending[i]
          BY <1>7, <4>2
        <5>2. i \in 1..(n + 1) /\ x = pending'[i]
          BY <1>5, <1>6, <5>1
        <5>3. QED
          BY <5>2
      <4>3. QED
        BY <1>7, <4>1, <4>2
    <3>2. ASSUME NEW i \in 1..(n + 1) PROVE pending'[i] \in used'
      <4>1. CASE i = n + 1
        BY <1>6, <1>7, <4>1
      <4>2. CASE i \in 1..n
        BY <1>6, <1>7, <4>2
      <4>3. QED
        BY <1>5, <4>1, <4>2
    <3>3. QED
      BY <3>1, <3>2
  <2>7. QED
    BY <1>3, <1>6, <2>1, <2>2, <2>5, <2>6 DEF Shape
<1>11. Complete'
  <2>1. \A i \in 1..(n + 1) : buf'[pending'[i]].id = (added + 1) - (n + 1) + i
    <3>1. TAKE i \in 1..(n + 1)
    <3>2. CASE i = n + 1
      BY <1>5, <1>6, <1>9, <3>2
    <3>3. CASE i \in 1..n
      <4>1. buf[pending[i]].id = added - n + i
        BY <3>3 DEF CleanBody, Complete
      <4>2. QED
        BY <1>5, <1>6, <1>9, <3>3, <4>1
    <3>4. QED
      BY <1>5, <3>2, <3>3
  <2>2. 1..(added - n) \subseteq tried \cup dropped
    BY DEF CleanBody, Complete
  <2>3. (added + 1) - (n + 1) = added - n
    BY <1>5
  <2>4. QED
    BY <1>3, <1>5, <1>6, <2>1, <2>2, <2>3 DEF Complete
<1>12. Distinct'
  <2>1. SUFFICES ASSUME NEW i \in 1..(n + 1), NEW j \in 1..(n + 1),
                        pending'[i] = pending'[j]
                 PROVE  i = j
    BY <1>6 DEF Distinct
  <2>2. CASE i \in 1..n /\ j \in 1..n
    BY <1>6, <2>1, <2>2 DEF CleanBody, Distinct
  <2>3. CASE i \notin 1..n \/ j \notin 1..n
    BY <1>5, <1>6, <1>8, <2>1, <2>3
  <2>4. QED
    BY <2>2, <2>3
<1>13. InHand'
  <2>1. SUFFICES ASSUME sPc \in {"send", "offset"}
                 PROVE  /\ sNode = pending'[1]
                        /\ sPc = "offset" => buf'[sNode].id \in tried
    BY <1>3, <1>6 DEF InHand
  <2>2. /\ pending # <<>> /\ sNode = pending[1]
        /\ sPc = "offset" => buf[sNode].id \in tried
    BY <2>1 DEF CleanBody, InHand
  <2>3. 1 \in 1..n
    BY <1>5, <2>2
  <2>4. QED
    BY <1>6, <1>9, <2>2, <2>3
<1>14. DropProgress'
  BY <1>3 DEF DropProgress
<1>15. TriedAreOld'
  <2>1. Len(pending') = n + 1 /\ (added + 1) - (n + 1) = added - n
    BY <1>5, <1>6
  <2>2. QED
    BY <1>3, <1>5, <2>1 DEF CleanBody, TriedAreOld
<1>16. QED
  BY <1>10, <1>11, <1>12, <1>13, <1>14, <1>15 DEF CleanBody

LEMMA CleanFetch ==
  ASSUME TypeOK, CleanBody, Fetch
  PROVE  CleanBody'
<1>1. /\ UNCHANGED <<used, buf, next, curSend, curWrite, pPc, pNode, pFreed>>
      /\ UNCHANGED <<added, tried, dropped, pending>>
      /\ sPc = "fetch" /\ sPc' = "send" /\ sNode' = curSend /\ curSend # NULL
  BY DEF Fetch, poolVars, nodeVars, listVars, producerVars, historyVars
<1>2. pending # <<>> /\ curSend = pending[1]
  BY <1>1 DEF CleanBody, Shape
<1>3. FirstKept' = FirstKept
  BY <1>1 DEF FirstKept
<1>4. QED
  BY <1>1, <1>2, <1>3 DEF CleanBody, Shape, Complete, Distinct, InHand, DropProgress,
                          TriedAreOld

LEMMA CleanTransmit ==
  ASSUME TypeOK, CleanBody, Transmit
  PROVE  CleanBody'
<1> DEFINE n == Len(pending)
<1>1. /\ UNCHANGED <<used, buf, next, curSend, curWrite, pPc, pNode, pFreed>>
      /\ UNCHANGED <<sNode, added, dropped, pending>>
      /\ sPc = "send" /\ sPc' = "offset" /\ tried' = tried \cup {buf[sNode].id}
  BY DEF Transmit, poolVars, nodeVars, listVars, producerVars
<1>2. pending \in Seq(Block) /\ n \in Nat /\ added \in Nat /\ tried \subseteq Nat
  BY Assumption DEF TypeOK
<1>3. pending # <<>> /\ sNode = pending[1] /\ 1 \in 1..n
  BY <1>1, <1>2 DEF CleanBody, InHand
<1>4. buf[sNode].id = added - n + 1
  BY <1>3 DEF CleanBody, Complete
<1>5. Shape' /\ Distinct'
  <2>1. FirstKept' = FirstKept
    BY <1>1 DEF FirstKept
  <2>2. QED
    BY <1>1, <2>1 DEF CleanBody, Shape, Distinct
<1>6. Complete' /\ DropProgress'
  BY <1>1 DEF CleanBody, Complete, DropProgress
<1>7. InHand'
  BY <1>1, <1>3 DEF InHand
<1>8. TriedAreOld'
  <2>1. \A id \in tried : id <= added - n + 0
    BY <1>1 DEF CleanBody, TriedAreOld
  <2>2. \A id \in tried' : id <= added - n + 1
    BY <1>1, <1>2, <1>4, <2>1
  <2>3. QED
    BY <1>1, <2>2 DEF TriedAreOld
<1>9. QED
  BY <1>5, <1>6, <1>7, <1>8 DEF CleanBody

\* The head that leaves is the packet the sender has in hand.
LEMMA CleanOffset ==
  ASSUME TypeOK, CleanBody, Offset, Clean'
  PROVE  CleanBody'
<1> DEFINE n == Len(pending)
<1>1. /\ UNCHANGED <<buf, next, curWrite, pPc, pNode, pFreed>>
      /\ UNCHANGED <<used, added, tried, dropped>>
      /\ sPc = "offset" /\ sPc' = "free" /\ pPc \notin {"drop", "free"}
      /\ curSend' = next[curSend] /\ sNode' = curSend
  BY DEF Offset, packet_list_node_offset, poolVars, nodeVars, producerVars, Clean
<1>0. pending' = SubSeq(pending, 2, n)
  BY DEF Offset, Clean
<1>13. FirstKept = 1 /\ FirstKept' = 1
  BY <1>1 DEF FirstKept
<1>2. /\ pending \in Seq(Block) /\ n \in Nat /\ added \in Nat /\ n <= added
      /\ tried \subseteq Nat
  BY Assumption DEF TypeOK, CleanBody, Complete
<1>3. /\ pending # <<>> /\ sNode = pending[1] /\ 1 \in 1..n
      /\ buf[sNode].id \in tried
  BY <1>1, <1>2 DEF CleanBody, InHand
<1>4. /\ Len(pending') = n - 1
      /\ \A i \in 1..(n - 1) : pending'[i] = pending[i + 1]
      /\ pending' = <<>> <=> n = 1
  <2>1. /\ pending' \in Seq(Block)
        /\ Len(pending') = IF 2 <= n THEN n - 2 + 1 ELSE 0
    <3>1. \A i \in 2..n : pending[i] \in Block
      BY <1>2
    <3>2. QED
      BY <1>0, <1>2, <3>1, SubSeqProperties
  <2>2. \A i \in 1..(n - 1) : pending'[i] = pending[i + 1]
    BY <1>0, <1>2, <1>3
  <2>3. Len(pending') = n - 1
    <3>1. CASE 2 <= n
      BY <1>2, <2>1, <3>1
    <3>2. CASE n = 1
      <4>1. ~(2 <= n) /\ n - 1 = 0
        BY <3>2
      <4>2. QED
        BY <2>1, <4>1
    <3>3. n = 1 \/ 2 <= n
      <4>1. n \in Nat /\ n # 0
        BY <1>2, <1>3, EmptyLen
      <4>2. \A m \in Nat : m # 0 => m = 1 \/ 2 <= m
        OBVIOUS
      <4>3. QED
        BY <4>1, <4>2
    <3>4. QED
      BY <3>1, <3>2, <3>3
  <2>4. pending' = <<>> <=> Len(pending') = 0
    BY <2>1, EmptyLen
  <2>5. QED
    BY <1>2, <2>2, <2>3, <2>4
<1>5. curSend = pending[1]
  BY <1>3 DEF CleanBody, Shape
<1>6. Shape'
  <2>1. curSend' = IF n > 1 THEN pending[2] ELSE NULL
    BY <1>1, <1>2, <1>3, <1>5 DEF CleanBody, Shape
  <2>2. curSend' = IF pending' = <<>> THEN NULL ELSE pending'[1]
    BY <1>2, <1>3, <1>4, <2>1
  <2>3. pending' # <<>> => curWrite' = pending'[Len(pending')]
    <3>1. curWrite = pending[n]
      BY <1>3 DEF CleanBody, Shape
    <3>2. pending' # <<>> => n - 1 \in 1..(n - 1) /\ (n - 1) + 1 = n
      BY <1>2, <1>3, <1>4
    <3>3. QED
      BY <1>1, <1>4, <3>1, <3>2
  <2>4. \A i \in 1..Len(pending') :
          next'[pending'[i]] = IF i < Len(pending') THEN pending'[i + 1] ELSE NULL
    <3>1. TAKE i \in 1..Len(pending')
    <3>2. i + 1 \in 1..n /\ pending'[i] = pending[i + 1]
      BY <1>2, <1>4
    <3>3. next[pending[i + 1]] = IF i + 1 < n THEN pending[i + 2] ELSE NULL
      BY <1>2, <3>2 DEF CleanBody, Shape
    <3>4. i < Len(pending') <=> i + 1 < n
      BY <1>2, <1>4
    <3>5. i < Len(pending') => pending'[i + 1] = pending[i + 2]
      BY <1>2, <1>4
    <3>6. QED
      BY <1>1, <3>2, <3>3, <3>4, <3>5
  <2>5. used = {pending'[i] : i \in 1..Len(pending')} \cup {curSend}
    <3>1. used = {pending[i] : i \in 1..n}
      BY <1>1, <1>13 DEF CleanBody, Shape
    <3>3. ASSUME NEW x \in used
          PROVE  x \in {pending'[i] : i \in 1..Len(pending')} \cup {curSend}
      <4>1. PICK i \in 1..n : x = pending[i]
        BY <3>1
      <4>2. i # 1 => i - 1 \in 1..Len(pending') /\ pending'[i - 1] = x
        BY <1>2, <1>4, <4>1
      <4>3. QED
        BY <1>5, <4>1, <4>2
    <3>4. ASSUME NEW i \in 1..Len(pending') PROVE pending'[i] \in used
      <4>1. i + 1 \in 1..n /\ pending'[i] = pending[i + 1]
        BY <1>2, <1>4
      <4>2. QED
        BY <3>1, <4>1
    <3>6. curSend \in used
      BY <1>3, <1>5, <3>1
    <3>5. QED
      BY <3>3, <3>4, <3>6
  <2>7. ASSUME NEW i \in 1..Len(pending') PROVE pending'[i] # curSend
    <3>1. i + 1 \in 1..n /\ i + 1 # 1 /\ pending'[i] = pending[i + 1]
      BY <1>2, <1>4
    <3>2. QED
      BY <1>3, <1>5, <3>1 DEF CleanBody, Distinct
  <2>6. QED
    BY <1>1, <1>13, <2>2, <2>3, <2>4, <2>5, <2>7 DEF Shape
<1>7. buf[pending[1]].id = added - n + 1
  BY <1>3 DEF CleanBody, Complete
<1>8. Complete'
  <2>1. \A i \in 1..Len(pending') : buf'[pending'[i]].id = added' - Len(pending') + i
    <3>1. TAKE i \in 1..Len(pending')
    <3>2. i + 1 \in 1..n /\ pending'[i] = pending[i + 1]
      BY <1>2, <1>4
    <3>3. buf[pending[i + 1]].id = added - n + (i + 1)
      BY <3>2 DEF CleanBody, Complete
    <3>4. QED
      BY <1>1, <1>2, <1>4, <3>2, <3>3
  <2>2. ASSUME NEW id \in 1..(added - (n - 1)) PROVE id \in tried \cup dropped
    <3>1. CASE id = added - n + 1
      BY <1>3, <1>7, <3>1
    <3>2. CASE id \in 1..(added - n)
      BY <3>2 DEF CleanBody, Complete
    <3>3. QED
      BY <1>2, <3>1, <3>2
  <2>3. QED
    BY <1>1, <1>2, <1>4, <2>1, <2>2 DEF Complete
<1>9. Distinct'
  <2>1. SUFFICES ASSUME NEW i \in 1..(n - 1), NEW j \in 1..(n - 1),
                        pending'[i] = pending'[j]
                 PROVE  i = j
    BY <1>4 DEF Distinct
  <2>2. i + 1 \in 1..n /\ j + 1 \in 1..n /\ pending[i + 1] = pending[j + 1]
    BY <1>2, <1>4, <2>1
  <2>3. i + 1 = j + 1
    BY <2>2 DEF CleanBody, Distinct
  <2>4. QED
    BY <1>2, <2>3
<1>10. InHand' /\ DropProgress'
  BY <1>1 DEF InHand, DropProgress
<1>11. TriedAreOld'
  <2>1. \A id \in tried : id <= added - n + 1
    BY <1>1 DEF CleanBody, TriedAreOld
  <2>2. added' - Len(pending') + 0 = added - n + 1
    BY <1>1, <1>2, <1>4
  <2>3. QED
    BY <1>1, <2>1, <2>2 DEF TriedAreOld
<1>12. QED
  BY <1>6, <1>8, <1>9, <1>10, <1>11 DEF CleanBody

\* What the sender has relinked is no longer on the used list.
LEMMA CleanOffsetFree ==
  ASSUME TypeOK, Calls, CleanBody, OffsetFree
  PROVE  CleanBody'
<1>1. /\ UNCHANGED <<buf, next, curSend, curWrite, pPc, pNode, pFreed>>
      /\ UNCHANGED <<added, tried, dropped, pending>>
      /\ sPc = "free" /\ sPc' = "fetch" /\ memory_list_free(sNode, sFound)
  BY DEF OffsetFree, nodeVars, listVars, producerVars, historyVars
<1>2. pPc # "free" /\ (sFound <=> sNode \in used)
  BY <1>1 DEF Calls
<1>3. FirstKept' = FirstKept /\ \A i \in FirstKept..Len(pending) : i \in 1..Len(pending)
  BY <1>1 DEF FirstKept, TypeOK
<1>4. /\ used = {pending[i] : i \in FirstKept..Len(pending)} \cup {sNode}
      /\ \A i \in 1..Len(pending) : pending[i] # sNode
  BY <1>1 DEF CleanBody, Shape
<1>5. used' = used \ {sNode}
  BY <1>1, <1>2, <1>4 DEF memory_list_free
<1>6. used' = {pending[i] : i \in FirstKept..Len(pending)}
  BY <1>3, <1>4, <1>5
<1>7. Shape'
  BY <1>1, <1>3, <1>6 DEF CleanBody, Shape
<1>8. Complete' /\ Distinct' /\ InHand' /\ DropProgress' /\ TriedAreOld'
  BY <1>1 DEF CleanBody, Complete, Distinct, InHand, DropProgress, TriedAreOld
<1>9. QED
  BY <1>7, <1>8 DEF CleanBody

LEMMA CleanInit == Init => CleanInv
<1> SUFFICES ASSUME Init PROVE CleanBody
  BY DEF CleanInv, CleanBody
<1>1. /\ pending = <<>> /\ Len(pending) = 0 /\ added = 0 /\ curSend = NULL
      /\ used = {} /\ tried = {} /\ pPc = "idle" /\ sPc = "fetch"
  BY DEF Init
<1>2. Shape
  <2>1. FirstKept = 1 /\ {pending[i] : i \in 1..0} = {}
    BY <1>1 DEF FirstKept
  <2>2. QED
    BY <1>1, <2>1 DEF Shape
<1>3. Complete
  BY <1>1 DEF Complete
<1>4. QED
  BY <1>1, <1>2, <1>3 DEF CleanBody, Distinct, InHand, DropProgress, TriedAreOld

\* A clean list has seen no overlap.
LEMMA CleanPool == Clean /\ PoolPartition => Partition /\ Calls
BY DEF Clean, PoolPartition

LEMMA CleanStep == TypeOK /\ PoolPartition /\ CleanInv /\ Next => CleanInv'
<1> SUFFICES ASSUME TypeOK, PoolPartition, CleanInv, Next, Clean'
             PROVE  CleanBody'
  BY DEF CleanInv, CleanBody
<1>1. CleanBody /\ Partition /\ Calls
  BY CleanBefore, CleanPool DEF CleanInv, CleanBody
<1>11. CASE ResetFree
  BY <1>1, <1>11, CleanSearch
<1>12. CASE OffsetFree
  BY <1>1, <1>12, CleanOffsetFree
<1>2. CASE CheckOverflow \/ ResetScan \/ ResetCounters
  BY <1>1, <1>2, CleanScan
<1>3. CASE ResetDrop
  BY <1>1, <1>3, CleanDrop
<1>4. CASE ResetRelink
  BY <1>1, <1>4, CleanRelink
<1>5. CASE Add
  BY <1>1, <1>5, CleanAdd
<1>6. CASE Fetch
  BY <1>1, <1>6, CleanFetch
<1>7. CASE Transmit
  BY <1>1, <1>7, CleanTransmit
<1>8. CASE Offset
  BY <1>1, <1>8, CleanOffset
<1>9. CASE OffsetOfNull
  <2>1. UNCHANGED <<poolVars, nodeVars, listVars, producerVars, senderVars, historyVars>>
    BY <1>9 DEF OffsetOfNull
  <2>2. QED
    BY <1>1, <2>1 DEF poolVars, nodeVars, listVars, producerVars, senderVars,
         historyVars, CleanBody, Shape, FirstKept, Complete, Distinct, InHand, DropProgress,
         TriedAreOld
<1>10. QED
  BY <1>2, <1>3, <1>4, <1>5, <1>6, <1>7, <1>8, <1>9, <1>11, <1>12 DEF Next, Producer, Sender

\* On a clean list the strengthened invariant holds: the pointers, the packets
\* and what the two threads have in hand agree with the history.
THEOREM CleanListSafe == Spec => []CleanInv
<1>1. TypeOK /\ PoolPartition /\ CleanInv /\ [Next]_vars => CleanInv'
  <2> SUFFICES ASSUME TypeOK, PoolPartition, CleanInv, [Next]_vars PROVE CleanInv'
    OBVIOUS
  <2>1. CASE Next
    BY <2>1, CleanStep
  <2>2. CASE UNCHANGED vars
    BY <2>2 DEF vars, poolVars, nodeVars, listVars, producerVars, senderVars,
         historyVars, CleanInv, Clean, Shape, FirstKept, Complete, Distinct, InHand,
         DropProgress, TriedAreOld
  <2>3. QED
    BY <2>1, <2>2
<1>2. QED
  BY CleanInit, <1>1, TypeCorrect, PoolSafe, PTL DEF Spec

\* The chain of pointers is the queue, until the list is damaged.
THEOREM QueueShapeHolds == Spec => []QueueShape
<1>1. CleanInv => QueueShape
  BY DEF CleanInv, QueueShape
<1>2. QED
  BY <1>1, CleanListSafe, PTL

-----------------------------------------------------------------------------
(***************************************************************************)
(* The NULL pointer.                                                       *)
(***************************************************************************)

\* Until a reset has raced the sender, a sender with a packet in hand finds a
\* list that is not empty.
FaultInv ==
  /\ FaultOnlyByRace
  /\ (sPc \in {"send", "offset"} /\ "race" \notin damage) => curSend # NULL

LEMMA FaultStep == TypeOK /\ FaultInv /\ Next => FaultInv'
<1> SUFFICES ASSUME TypeOK, FaultInv, Next PROVE FaultInv'
  OBVIOUS
<1> USE DEF FaultInv, FaultOnlyByRace
<1>1. ~fault
  BY DEF Next
<1>2. CASE Producer
  <2>1. fault' = fault
    BY <1>2 DEF Producer
  <2>2. CASE CheckOverflow \/ ResetScan \/ ResetFree \/ ResetDrop \/ ResetCounters
    BY <1>1, <2>1, <2>2 DEF CheckOverflow, ResetScan, ResetFree, ResetDrop, ResetCounters,
         listVars, senderVars, historyVars
  <2>3. CASE ResetRelink
    <3>1. CASE ResetRelinkH264
      <4>1. /\ sPc' = sPc /\ curSend' = pNode
            /\ damage' = IF sPc \in {"send", "offset"} /\ sNode # pNode
                         THEN damage \cup {"race"} ELSE damage
        BY <2>3, <3>1 DEF ResetRelink, ResetRelinkH264, senderVars
      <4>2. QED
        BY <1>1, <2>1, <4>1 DEF TypeOK
    <3>2. CASE ResetRelinkH265
      <4>1. /\ curSend' \in Block
            /\ damage \subseteq damage'
        BY <3>2 DEF ResetRelinkH265
      <4>2. QED
        BY <1>1, <2>1, <4>1, BlockNotNull
    <3>3. QED
      BY <2>3, <3>1, <3>2 DEF ResetRelink
  <2>4. CASE Add
    <3>1. /\ sPc' = sPc /\ damage \subseteq damage'
          /\ \E b \in Block : curSend' = IF curSend = NULL THEN b ELSE curSend
      BY <2>4 DEF Add, packet_list_node_add, senderVars
    <3>2. QED
      BY <1>1, <2>1, <3>1, BlockNotNull
  <2>5. QED
    BY <1>2, <2>2, <2>3, <2>4 DEF Producer
<1>3. CASE Fetch /\ UNCHANGED <<fault, pack_type>>
  BY <1>1, <1>3 DEF Fetch, listVars
<1>4. CASE Transmit /\ UNCHANGED <<fault, pack_type>>
  BY <1>1, <1>4 DEF Transmit, listVars
<1>5. CASE Offset /\ UNCHANGED <<fault, pack_type>>
  BY <1>1, <1>5 DEF Offset
<1>8. CASE OffsetFree /\ UNCHANGED <<fault, pack_type>>
  BY <1>1, <1>8 DEF OffsetFree
<1>6. CASE OffsetOfNull
  BY <1>6 DEF OffsetOfNull, listVars, senderVars, historyVars
<1>7. QED
  BY <1>2, <1>3, <1>4, <1>5, <1>6, <1>8 DEF Next, Sender

\* The sender reads through a NULL list_current_send only after a reset has
\* emptied the list under the packet it had in hand.
THEOREM FaultNeedsRace == Spec => []FaultOnlyByRace
<1>1. Init => FaultInv
  BY DEF Init, FaultInv, FaultOnlyByRace
<1>2. TypeOK /\ FaultInv /\ [Next]_vars => FaultInv'
  BY FaultStep DEF vars, listVars, senderVars, historyVars, FaultInv, FaultOnlyByRace
<1>3. FaultInv => FaultOnlyByRace
  BY DEF FaultInv
<1>4. QED
  BY <1>1, <1>2, <1>3, TypeCorrect, PTL DEF Spec

-----------------------------------------------------------------------------
(***************************************************************************)
(* The counters.                                                           *)
(***************************************************************************)

\* How the two counters, the limit and the queue are related on a clean list before the
\* first wrap.  One add after a reset that freed nothing takes them one beyond the limit,
\* and the check before the next add then finds the overflow for certain.
AccountBody ==
  /\ sendSize <= writeSize /\ writeSize <= added
  /\ writeSize - sendSize <= MaxSize + 1
  /\ pPc = "add" => writeSize - sendSize <= MaxSize
  /\ pPc \in {"scan", "drop", "free", "counters"} => MaxSize <= added
  /\ pPc # "counters" => Len(pending) <= writeSize - sendSize + resets
  /\ pPc # "counters" /\ resets = 0 => Len(pending) = writeSize - sendSize
  /\ pPc = "counters" =>
       pack_type = "H264" /\ Len(pending) <= MaxSize + 1 + resets - pFreed

AccountInv == Clean /\ added < MaxLoop => AccountBody

\* A difference beyond the limit is always found.
LEMMA OverflowFound ==
  ASSUME writeSize - sendSize \in 0..(MaxSize + 1)
  PROVE  Overflow <=> writeSize - sendSize > MaxSize
<1> DEFINE w == writeSize - sendSize
<1>1. Word \in Nat \ {0} /\ w \in 0..(Word - 1)
  BY Assumption
<1> HIDE DEF w
<1>2. w % Word = w
  BY <1>1, ModOfSmall
<1>3. Overflow <=> w > MaxSize
  BY <1>1, <1>2, Assumption DEF Overflow, w
<1>4. QED
  BY <1>3 DEF w

LEMMA AccountProducer ==
  ASSUME TypeOK, CleanBody, AccountBody, Producer, Clean, Clean', added' < MaxLoop
  PROVE  AccountBody'
<1>1. /\ writeSize \in Nat /\ sendSize \in Nat /\ added \in Nat /\ resets \in Nat
      /\ pFreed \in Nat /\ pending \in Seq(Block) /\ Len(pending) \in Nat
      /\ MaxSize \in Nat /\ MaxLoop \in Nat
      /\ pack_type = "H264" => pFreed <= MaxSize
  BY Assumption DEF TypeOK
<1>2. pack_type' = pack_type
  BY DEF Producer
<1>3. CASE CheckOverflow
  <2>1. /\ UNCHANGED <<writeSize, sendSize, added, resets, pending, pFreed>>
        /\ pPc = "idle" /\ pPc' = IF Overflow THEN "scan" ELSE "add"
    BY <1>3 DEF CheckOverflow, listVars, historyVars
  <2>2. Overflow <=> writeSize - sendSize > MaxSize
    <3>1. writeSize - sendSize \in 0..(MaxSize + 1)
      BY <1>1 DEF AccountBody
    <3>2. QED
      BY <3>1, OverflowFound
  <2>3. CASE Overflow
    BY <1>1, <2>1, <2>2, <2>3 DEF AccountBody
  <2>4. CASE ~Overflow
    BY <1>1, <2>1, <2>2, <2>4 DEF AccountBody
  <2>5. QED
    BY <2>3, <2>4
<1>4. CASE ResetScan \/ ResetFree \/ ResetDrop
  <2>1. /\ UNCHANGED <<writeSize, sendSize, added, resets, pending>>
        /\ pPc \in {"scan", "drop", "free"} /\ pPc' \in {"drop", "free"}
    BY <1>4 DEF ResetScan, ResetFree, ResetDrop, listVars, historyVars
  <2>2. QED
    BY <1>1, <2>1 DEF AccountBody
<1>5. CASE ResetRelink
  <2>1. /\ UNCHANGED <<writeSize, sendSize, added, resets, pFreed>>
        /\ pPc = "drop" /\ pPc' = "counters"
        /\ ResetRelinkH264 \/ ResetRelinkH265
    BY <1>5 DEF ResetRelink
  <2>2. ~ResetRelinkH265
    BY DEF ResetRelinkH265, Clean
  <2>3. pack_type = "H264" /\ pending' = SubSeq(pending, pFreed + 1, Len(pending))
    BY <2>1, <2>2 DEF ResetRelinkH264, Clean
  <2>4. pFreed <= Len(pending)
    BY <2>1 DEF CleanBody, DropProgress
  <2>5. Len(pending') = Len(pending) - pFreed
    BY <1>1, <2>3, <2>4, SubSeqProperties
  <2>6. QED
    BY <1>1, <1>2, <2>1, <2>3, <2>5 DEF AccountBody
<1>6. CASE ResetCounters
  <2>1. /\ UNCHANGED <<added, pending>> /\ resets' = resets + 1
        /\ pPc = "counters" /\ pPc' = "add" /\ sendSize' = 0
        /\ writeSize' = IF pack_type = "H264" THEN MaxSize - pFreed ELSE 0
    BY <1>6 DEF ResetCounters
  <2>2. writeSize' = MaxSize - pFreed
    BY <2>1 DEF AccountBody
  <2>3. QED
    BY <1>1, <2>1, <2>2 DEF AccountBody
<1>7. CASE Add
  <2>1. PICK b \in Block, q \in Packet :
          /\ added' = added + 1 /\ pPc = "add" /\ pPc' = "idle"
          /\ UNCHANGED <<sendSize, resets>> /\ writeSize' = CountUp(writeSize)
          /\ pending' = IF damage' = {} THEN Append(pending, b) ELSE pending
    <3>1. added < NumPackets
      BY <1>7 DEF TypeOK, Add
    <3>2. \A sps \in BOOLEAN : [id |-> added + 1, sps |-> sps] \in Packet
      BY <1>1, <3>1, Assumption DEF Packet
    <3>3. QED
      BY <1>7, <3>2 DEF Add, packet_list_node_add
  <2>2. pending' = Append(pending, b) /\ Len(pending') = Len(pending) + 1
    BY <1>1, <2>1 DEF Clean
  <2>3. writeSize' = writeSize + 1
    BY <1>1, <2>1 DEF AccountBody, CountUp
  <2>4. QED
    BY <1>1, <2>1, <2>2, <2>3 DEF AccountBody
<1>8. QED
  BY <1>3, <1>4, <1>5, <1>6, <1>7 DEF Producer

LEMMA AccountSender ==
  ASSUME TypeOK, CleanBody, AccountBody, Sender, Clean, Clean', added' < MaxLoop
  PROVE  AccountBody'
<1>1. /\ writeSize \in Nat /\ sendSize \in Nat /\ added \in Nat /\ resets \in Nat
      /\ pFreed \in Nat /\ pending \in Seq(Block) /\ Len(pending) \in Nat
      /\ MaxSize \in Nat /\ MaxLoop \in Nat
  BY Assumption DEF TypeOK
<1>2. CASE Fetch \/ Transmit \/ OffsetFree \/ OffsetOfNull
  <2>1. UNCHANGED <<writeSize, sendSize, added, resets, pending, pFreed, pPc>>
    BY <1>2 DEF Fetch, Transmit, OffsetFree, OffsetOfNull, listVars, producerVars, historyVars
  <2>2. pack_type' = pack_type
    BY DEF Sender, OffsetOfNull
  <2>3. QED
    BY <1>1, <2>1, <2>2 DEF AccountBody
<1>3. CASE Offset
  <2>1. /\ UNCHANGED <<writeSize, added, resets, pFreed, pPc>> /\ sPc = "offset"
        /\ sendSize' = IF sendSize = MaxLoop THEN 0
                       ELSE IF sendSize < writeSize THEN sendSize + 1 ELSE sendSize
        /\ damage' = damage
             \cup (IF pPc \in {"drop", "free", "counters"} THEN {"race"} ELSE {})
             \cup (IF pPc = "free" THEN {"pool"} ELSE {})
        /\ pending' = IF damage' = {} THEN SubSeq(pending, 2, Len(pending)) ELSE pending
    BY <1>3 DEF Offset, packet_list_node_offset, producerVars
  <2>2. pPc \notin {"drop", "free", "counters"} /\ pending' = SubSeq(pending, 2, Len(pending))
    BY <2>1 DEF Clean
  <2>3. Len(pending) >= 1
    BY <1>1, <2>1 DEF CleanBody, InHand
  <2>4. Len(pending') = Len(pending) - 1
    <3>1. \A i \in 2..Len(pending) : pending[i] \in Block
      BY <1>1
    <3>2. Len(SubSeq(pending, 2, Len(pending))) =
            IF 2 <= Len(pending) THEN Len(pending) - 2 + 1 ELSE 0
      BY <1>1, <3>1, SubSeqProperties
    <3> DEFINE n == Len(pending)
               t == Len(SubSeq(pending, 2, n))
    <3>3. n \in Nat /\ n >= 1 /\ t = IF 2 <= n THEN n - 2 + 1 ELSE 0
      BY <1>1, <2>3, <3>2
    <3> HIDE DEF n, t
    <3>4. t = n - 1
      BY <3>3
    <3>5. Len(SubSeq(pending, 2, Len(pending))) = Len(pending) - 1
      BY <3>4 DEF n, t
    <3>6. QED
      BY <2>2, <3>5
  <2>5. sendSize' = IF sendSize < writeSize THEN sendSize + 1 ELSE sendSize
    BY <1>1, <2>1 DEF AccountBody
  <2>6. pPc' = pPc /\ pPc # "counters" /\ UNCHANGED <<writeSize, added, resets>>
    BY <2>1, <2>2
  <2>7. CASE sendSize < writeSize
    <3>1. sendSize' = sendSize + 1
      BY <2>5, <2>7
    <3>2. QED
      BY <1>1, <2>4, <2>6, <2>7, <3>1 DEF AccountBody
  <2>8. CASE ~(sendSize < writeSize)
    <3>1. sendSize' = sendSize /\ sendSize = writeSize
      BY <1>1, <2>5, <2>8 DEF AccountBody
    <3>2. QED
      BY <1>1, <2>3, <2>4, <2>6, <3>1 DEF AccountBody
  <2>9. QED
    BY <2>7, <2>8
<1>4. QED
  BY <1>2, <1>3 DEF Sender

\* From the difference of the counters the queue's length is told: exactly up to the
\* first reset, and too low by at most one per reset after that.
THEOREM CountersTell == Spec => []Accounting
<1>1. Init => AccountInv
  BY Assumption DEF Init, AccountInv, AccountBody
<1>2. TypeOK /\ CleanInv /\ AccountInv /\ [Next]_vars => AccountInv'
  <2> SUFFICES ASSUME TypeOK, CleanInv, AccountInv, [Next]_vars, Clean', added' < MaxLoop
               PROVE  AccountBody'
    BY DEF AccountInv
  <2>1. CASE Next
    <3>1. Clean /\ CleanBody
      BY <2>1, CleanBefore DEF CleanInv, CleanBody
    <3>2. added' = added \/ added' = added + 1
      BY <2>1 DEF Next, Producer, Sender, CheckOverflow, ResetScan, ResetFree, ResetDrop,
           ResetRelink, ResetCounters, Add, Fetch, Transmit, Offset, OffsetFree, OffsetOfNull,
           historyVars
    <3>3. added < MaxLoop
      BY <3>2, Assumption DEF TypeOK
    <3>4. AccountBody
      BY <3>1, <3>3 DEF AccountInv
    <3>5. CASE Producer
      BY <3>1, <3>4, <3>5, AccountProducer
    <3>6. CASE Sender
      BY <3>1, <3>4, <3>6, AccountSender
    <3>7. QED
      BY <2>1, <3>5, <3>6 DEF Next
  <2>2. CASE UNCHANGED vars
    BY <2>2 DEF vars, listVars, producerVars, historyVars, AccountInv, AccountBody, Clean
  <2>3. QED
    BY <2>1, <2>2
<1>3. AccountInv => Accounting
  BY DEF AccountInv, AccountBody, Accounting
<1>4. QED
  BY <1>1, <1>2, <1>3, TypeCorrect, CleanListSafe, PTL DEF Spec

-----------------------------------------------------------------------------
(***************************************************************************)
(* The resend cache.                                                       *)
(***************************************************************************)

\* Where the width of the numbers is a multiple of the cache's size the slots go round,
\* also across a wrap of the numbers: packets less than a round apart have two of them.
LEMMA SlotsApart ==
  ASSUME SeqMod % ResendSize = 0, NEW a \in Nat, NEW b \in Nat, a < b, b < a + ResendSize
  PROVE  ResendSlot(a) # ResendSlot(b)
<1>1. ResendSize \in Nat \ {0} /\ SeqMod \in Nat \ {0} /\ a \in Int /\ b \in Int
  BY Assumption
<1>2. /\ (a % SeqMod) % ResendSize = a % ResendSize
      /\ (b % SeqMod) % ResendSize = b % ResendSize
  BY <1>1, ModOfMod
<1>3. a % ResendSize # b % ResendSize
  BY <1>1, NearDiffer
<1>4. QED
  BY <1>2, <1>3 DEF ResendSlot

\* The slot of the number after a packet's own is that of its id, the slot of its own
\* number that of the id before.
LEMMA SlotOfNumber ==
  ASSUME NEW id \in Nat \ {0}
  PROVE  /\ ResendSlot(Number(id) + 1) = ResendSlot(id)
         /\ ResendSlot(Number(id)) = ResendSlot(id - 1)
<1>1. SeqMod \in Nat \ {0} /\ id - 1 \in Int /\ (id - 1) + 1 = id
  BY Assumption
<1>2. (((id - 1) % SeqMod) + 1) % SeqMod = id % SeqMod
  BY <1>1, ModPlusOne
<1>3. (id - 1) % SeqMod \in 0..(SeqMod - 1)
  BY <1>1
<1>4. ((id - 1) % SeqMod) % SeqMod = (id - 1) % SeqMod
  BY <1>1, <1>3, ModOfSmall
<1>5. QED
  BY <1>2, <1>4 DEF ResendSlot, Number

\* Packets a whole round apart share a slot.
LEMMA SlotsAgain ==
  ASSUME SeqMod % ResendSize = 0, NEW a \in Nat
  PROVE  ResendSlot(a) = ResendSlot(a + ResendSize)
<1>1. ResendSize \in Nat \ {0} /\ SeqMod \in Nat \ {0} /\ a \in Int /\ a + ResendSize \in Int
  BY Assumption
<1> DEFINE q == a \div ResendSize
           m == a % ResendSize
<1>2. a = ResendSize * q + m /\ q \in Int /\ m \in 0..(ResendSize - 1)
  BY <1>1, DivMod DEF Splits
<1> HIDE DEF q, m
<1>3. a + ResendSize = ResendSize * (q + 1) + m
  BY <1>1, <1>2
<1>4. (a + ResendSize) % ResendSize = m
  <2>1. Splits(a + ResendSize, ResendSize, q + 1, m)
    BY <1>2, <1>3 DEF Splits
  <2>2. q + 1 \in Int
    BY <1>2
  <2>3. QED
    BY <1>1, <1>2, <2>1, <2>2, DivModUnique
<1>5. /\ (a % SeqMod) % ResendSize = a % ResendSize
      /\ ((a + ResendSize) % SeqMod) % ResendSize = (a + ResendSize) % ResendSize
  BY <1>1, ModOfMod
<1>6. QED
  BY <1>4, <1>5 DEF ResendSlot, m

\* What the cache holds, by the ids of the packets: the newest of them, and nothing in
\* the slot of 0 before it has been round once.
CacheInv ==
  SeqMod % ResendSize = 0 =>
    /\ \A id \in 1..added : id > added - ResendSize => resend[ResendSlot(id)] = id
    /\ added < ResendSize => resend[ResendSlot(0)] = 0

LEMMA ResendAdd == TypeOK /\ CacheInv /\ Add => CacheInv'
<1> SUFFICES ASSUME TypeOK, CacheInv, Add, SeqMod % ResendSize = 0
             PROVE  /\ \A id \in 1..added' :
                         id > added' - ResendSize => resend'[ResendSlot(id)] = id
                    /\ added' < ResendSize => resend'[ResendSlot(0)] = 0
  BY DEF CacheInv, ResendSlot
<1>1. /\ added' = added + 1 /\ added \in Nat
      /\ resend' = [resend EXCEPT ![ResendSlot(added + 1)] = added + 1]
      /\ DOMAIN resend = 0..(ResendSize - 1)
  BY DEF Add, TypeOK
<1>2. \A n \in Nat : ResendSlot(n) \in DOMAIN resend
  BY <1>1, ResendSlotType
<1>3. ASSUME NEW id \in 1..added', id > added' - ResendSize
      PROVE  resend'[ResendSlot(id)] = id
  <2>1. CASE id = added + 1
    BY <1>1, <1>2, <2>1
  <2>2. CASE id # added + 1
    <3>1. id \in 1..added /\ id > added - ResendSize /\ added + 1 < id + ResendSize
      BY <1>1, <1>3, <2>2, Assumption
    <3>2. ResendSlot(id) # ResendSlot(added + 1)
      BY <1>1, <3>1, SlotsApart
    <3>3. resend[ResendSlot(id)] = id
      BY <3>1 DEF CacheInv
    <3>4. QED
      BY <1>1, <1>2, <3>1, <3>2, <3>3
  <2>3. QED
    BY <2>1, <2>2
<1>4. ASSUME added' < ResendSize
      PROVE  resend'[ResendSlot(0)] = 0
  <2>1. added < ResendSize /\ 0 < added + 1 /\ added + 1 < 0 + ResendSize
    BY <1>1, <1>4, Assumption
  <2>2. ResendSlot(0) # ResendSlot(added + 1)
    BY <1>1, <2>1, SlotsApart
  <2>3. resend[ResendSlot(0)] = 0
    BY <2>1 DEF CacheInv
  <2>4. QED
    BY <1>1, <1>2, <2>2, <2>3
<1>5. QED
  BY <1>3, <1>4

LEMMA CacheTells == TypeOK /\ CacheInv => ResendOneLate
<1> SUFFICES ASSUME TypeOK, CacheInv, SeqMod % ResendSize = 0,
                    NEW id \in 1..added, id > added - ResendSize
             PROVE  /\ resend[ResendSlot(id)] = id
                    /\ resend[ResendSlot(id - 1)] =
                         IF id - 1 > added - ResendSize THEN id - 1 ELSE added
  <2>1. \A n \in 1..added : n \in Nat \ {0}
    BY Assumption DEF TypeOK
  <2>2. QED
    BY <2>1, SlotOfNumber DEF ResendOneLate
<1>1. added \in Nat /\ ResendSize \in Nat \ {0}
  BY Assumption DEF TypeOK
<1>2. resend[ResendSlot(id)] = id
  BY DEF CacheInv
<1>3. CASE id - 1 > added - ResendSize
  <2>1. CASE id = 1
    <3>1. added < ResendSize /\ id - 1 = 0
      BY <1>1, <1>3, <2>1
    <3>2. QED
      BY <1>2, <1>3, <3>1 DEF CacheInv
  <2>2. CASE id # 1
    <3>1. id - 1 \in 1..added
      BY <1>1, <2>2
    <3>2. QED
      BY <1>2, <1>3, <3>1 DEF CacheInv
  <2>3. QED
    BY <2>1, <2>2
<1>4. CASE ~(id - 1 > added - ResendSize)
  <2>1. id - 1 \in Nat /\ (id - 1) + ResendSize = added
    BY <1>1, <1>4
  <2>2. ResendSlot(id - 1) = ResendSlot(added)
    BY <2>1, SlotsAgain
  <2>3. added \in 1..added /\ added > added - ResendSize
    BY <1>1
  <2>4. resend[ResendSlot(added)] = added
    BY <2>3 DEF CacheInv
  <2>5. resend[ResendSlot(id - 1)] = added
    BY <2>2, <2>4
  <2>6. QED
    BY <1>2, <1>4, <2>5
<1>5. QED
  BY <1>2, <1>3, <1>4

\* Whatever happens to the list, a look-up of one of the newest packets by its own number
\* finds the packet made before it, and by the number after its own the packet itself,
\* however often the numbers have wrapped.
THEOREM CacheIsOneLate == Spec => []ResendOneLate
<1>1. Init => CacheInv
  <2>1. SUFFICES ASSUME Init PROVE CacheInv
    OBVIOUS
  <2>2. added = 0 /\ resend = [i \in 0..(ResendSize - 1) |-> 0]
    BY <2>1 DEF Init
  <2>3. ResendSlot(0) \in 0..(ResendSize - 1)
    BY ResendSlotType
  <2>4. QED
    BY <2>2, <2>3 DEF CacheInv
<1>2. TypeOK /\ CacheInv /\ [Next]_vars => CacheInv'
  <2> SUFFICES ASSUME TypeOK, CacheInv, [Next]_vars PROVE CacheInv'
    OBVIOUS
  <2>1. CASE Add
    BY <2>1, ResendAdd
  <2>2. CASE ~Add
    <3>1. UNCHANGED <<added, resend>>
      BY <2>2 DEF Next, Producer, Sender, CheckOverflow, ResetScan, ResetFree, ResetDrop,
           ResetRelink, ResetCounters, Fetch, Transmit, Offset, OffsetFree, OffsetOfNull, vars,
           historyVars
    <3>2. QED
      BY <3>1 DEF CacheInv, ResendSlot
  <2>3. QED
    BY <2>1, <2>2
<1>3. QED
  BY <1>1, <1>2, CacheTells, TypeCorrect, PTL DEF Spec

-----------------------------------------------------------------------------
(***************************************************************************)
(* What a reset keeps.                                                     *)
(***************************************************************************)

\* The equation that defines hop.
Walks(h) ==
  h = [k \in 0..MaxBlocks |->
         IF k = 0 THEN curSend
         ELSE IF h[k - 1] = NULL THEN NULL ELSE next[h[k - 1]]]

\* The recursion of hop has a solution whatever the pointers are.
LEMMA HopIs == TypeOK => Walks(hop)
<1> SUFFICES ASSUME TypeOK PROVE Walks(hop)
  OBVIOUS
<1> DEFINE V == Block \cup {NULL}
           step == [k \in 1..MaxBlocks |-> [v \in V |-> IF v = NULL THEN NULL ELSE next[v]]]
<1>1. MaxBlocks \in Nat /\ curSend \in V /\ next \in [Block -> V]
  BY Assumption DEF TypeOK
<1>2. step \in [1..MaxBlocks -> [V -> V]]
  BY <1>1
<1>3. \A k \in 1..MaxBlocks : \A v \in V : step[k][v] = IF v = NULL THEN NULL ELSE next[v]
  OBVIOUS
<1> HIDE DEF V
<1> HIDE DEF step
<1>4. PICK g \in [0..MaxBlocks -> V] : Iterates(g, MaxBlocks, curSend, step)
  BY <1>1, <1>2, IterationExists
<1>5. ASSUME NEW k \in 0..MaxBlocks
      PROVE  g[k] = IF k = 0 THEN curSend
                    ELSE IF g[k - 1] = NULL THEN NULL ELSE next[g[k - 1]]
  <2>1. CASE k = 0
    BY <1>4, <2>1 DEF Iterates
  <2>2. CASE k # 0
    <3>1. k \in 1..MaxBlocks /\ k - 1 \in 0..MaxBlocks
      BY <1>1, <2>2
    <3>2. g[k - 1] \in V /\ g[k] = step[k][g[k - 1]]
      BY <1>4, <3>1 DEF Iterates
    <3>3. QED
      BY <1>3, <2>2, <3>1, <3>2
  <2>3. QED
    BY <2>1, <2>2
<1>6. Walks(g)
  BY <1>4, <1>5 DEF Walks
<1>7. hop = CHOOSE h : Walks(h)
  BY DEF hop, Walks
<1>8. QED
  BY <1>6, <1>7

\* On a clean list the walk meets the blocks of the queue, one after the other, and
\* NULL behind them.
LEMMA HopMeetsPending ==
  ASSUME TypeOK, Shape
  PROVE  \A k \in 0..MaxBlocks :
           hop[k] = IF k < Len(pending) THEN pending[k + 1] ELSE NULL
<1> DEFINE n == Len(pending)
           At(k) == IF k < n THEN pending[k + 1] ELSE NULL
           T == {m \in Nat : m <= MaxBlocks => hop[m] = At(m)}
<1>1. /\ MaxBlocks \in Nat /\ n \in Nat /\ pending \in Seq(Block)
      /\ \A i \in 1..n : pending[i] \in Block /\ pending[i] # NULL
  BY Assumption, BlockNotNull DEF TypeOK
<1>2. /\ \A k \in 1..MaxBlocks : hop[k] = IF hop[k - 1] = NULL THEN NULL ELSE next[hop[k - 1]]
      /\ hop[0] = curSend
  BY <1>1, HopIs DEF Walks
<1>3. /\ curSend = IF pending = <<>> THEN NULL ELSE pending[1]
      /\ \A i \in 1..n : next[pending[i]] = IF i < n THEN pending[i + 1] ELSE NULL
  BY DEF Shape
<1>4. pending = <<>> <=> n = 0
  BY <1>1
<1> HIDE DEF n
<1>5. 0 \in T
  BY <1>1, <1>2, <1>3, <1>4
<1>6. ASSUME NEW m \in Nat, m \in T
      PROVE  m + 1 \in T
  <2> SUFFICES ASSUME m + 1 <= MaxBlocks
               PROVE  hop[m + 1] = At(m + 1)
    OBVIOUS
  <2>1. m + 1 \in 1..MaxBlocks /\ (m + 1) - 1 = m
    BY <1>1
  <2>2. hop[m] = At(m) /\ hop[m + 1] = IF hop[m] = NULL THEN NULL ELSE next[hop[m]]
    BY <1>1, <1>2, <1>6, <2>1
  <2>3. CASE m < n
    <3>1. m + 1 \in 1..n /\ hop[m] = pending[m + 1] /\ hop[m] # NULL
      BY <1>1, <2>2, <2>3
    <3>2. hop[m + 1] = IF m + 1 < n THEN pending[(m + 1) + 1] ELSE NULL
      BY <1>3, <2>2, <3>1
    <3>3. QED
      BY <3>2
  <2>4. CASE ~(m < n)
    <3>1. ~(m + 1 < n)
      BY <1>1, <2>4
    <3>2. QED
      BY <2>2, <2>4, <3>1
  <2>5. QED
    BY <2>3, <2>4
<1>7. Nat \subseteq T
  <2> HIDE DEF T
  <2>1. QED
    BY <1>5, <1>6, Induction
<1>8. \A k \in 0..MaxBlocks : k \in Nat
  BY <1>1
<1>9. QED
  BY <1>7, <1>8 DEF n

\* The place of the last SPS in the queue.
LastSps(i) ==
  /\ i \in DOMAIN pending /\ buf[pending[i]].sps
  /\ \A j \in DOMAIN pending : j > i => ~buf[pending[j]].sps

\* The walk finds the last SPS of the queue where it is.
LEMMA ScanFindsLastSps ==
  ASSUME TypeOK, Shape, hop[MaxBlocks] = NULL, NEW i, LastSps(i)
  PROVE  LastSpsPlace = i
<1> DEFINE n == Len(pending)
           Met(k) == \E m \in k..(MaxBlocks - 1) : hop[m] # NULL /\ buf[hop[m]].sps
<1>1. /\ MaxBlocks \in Nat /\ n \in Nat /\ pending \in Seq(Block) /\ DOMAIN pending = 1..n
      /\ \A j \in 1..n : pending[j] \in Block /\ pending[j] # NULL
  BY Assumption, BlockNotNull DEF TypeOK
<1>2. /\ i \in 1..n /\ buf[pending[i]].sps
      /\ \A j \in 1..n : j > i => ~buf[pending[j]].sps
  BY <1>1 DEF LastSps
<1>3. \A k \in 0..MaxBlocks : hop[k] = IF k < n THEN pending[k + 1] ELSE NULL
  BY HopMeetsPending
<1> HIDE DEF n
<1>4. n <= MaxBlocks
  <2> SUFFICES ASSUME MaxBlocks < n PROVE FALSE
    BY <1>1
  <2>1. MaxBlocks \in 0..MaxBlocks /\ MaxBlocks + 1 \in 1..n
    BY <1>1
  <2>2. QED
    BY <1>1, <1>3, <2>1
<1>5. i - 1 \in 0..(MaxBlocks - 1) /\ i \in Nat /\ i - 1 < n
  BY <1>1, <1>2, <1>4
<1>6. hop[i - 1] = pending[i]
  <2>1. i - 1 \in 0..MaxBlocks /\ (i - 1) + 1 = i
    BY <1>1, <1>5
  <2>2. QED
    BY <1>3, <1>5, <2>1
<1>7. ASSUME NEW k \in 0..(MaxBlocks - 1)
      PROVE  Met(k) <=> k \in 0..(i - 1)
  <2>1. ASSUME k \in 0..(i - 1) PROVE Met(k)
    <3>1. i - 1 \in k..(MaxBlocks - 1)
      BY <1>1, <1>5, <2>1
    <3>2. QED
      BY <1>1, <1>2, <1>6, <3>1
  <2>2. ASSUME Met(k) PROVE k \in 0..(i - 1)
    <3>1. PICK m \in k..(MaxBlocks - 1) : hop[m] # NULL /\ buf[hop[m]].sps
      BY <2>2
    <3>2. m \in 0..MaxBlocks
      BY <1>1
    <3>3. m < n /\ hop[m] = pending[m + 1] /\ m + 1 \in 1..n
      BY <1>1, <1>3, <3>1, <3>2
    <3>4. ~(m + 1 > i)
      BY <1>2, <3>1, <3>3
    <3>5. QED
      BY <1>1, <1>5, <3>2, <3>4
  <2>3. QED
    BY <2>1, <2>2
<1>8. {k \in 0..(MaxBlocks - 1) : Met(k)} = 0..(i - 1)
  <2>1. \A k \in 0..(i - 1) : k \in 0..(MaxBlocks - 1)
    BY <1>1, <1>5
  <2> HIDE DEF Met
  <2>2. QED
    BY <1>7, <2>1
<1>9. Cardinality(0..(i - 1)) = i
  BY <1>2, <1>5, FS_Interval
<1>10. QED
  BY <1>8, <1>9 DEF LastSpsPlace

\* While an H.264 reset that is not raced drops nodes, those it has dropped and those
\* it will drop lie before the last SPS, and are all of them or MaxSize.
DropPlan ==
  pPc \in {"drop", "free"} /\ Clean /\ pack_type = "H264" =>
    \A i \in DOMAIN pending :
      LastSps(i) => /\ pDrop + pFreed <= i - 1
                    /\ pDrop + pFreed = i - 1 \/ pDrop + pFreed = MaxSize

LEMMA PlanOfScan ==
  ASSUME TypeOK, CleanInv, ResetScan, UNCHANGED pack_type
  PROVE  DropPlan'
<1>1. /\ UNCHANGED <<buf, pending, damage>>
      /\ hop[MaxBlocks] = NULL /\ pFreed' = 0
      /\ pDrop' = IF pack_type = "H264" THEN IdrIndex ELSE 0
  BY DEF ResetScan, nodeVars, historyVars
<1> SUFFICES ASSUME Clean', pack_type' = "H264", NEW i \in DOMAIN pending, LastSps(i)'
             PROVE  /\ pDrop' + pFreed' <= i - 1
                    /\ pDrop' + pFreed' = i - 1 \/ pDrop' + pFreed' = MaxSize
  BY <1>1 DEF DropPlan
<1>2. Clean /\ Shape /\ LastSps(i)
  BY <1>1 DEF Clean, CleanInv, LastSps
<1>3. i \in Nat \ {0} /\ MaxSize \in Nat
  BY <1>2, Assumption DEF LastSps, TypeOK
<1>4. LastSpsPlace = i
  BY <1>1, <1>2, ScanFindsLastSps
<1>5. pack_type = "H264"
  OBVIOUS
<1>6. pDrop' = IF i - 1 > MaxSize THEN MaxSize ELSE i - 1
  BY <1>1, <1>3, <1>4, <1>5 DEF IdrIndex
<1>7. CASE i - 1 > MaxSize
  <2>1. pDrop' = MaxSize /\ pFreed' = 0
    BY <1>1, <1>6, <1>7
  <2>2. pDrop' + pFreed' = MaxSize
    BY <1>3, <2>1
  <2>3. QED
    BY <1>3, <1>7, <2>2
<1>8. CASE ~(i - 1 > MaxSize)
  <2>1. pDrop' = i - 1 /\ pFreed' = 0
    BY <1>1, <1>6, <1>8
  <2>2. pDrop' + pFreed' = i - 1
    BY <1>3, <2>1
  <2>3. QED
    BY <1>3, <2>2
<1>9. QED
  BY <1>7, <1>8

LEMMA PlanKept ==
  ASSUME TypeOK, CleanInv, DropPlan, Next
  PROVE  DropPlan'
<1> SUFFICES ASSUME pPc' \in {"drop", "free"}, Clean', pack_type' = "H264" PROVE DropPlan'
  BY DEF DropPlan
<1>1. Clean /\ UNCHANGED pack_type
  BY CleanBefore DEF Next, Producer, Sender, OffsetOfNull
<1>2. CASE ResetScan
  BY <1>1, <1>2, PlanOfScan
<1>3. CASE ResetDrop
  <2>1. /\ UNCHANGED <<buf, pending, damage>> /\ pPc = "free"
        /\ pDrop > 0 /\ pDrop' = pDrop - 1 /\ pFreed' = pFreed + 1
    BY <1>1, <1>3 DEF ResetDrop, nodeVars, TypeOK
  <2>2. pDrop' + pFreed' = pDrop + pFreed
    BY <2>1 DEF TypeOK
  <2>3. QED
    BY <1>1, <2>1, <2>2 DEF DropPlan, LastSps, Clean
<1>7. CASE ResetFree
  <2>1. UNCHANGED <<buf, pending, pDrop, pFreed>> /\ pPc = "drop"
    BY <1>7 DEF ResetFree, nodeVars
  <2>2. QED
    BY <1>1, <2>1 DEF DropPlan, LastSps
<1>4. CASE Fetch \/ Transmit \/ OffsetFree \/ OffsetOfNull
  <2>1. UNCHANGED <<nodeVars, producerVars, pending, damage>>
    BY <1>4 DEF Fetch, Transmit, OffsetFree, OffsetOfNull, historyVars
  <2>2. QED
    BY <1>1, <2>1 DEF DropPlan, LastSps, Clean, nodeVars, producerVars
<1>5. CASE Offset
  BY <1>5 DEF Offset, Clean, producerVars
<1>6. CASE CheckOverflow \/ ResetRelink \/ ResetCounters \/ Add
  BY <1>6 DEF CheckOverflow, ResetRelink, ResetCounters, Add
<1>8. QED
  BY <1>2, <1>3, <1>4, <1>5, <1>6, <1>7 DEF Next, Producer, Sender

\* When the loop of an H.264 reset ends, it has carried out its plan.
LEMMA RelinkKeepsLastSps ==
  ASSUME TypeOK, CleanInv, DropPlan, Next, pPc = "drop", pPc' = "counters", Clean',
         NEW i \in DOMAIN pending, LastSps(i)
  PROVE  /\ \E j \in DOMAIN pending' : pending'[j] = pending[i]
         /\ pending'[1] = pending[i] \/ Len(pending) - Len(pending') = MaxSize
<1>1. Clean /\ ResetRelink
  BY CleanBefore DEF Next, Producer, Sender, CheckOverflow, ResetScan, ResetFree, ResetDrop,
                    ResetCounters, Add, Fetch, Transmit, Offset, OffsetFree, OffsetOfNull,
                    producerVars
<1>2. pack_type = "H264" /\ ResetRelinkH264
  BY <1>1 DEF ResetRelink, ResetRelinkH264, ResetRelinkH265, Clean
<1>3. /\ pending' = SubSeq(pending, pFreed + 1, Len(pending))
      /\ pNode = NULL \/ ~(pDrop > 0)
  BY <1>1, <1>2 DEF ResetRelink, ResetRelinkH264, MoreToDrop, Clean
<1>4. /\ pending \in Seq(Block) /\ Len(pending) \in Nat /\ pFreed \in Nat /\ pDrop \in Nat
      /\ MaxSize \in Nat /\ i \in 1..Len(pending)
      /\ \A j \in 1..Len(pending) : pending[j] # NULL
  BY Assumption, BlockNotNull DEF TypeOK
<1>5. /\ pFreed <= Len(pending)
      /\ pNode = IF pFreed < Len(pending) THEN pending[pFreed + 1] ELSE NULL
  BY <1>1 DEF CleanInv, DropProgress
<1>6. pDrop + pFreed <= i - 1 /\ (pDrop + pFreed = i - 1 \/ pDrop + pFreed = MaxSize)
  BY <1>1, <1>2 DEF DropPlan
<1>7. pDrop = 0
  <2>1. pFreed < Len(pending) /\ pFreed + 1 \in 1..Len(pending)
    BY <1>4, <1>6
  <2>2. pNode # NULL
    BY <1>4, <1>5, <2>1
  <2>3. QED
    BY <1>3, <1>4, <2>2
<1>8. pFreed <= i - 1 /\ (pFreed = i - 1 \/ pFreed = MaxSize)
  BY <1>4, <1>6, <1>7
<1>9. /\ Len(pending') = Len(pending) - pFreed /\ DOMAIN pending' = 1..(Len(pending) - pFreed)
      /\ \A j \in 1..(Len(pending) - pFreed) : pending'[j] = pending[pFreed + j]
  BY <1>3, <1>4, <1>5
<1>10. /\ i - pFreed \in 1..(Len(pending) - pFreed) /\ pFreed + (i - pFreed) = i
       /\ Len(pending) - (Len(pending) - pFreed) = pFreed
       /\ pFreed = i - 1 => i - pFreed = 1
  BY <1>4, <1>8
<1>11. pending'[i - pFreed] = pending[i]
  BY <1>9, <1>10
<1>12. \E j \in DOMAIN pending' : pending'[j] = pending[i]
  BY <1>9, <1>10, <1>11
<1>13. pending'[1] = pending[i] \/ Len(pending) - Len(pending') = MaxSize
  BY <1>8, <1>9, <1>10, <1>11
<1>14. QED
  BY <1>12, <1>13

\* A reset that is not raced leaves the last SPS in the queue, and right at its head
\* unless it dropped all it may drop.
THEOREM ResetLeavesSps == Spec => ResetKeepsLastSps
<1>1. Init => DropPlan
  BY DEF Init, DropPlan
<1>2. TypeOK /\ CleanInv /\ DropPlan /\ [Next]_vars => DropPlan'
  <2>1. SUFFICES ASSUME TypeOK, CleanInv, DropPlan, [Next]_vars PROVE DropPlan'
    OBVIOUS
  <2>2. CASE UNCHANGED vars
    BY <2>1, <2>2 DEF vars, nodeVars, producerVars, historyVars, DropPlan, LastSps, Clean
  <2>3. QED
    BY <2>1, <2>2, PlanKept
<1> DEFINE Keeps ==
      (pPc = "drop" /\ pPc' = "counters" /\ Clean') =>
        \A i \in DOMAIN pending :
          (/\ buf[pending[i]].sps
           /\ \A j \in DOMAIN pending : j > i => ~buf[pending[j]].sps)
          => /\ \E j \in DOMAIN pending' : pending'[j] = pending[i]
             /\ pending'[1] = pending[i] \/ Len(pending) - Len(pending') = MaxSize
<1>3. TypeOK /\ CleanInv /\ DropPlan /\ [Next]_vars => [Keeps]_vars
  <2>1. SUFFICES ASSUME TypeOK, CleanInv, DropPlan, Next,
                        pPc = "drop", pPc' = "counters", Clean',
                        NEW i \in DOMAIN pending,
                        buf[pending[i]].sps,
                        \A j \in DOMAIN pending : j > i => ~buf[pending[j]].sps
                 PROVE  /\ \E j \in DOMAIN pending' : pending'[j] = pending[i]
                        /\ pending'[1] = pending[i] \/ Len(pending) - Len(pending') = MaxSize
    OBVIOUS
  <2>2. LastSps(i)
    BY <2>1 DEF LastSps
  <2>3. QED
    BY <2>1, <2>2, RelinkKeepsLastSps
<1>4. QED
  BY <1>1, <1>2, <1>3, TypeCorrect, CleanListSafe, PTL DEF Spec, ResetKeepsLastSps

-----------------------------------------------------------------------------
(***************************************************************************)
(* SendQueue implements SendFifo.                                          *)
(***************************************************************************)

\* The abstract queue: the packets in the blocks of the queue.
Contents == [i \in DOMAIN pending |-> buf[pending[i]]]

LEMMA ContentsType ==
  ASSUME TypeOK, CleanBody
  PROVE  /\ Contents \in Seq(Packet) /\ Len(Contents) = Len(pending)
         /\ \A i \in 1..Len(pending) :
              /\ Contents[i] = buf[pending[i]]
              /\ Contents[i].id = added - Len(pending) + i
<1>1. pending \in Seq(Block) /\ Len(pending) \in Nat /\ DOMAIN pending = 1..Len(pending)
  BY DEF TypeOK
<1>2. ASSUME NEW i \in 1..Len(pending)
      PROVE  buf[pending[i]] \in Packet /\ buf[pending[i]].id = added - Len(pending) + i
  <2>1. pending[i] \in Block /\ buf[pending[i]] \in Packet \cup {Blank}
    BY <1>1 DEF TypeOK
  <2>2. buf[pending[i]].id = added - Len(pending) + i
    <3>1. Complete
      BY DEF CleanBody
    <3>2. QED
      BY <3>1 DEF Complete
  <2>3. Len(pending) <= added /\ added \in Nat
    BY Assumption DEF TypeOK, CleanBody, Complete
  <2>4. added - Len(pending) + i # 0
    <3> DEFINE d == added - Len(pending)
    <3>1. d \in Nat /\ i \in Nat \ {0}
      BY <1>1, <2>3
    <3> HIDE DEF d
    <3>2. d + i # 0
      BY <3>1
    <3>3. QED
      BY <3>2 DEF d
  <2>5. buf[pending[i]].id # 0
    BY <2>2, <2>4
  <2>6. QED
    BY <2>1, <2>2, <2>5 DEF Blank
<1>3. QED
  BY <1>1, <1>2 DEF Contents

LEMMA FifoPut ==
  ASSUME TypeOK, Partition, CleanBody, Add, Clean, Clean'
  PROVE  Fifo!Put
<1> DEFINE n == Len(pending)
<1>1. PICK sps \in BOOLEAN : packet_list_node_add([id |-> added + 1, sps |-> sps])
  BY DEF Add
<1> DEFINE p == [id |-> added + 1, sps |-> sps]
<1>2. PICK b \in Block :
        /\ memory_list_malloc(b)
        /\ buf' = [buf EXCEPT ![b] = p]
        /\ pending' = IF damage' = {} THEN Append(pending, b) ELSE pending
  BY <1>1 DEF packet_list_node_add
<1>3. /\ pPc = "add" /\ pPc' = "idle" /\ tried' = tried
      /\ added \in Nat /\ added + 1 <= NumPackets /\ tried \subseteq Nat
  BY Assumption DEF Add, TypeOK
<1>4. pending \in Seq(Block) /\ n \in Nat /\ pending' = Append(pending, b) /\ n <= added
  BY <1>2 DEF TypeOK, Clean, CleanBody, Complete
<1>5. \A i \in 1..n : pending[i] \in Block /\ pending[i] # b
  <2>1. \A i \in 1..n : pending[i] \in used
    <3>1. FirstKept = 1
      BY <1>3 DEF FirstKept
    <3>2. QED
      BY <3>1 DEF CleanBody, Shape
  <2>2. b \notin used
    BY <1>2, MallocPartition
  <2>3. QED
    BY <1>4, <2>1, <2>2
<1>6. p \in Packet
  BY <1>3 DEF Packet
<1>7. Contents \in Seq(Packet) /\ Len(Contents) = n
  BY ContentsType
<1>8. Contents' = Append(Contents, p)
  <2>1. /\ DOMAIN pending = 1..n /\ DOMAIN pending' = 1..(n + 1)
        /\ pending'[n + 1] = b /\ \A i \in 1..n : pending'[i] = pending[i]
    BY <1>4
  <2>2. buf'[b] = p /\ \A i \in 1..n : buf'[pending[i]] = buf[pending[i]]
    BY <1>2, <1>5 DEF TypeOK
  <2>3. Contents' = [i \in 1..(n + 1) |-> buf'[pending'[i]]]
    BY <2>1 DEF Contents
  <2>4. \A i \in 1..(n + 1) : Contents'[i] = IF i = n + 1 THEN p ELSE Contents[i]
    BY <1>4, <2>1, <2>2, <2>3 DEF Contents
  <2>5. Append(Contents, p) = [i \in 1..(n + 1) |-> IF i = n + 1 THEN p ELSE Contents[i]]
    BY <1>7
  <2>6. QED
    BY <2>3, <2>4, <2>5
<1>9. \A id \in tried : id < p.id
  <2>1. \A id \in tried : id <= added - n + (IF sPc = "offset" THEN 1 ELSE 0)
    BY DEF CleanBody, TriedAreOld
  <2>2. sPc = "offset" => n >= 1
    <3>1. sPc = "offset" => pending # <<>>
      BY DEF CleanBody, InHand
    <3>2. QED
      BY <1>4, <3>1, EmptyLen
  <2>3. QED
    BY <1>3, <1>4, <2>1, <2>2
<1>10. \A i \in DOMAIN Contents : Contents[i].id < p.id
  BY <1>3, <1>4, <1>7, ContentsType
<1>11. Clean' = Clean
  OBVIOUS
<1>12. QED
  BY <1>3, <1>6, <1>8, <1>9, <1>10, <1>11 DEF Fifo!Put, Contents

LEMMA FifoTry ==
  ASSUME TypeOK, CleanBody, Transmit, Clean, Clean'
  PROVE  Fifo!Try
<1> DEFINE n == Len(pending)
<1>1. /\ UNCHANGED <<buf, pending>> /\ sPc = "send"
      /\ tried' = tried \cup {buf[sNode].id}
  BY DEF Transmit, nodeVars
<1>2. /\ n \in Nat \ {0} /\ pending # <<>> /\ sNode = pending[1] /\ added \in Nat
      /\ tried \subseteq Nat
  BY <1>1, EmptyLen, Assumption DEF CleanBody, InHand, TypeOK
<1>3. /\ Contents # <<>> /\ Head(Contents) = buf[sNode]
      /\ Head(Contents).id = added - n + 1
  BY <1>2, ContentsType, EmptyLen
<1>4. \A id \in tried : id <= added - n
  BY <1>1, <1>2 DEF CleanBody, TriedAreOld
<1>5. Head(Contents).id \notin tried
  BY <1>2, <1>3, <1>4
<1>6. Contents' = Contents /\ Clean' = Clean
  BY <1>1 DEF Contents
<1>7. QED
  BY <1>1, <1>3, <1>5, <1>6 DEF Fifo!Try, Contents

LEMMA FifoTake ==
  ASSUME TypeOK, CleanBody, Offset, Clean, Clean'
  PROVE  Fifo!Take
<1> DEFINE n == Len(pending)
<1>1. /\ UNCHANGED <<buf, tried>> /\ sPc = "offset"
      /\ pending' = SubSeq(pending, 2, n)
  BY DEF Offset, nodeVars, Clean
<1>2. /\ n \in Nat \ {0} /\ pending \in Seq(Block) /\ pending # <<>>
      /\ sNode = pending[1] /\ buf[sNode].id \in tried
  BY <1>1, EmptyLen DEF CleanBody, InHand, TypeOK
<1>3. Contents \in Seq(Packet) /\ Len(Contents) = n /\ Contents # <<>>
  BY <1>2, ContentsType, EmptyLen
<1>4. Head(Contents).id \in tried
  BY <1>2, <1>3, ContentsType
<1>5. Contents' = Tail(Contents)
  <2>1. DOMAIN pending' = 1..(n - 1) /\ \A i \in 1..(n - 1) : pending'[i] = pending[i + 1]
    BY <1>1, <1>2
  <2>2. Contents' = [i \in 1..(n - 1) |-> buf[pending[i + 1]]]
    BY <1>1, <2>1 DEF Contents
  <2>3. Tail(Contents) = [i \in 1..(n - 1) |-> Contents[i + 1]]
    <3> DEFINE c == Contents
    <3>1. c \in Seq(Packet) /\ Len(c) = n /\ n \in Nat /\ c # <<>>
      BY <1>2, <1>3
    <3> HIDE DEF c, n
    <3>2. /\ Tail(c) \in Seq(Packet) /\ Len(Tail(c)) = n - 1
          /\ \A i \in 1..(n - 1) : Tail(c)[i] = c[i + 1]
      BY <3>1, HeadTailProperties
    <3> DEFINE t == Tail(c)
    <3>4. t \in Seq(Packet) /\ Len(t) = n - 1 /\ \A i \in 1..(n - 1) : t[i] = c[i + 1]
      BY <3>2
    <3> HIDE DEF t
    <3>5. t = [i \in 1..(n - 1) |-> c[i + 1]]
      BY <3>4
    <3>3. QED
      BY <3>5 DEF c, n, t
  <2>4. \A i \in 1..(n - 1) : Contents[i + 1] = buf[pending[i + 1]]
    BY <1>2 DEF Contents
  <2>5. QED
    BY <2>2, <2>3, <2>4
<1>6. Clean' = Clean
  OBVIOUS
<1>7. QED
  BY <1>1, <1>3, <1>4, <1>5, <1>6 DEF Fifo!Take, Contents

LEMMA FifoDrop ==
  ASSUME TypeOK, CleanBody, ResetRelink, Clean, Clean'
  PROVE  Fifo!Drop \/ UNCHANGED <<Contents, tried, Clean>>
<1> DEFINE n == Len(pending)
<1>1. ResetRelinkH264
  BY DEF ResetRelink, ResetRelinkH265, Clean
<1>2. /\ UNCHANGED <<buf, tried>> /\ pPc = "drop"
      /\ pending' = SubSeq(pending, pFreed + 1, n)
  BY <1>1 DEF ResetRelink, ResetRelinkH264, nodeVars, Clean
<1>3. pending \in Seq(Block) /\ n \in Nat /\ pFreed \in Nat /\ pFreed <= n
  BY <1>2 DEF TypeOK, CleanBody, DropProgress
<1>4. Contents \in Seq(Packet) /\ Len(Contents) = n
  BY ContentsType
<1>5. Contents' = SubSeq(Contents, pFreed + 1, n)
  <2>1. /\ DOMAIN pending' = 1..(n - pFreed)
        /\ \A i \in 1..(n - pFreed) : pending'[i] = pending[pFreed + i]
    BY <1>2, <1>3
  <2>2. Contents' = [i \in 1..(n - pFreed) |-> buf[pending[pFreed + i]]]
    BY <1>2, <2>1 DEF Contents
  <2>3. SubSeq(Contents, pFreed + 1, n) = [i \in 1..(n - pFreed) |-> Contents[pFreed + i]]
    BY <1>3, <1>4
  <2>4. \A i \in 1..(n - pFreed) : Contents[pFreed + i] = buf[pending[pFreed + i]]
    BY <1>3 DEF Contents
  <2>5. QED
    BY <2>2, <2>3, <2>4
<1>6. CASE pFreed = 0
  BY <1>2, <1>3, <1>4, <1>5, <1>6
<1>7. CASE pFreed # 0
  <2>1. pFreed \in 1..Len(Contents)
    BY <1>3, <1>4, <1>7
  <2>2. QED
    BY <1>2, <1>4, <1>5, <2>1 DEF Fifo!Drop, Contents
<1>8. QED
  BY <1>6, <1>7

LEMMA FifoStep ==
  ASSUME TypeOK, PoolPartition, CleanInv, Next
  PROVE  Fifo!Next \/ UNCHANGED <<Contents, tried, Clean>>
<1>1. CASE ~Clean'
  BY <1>1 DEF Fifo!Next, Fifo!Damage
<1>2. CASE Clean'
  <2>1. Clean /\ CleanBody /\ Partition
    BY <1>2, CleanBefore, CleanPool DEF CleanInv, CleanBody
  <2>2. CASE \/ CheckOverflow \/ ResetScan \/ ResetFree \/ ResetDrop \/ ResetCounters
             \/ Fetch \/ OffsetFree \/ OffsetOfNull
    BY <1>2, <2>1, <2>2 DEF CheckOverflow, ResetScan, ResetFree, ResetDrop, ResetCounters, Fetch,
         OffsetFree, OffsetOfNull, nodeVars, historyVars, Contents
  <2>3. CASE ResetRelink
    BY <1>2, <2>1, <2>3, FifoDrop DEF Fifo!Next
  <2>4. CASE Add
    BY <1>2, <2>1, <2>4, FifoPut DEF Fifo!Next
  <2>5. CASE Transmit
    BY <1>2, <2>1, <2>5, FifoTry DEF Fifo!Next
  <2>6. CASE Offset
    BY <1>2, <2>1, <2>6, FifoTake DEF Fifo!Next
  <2>7. QED
    BY <2>2, <2>3, <2>4, <2>5, <2>6 DEF Next, Producer, Sender
<1>3. QED
  BY <1>1, <1>2

\* Until the list is damaged, what the sender hands to sendto and what a reset
\* drops are what a FIFO of packets would hand out and drop.
THEOREM Refinement == Spec => ImplementsFifo
<1>1. Init => Fifo!Init
  <2>1. SUFFICES ASSUME Init PROVE Fifo!Init
    OBVIOUS
  <2>2. pending = <<>> /\ tried = {} /\ damage = {}
    BY <2>1 DEF Init
  <2>3. [i \in DOMAIN pending |-> buf[pending[i]]] = <<>>
    BY <2>2
  <2>4. QED
    BY <2>2, <2>3 DEF Fifo!Init, Clean
<1>2. TypeOK /\ PoolPartition /\ CleanInv /\ [Next]_vars => [Fifo!Next]_(Fifo!fifoVars)
  <2>1. SUFFICES ASSUME TypeOK, PoolPartition, CleanInv, [Next]_vars
                 PROVE  [Fifo!Next]_(Fifo!fifoVars)
    OBVIOUS
  <2>2. CASE Next
    BY <2>1, <2>2, FifoStep DEF Fifo!fifoVars, Contents
  <2>3. CASE UNCHANGED vars
    BY <2>3 DEF vars, nodeVars, historyVars, Fifo!fifoVars, Clean
  <2>4. QED
    BY <2>1, <2>2, <2>3
<1>3. QED
  BY <1>1, <1>2, TypeCorrect, PoolSafe, CleanListSafe, PTL DEF Spec, ImplementsFifo, Fifo!Spec
=============================================================================

-------------------------- MODULE JitterBufferProofs --------------------------
(***************************************************************************)
(* Proofs about JitterBuffer, for every number of slots that divides the   *)
(* width of a sequence number, every network and any number of packets.    *)
(***************************************************************************)
EXTENDS JitterBuffer, NumberLemmas, FiniteSetTheorems, TLAPS

-----------------------------------------------------------------------------
(***************************************************************************)
(* Sequence numbers and slots.                                             *)
(***************************************************************************)

LEMMA SeqType == ASSUME NEW n \in Int PROVE Seq16(n) \in 0..(SeqMod - 1)
BY Assumption, DivMod DEF Seq16, Splits

LEMMA SlotType == ASSUME NEW n \in Int PROVE SlotOf(n) \in 0..(PacketNum - 1)
BY Assumption, DivMod DEF SlotOf, Splits

\* The reader's place is one further than its number.
LEMMA SeqNext == ASSUME NEW n \in Int PROVE Seq16(Seq16(n - 1) + 1) = Seq16(n)
<1>1. n - 1 \in Int /\ (n - 1) + 1 = n
  OBVIOUS
<1>2. QED
  BY <1>1, ModPlusOne, Assumption DEF Seq16

\* The slot is told from the sequence number as well as from the place.
LEMMA SlotOfSeq == ASSUME NEW n \in Int PROVE SlotOf(Seq16(n)) = SlotOf(n)
BY ModOfMod, Assumption DEF Seq16, SlotOf

\* Packets less than a round apart have different slots.
LEMMA SlotsDiffer ==
  ASSUME NEW a \in Int, NEW b \in Int, a < b, b < a + PacketNum
  PROVE  SlotOf(a) # SlotOf(b)
BY NearDiffer, Assumption DEF SlotOf

\* A packet has the slot of the one a round before.
LEMMA SlotRound ==
  ASSUME NEW n \in Int
  PROVE  SlotOf(n + PacketNum) = SlotOf(n)
<1> DEFINE q == n \div PacketNum
           r == n % PacketNum
<1>1. n = PacketNum * q + r /\ q \in Int /\ r \in 0..(PacketNum - 1)
  BY Assumption, DivMod DEF Splits
<1> HIDE DEF q, r
<1>2. Splits(n + PacketNum, PacketNum, q + 1, r) /\ n + PacketNum \in Int
  BY <1>1, Assumption DEF Splits
<1>3. (n + PacketNum) % PacketNum = r
  BY <1>2, Assumption, DivModUnique
<1>4. QED
  BY <1>3 DEF SlotOf, r

-----------------------------------------------------------------------------
(***************************************************************************)
(* Type correctness.                                                       *)
(***************************************************************************)

\* What is named in a NACK are 16-bit numbers.
LEMMA LostPacketsType ==
  ASSUME TypeOK, NEW packSeq \in 0..(SeqMod - 1)
  PROVE  LostPackets(packSeq) \in
           [bgnSeq : 0..(SeqMod - 1), endSeq : 0..(SeqMod - 1), packCount : 0..SeqMod]
<1>1. uPreSeq \in 0..(SeqMod - 1) /\ SeqMod \in Nat \ {0}
  BY Assumption DEF TypeOK
<1>2. CASE Discontinuous(packSeq)
  BY <1>1, <1>2 DEF Discontinuous, LostPackets
<1>3. CASE ~Discontinuous(packSeq)
  BY <1>1, <1>3 DEF LostPackets, NoNack
<1>4. QED
  BY <1>2, <1>3

LEMMA TypeInit == Init => TypeOK
<1> SUFFICES ASSUME Init PROVE TypeOK
  OBVIOUS
<1>1. slot \in [0..(PacketNum - 1) -> [uForRead : BOOLEAN, pkt : Packet \cup {NoPacket}]]
  BY DEF Init, EmptySlot
<1>2. NoNack \in [bgnSeq : 0..(SeqMod - 1), endSeq : 0..(SeqMod - 1), packCount : 0..SeqMod]
  BY Assumption DEF NoNack
<1>3. QED
  BY <1>1, <1>2, Assumption DEF Init, TypeOK, NoPacket

LEMMA TypeWriter == TypeOK /\ Writer => TypeOK'
<1> SUFFICES ASSUME TypeOK, Writer PROVE TypeOK'
  OBVIOUS
<1> USE DEF TypeOK
<1>1. ASSUME NEW n \in Arriving, Receive(n)
      PROVE  TypeOK'
  <2>1. n \in Packet /\ n # NoPacket
    BY DEF Arriving, Packet, NoPacket
  <2>2. damage' \subseteq {"late", "race", "overrun", "restart"}
    BY <1>1 DEF Receive
  <2>3. /\ uPreSeq' \in 0..(SeqMod - 1) /\ uPreReadSeq' \in 0..(SeqMod - 1)
        /\ uPreTime' \in {"unset", "recent", "old"} /\ uPreReadTS' \in {"recent", "old"}
        /\ wPc' \in {"zero", "mark"}
    BY <1>1, Assumption DEF Receive
  <2>4. QED
    BY <1>1, <2>1, <2>2, <2>3 DEF Receive, readerVars, arrivalVars, playVars
<1>2. CASE Zero
  <2>1. slot' \in [0..(PacketNum - 1) -> [uForRead : BOOLEAN, pkt : Packet \cup {NoPacket}]]
    BY <1>2 DEF Zero, EmptySlot
  <2>2. QED
    BY <1>2, <2>1 DEF Zero, readerVars, arrivalVars, playVars
<1>3. CASE Mark
  <2>1. slot' \in [0..(PacketNum - 1) -> [uForRead : BOOLEAN, pkt : Packet \cup {NoPacket}]]
    BY <1>3 DEF Mark
  <2>2. damage' \subseteq {"late", "race", "overrun", "restart"}
    BY <1>3 DEF Mark
  <2>3. QED
    BY <1>3, <2>1, <2>2 DEF Mark, readerVars, arrivalVars, playVars
<1>4. CASE Fill
  <2>1. slot' \in [0..(PacketNum - 1) -> [uForRead : BOOLEAN, pkt : Packet \cup {NoPacket}]]
    BY <1>4 DEF Fill
  <2>2. QED
    BY <1>4, <2>1 DEF Fill, readerVars, arrivalVars, playVars
<1>5. CASE Update
  <2>1. wPkt \in Packet /\ wPkt \in Int
    BY <1>5 DEF Update, Packet
  <2>2. Seq16(wPkt) \in 0..(SeqMod - 1)
    BY <2>1, SeqType
  <2>3. nack' \in [bgnSeq : 0..(SeqMod - 1), endSeq : 0..(SeqMod - 1), packCount : 0..SeqMod]
    BY <1>5, <2>2, LostPacketsType DEF Update
  <2>4. newest' \in Packet \cup {-1} /\ received' \subseteq Packet
    BY <1>5, <2>1 DEF Update
  <2>5. QED
    BY <1>5, <2>1, <2>2, <2>3, <2>4 DEF Update, readerVars, playVars
<1>6. QED
  BY <1>1, <1>2, <1>3, <1>4, <1>5 DEF Writer

LEMMA TypeReader == TypeOK /\ Reader => TypeOK'
<1> SUFFICES ASSUME TypeOK, Reader PROVE TypeOK'
  OBVIOUS
<1> USE DEF TypeOK
<1>1. CASE Look
  <2>1. curReadSeq \in 0..(SeqMod - 1)
    <3>1. uPreReadSeq + 1 \in Int
      BY Assumption
    <3>2. QED
      BY <3>1, SeqType DEF curReadSeq
  <2>2. damage' \subseteq {"late", "race", "overrun", "restart"} /\ uPreReadTS' \in {"recent", "old"}
    BY <1>1 DEF Look
  <2>3. QED
    BY <1>1, <2>1, <2>2 DEF Look, writerVars, arrivalVars, playVars
<1>2. CASE Copy
  <2>1. SlotOf(rSeq) \in 0..(PacketNum - 1)
    BY SlotType
  <2>2. rGot' \in Packet \cup {NoPacket, Torn}
    BY <1>2, <2>1 DEF Copy, Contents
  <2>3. QED
    BY <1>2, <2>2 DEF Copy, bufVars, writerVars, arrivalVars, playVars
<1>3. CASE Done
  <2>1. slot' \in [0..(PacketNum - 1) -> [uForRead : BOOLEAN, pkt : Packet \cup {NoPacket}]]
    BY <1>3 DEF Done
  <2>2. readPos' \in 0..(NumPackets + 1)
    BY SMTT(30), <1>3, Assumption DEF Done
  <2>3. handed' \in Seq(Packet \cup {NoPacket, Torn})
    <3>1. rGot \in Packet \cup {NoPacket, Torn}
      OBVIOUS
    <3>2. Append(handed, rGot) \in Seq(Packet \cup {NoPacket, Torn})
      BY <3>1
    <3>3. QED
      BY <1>3, <3>2 DEF Done
  <2>4. 0 \in 0..(SeqMod - 1)
    BY Assumption
  <2>5. QED
    BY <1>3, <2>1, <2>2, <2>3, <2>4 DEF Done, writerVars, arrivalVars
<1>4. QED
  BY <1>1, <1>2, <1>3 DEF Reader

LEMMA TypeStep == TypeOK /\ [Next]_vars => TypeOK'
<1> SUFFICES ASSUME TypeOK, [Next]_vars PROVE TypeOK'
  OBVIOUS
<1>1. CASE ReadTimeout \/ Silence
  BY <1>1 DEF ReadTimeout, Silence, writerVars, readerVars, arrivalVars, playVars, TypeOK
<1>2. CASE UNCHANGED vars
  BY <1>2 DEF vars, bufVars, writerVars, readerVars, arrivalVars, playVars, TypeOK
<1>3. QED
  BY <1>1, <1>2, TypeWriter, TypeReader DEF Next

-----------------------------------------------------------------------------
(***************************************************************************)
(* The buffer, while nothing has gone wrong.                               *)
(***************************************************************************)

\* BufferInv without the types and the condition.
BufferBody == Positions /\ SlotsHold /\ Arrivals /\ WriterAhead /\ LeftBehind /\ PlayedBehind

\* Nothing heals a buffer.
LEMMA CleanBefore == Next /\ Clean' => Clean
BY DEF Next, Writer, Reader, Receive, Zero, Mark, Fill, Update, Look, Copy, Done,
       ReadTimeout, Silence, Clean

\* The places in the stream are numbers.
LEMMA Numbers ==
  ASSUME TypeOK
  PROVE  /\ PacketNum \in Nat \ {0} /\ SeqMod \in Nat \ {0} /\ PacketNum < SeqMod
         /\ readPos \in Nat /\ last \in Int /\ newest \in Int /\ wPkt \in Int
         /\ last >= -1 /\ newest >= -1 /\ received \subseteq Nat
         /\ wPc # "recv" => wPkt \in Packet /\ wPkt >= 0
         /\ Packet \subseteq Nat
BY Assumption DEF TypeOK, Packet, NoPacket

\* Every slot has one place from the reader's on, and places apart have slots apart.
LEMMA WindowSlots ==
  ASSUME TypeOK,
         NEW a \in readPos..(readPos + PacketNum - 1),
         NEW b \in readPos..(readPos + PacketNum - 1), a # b
  PROVE  SlotOf(a) # SlotOf(b)
<1>1. a \in Int /\ b \in Int /\ a < b + PacketNum /\ b < a + PacketNum
  BY Numbers
<1>2. CASE a < b
  BY <1>1, <1>2, SlotsDiffer
<1>3. CASE b < a
  BY <1>1, <1>3, SlotsDiffer
<1>4. QED
  BY <1>1, <1>2, <1>3

\* What an earlier round has left at place n, told by slots.
LEMMA LeftoverIs ==
  ASSUME NEW got, NEW m, NEW n
  PROVE  Delivery!IsLeftover(got, m, n) <=>
           LET older == {k \in got : k < n /\ SlotOf(k) = SlotOf(n)}
           IN  IF older = {} THEN m = NoPacket
               ELSE m \in older /\ \A k \in older : k <= m
BY DEF Delivery!IsLeftover, Delivery!Older, Delivery!Nothing, SlotOf, NoPacket

\* A packet that comes to another slot, or later, leaves nothing at place n.
LEMMA LeftoverElsewhere ==
  ASSUME NEW got, NEW m, NEW n, NEW k, ~(k < n) \/ SlotOf(k) # SlotOf(n)
  PROVE  Delivery!IsLeftover(got \cup {k}, m, n) <=> Delivery!IsLeftover(got, m, n)
<1>1. {j \in got \cup {k} : j < n /\ SlotOf(j) = SlotOf(n)}
        = {j \in got : j < n /\ SlotOf(j) = SlotOf(n)}
  OBVIOUS
<1>2. QED
  BY <1>1, LeftoverIs

\* A packet received at its place is what is left there in the next round; and what is
\* left at a place where none was received is left there for the next round, too.
LEMMA LeftoverNext ==
  ASSUME TypeOK, NEW m,
         IF readPos \in received THEN m = readPos
         ELSE Delivery!IsLeftover(received, m, readPos)
  PROVE  Delivery!IsLeftover(received, m, readPos + PacketNum)
<1> DEFINE next == readPos + PacketNum
           older == {k \in received : k < readPos /\ SlotOf(k) = SlotOf(readPos)}
           later == {k \in received : k < next /\ SlotOf(k) = SlotOf(next)}
<1>1. SlotOf(next) = SlotOf(readPos) /\ next \in Nat /\ readPos \in Nat /\ readPos < next
  BY SlotRound, Numbers
<1>2. \A k \in received : k < next /\ SlotOf(k) = SlotOf(readPos) => k <= readPos
  <2> SUFFICES ASSUME NEW k \in received, k < next, SlotOf(k) = SlotOf(readPos), readPos < k
               PROVE  FALSE
    BY <1>1, Numbers
  <2>1. k \in Int /\ k < readPos + PacketNum
    BY Numbers
  <2>2. QED
    BY <1>1, <2>1, SlotsDiffer
<1>3. CASE readPos \in received
  <2>1. m \in later /\ \A k \in later : k <= m
    BY <1>1, <1>2, <1>3
  <2>2. QED
    BY <2>1, LeftoverIs
<1>4. CASE readPos \notin received
  <2>1. later = older
    <3>1. \A k \in received : k <= readPos => k < readPos
      BY <1>4, Numbers
    <3>2. \A k \in received : k < readPos => k < next
      BY <1>1, Numbers
    <3>3. QED
      BY <1>1, <1>2, <3>1, <3>2
  <2>2. Delivery!IsLeftover(received, m, readPos)
    BY <1>4
  <2>3. IF older = {} THEN m = NoPacket ELSE m \in older /\ \A k \in older : k <= m
    BY <2>2, LeftoverIs
  <2>4. QED
    BY <2>1, <2>3, LeftoverIs
<1>5. QED
  BY <1>3, <1>4

LEMMA BodyReceive ==
  ASSUME TypeOK, BufferBody, NEW n \in Arriving, Receive(n), Clean, Clean'
  PROVE  BufferBody'
<1>1. uPreTime # "old" /\ ~TooLate(n)
  BY DEF Receive, Clean
<1>2. /\ wPc = "recv" /\ wPc' = "mark" /\ wPkt' = n
      /\ UNCHANGED <<slot, uPreSeq, uPreReadSeq, rPc, rSeq, rGot, newest, last, received,
                     readPos, handed>>
  BY <1>1 DEF Receive, readerVars, arrivalVars, playVars
<1>3. n \in Int /\ n \notin received /\ n >= readPos + (IF rPc = "look" THEN 0 ELSE 1)
  BY <1>1, Numbers DEF TooLate, Arriving
<1>4. Positions'
  BY <1>2 DEF BufferBody, Positions
<1>5. SlotsHold'
  BY <1>2 DEF BufferBody, SlotsHold
<1>6. Arrivals'
  BY <1>2 DEF BufferBody, Arrivals
<1>7. WriterAhead'
  BY <1>2, <1>3 DEF WriterAhead
<1>8. PlayedBehind'
  BY <1>2 DEF BufferBody, PlayedBehind
<1>9. LeftBehind'
  BY <1>2 DEF BufferBody, LeftBehind
<1>10. QED
  BY <1>4, <1>5, <1>6, <1>7, <1>8, <1>9 DEF BufferBody

LEMMA BodyMark ==
  ASSUME TypeOK, BufferBody, Mark, Clean, Clean'
  PROVE  BufferBody'
<1>1. /\ wPc = "mark" /\ wPc' = "fill"
      /\ slot' = [slot EXCEPT ![SlotOf(wPkt)].uForRead = TRUE]
      /\ UNCHANGED <<uPreSeq, uPreReadSeq, wPkt, rPc, rSeq, rGot, newest, last, received,
                     readPos, handed>>
  BY DEF Mark, readerVars, arrivalVars, playVars
<1>2. wPkt < readPos + PacketNum
  BY Numbers DEF Mark, Clean
<1>3. /\ wPkt \in readPos..(readPos + PacketNum - 1) /\ wPkt \notin received
      /\ wPkt >= readPos + (IF rPc = "look" THEN 0 ELSE 1)
  BY <1>1, <1>2, Numbers DEF BufferBody, WriterAhead
<1>4. /\ slot'[SlotOf(wPkt)].uForRead = TRUE
      /\ \A i \in 0..(PacketNum - 1) : slot'[i].pkt = slot[i].pkt
      /\ \A i \in 0..(PacketNum - 1) : i # SlotOf(wPkt) => slot'[i] = slot[i]
  BY <1>1, <1>3, SlotType DEF TypeOK
<1>5. Positions' /\ Arrivals'
  BY <1>1 DEF BufferBody, Positions, Arrivals
<1>6. SlotsHold'
  <2> DEFINE Writing(n) == wPkt' = n /\ wPc' \in {"fill", "update"}
  <2> SUFFICES ASSUME NEW n \in readPos'..(readPos' + PacketNum - 1)
               PROVE  /\ n \in received' => slot'[SlotOf(n)] = [uForRead |-> TRUE, pkt |-> n]
                      /\ n \notin received' => slot'[SlotOf(n)].uForRead = Writing(n)
    BY DEF SlotsHold
  <2>0. n \in readPos..(readPos + PacketNum - 1) /\ received' = received /\ Writing(n) = (wPkt = n)
    BY <1>1
  <2> HIDE DEF Writing
  <2>1. CASE n = wPkt
    <3>1. n \notin received
      BY <1>3, <2>1
    <3>2. slot'[SlotOf(n)].uForRead = TRUE
      BY <1>4, <2>1
    <3>3. (wPkt = n) = TRUE
      BY <2>1
    <3>4. QED
      BY ONLY <2>0, <3>1, <3>2, <3>3
  <2>2. CASE n # wPkt
    <3>1. SlotOf(n) # SlotOf(wPkt) /\ SlotOf(n) \in 0..(PacketNum - 1)
      BY <1>3, <2>0, <2>2, WindowSlots, SlotType, Numbers
    <3>2. slot'[SlotOf(n)] = slot[SlotOf(n)]
      BY <1>4, <3>1
    <3>3. QED
      BY <1>1, <2>0, <2>2, <3>2 DEF BufferBody, SlotsHold
  <2>3. QED
    BY <2>1, <2>2
<1>7. WriterAhead'
  BY <1>1, <1>2, <1>3 DEF WriterAhead
<1>8. PlayedBehind'
  BY <1>1, <1>4 DEF BufferBody, PlayedBehind
<1>9. LeftBehind'
  BY <1>1, <1>4, SlotType, Numbers DEF BufferBody, LeftBehind
<1>10. QED
  BY <1>5, <1>6, <1>7, <1>8, <1>9 DEF BufferBody

LEMMA BodyFill ==
  ASSUME TypeOK, BufferBody, Fill, Clean, Clean'
  PROVE  BufferBody'
<1>1. /\ wPc = "fill" /\ wPc' = "update"
      /\ slot' = [slot EXCEPT ![SlotOf(wPkt)].pkt = wPkt]
      /\ UNCHANGED <<uPreSeq, uPreReadSeq, wPkt, rPc, rSeq, rGot, newest, last, received,
                     readPos, handed>>
  BY DEF Fill, readerVars, arrivalVars, playVars
<1>2. /\ wPkt \in readPos..(readPos + PacketNum - 1) /\ wPkt \notin received
      /\ wPkt >= readPos + (IF rPc = "look" THEN 0 ELSE 1)
      /\ wPkt < readPos + PacketNum /\ SlotOf(wPkt) \in 0..(PacketNum - 1)
  BY <1>1, Numbers, SlotType DEF BufferBody, WriterAhead
<1>3. /\ slot'[SlotOf(wPkt)].pkt = wPkt
      /\ slot'[SlotOf(wPkt)].uForRead = slot[SlotOf(wPkt)].uForRead
      /\ \A i \in 0..(PacketNum - 1) : i # SlotOf(wPkt) => slot'[i] = slot[i]
  BY <1>1, <1>2 DEF TypeOK
<1>4. Positions' /\ Arrivals'
  BY <1>1 DEF BufferBody, Positions, Arrivals
<1>5. SlotsHold'
  <2> DEFINE Writing(n) == wPkt' = n /\ wPc' \in {"fill", "update"}
  <2> SUFFICES ASSUME NEW n \in readPos'..(readPos' + PacketNum - 1)
               PROVE  /\ n \in received' => slot'[SlotOf(n)] = [uForRead |-> TRUE, pkt |-> n]
                      /\ n \notin received' => slot'[SlotOf(n)].uForRead = Writing(n)
    BY DEF SlotsHold
  <2>0. n \in readPos..(readPos + PacketNum - 1) /\ received' = received /\ Writing(n) = (wPkt = n)
    BY <1>1
  <2> HIDE DEF Writing
  <2>1. n \notin received => slot[SlotOf(n)].uForRead = (wPkt = n)
    BY <1>1, <2>0 DEF BufferBody, SlotsHold
  <2>2. CASE n = wPkt
    <3>1. n \notin received
      BY <1>2, <2>2
    <3>2. slot'[SlotOf(n)].uForRead = slot[SlotOf(n)].uForRead
      BY <1>3, <2>2
    <3>3. slot[SlotOf(n)].uForRead = (wPkt = n)
      BY <2>1, <3>1
    <3>4. QED
      BY ONLY <2>0, <3>1, <3>2, <3>3
  <2>3. CASE n # wPkt
    <3>1. SlotOf(n) # SlotOf(wPkt) /\ SlotOf(n) \in 0..(PacketNum - 1)
      BY <1>2, <2>0, <2>3, WindowSlots, SlotType, Numbers
    <3>2. slot'[SlotOf(n)] = slot[SlotOf(n)]
      BY <1>3, <3>1
    <3>3. QED
      BY <2>0, <2>1, <3>2 DEF BufferBody, SlotsHold
  <2>4. QED
    BY <2>2, <2>3
<1>6. WriterAhead'
  BY <1>1, <1>2, <1>3 DEF WriterAhead
<1>7. LeftBehind'
  <2> SUFFICES ASSUME NEW n \in readPos..(readPos + PacketNum - 1), n \notin received, n # wPkt
               PROVE  Delivery!IsLeftover(received, slot'[SlotOf(n)].pkt, n)
    BY <1>1 DEF LeftBehind
  <2>1. SlotOf(n) # SlotOf(wPkt) /\ SlotOf(n) \in 0..(PacketNum - 1)
    BY <1>2, WindowSlots, SlotType, Numbers
  <2>2. slot'[SlotOf(n)] = slot[SlotOf(n)]
    BY <1>3, <2>1
  <2>3. QED
    BY <1>1, <2>2 DEF BufferBody, LeftBehind
<1>8. PlayedBehind'
  BY <1>1 DEF BufferBody, PlayedBehind
<1>9. QED
  BY <1>4, <1>5, <1>6, <1>7, <1>8 DEF BufferBody

LEMMA BodyUpdate ==
  ASSUME TypeOK, BufferBody, Update, Clean, Clean'
  PROVE  BufferBody'
<1>1. /\ wPc = "update" /\ wPc' = "recv"
      /\ uPreSeq' = Seq16(wPkt) /\ last' = wPkt
      /\ newest' = IF wPkt > newest THEN wPkt ELSE newest
      /\ received' = received \cup {wPkt}
      /\ UNCHANGED <<slot, uPreReadSeq, rPc, rSeq, rGot, readPos, handed>>
  BY DEF Update, readerVars, playVars
<1>2. /\ wPkt \in readPos..(readPos + PacketNum - 1) /\ wPkt \notin received
      /\ wPkt >= readPos + (IF rPc = "look" THEN 0 ELSE 1)
      /\ wPkt < readPos + PacketNum /\ SlotOf(wPkt) \in 0..(PacketNum - 1)
      /\ slot[SlotOf(wPkt)].pkt = wPkt
  BY <1>1, Numbers, SlotType DEF BufferBody, WriterAhead
<1>3. Positions'
  BY <1>1, <1>2, Numbers DEF BufferBody, Positions
<1>4. SlotsHold'
  <2> SUFFICES ASSUME NEW n \in readPos..(readPos + PacketNum - 1)
               PROVE  /\ n \in received' => slot[SlotOf(n)] = [uForRead |-> TRUE, pkt |-> n]
                      /\ n \notin received' => slot[SlotOf(n)].uForRead = FALSE
    BY <1>1 DEF SlotsHold
  <2>1. CASE n = wPkt
    <3>1. slot[SlotOf(n)].uForRead = TRUE
      BY <1>1, <1>2, <2>1 DEF BufferBody, SlotsHold
    <3>2. slot[SlotOf(n)] \in [uForRead : BOOLEAN, pkt : Packet \cup {NoPacket}]
      BY <1>2, <2>1 DEF TypeOK
    <3>3. slot[SlotOf(n)] = [uForRead |-> TRUE, pkt |-> n]
      BY <1>2, <2>1, <3>1, <3>2
    <3>4. QED
      BY <1>1, <2>1, <3>3
  <2>2. CASE n # wPkt
    BY <1>1, <2>2 DEF BufferBody, SlotsHold
  <2>3. QED
    BY <2>1, <2>2
<1>5. Arrivals'
  BY <1>1, Numbers DEF BufferBody, Arrivals
<1>6. WriterAhead'
  BY <1>1 DEF WriterAhead
<1>7. LeftBehind'
  <2> SUFFICES ASSUME NEW n \in readPos..(readPos + PacketNum - 1), n \notin received, n # wPkt
               PROVE  Delivery!IsLeftover(received \cup {wPkt}, slot[SlotOf(n)].pkt, n)
    BY <1>1 DEF LeftBehind
  <2>1. SlotOf(wPkt) # SlotOf(n)
    BY <1>2, WindowSlots
  <2>2. Delivery!IsLeftover(received, slot[SlotOf(n)].pkt, n)
    BY DEF BufferBody, LeftBehind
  <2>3. QED
    BY <2>1, <2>2, LeftoverElsewhere
<1>8. PlayedBehind'
  <2>1. \A n \in received' : n < readPos => handed[n + 1] = n
    BY <1>1, <1>2, Numbers DEF BufferBody, PlayedBehind
  <2>2. ASSUME rPc = "done", readPos \notin received'
        PROVE  Delivery!IsLeftover(received', rGot, readPos)
    <3>1. Delivery!IsLeftover(received, rGot, readPos)
      BY <1>1, <2>2 DEF BufferBody, PlayedBehind
    <3>2. ~(wPkt < readPos)
      BY <1>2, Numbers
    <3>3. QED
      BY <1>1, <3>1, <3>2, LeftoverElsewhere
  <2>3. ASSUME rPc = "done", readPos \in received'
        PROVE  rGot = readPos
    BY <1>1, <1>2, <2>3, Numbers DEF BufferBody, PlayedBehind
  <2>4. Len(handed) = readPos
    BY DEF BufferBody, PlayedBehind
  <2>5. QED
    BY <1>1, <2>1, <2>2, <2>3, <2>4 DEF PlayedBehind
<1>9. QED
  BY <1>3, <1>4, <1>5, <1>6, <1>7, <1>8 DEF BufferBody

\* The reader looks for a packet that was received or overtaken, never for the one
\* that is being written.
LEMMA BodyLook ==
  ASSUME TypeOK, BufferBody, Look, Clean, Clean'
  PROVE  BufferBody'
<1>1. /\ rPc = "look" /\ rPc' = "copy" /\ ~ReadEqualWrite /\ ~Overtaken
      /\ rSeq' = curReadSeq
      /\ UNCHANGED <<slot, uPreSeq, uPreReadSeq, rGot, wPc, wPkt, newest, last, received,
                     readPos, handed>>
  BY DEF Look, Clean, writerVars, arrivalVars, playVars
<1>2. rSeq' = Seq16(readPos)
  BY <1>1, SeqNext, Numbers DEF curReadSeq, BufferBody, Positions
<1>3. readPos <= last
  <2>1. last # readPos - 1
    BY <1>1 DEF ReadEqualWrite, BufferBody, Positions
  <2>2. QED
    BY <1>1, <2>1, Numbers DEF BufferBody, Positions
<1>4. Positions'
  BY <1>1, <1>2, <1>3, Numbers DEF BufferBody, Positions
<1>5. SlotsHold' /\ Arrivals' /\ LeftBehind' /\ PlayedBehind'
  BY <1>1 DEF BufferBody, SlotsHold, Arrivals, LeftBehind, PlayedBehind
<1>6. WriterAhead'
  <2> SUFFICES ASSUME wPc # "recv" PROVE wPkt >= readPos + 1
    BY <1>1 DEF BufferBody, WriterAhead
  <2>1. wPkt >= readPos /\ wPkt \notin received
    BY <1>1, Numbers DEF BufferBody, WriterAhead
  <2>2. last <= newest /\ newest \in received
    BY <1>3, Numbers DEF BufferBody, Positions, Arrivals
  <2>3. CASE wPkt = readPos
    <3>1. wPkt < newest
      BY <1>3, <2>1, <2>2, <2>3, Numbers
    <3>2. QED
      BY <1>1, <2>3, <3>1 DEF Overtaken
  <2>4. QED
    BY <2>1, <2>3, Numbers
<1>7. QED
  BY <1>4, <1>5, <1>6 DEF BufferBody

\* The reader's slot is not the one that is written, and what is in it is the packet
\* of this place, or one of an earlier round.
LEMMA BodyCopy ==
  ASSUME TypeOK, BufferBody, Copy, Clean, Clean'
  PROVE  /\ BufferBody'
         /\ rGot' # Torn
<1>1. /\ rPc = "copy" /\ rPc' = "done" /\ rGot' \in Contents(SlotOf(rSeq))
      /\ UNCHANGED <<slot, uPreSeq, uPreReadSeq, rSeq, wPc, wPkt, newest, last, received,
                     readPos, handed>>
  BY DEF Copy, bufVars, writerVars, arrivalVars, playVars
<1> DEFINE i == SlotOf(readPos)
           m == slot[i].pkt
<1>2. SlotOf(rSeq) = i /\ i \in 0..(PacketNum - 1)
  BY <1>1, SlotOfSeq, SlotType, Numbers DEF BufferBody, Positions
<1>3. wPc \in {"fill", "update"} => SlotOf(wPkt) # i
  <2> SUFFICES ASSUME wPc \in {"fill", "update"} PROVE SlotOf(wPkt) # i
    OBVIOUS
  <2>1. wPkt > readPos /\ wPkt < readPos + PacketNum
    BY <1>1, Numbers DEF BufferBody, WriterAhead
  <2>2. QED
    BY <2>1, Numbers, SlotsDiffer
<1>4. rGot' = m
  BY <1>1, <1>2, <1>3 DEF Contents, BufferBody, WriterAhead
<1>5. readPos \in received => m = readPos
  <2>1. readPos \in readPos..(readPos + PacketNum - 1)
    BY Numbers
  <2>2. readPos \in received => slot[i] = [uForRead |-> TRUE, pkt |-> readPos]
    BY <2>1 DEF BufferBody, SlotsHold
  <2>3. QED
    BY <2>2
<1>6. readPos \notin received => Delivery!IsLeftover(received, m, readPos)
  <2>1. readPos \in readPos..(readPos + PacketNum - 1)
    BY Numbers
  <2>2. ~(wPkt = readPos /\ wPc = "update")
    BY <1>3
  <2>3. QED
    BY <2>1, <2>2 DEF BufferBody, LeftBehind
<1>7. PlayedBehind'
  BY <1>1, <1>4, <1>5, <1>6 DEF BufferBody, PlayedBehind
<1>8. Positions' /\ SlotsHold' /\ Arrivals' /\ WriterAhead' /\ LeftBehind'
  BY <1>1 DEF BufferBody, Positions, SlotsHold, Arrivals, WriterAhead, LeftBehind
<1>9. m # Torn
  <2>1. m \in Packet \cup {NoPacket}
    BY <1>2 DEF TypeOK
  <2>2. NumPackets \in Nat
    BY Assumption
  <2>3. QED
    BY <2>1, <2>2 DEF Packet, Torn, NoPacket
<1>10. QED
  BY <1>4, <1>7, <1>8, <1>9 DEF BufferBody

\* The slot given back is that of the packet a round later, which has not come.
LEMMA BodyDone ==
  ASSUME TypeOK, BufferBody, Done, Clean, Clean'
  PROVE  BufferBody'
<1>1. /\ rPc = "done" /\ rPc' = "look"
      /\ slot' = [slot EXCEPT ![SlotOf(rSeq)].uForRead = FALSE]
      /\ uPreReadSeq' = rSeq
      /\ readPos' = IF readPos <= NumPackets THEN readPos + 1 ELSE readPos
      /\ handed' = Append(handed, rGot)
      /\ UNCHANGED <<uPreSeq, wPc, wPkt, newest, last, received>>
  BY DEF Done, writerVars, arrivalVars
<1>2. /\ SlotOf(rSeq) = SlotOf(readPos) /\ SlotOf(readPos) \in 0..(PacketNum - 1)
      /\ rSeq = Seq16(readPos) /\ readPos <= last /\ last <= newest
  BY <1>1, SlotOfSeq, SlotType, Numbers DEF BufferBody, Positions
<1>3. readPos' = readPos + 1
  <2>1. last <= NumPackets
    BY Assumption DEF TypeOK, Packet
  <2>2. QED
    BY <1>1, <1>2, <2>1, Numbers, Assumption
<1>4. /\ slot'[SlotOf(readPos)].uForRead = FALSE
      /\ \A i \in 0..(PacketNum - 1) : slot'[i].pkt = slot[i].pkt
      /\ \A i \in 0..(PacketNum - 1) : i # SlotOf(readPos) => slot'[i] = slot[i]
  BY <1>1, <1>2 DEF TypeOK
<1>5. wPc # "recv" => wPkt >= readPos + 1
  BY <1>1, Numbers DEF BufferBody, WriterAhead
<1>6. Positions'
  BY <1>1, <1>2, <1>3, Numbers DEF BufferBody, Positions
<1>7. SlotsHold'
  <2> SUFFICES ASSUME NEW n \in readPos'..(readPos' + PacketNum - 1)
               PROVE  LET s == slot'[SlotOf(n)]
                          writing == wPkt' = n /\ wPc' \in {"fill", "update"}
                      IN  /\ n \in received' => s = [uForRead |-> TRUE, pkt |-> n]
                          /\ n \notin received' => s.uForRead = writing
    BY DEF SlotsHold
  <2> n \in (readPos + 1)..(readPos + PacketNum)
    BY <1>3, Numbers
  <2>1. CASE n = readPos + PacketNum
    <3>1. SlotOf(n) = SlotOf(readPos)
      BY <2>1, SlotRound, Numbers
    <3>2. n \notin received
      BY <2>1, Numbers DEF BufferBody, Positions, Arrivals
    <3>3. ~(wPkt = n /\ wPc \in {"fill", "update"})
      BY <2>1, Numbers DEF BufferBody, WriterAhead
    <3>4. slot'[SlotOf(n)].uForRead = FALSE
      BY <1>4, <3>1
    <3>5. received' = received /\ ~(wPkt' = n /\ wPc' \in {"fill", "update"})
      BY <1>1, <3>3
    <3>6. QED
      BY <3>2, <3>4, <3>5
  <2>2. CASE n # readPos + PacketNum
    <3>1. n \in readPos..(readPos + PacketNum - 1) /\ n # readPos
      BY <2>2, Numbers
    <3>2. SlotOf(n) # SlotOf(readPos) /\ SlotOf(n) \in 0..(PacketNum - 1)
      BY <3>1, WindowSlots, SlotType, Numbers
    <3>3. slot'[SlotOf(n)] = slot[SlotOf(n)]
      BY <1>4, <3>2
    <3>4. LET s == slot[SlotOf(n)]
              writing == wPkt = n /\ wPc \in {"fill", "update"}
          IN  /\ n \in received => s = [uForRead |-> TRUE, pkt |-> n]
              /\ n \notin received => s.uForRead = writing
      BY <3>1 DEF BufferBody, SlotsHold
    <3>5. wPkt' = wPkt /\ wPc' = wPc /\ received' = received
      BY <1>1
    <3>6. QED
      BY <3>3, <3>4, <3>5
  <2>3. QED
    BY <2>1, <2>2
<1>8. Arrivals'
  BY <1>1 DEF BufferBody, Arrivals
<1>9. WriterAhead'
  <2> SUFFICES ASSUME wPc # "recv"
               PROVE  /\ wPc # "zero" /\ wPkt \notin received /\ wPkt >= readPos + 1
                      /\ wPc \in {"fill", "update"} => wPkt < (readPos + 1) + PacketNum
                      /\ wPc = "update" => slot'[SlotOf(wPkt)].pkt = wPkt
    BY <1>1, <1>3, Numbers DEF WriterAhead
  <2>1. SlotOf(wPkt) \in 0..(PacketNum - 1)
    BY SlotType, Numbers
  <2>2. QED
    BY <1>4, <1>5, <2>1, Numbers DEF BufferBody, WriterAhead
<1>10. LeftBehind'
  <2> SUFFICES ASSUME NEW n \in (readPos + 1)..(readPos + PacketNum), n \notin received,
                      ~(wPkt = n /\ wPc = "update")
               PROVE  Delivery!IsLeftover(received, slot'[SlotOf(n)].pkt, n)
    BY <1>1, <1>3, Numbers DEF LeftBehind
  <2>1. SlotOf(n) \in 0..(PacketNum - 1) /\ slot'[SlotOf(n)].pkt = slot[SlotOf(n)].pkt
    BY <1>4, SlotType, Numbers
  <2>2. CASE n = readPos + PacketNum
    <3> DEFINE m == slot[SlotOf(readPos)].pkt
    <3>1. readPos \in readPos..(readPos + PacketNum - 1) /\ ~(wPkt = readPos /\ wPc = "update")
      BY <1>5, Numbers
    <3>2. readPos \in received => slot[SlotOf(readPos)] = [uForRead |-> TRUE, pkt |-> readPos]
      BY <3>1 DEF BufferBody, SlotsHold
    <3>3. readPos \notin received => Delivery!IsLeftover(received, m, readPos)
      BY <3>1 DEF BufferBody, LeftBehind
    <3>4. Delivery!IsLeftover(received, m, readPos + PacketNum)
      BY <3>2, <3>3, LeftoverNext
    <3>5. SlotOf(n) = SlotOf(readPos)
      BY <2>2, SlotRound, Numbers
    <3>6. QED
      BY <2>1, <2>2, <3>4, <3>5
  <2>3. CASE n # readPos + PacketNum
    <3>1. n \in readPos..(readPos + PacketNum - 1)
      BY <2>3, Numbers
    <3>2. QED
      BY <2>1, <3>1 DEF BufferBody, LeftBehind
  <2>4. QED
    BY <2>2, <2>3
<1>11. PlayedBehind'
  <2>1. Len(handed) = readPos /\ handed \in Seq(Packet \cup {NoPacket, Torn})
    BY DEF BufferBody, PlayedBehind, TypeOK
  <2>2. /\ Len(handed') = readPos + 1 /\ handed'[readPos + 1] = rGot
        /\ \A i \in 1..readPos : handed'[i] = handed[i]
    BY <1>1, <2>1
  <2>3. ASSUME NEW n \in received, n < readPos + 1
        PROVE  handed'[n + 1] = n
    <3>1. CASE n < readPos
      <4>1. n + 1 \in 1..readPos /\ handed[n + 1] = n
        BY <3>1, Numbers DEF BufferBody, PlayedBehind
      <4>2. QED
        BY <2>2, <4>1
    <3>2. CASE n = readPos
      BY <1>1, <2>2, <3>2 DEF BufferBody, PlayedBehind
    <3>3. QED
      BY <2>3, <3>1, <3>2, Numbers
  <2>4. QED
    BY <1>1, <1>3, <2>2, <2>3 DEF PlayedBehind
<1>12. QED
  BY <1>6, <1>7, <1>8, <1>9, <1>10, <1>11 DEF BufferBody

LEMMA BodyInit == Init => Clean /\ BufferBody
<1> SUFFICES ASSUME Init PROVE Clean /\ BufferBody
  OBVIOUS
<1>1. Seq16(-1) = SeqMod - 1
  <2>1. Splits(-1, SeqMod, -1, SeqMod - 1)
    BY Assumption DEF Splits
  <2>2. QED
    BY <2>1, DivModUnique, Assumption DEF Seq16
<1>2. Positions
  BY <1>1, Assumption DEF Init, Positions
<1>3. SlotsHold
  <2>1. \A n \in 0..(PacketNum - 1) : SlotOf(n) \in 0..(PacketNum - 1)
    BY SlotType
  <2>2. \A n \in 0..(PacketNum - 1) : slot[SlotOf(n)].uForRead = FALSE
    BY <2>1 DEF Init, EmptySlot
  <2>3. /\ readPos..(readPos + PacketNum - 1) = 0..(PacketNum - 1)
        /\ received = {} /\ wPc = "recv"
    BY Assumption DEF Init
  <2>4. QED
    BY <2>2, <2>3 DEF SlotsHold
<1>4. Arrivals /\ WriterAhead
  BY DEF Init, Arrivals, WriterAhead
<1>5. LeftBehind
  <2>1. \A n \in 0..(PacketNum - 1) : slot[SlotOf(n)].pkt = NoPacket
    BY SlotType DEF Init, EmptySlot
  <2>2. ASSUME NEW n PROVE Delivery!IsLeftover({}, NoPacket, n)
    BY LeftoverIs
  <2>3. readPos..(readPos + PacketNum - 1) = 0..(PacketNum - 1) /\ received = {}
    BY Assumption DEF Init
  <2>4. QED
    BY <2>1, <2>2, <2>3 DEF LeftBehind
<1>6. PlayedBehind
  BY DEF Init, PlayedBehind
<1>7. QED
  BY <1>2, <1>3, <1>4, <1>5, <1>6 DEF Init, Clean, BufferBody

LEMMA BodyStep ==
  ASSUME TypeOK, BufferBody, Clean, Clean', [Next]_vars
  PROVE  BufferBody'
<1>1. CASE Writer
  <2>1. ~Zero
    BY DEF Zero, BufferBody, WriterAhead
  <2>2. QED
    BY <1>1, <2>1, BodyReceive, BodyMark, BodyFill, BodyUpdate DEF Writer
<1>2. CASE Reader
  BY <1>2, BodyLook, BodyCopy, BodyDone DEF Reader
<1>3. CASE ReadTimeout \/ Silence \/ UNCHANGED vars
  BY <1>3 DEF ReadTimeout, Silence, vars, bufVars, writerVars, readerVars, arrivalVars,
              playVars, BufferBody, Positions, SlotsHold, Arrivals, WriterAhead, LeftBehind,
              PlayedBehind
<1>4. QED
  BY <1>1, <1>2, <1>3 DEF Next

\* Without a lock between them the two threads agree on the buffer: the reader and
\* the writer each know their place, and the slots between them hold what was received,
\* for as long as no packet comes twice, late or at the reader's back, overruns it, or
\* follows a long silence.
THEOREM BufferAgreed == Spec => []BufferInv
<1>1. Init => BufferInv
  BY TypeInit, BodyInit DEF BufferInv, BufferBody
<1>2. BufferInv /\ [Next]_vars => BufferInv'
  <2> SUFFICES ASSUME BufferInv, [Next]_vars PROVE BufferInv'
    OBVIOUS
  <2>1. TypeOK /\ TypeOK'
    BY TypeStep DEF BufferInv
  <2>2. Clean' => Clean
    BY CleanBefore DEF vars, Clean
  <2>3. Clean' => BufferBody'
    BY <2>1, <2>2, BodyStep DEF BufferInv, BufferBody
  <2>4. QED
    BY <2>1, <2>3 DEF BufferInv, BufferBody
<1>3. QED
  BY <1>1, <1>2, PTL DEF Spec

\* No packet is handed over that is half the one before and half the one after.
THEOREM NothingTorn == Spec => []NoTornPacket
<1>1. Init => NoTornPacket
  BY DEF Init, NoTornPacket, NoPacket, Torn
<1>2. BufferInv /\ NoTornPacket /\ [Next]_vars => NoTornPacket'
  <2> SUFFICES ASSUME BufferInv, NoTornPacket, [Next]_vars, Clean' PROVE rGot' # Torn
    BY DEF NoTornPacket
  <2>1. Clean /\ TypeOK /\ BufferBody
    BY CleanBefore DEF vars, Clean, BufferInv, BufferBody
  <2>2. CASE Copy
    BY <2>1, <2>2, BodyCopy
  <2>3. CASE Done
    BY <2>3 DEF Done, NoPacket, Torn
  <2>4. CASE ~(Copy \/ Done)
    <3>1. rGot' = rGot
      BY <2>4 DEF Next, Writer, Reader, Receive, Zero, Mark, Fill, Update, Look,
           ReadTimeout, Silence, vars, readerVars
    <3>2. QED
      BY <2>1, <3>1 DEF NoTornPacket
  <2>5. QED
    BY <2>2, <2>3, <2>4
<1>3. QED
  BY <1>1, <1>2, BufferAgreed, PTL DEF Spec

-----------------------------------------------------------------------------
(***************************************************************************)
(* The NACK.                                                               *)
(***************************************************************************)

\* The 16-bit numbers of two packets are as far apart as the packets, as long as
\* none has wrapped between them; else they are in the wrong order.
LEMMA SeqDistance ==
  ASSUME NEW a \in Int, NEW b \in Int, a < b, b < a + SeqMod
  PROVE  /\ a \div SeqMod = b \div SeqMod => Seq16(b) - Seq16(a) = b - a
         /\ a \div SeqMod # b \div SeqMod => Seq16(b) - Seq16(a) = b - a - SeqMod
<1> DEFINE p == a \div SeqMod
           q == b \div SeqMod
           r == a % SeqMod
           s == b % SeqMod
           d == q - p
<1>1. /\ a = SeqMod * p + r /\ p \in Int /\ r \in 0..(SeqMod - 1)
      /\ b = SeqMod * q + s /\ q \in Int /\ s \in 0..(SeqMod - 1)
      /\ SeqMod \in Nat \ {0}
  BY Assumption, DivMod DEF Splits
<1> HIDE DEF p, q, r, s
<1>2. d \in Int /\ SeqMod * d = SeqMod * q - SeqMod * p
  BY <1>1
<1>3. SeqMod * d = (b - a) - (s - r)
  BY <1>1, <1>2
<1>4. SeqMod * (d - 1) = SeqMod * d - SeqMod /\ d - 1 \in Int
  BY <1>1, <1>2
<1>5. d = 0 \/ d = 1
  <2>1. SeqMod * d > -SeqMod /\ SeqMod * d < SeqMod + SeqMod
    BY <1>1, <1>3
  <2>2. d <= -1 => SeqMod * d <= -SeqMod
    BY <1>1, <1>2
  <2>3. d >= 2 => SeqMod * d >= SeqMod + SeqMod
    BY <1>1, <1>2
  <2>4. QED
    BY <1>1, <1>2, <2>1, <2>2, <2>3
<1>6. Seq16(a) = r /\ Seq16(b) = s
  BY DEF Seq16, r, s
<1>7. p = q => s - r = b - a
  BY <1>1, <1>2, <1>3
<1>8. p # q => s - r = b - a - SeqMod
  <2> SUFFICES ASSUME p # q PROVE s - r = b - a - SeqMod
    OBVIOUS
  <2>1. d = 1
    BY <1>1, <1>5
  <2>2. QED
    BY <1>1, <1>3, <2>1
<1>9. QED
  BY <1>6, <1>7, <1>8 DEF p, q

\* Between two packets of one lap the lap is the same.
LEMMA SameLap ==
  ASSUME NEW a \in Int, NEW n \in Int, NEW b \in Int, a < n, n < b,
         b < a + SeqMod, a \div SeqMod = b \div SeqMod
  PROVE  Seq16(n) - Seq16(a) = n - a
<1>1. /\ Seq16(b) - Seq16(a) = b - a
      /\ Seq16(n) - Seq16(a) = n - a \/ Seq16(n) - Seq16(a) = n - a - SeqMod
      /\ Seq16(b) - Seq16(n) = b - n \/ Seq16(b) - Seq16(n) = b - n - SeqMod
  <2>1. n < a + SeqMod /\ b < n + SeqMod /\ a < b
    BY Assumption
  <2>2. Seq16(b) - Seq16(a) = b - a
    BY <2>1, SeqDistance
  <2>3. Seq16(n) - Seq16(a) = n - a \/ Seq16(n) - Seq16(a) = n - a - SeqMod
    BY <2>1, SeqDistance
  <2>4. Seq16(b) - Seq16(n) = b - n \/ Seq16(b) - Seq16(n) = b - n - SeqMod
    BY <2>1, SeqDistance
  <2>5. QED
    BY <2>2, <2>3, <2>4
<1>2. Seq16(a) \in Int /\ Seq16(b) \in Int /\ Seq16(n) \in Int /\ SeqMod \in Nat \ {0}
  BY SeqType, Assumption
<1>3. QED
  BY <1>1, <1>2

\* What LostPackets finds in front of packet b when a is the one written last.
LEMMA NackOfGap ==
  ASSUME NEW a \in Int, NEW b \in Int, a < b, b < a + SeqMod, uPreSeq = Seq16(a)
  PROVE  LET gap == (a + 1)..(b - 1)
             found == LostPackets(Seq16(b))
         IN  IF gap # {} /\ a \div SeqMod = b \div SeqMod
             THEN /\ found.bgnSeq..found.endSeq = {Seq16(n) : n \in gap}
                  /\ found.packCount = Cardinality(gap)
             ELSE found = NoNack
<1> DEFINE gap == (a + 1)..(b - 1)
           found == LostPackets(Seq16(b))
<1>1. /\ Seq16(a) \in 0..(SeqMod - 1) /\ Seq16(b) \in 0..(SeqMod - 1)
      /\ SeqMod \in Nat \ {0} /\ SeqMod > 1
  BY SeqType, Assumption
<1>2. CASE gap # {} /\ a \div SeqMod = b \div SeqMod
  <2>1. a + 1 <= b - 1
    BY <1>2
  <2>2. Seq16(b) - Seq16(a) = b - a
    BY <1>2, SeqDistance
  <2>3. Discontinuous(Seq16(b))
    BY <1>1, <2>1, <2>2 DEF Discontinuous
  <2>4. found = [bgnSeq |-> Seq16(a) + 1, endSeq |-> Seq16(b) - 1,
                 packCount |-> Seq16(b) - Seq16(a) - 1]
    BY <2>3 DEF LostPackets
  <2>5. (Seq16(a) + 1)..(Seq16(b) - 1) = {Seq16(n) : n \in gap}
    <3>1. ASSUME NEW x \in (Seq16(a) + 1)..(Seq16(b) - 1)
          PROVE  x \in {Seq16(n) : n \in gap}
      <4> DEFINE n == a + (x - Seq16(a))
      <4>1. n \in gap /\ n \in Int /\ a < n /\ n < b
        BY <1>1, <2>2
      <4>2. Seq16(n) - Seq16(a) = n - a
        BY <1>2, <4>1, SameLap
      <4>3. Seq16(n) \in Int
        BY <4>1, SeqType
      <4>4. Seq16(n) = x
        BY <1>1, <4>2, <4>3
      <4>5. QED
        BY <4>1, <4>4
    <3>2. ASSUME NEW n \in gap
          PROVE  Seq16(n) \in (Seq16(a) + 1)..(Seq16(b) - 1)
      <4>1. Seq16(n) - Seq16(a) = n - a
        BY <1>2, SameLap
      <4>2. Seq16(n) \in Int
        BY SeqType
      <4>3. QED
        BY <1>1, <2>2, <4>1, <4>2
    <3>3. QED
      BY <3>1, <3>2
  <2>6. Cardinality(gap) = b - a - 1
    BY <2>1, FS_Interval
  <2>7. QED
    BY <1>2, <2>2, <2>4, <2>5, <2>6
<1>3. CASE ~(gap # {} /\ a \div SeqMod = b \div SeqMod)
  <2>1. ~Discontinuous(Seq16(b))
    <3>1. CASE a \div SeqMod = b \div SeqMod
      <4>1. b = a + 1
        <5>1. a + 1 <= b - 1 => a + 1 \in gap
          OBVIOUS
        <5>2. gap = {}
          BY <1>3, <3>1
        <5>3. ~(a + 1 <= b - 1)
          BY <5>1, <5>2
        <5>4. QED
          BY <5>3
      <4>2. Seq16(b) - Seq16(a) = 1
        BY <3>1, <4>1, SeqDistance
      <4>3. QED
        BY <4>2 DEF Discontinuous
    <3>2. CASE a \div SeqMod # b \div SeqMod
      <4>1. Seq16(b) - Seq16(a) = b - a - SeqMod
        BY <3>2, SeqDistance
      <4>2. QED
        BY <1>1, <4>1 DEF Discontinuous
    <3>3. QED
      BY <3>1, <3>2
  <2>2. found = NoNack
    BY <2>1 DEF LostPackets
  <2>3. QED
    BY <1>3, <2>2
<1>4. QED
  BY <1>2, <1>3

\* On a clean buffer a NACK names exactly the packets missing in front of a new one.
THEOREM NackNamesGap == Spec => NackIsTheGap
<1> DEFINE Step ==
      (wPc = "update" /\ wPc' = "recv" /\ Clean /\ last = newest /\ wPkt > newest) =>
       LET gap == (newest + 1)..(wPkt - 1)
       IN  IF gap # {} /\ newest \div SeqMod = wPkt \div SeqMod
           THEN /\ nack'.bgnSeq..nack'.endSeq = {Seq16(n) : n \in gap}
                /\ nack'.packCount = Cardinality(gap)
           ELSE nack' = NoNack
<1>1. BufferInv /\ [Next]_vars => [Step]_vars
  <2> SUFFICES ASSUME BufferInv, Next, wPc = "update", wPc' = "recv", Clean, last = newest,
                      wPkt > newest
               PROVE  LET gap == (newest + 1)..(wPkt - 1)
                      IN  IF gap # {} /\ newest \div SeqMod = wPkt \div SeqMod
                          THEN /\ nack'.bgnSeq..nack'.endSeq = {Seq16(n) : n \in gap}
                               /\ nack'.packCount = Cardinality(gap)
                          ELSE nack' = NoNack
    OBVIOUS
  <2>1. Update
    BY DEF Next, Writer, Reader, Receive, Zero, Mark, Fill, Look, Copy, Done, ReadTimeout,
         Silence, writerVars
  <2>2. nack' = LostPackets(Seq16(wPkt))
    BY <2>1 DEF Update
  <2>3. TypeOK /\ Positions /\ WriterAhead
    BY DEF BufferInv
  <2>4. uPreSeq = Seq16(newest)
    BY <2>3 DEF Positions
  <2>5. wPkt < newest + SeqMod /\ newest \in Int /\ wPkt \in Int
    BY <2>3, Numbers DEF Positions, WriterAhead
  <2>6. QED
    BY <2>2, <2>4, <2>5, NackOfGap
<1>2. QED
  BY <1>1, BufferAgreed, PTL DEF Spec, NackIsTheGap

-----------------------------------------------------------------------------
(***************************************************************************)
(* The buffer implements OrderedDelivery.                                  *)
(***************************************************************************)

LEMMA DeliveryArrive ==
  ASSUME TypeOK, BufferBody, Update, Clean, Clean'
  PROVE  Delivery!Arrive
<1>1. /\ received' = received \cup {wPkt} /\ UNCHANGED <<readPos, handed>>
      /\ damage' = damage
  BY DEF Update, playVars
<1>2. wPkt \notin received /\ wPkt >= readPos
  BY Numbers DEF Update, BufferBody, WriterAhead
<1>3. \E n \in received' : n >= readPos /\ n \notin received /\ received' = received \cup {n}
  BY <1>1, <1>2
<1>4. Clean' = Clean
  OBVIOUS
<1>5. QED
  BY <1>1, <1>3, <1>4 DEF Delivery!Arrive

LEMMA DeliveryHand ==
  ASSUME TypeOK, BufferBody, Done, Clean, Clean'
  PROVE  Delivery!Hand \/ Delivery!Replay
<1>1. /\ rPc = "done" /\ received' = received
      /\ readPos' = IF readPos <= NumPackets THEN readPos + 1 ELSE readPos
      /\ handed' = Append(handed, rGot)
  BY DEF Done, arrivalVars
<1>2. readPos <= last /\ last \in received
  BY <1>1, Numbers DEF BufferBody, Positions, Arrivals
<1>3. readPos' = readPos + 1
  <2>1. last <= NumPackets
    BY Assumption DEF TypeOK, Packet
  <2>2. QED
    BY <1>1, <1>2, <2>1, Numbers, Assumption
<1>4. Clean' = Clean
  OBVIOUS
<1>5. CASE readPos \in received
  <2>1. rGot = readPos
    BY <1>1, <1>5 DEF BufferBody, PlayedBehind
  <2>2. QED
    BY <1>1, <1>3, <1>4, <1>5, <2>1 DEF Delivery!Hand
<1>6. CASE readPos \notin received
  <2>1. Delivery!IsLeftover(received, rGot, readPos)
    BY <1>1, <1>6 DEF BufferBody, PlayedBehind
  <2>2. rGot \in {Delivery!Nothing} \cup received
    BY <2>1 DEF Delivery!IsLeftover, Delivery!Older
  <2>3. \E m \in received : m > readPos
    BY <1>2, <1>6, Numbers
  <2>4. QED
    BY <1>1, <1>3, <1>4, <1>6, <2>1, <2>2, <2>3 DEF Delivery!Replay
<1>7. QED
  BY <1>5, <1>6

LEMMA DeliveryStep ==
  ASSUME BufferInv, Next
  PROVE  Delivery!Next \/ UNCHANGED <<received, readPos, handed, Clean>>
<1>1. CASE ~Clean'
  BY <1>1 DEF Delivery!Next, Delivery!Damage
<1>2. CASE Clean'
  <2>1. Clean /\ TypeOK /\ BufferBody
    BY <1>2, CleanBefore DEF BufferInv, BufferBody
  <2>2. CASE Update
    BY <1>2, <2>1, <2>2, DeliveryArrive DEF Delivery!Next
  <2>3. CASE Done
    BY <1>2, <2>1, <2>3, DeliveryHand DEF Delivery!Next
  <2>4. CASE ~(Update \/ Done)
    BY <1>2, <2>1, <2>4 DEF Next, Writer, Reader, Receive, Zero, Mark, Fill, Look, Copy,
         ReadTimeout, Silence, arrivalVars, playVars
  <2>5. QED
    BY <2>2, <2>3, <2>4
<1>3. QED
  BY <1>1, <1>2

\* While nothing has gone wrong, the buffer plays what was received in order, each packet
\* at its place; it gives up only what has been overtaken, and hands over there, a second
\* time, the packet an earlier round has left in the slot, and nothing else.
THEOREM PlaysInOrder == Spec => DeliversInOrder
<1>1. Init => Delivery!Init
  BY DEF Init, Delivery!Init, Clean
<1>2. BufferInv /\ [Next]_vars => [Delivery!Next]_(Delivery!deliveryVars)
  <2> SUFFICES ASSUME BufferInv, [Next]_vars
               PROVE  [Delivery!Next]_(Delivery!deliveryVars)
    OBVIOUS
  <2>1. CASE Next
    BY <2>1, DeliveryStep DEF Delivery!deliveryVars
  <2>2. CASE UNCHANGED vars
    BY <2>2 DEF vars, arrivalVars, playVars, Delivery!deliveryVars, Clean
  <2>3. QED
    BY <2>1, <2>2
<1>3. QED
  BY <1>1, <1>2, BufferAgreed, PTL DEF Spec, DeliversInOrder, Delivery!Spec
=============================================================================

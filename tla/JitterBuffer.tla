----------------------------- MODULE JitterBuffer -----------------------------
(***************************************************************************)
(* The ring buffer of received RTP packets, packed/jitter_buffer.c, between *)
(* the thread that receives them (worker_rtp_recvfrom, which calls on_rx_rtp *)
(* of vid_stream.c for each) and the thread that plays them                *)
(* (worker_thread_jbuf of vid_port.c).                                     *)
(*                                                                         *)
(* The n-th packet of the stream has sequence number n % SeqMod and belongs *)
(* in slot n % PacketNum.  No lock is taken anywhere: ringbuffer_write and *)
(* ringbuffer_read are split into the steps the other thread can come      *)
(* between, and a slot that is copied while it is written yields what was  *)
(* there, what is being written, or a mixture.                             *)
(*                                                                         *)
(* Of the clock only two comparisons are kept: whether the last write is   *)
(* more than MAX_LOST_WAIT_TIME_UNKNOW ago, and the last read of a packet   *)
(* that was there more than MAX_LOST_WAIT_TIME_MS.                         *)
(***************************************************************************)
EXTENDS Integers, FiniteSets, Sequences

CONSTANTS
  SeqMod,      \* 2^16, the width of an RTP sequence number
  PacketNum,   \* MAX_PACKET_NUMBER, the number of slots
  MaxGap,      \* network: how far a packet may be ahead of the newest; 1: no loss
  MaxLate,     \* network: it comes less than so far behind; 0: strictly in order
  NumPackets   \* bound: packets of the stream

ASSUME Assumption ==
  /\ PacketNum \in Nat \ {0}
  /\ SeqMod \in Nat \ {0} /\ SeqMod % PacketNum = 0 /\ SeqMod > PacketNum
  /\ MaxGap \in Nat \ {0} /\ MaxLate \in Nat /\ NumPackets \in Nat

VARIABLES
  \* RingBuffer
  slot,        \* xbuffer: slot -> uForRead and the packet stored, if any
  uPreSeq, uPreReadSeq,
  uPreTime,    \* "unset", "recent" or "old"
  uPreReadTS,  \* "recent" or "old"
  \* the receiving thread
  wPc,         \* "recv", "zero", "mark", "fill" or "update"
  wPkt,        \* pRtpPkt
  nack,        \* the NACK sent for the last packet, or NoNack
  \* the playing thread
  rPc,         \* "look", "copy" or "done"
  rSeq,        \* curReadSeq
  rGot,        \* what it copied into pRtpPkt
  \* history, read by properties only
  newest,      \* the newest packet received, -1 before the first
  last,        \* the last packet received, -1 before the first
  received,    \* while undamaged: the packets received
  readPos,     \* how many places of the stream were read, up to one too many
  handed,      \* while undamaged: what was handed to RTPUnpackH264, place by place
  damage       \* what has gone wrong so far, see Clean

bufVars == <<slot, uPreSeq, uPreReadSeq, uPreTime, uPreReadTS>>
writerVars == <<wPc, wPkt, nack>>
readerVars == <<rPc, rSeq, rGot>>
arrivalVars == <<newest, last, received>>
playVars == <<readPos, handed>>
vars == <<bufVars, writerVars, readerVars, arrivalVars, playVars, damage>>

Packet == 0..(NumPackets - 1)
NoPacket == -1
Torn == -2
NoNack == [bgnSeq |-> 0, endSeq |-> 0, packCount |-> 0]
EmptySlot == [uForRead |-> FALSE, pkt |-> NoPacket]

Seq16(n) == n % SeqMod
SlotOf(n) == n % PacketNum

\* No packet came twice or when its turn was over ("late"), or out of order
\* and just when the reader looked for it ("race"); no unread packet was overwritten ("overrun");
\* and no silence made the buffer start again ("restart").
Clean == damage = {}
-----------------------------------------------------------------------------
(***************************************************************************)
(* The receiving thread: on_rx_rtp.                                        *)
(***************************************************************************)

\* It was received before, or the reader has passed its place or is just passing.
TooLate(n) ==
  n \in received \/ n < readPos \/ (n = readPos /\ rPc # "look")

\* A packet of proper length arrives; after a long silence ringbuffer_init is
\* called, and the reader's position is lost with the rest.
Receive(n) ==
  /\ wPc = "recv"
  /\ wPkt' = n
  /\ IF uPreTime = "old"
     THEN /\ uPreSeq' = SeqMod - 1 /\ uPreReadSeq' = SeqMod - 1
          /\ uPreTime' = "unset" /\ uPreReadTS' = "old"
          /\ wPc' = "zero"
     ELSE /\ uPreTime' = "recent"
          /\ wPc' = "mark"
          /\ UNCHANGED <<uPreSeq, uPreReadSeq, uPreReadTS>>
  /\ damage' = damage \cup (IF uPreTime = "old" THEN {"restart"} ELSE {})
                      \cup (IF TooLate(n) THEN {"late"} ELSE {})
  /\ UNCHANGED <<slot, nack, readerVars, arrivalVars, playVars>>

\* The end of ringbuffer_init: the slots are bzeroed.
Zero ==
  /\ wPc = "zero"
  /\ slot' = [i \in 0..(PacketNum - 1) |-> EmptySlot]
  /\ wPc' = "mark"
  /\ UNCHANGED <<uPreSeq, uPreReadSeq, uPreTime, uPreReadTS, wPkt, nack,
                 readerVars, arrivalVars, playVars, damage>>

\* A plausible slip: uPreSeq is updated before the packet is in its slot.
MarkEarly ==
  /\ wPc = "mark"
  /\ slot' = [slot EXCEPT ![SlotOf(wPkt)].uForRead = TRUE]
  /\ damage' = damage \cup (IF wPkt >= readPos + PacketNum THEN {"overrun"} ELSE {})
  /\ wPc' = "fill"
  /\ uPreSeq' = Seq16(wPkt)
  /\ UNCHANGED <<uPreReadSeq, uPreTime, uPreReadTS, wPkt, nack,
                 readerVars, arrivalVars, playVars>>

\* The slot is marked readable, before there is anything in it.
Mark ==
  /\ wPc = "mark"
  /\ slot' = [slot EXCEPT ![SlotOf(wPkt)].uForRead = TRUE]
  /\ damage' = damage \cup (IF wPkt >= readPos + PacketNum THEN {"overrun"} ELSE {})
  /\ wPc' = "fill"
  /\ UNCHANGED <<uPreSeq, uPreReadSeq, uPreTime, uPreReadTS, wPkt, nack,
                 readerVars, arrivalVars, playVars>>

\* Its length and content are copied.
Fill ==
  /\ wPc = "fill"
  /\ slot' = [slot EXCEPT ![SlotOf(wPkt)].pkt = wPkt]
  /\ wPc' = "update"
  /\ UNCHANGED <<uPreSeq, uPreReadSeq, uPreTime, uPreReadTS, wPkt, nack,
                 readerVars, arrivalVars, playVars, damage>>

\* A plausible slip: a number that is smaller counts as a gap, too.
DiscontinuousBack(packSeq) ==
  /\ packSeq - uPreSeq # 1
  /\ uPreSeq - packSeq # SeqMod - 1

\* The gap in front of a packet, told by comparing 16-bit numbers as integers,
\* is what on_rx_rtp sends a NACK for.
Discontinuous(packSeq) ==
  /\ packSeq - uPreSeq # 1
  /\ uPreSeq - packSeq # SeqMod - 1
  /\ packSeq > uPreSeq

LostPackets(packSeq) ==
  IF Discontinuous(packSeq)
  THEN [bgnSeq |-> uPreSeq + 1, endSeq |-> packSeq - 1,
        packCount |-> packSeq - uPreSeq - 1]
  ELSE NoNack

\* The record of the last write is brought up to date, whether the packet is
\* the newest or not, and the NACK goes out.
Update ==
  /\ wPc = "update"
  /\ nack' = LostPackets(Seq16(wPkt))
  /\ uPreSeq' = Seq16(wPkt)
  /\ uPreTime' = "recent"
  /\ newest' = IF wPkt > newest THEN wPkt ELSE newest
  /\ last' = wPkt
  /\ received' = IF Clean THEN received \cup {wPkt} ELSE received
  /\ wPc' = "recv"
  /\ wPkt' = NoPacket
  /\ UNCHANGED <<slot, uPreReadSeq, uPreReadTS, readerVars, playVars, damage>>

\* What the network may bring next.
Arriving == {n \in Packet : newest - MaxLate < n /\ n <= newest + MaxGap}
-----------------------------------------------------------------------------
(***************************************************************************)
(* The playing thread: the loop of worker_thread_jbuf, ringbuffer_read.     *)
(***************************************************************************)

\* Plausible slips: the newest packet is read next, and a missing packet is
\* waited for without end.
NewestFirst == uPreSeq
ForeverPatient(there) == there

\* "read equal write": nothing to read.
ReadEqualWrite == uPreSeq = uPreReadSeq

\* The number after the one read last.  The tests for a first read never succeed.
curReadSeq == Seq16(uPreReadSeq + 1)

\* A packet that is there is read at once, one that is missing is waited for.
canRead(there) == there \/ uPreReadTS = "old"

\* The packet the reader is about to look for is being written, after a newer one.
Overtaken == wPc # "recv" /\ wPkt = readPos /\ wPkt < newest

\* Is there a packet to read?
Look ==
  /\ rPc = "look"
  /\ ~ReadEqualWrite
  /\ LET there == slot[SlotOf(curReadSeq)].uForRead
     IN  /\ canRead(there)
         /\ uPreReadTS' = IF there THEN "recent" ELSE uPreReadTS
  /\ rSeq' = curReadSeq
  /\ rPc' = "copy"
  /\ damage' = damage \cup (IF Overtaken THEN {"race"} ELSE {})
  /\ UNCHANGED <<slot, uPreSeq, uPreReadSeq, uPreTime, rGot, writerVars,
                 arrivalVars, playVars>>

\* What a copy of slot i may yield while the other thread writes it.
Contents(i) ==
  {slot[i].pkt}
    \cup (IF wPc = "fill" /\ SlotOf(wPkt) = i THEN {wPkt, Torn} ELSE {})
    \cup (IF wPc = "zero" THEN {NoPacket, Torn} ELSE {})

\* The slot is copied, also when it was given up and holds an older packet.
Copy ==
  /\ rPc = "copy"
  /\ rGot' \in Contents(SlotOf(rSeq))
  /\ rPc' = "done"
  /\ UNCHANGED <<bufVars, rSeq, writerVars, arrivalVars, playVars, damage>>

\* A plausible slip: the slot stays readable.
DoneUncleared ==
  /\ rPc = "done"
  /\ uPreReadSeq' = rSeq
  /\ rPc' = "look"
  /\ readPos' = IF readPos <= NumPackets THEN readPos + 1 ELSE readPos
  /\ handed' = IF Clean THEN Append(handed, rGot) ELSE handed
  /\ rSeq' = 0
  /\ rGot' = NoPacket
  /\ UNCHANGED <<slot, uPreSeq, uPreTime, uPreReadTS, writerVars, arrivalVars, damage>>

\* The slot is marked read.  What was copied is handed to the unpacker, also when it is
\* the old packet of a slot that was given up; only a packet of length 0, the NoPacket of
\* a slot never written, is not.
Done ==
  /\ rPc = "done"
  /\ slot' = [slot EXCEPT ![SlotOf(rSeq)].uForRead = FALSE]
  /\ uPreReadSeq' = rSeq
  /\ rPc' = "look"
  /\ readPos' = IF readPos <= NumPackets THEN readPos + 1 ELSE readPos
  /\ handed' = IF Clean THEN Append(handed, rGot) ELSE handed
  /\ rSeq' = 0
  /\ rGot' = NoPacket
  /\ UNCHANGED <<uPreSeq, uPreTime, uPreReadTS, writerVars, arrivalVars, damage>>
-----------------------------------------------------------------------------
(***************************************************************************)
(* Time.                                                                   *)
(***************************************************************************)

ReadTimeout ==
  /\ uPreReadTS = "recent"
  /\ uPreReadTS' = "old"
  /\ UNCHANGED <<slot, uPreSeq, uPreReadSeq, uPreTime, writerVars, readerVars,
                 arrivalVars, playVars, damage>>

Silence ==
  /\ uPreTime = "recent"
  /\ uPreTime' = "old"
  /\ UNCHANGED <<slot, uPreSeq, uPreReadSeq, uPreReadTS, writerVars, readerVars,
                 arrivalVars, playVars, damage>>
-----------------------------------------------------------------------------
\* ringbuffer_create.  The last sequence number stands for -1: uPreSeq and
\* uPreReadSeq are 16 bits wide, and so the tests for -1 never succeed.
Init ==
  /\ slot = [i \in 0..(PacketNum - 1) |-> EmptySlot]
  /\ uPreSeq = SeqMod - 1 /\ uPreReadSeq = SeqMod - 1
  /\ uPreTime = "unset" /\ uPreReadTS = "old"
  /\ wPc = "recv" /\ wPkt = NoPacket /\ nack = NoNack
  /\ rPc = "look" /\ rSeq = 0 /\ rGot = NoPacket
  /\ newest = -1 /\ last = -1 /\ received = {}
  /\ readPos = 0 /\ handed = <<>>
  /\ damage = {}

Writer == (\E n \in Arriving : Receive(n)) \/ Zero \/ Mark \/ Fill \/ Update

Reader == Look \/ Copy \/ Done

Next == Writer \/ Reader \/ ReadTimeout \/ Silence

Spec == Init /\ [][Next]_vars

\* Both threads run when they can and time passes; nobody has to send packets.
FairSpec ==
  /\ Spec
  /\ WF_vars(Zero \/ Mark \/ Fill \/ Update)
  /\ WF_vars(Reader)
  /\ WF_vars(ReadTimeout)
-----------------------------------------------------------------------------
(***************************************************************************)
(* Properties.                                                             *)
(***************************************************************************)

\* What the thread that assembles frames relies on.
Delivery == INSTANCE OrderedDelivery WITH
              Slots <- PacketNum, arrived <- received, pos <- readPos, ok <- Clean

\* The types of the variables.
TypeOK ==
  /\ slot \in [0..(PacketNum - 1) ->
                [uForRead : BOOLEAN, pkt : Packet \cup {NoPacket}]]
  /\ uPreSeq \in 0..(SeqMod - 1) /\ uPreReadSeq \in 0..(SeqMod - 1)
  /\ uPreTime \in {"unset", "recent", "old"}
  /\ uPreReadTS \in {"recent", "old"}
  /\ wPc \in {"recv", "zero", "mark", "fill", "update"}
  /\ wPkt \in Packet \cup {NoPacket}
  /\ wPc # "recv" => wPkt # NoPacket
  /\ nack \in [bgnSeq : 0..(SeqMod - 1), endSeq : 0..(SeqMod - 1), packCount : 0..SeqMod]
  /\ rPc \in {"look", "copy", "done"}
  /\ rSeq \in 0..(SeqMod - 1)
  /\ rGot \in Packet \cup {NoPacket, Torn}
  /\ newest \in Packet \cup {-1} /\ last \in Packet \cup {-1}
  /\ received \subseteq Packet
  /\ readPos \in 0..(NumPackets + 1)
  /\ handed \in Seq(Packet \cup {NoPacket, Torn})
  /\ damage \subseteq {"late", "race", "overrun", "restart"}

\* The two sequence numbers stand for places in the stream, and the reader is
\* never past the packet written last.
Positions ==
  /\ uPreSeq = Seq16(last)
  /\ uPreReadSeq = Seq16(readPos - 1)
  /\ rPc # "look" => rSeq = Seq16(readPos)
  /\ last <= newest
  /\ readPos <= last + (IF rPc = "look" THEN 1 ELSE 0)
  /\ newest < readPos + PacketNum

\* From the reader's place on, the slots hold the packets received, each in its
\* own, and no other slot claims to be readable.
SlotsHold ==
  \A n \in readPos..(readPos + PacketNum - 1) :
    LET s == slot[SlotOf(n)]
        writing == wPkt = n /\ wPc \in {"fill", "update"}
    IN  /\ n \in received => s = [uForRead |-> TRUE, pkt |-> n]
        /\ n \notin received => s.uForRead = writing

\* The packets written last and newest are among those received.
Arrivals ==
  /\ \A n \in received : n <= newest
  /\ newest # -1 => newest \in received
  /\ IF last = -1 THEN received = {} ELSE last \in received

\* The packet being written is new, and the reader has yet to come to it; it gets a
\* slot the reader is through with.
WriterAhead ==
  wPc # "recv" =>
    /\ wPc # "zero"
    /\ wPkt \notin received
    /\ wPkt >= readPos + (IF rPc = "look" THEN 0 ELSE 1)
    /\ wPc \in {"fill", "update"} => wPkt < readPos + PacketNum
    /\ wPc = "update" => slot[SlotOf(wPkt)].pkt = wPkt

\* A slot whose packet has not come still holds what an earlier round left there.
LeftBehind ==
  \A n \in readPos..(readPos + PacketNum - 1) :
    (n \notin received /\ ~(wPkt = n /\ wPc = "update")) =>
      Delivery!IsLeftover(received, slot[SlotOf(n)].pkt, n)

\* Each place was handed its own packet if that was received in time, and the reader has
\* in hand that of its place, or what a slot that it gave up still held.
PlayedBehind ==
  /\ Len(handed) = readPos
  /\ \A n \in received : n < readPos => handed[n + 1] = n
  /\ rPc = "done" =>
       IF readPos \in received THEN rGot = readPos
       ELSE Delivery!IsLeftover(received, rGot, readPos)

\* The variables have their types and, while nothing has gone wrong, the two threads
\* agree on the buffer.  Every step preserves this.
BufferInv ==
  /\ TypeOK
  /\ Clean => /\ Positions /\ SlotsHold /\ Arrivals /\ WriterAhead
              /\ LeftBehind /\ PlayedBehind

\* Without locks, and with a slot marked readable before it is filled, a packet
\* is torn only if it came twice or late, raced with the reader, overran it or
\* came after a restart: never in order at the reader's back.
NoTornPacket == rGot = Torn => ~Clean

\* What was received is played in order, each packet at its place, also when packets
\* arrive out of order before their turn; only overtaken packets are given up.  A place
\* given up is no silence, though: the packet that lay in its slot, a whole number of
\* rounds older, is handed over a second time there, and nothing else ever is.
DeliversInOrder == Delivery!Spec

\* A NACK goes out exactly when packets in front of a new one are missing, and
\* names exactly these, unless the sequence numbers have wrapped in the gap (or
\* the stream has only begun): then the loss is not reported.
NackIsTheGap ==
  [][(wPc = "update" /\ wPc' = "recv" /\ Clean /\ last = newest /\ wPkt > newest) =>
       LET gap == (newest + 1)..(wPkt - 1)
       IN  IF gap # {} /\ newest \div SeqMod = wPkt \div SeqMod
           THEN /\ nack'.bgnSeq..nack'.endSeq = {Seq16(n) : n \in gap}
                /\ nack'.packCount = Cardinality(gap)
           ELSE nack' = NoNack]_vars

\* As long as packets come in their order, every packet received is played,
\* also those behind lost ones.
EveryPacketPlayed ==
  \A n \in Packet : n \in received ~>
    ((\E i \in DOMAIN handed : handed[i] = n) \/ last < newest \/ ~Clean)

\* The states TLC goes on from.  Nothing but types is said of a buffer that is not
\* clean any more, and none becomes clean again.
Explored == Clean \/ wPc = "zero"
=============================================================================

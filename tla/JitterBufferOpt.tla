---------------------------- MODULE JitterBufferOpt ----------------------------
(***************************************************************************)
(* The other jitter buffer, packed/jbuf_opt.c: the one of jitter_buffer.c   *)
(* has grown out of it, and the code to use it again is still there as      *)
(* comments (vid_port.c:32).  It keeps a packet in the place that its       *)
(* number gives, tells which ones are missing, so that they can be asked    *)
(* for again (pjmedia_ringbuffer_scan_lost), and after three that did not   *)
(* come goes on at the next packet with an SPS.                            *)
(*                                                                         *)
(* No caller is left, so each function is one step.  The network may lose,  *)
(* reorder and repeat packets.  The clock is not modelled: a silence or the *)
(* end of a wait may come at any time.                                      *)
(***************************************************************************)
EXTENDS Integers, FiniteSets

CONSTANTS
  uPacketNum,   \* places: _video_pk_num_, 2048
  uMaxPktWin,   \* _max_rtp_seq_windows, 640
  Seqs,         \* sequence numbers: 65536
  FirstSeq,     \* the first one
  Gop,          \* every Gop-th packet has an SPS
  NumPackets,   \* bound: packets
  MaxLate,      \* bound: how late the network brings one
  NumSilences,  \* bound: pauses of more than _max_lost_wait_time_unknow
  NumScans      \* bound: calls of scan_lost

ASSUME OptAssumption ==
  /\ uPacketNum \in Nat \ {0} /\ uMaxPktWin \in 1..(uPacketNum - 1)
  /\ Seqs \in Nat /\ FirstSeq \in 0..(Seqs - 1)
  /\ uPacketNum < Seqs \div 2 /\ 3 * uMaxPktWin < Seqs
  /\ Gop \in Nat \ {0}
  /\ NumPackets \in Nat /\ MaxLate \in 0..uMaxPktWin /\ NumSilences \in Nat /\ NumScans \in Nat

_max_require_resend == 3
MaxLost == 3

VARIABLES
  \* _RingBuffer_ST_
  xbuffer,      \* place -> the packet stored there
  uPreSeq, uPrePos,            \* the last one written, -1 for none
  uPreReadSeq, uPreReadPos,    \* the last one read or given up, -1 for none
  uCuPktLost,   \* waits in a row that have ended
  \* the network
  newest, silences, scans,
  \* history, read by properties only
  played,       \* the last packet handed out
  disorder,     \* one was handed out that is not newer
  stale,        \* a packet was taken whose turn was over
  adrift,       \* the reader has moved on and uPreReadSeq has not
  arrived       \* packets that have come since the last restart

ringVars == <<xbuffer, uPreSeq, uPrePos, uPreReadSeq, uPreReadPos, uCuPktLost>>
netVars == <<newest, silences, scans>>
playVars == <<played, disorder, stale>>
optVars == <<ringVars, netVars, playVars, adrift, arrived>>

\* Packets are counted from 1; Seq is the number in the header.
Packets == 1..NumPackets
Seq(n) == (FirstSeq + n - 1) % Seqs
HasSps(n) == n % Gop = 1 % Gop
Places == 0..(uPacketNum - 1)

\* _Packet_Store_ST_.  uResendFlg has three bits.
Empty == [uForRead |-> FALSE, uResendFlg |-> 0, n |-> 0]
Bits3 == 8

At(pos) == pos % uPacketNum
abs(x) == IF x < 0 THEN -x ELSE x

\* The reader starts at place 0, as the writer does.
curReadPos == IF uPreReadPos = -1 THEN 0 ELSE At(uPreReadPos + 1)
-----------------------------------------------------------------------------
(***************************************************************************)
(* pjmedia_ringbuffer_write                                                *)
(***************************************************************************)

\* How far the packet is from the last one.  Across the wrap of the numbers the
\* difference is negative, and as large as they are.
nSeqGap(n) == IF uPreSeq = -1 THEN 1 ELSE Seq(n) - uPreSeq

Stored(n) == [uForRead |-> TRUE, uResendFlg |-> 0, n |-> n]

\* The turn of the packet is over: it, or a newer one, was handed out or its place
\* given up.
TurnIsOver(n) ==
  \/ n <= played
  \/ uPrePos # -1 /\ At(uPrePos - curReadPos) + nSeqGap(n) < 0

\* pjmedia_ringbuffer_init, and the packet is the first one again.
Restart(n) ==
  /\ xbuffer' = [p \in Places |-> IF p = 0 THEN Stored(n) ELSE Empty]
  /\ uPrePos' = 0 /\ uPreSeq' = Seq(n)
  /\ uPreReadPos' = -1 /\ uPreReadSeq' = -1 /\ uCuPktLost' = 0
  /\ arrived' = {n} /\ adrift' = FALSE
  /\ stale' = (stale \/ n <= played)

\* A plausible slip: a packet goes behind the last one, whatever is missing between.
StoreNext(n) ==
  /\ xbuffer' = [xbuffer EXCEPT ![At(uPrePos + 1)] = Stored(n)]
  /\ IF nSeqGap(n) > 0 THEN uPrePos' = At(uPrePos + 1) /\ uPreSeq' = Seq(n)
                       ELSE UNCHANGED <<uPrePos, uPreSeq>>
  /\ arrived' = arrived \cup {n}
  /\ stale' = (stale \/ TurnIsOver(n))
  /\ UNCHANGED <<uPreReadPos, uPreReadSeq, uCuPktLost, adrift>>

Store(n) ==
  LET index == At(uPrePos + nSeqGap(n) + uPacketNum)
  IN  /\ xbuffer' = [xbuffer EXCEPT ![index] = Stored(n)]
      /\ IF nSeqGap(n) > 0 THEN uPrePos' = index /\ uPreSeq' = Seq(n)
                           ELSE UNCHANGED <<uPrePos, uPreSeq>>
      /\ arrived' = arrived \cup {n}
      /\ stale' = (stale \/ TurnIsOver(n))
      /\ UNCHANGED <<uPreReadPos, uPreReadSeq, uCuPktLost, adrift>>

\* A packet outside the window, or the first after a silence, restarts the buffer.
pjmedia_ringbuffer_write(n) ==
  \/ /\ abs(nSeqGap(n)) <= uMaxPktWin
     /\ Store(n)
     /\ UNCHANGED silences
  \/ /\ abs(nSeqGap(n)) > uMaxPktWin
     /\ Restart(n)
     /\ UNCHANGED silences
  \/ /\ uPreSeq # -1 /\ silences < NumSilences
     /\ silences' = silences + 1
     /\ Restart(n)

\* The reader is not so far behind that the packet takes a place it has yet to read.
KeepsUp(n) == At(uPrePos - uPreReadPos) + nSeqGap(n) < uPacketNum

Write ==
  \E n \in Packets :
    /\ newest - n <= MaxLate /\ n - newest <= uMaxPktWin
    /\ (abs(nSeqGap(n)) <= uMaxPktWin => KeepsUp(n))
    /\ pjmedia_ringbuffer_write(n)
    /\ newest' = IF n > newest THEN n ELSE newest
    /\ UNCHANGED <<scans, played, disorder>>

\* pjmedia_jbuf_opt_reset
Reset ==
  /\ uPreSeq # -1 /\ silences < NumSilences
  /\ silences' = silences + 1
  /\ xbuffer' = [p \in Places |-> Empty]
  /\ uPrePos' = -1 /\ uPreSeq' = -1
  /\ uPreReadPos' = -1 /\ uPreReadSeq' = -1 /\ uCuPktLost' = 0
  /\ arrived' = {} /\ adrift' = FALSE
  /\ UNCHANGED <<newest, scans, playVars>>
-----------------------------------------------------------------------------
(***************************************************************************)
(* pjmedia_ringbuffer_read                                                 *)
(***************************************************************************)

\* Offsets from the reader's place to the writer's, without the last one.
Behind == {k \in Places : k < At(uPrePos - curReadPos)}
PlaceAt(k) == At(curReadPos + k)
Readable(k) == xbuffer[PlaceAt(k)].uForRead

\* pjmedia_ringbuffer_find_sps: the offset of the first packet with an SPS, or the
\* one before the writer's, which may be place -1; the packets in front are dropped.
WithSps == {k \in Behind : Readable(k) /\ HasSps(xbuffer[PlaceAt(k)].n)}
FirstSps == CHOOSE k \in WithSps : \A j \in WithSps : k <= j
find_sps == IF WithSps = {} THEN uPrePos - 1 ELSE PlaceAt(FirstSps)
Dropped ==
  LET with == WithSps
  IN  {PlaceAt(k) : k \in {j \in Behind : \A sps \in with : j < sps}}

DropFront ==
  LET dropped == Dropped
  IN  [p \in Places |-> IF p \in dropped THEN [xbuffer[p] EXCEPT !.uForRead = FALSE] ELSE xbuffer[p]]

\* pjmedia_ringbuffer_move_pos from place p: the next readable one up to the writer's.
\* Behind the end of the buffer only a window is looked through, and emptied if the
\* writer is farther off.
move_pos(ring, p) ==
  LET distance == IF p < uPrePos THEN uPrePos - p ELSE uPrePos + uPacketNum - p
      found == {k \in 0..distance : ring[At(p + k)].uForRead}
      first == CHOOSE k \in found : \A j \in found : k <= j
      stay(r, pos) == [ring |-> r, pos |-> pos, seq |-> uPreReadSeq]
  IN  IF p < 0 THEN stay(ring, 0)
      ELSE IF uPreSeq = uPreReadPos THEN stay(ring, uPrePos)
      ELSE IF p >= uPrePos /\ distance > uMaxPktWin
      THEN stay([q \in Places |-> IF At(q - p) < distance
                                  THEN [ring[q] EXCEPT !.uForRead = FALSE] ELSE ring[q]], uPrePos)
      ELSE IF found = {} THEN stay(ring, uPrePos)
      ELSE [ring |-> ring, pos |-> At(p + first), seq |-> Seq(ring[At(p + first)].n) - 1]

HasPacket == uPrePos # -1 /\ xbuffer[curReadPos].uForRead

\* A packet is handed out.
ReadPacket ==
  /\ HasPacket
  /\ LET pkt == xbuffer[curReadPos]
     IN  /\ xbuffer' = [xbuffer EXCEPT ![curReadPos].uForRead = FALSE,
                                       ![curReadPos].uResendFlg = 0]
         /\ uPreReadSeq' = Seq(pkt.n)
         /\ played' = pkt.n
         /\ disorder' = (disorder \/ pkt.n <= played)
  /\ uPreReadPos' = curReadPos
  /\ uCuPktLost' = 0 /\ adrift' = FALSE
  /\ UNCHANGED <<uPreSeq, uPrePos, netVars, stale, arrived>>

\* The wait for a missing packet has ended.  (Without resending it is over after a
\* millisecond, also at the first place.)
WaitEnds ==
  /\ (uPreReadPos # -1 \/ uPrePos # -1) /\ ~xbuffer[curReadPos].uForRead
  /\ uPreSeq # uPreReadSeq

\* It is given up, unless the writer has gone round the end of the buffer.
GiveUp ==
  /\ WaitEnds /\ uCuPktLost + 1 < MaxLost
  /\ uCuPktLost' = uCuPktLost + 1
  /\ IF uPreReadPos < uPrePos
     THEN uPreReadPos' = uPreReadPos + 1 /\ uPreReadSeq' = uPreReadSeq + 1
     ELSE UNCHANGED <<uPreReadPos, uPreReadSeq>>
  /\ UNCHANGED <<xbuffer, uPreSeq, uPrePos, netVars, playVars, adrift, arrived>>

\* The third time: on to the next SPS.
SkipToSps ==
  /\ WaitEnds /\ uCuPktLost + 1 >= MaxLost
  /\ uCuPktLost' = 0
  /\ LET to == move_pos(DropFront, find_sps)
     IN  /\ xbuffer' = to.ring
         /\ uPreReadPos' = to.pos - 1
         /\ uPreReadSeq' = to.seq /\ adrift' = (to.seq = uPreReadSeq)
  /\ UNCHANGED <<uPreSeq, uPrePos, netVars, played, disorder, stale, arrived>>

pjmedia_ringbuffer_read == ReadPacket \/ GiveUp \/ SkipToSps
-----------------------------------------------------------------------------
(***************************************************************************)
(* pjmedia_ringbuffer_scan_lost                                            *)
(***************************************************************************)

Scans ==
  /\ uPrePos # -1 /\ uPreReadPos # -1 /\ uPreSeq # -1 /\ uPreReadSeq # -1
  /\ curReadPos # uPrePos /\ uPreReadPos # uPrePos

\* Offsets that are looked at: up to the writer's.
Scanned == 0..At(uPrePos - curReadPos)

Bumped(k) == (xbuffer[PlaceAt(k)].uResendFlg + 1) % Bits3

\* A missing packet is asked for unless that was done often enough.
Asks(k) == ~Readable(k) /\ Bumped(k) < _max_require_resend

\* What is asked for between two readable packets is one group, which ends at the
\* second.  Scanning ends with the last of nMax groups.
GroupUpTo(k) ==
  {j \in Scanned : j < k /\ Asks(j) /\ \A i \in j..(k - 1) : ~Readable(i)}
Ends == {k \in Scanned : Readable(k) /\ GroupUpTo(k) # {}}
Returned(nMax) ==
  LET ends == Ends
  IN  {k \in ends : Cardinality({j \in ends : j < k}) < nMax}
Reached(nMax) ==
  LET returned == Returned(nMax)
  IN  {k \in Scanned : Cardinality(returned) = nMax => \E e \in returned : k < e}

\* A plausible slip: counted from the packet last read.
LostSeqFromRead(k) == (uPreReadSeq + k) % Seqs

LostSeq(k) == (uPreReadSeq + 1 + k) % Seqs

\* All numbers from the first to the last of each group.
Lost(nMax) ==
  UNION {LET group == GroupUpTo(e)
         IN  {LostSeq(k) : k \in {i \in Scanned : \E a, b \in group : a <= i /\ i <= b}} :
         e \in Returned(nMax)}

ScanLost(nMax) ==
  /\ Scans /\ scans < NumScans
  /\ scans' = scans + 1
  /\ LET bumped == {PlaceAt(k) : k \in {i \in Reached(nMax) : ~Readable(i)}}
         flag == [k \in Scanned |-> Bumped(k)]
     IN  xbuffer' = [p \in Places |->
                      IF p \in bumped
                      THEN [xbuffer[p] EXCEPT !.uResendFlg = flag[At(p - curReadPos)]]
                      ELSE xbuffer[p]]
  /\ UNCHANGED <<uPreSeq, uPrePos, uPreReadSeq, uPreReadPos, uCuPktLost, newest, silences,
                 playVars, adrift, arrived>>
-----------------------------------------------------------------------------
OptInit ==
  /\ xbuffer = [p \in Places |-> Empty]
  /\ uPreSeq = -1 /\ uPrePos = -1 /\ uPreReadSeq = -1 /\ uPreReadPos = -1
  /\ uCuPktLost = 0
  /\ newest = 0 /\ arrived = {} /\ silences = 0 /\ scans = 0
  /\ played = 0 /\ disorder = FALSE /\ stale = FALSE /\ adrift = FALSE

OptNext ==
  \/ Write \/ Reset
  \/ pjmedia_ringbuffer_read
  \/ \E nMax \in {1, uPacketNum} : ScanLost(nMax)

OptSpec == OptInit /\ [][OptNext]_optVars
-----------------------------------------------------------------------------
(***************************************************************************)
(* Properties.                                                             *)
(***************************************************************************)

\* The types of the variables.
OptTypeOK ==
  /\ xbuffer \in [Places -> [uForRead : BOOLEAN, uResendFlg : 0..(Bits3 - 1),
                             n : 0..NumPackets]]
  /\ uPreSeq \in -1..(Seqs - 1) /\ uPrePos \in Places \cup {-1}
  /\ uPreReadSeq \in -1..(Seqs - 1) /\ uPreReadPos \in Places \cup {-1}
  /\ uCuPktLost \in 0..(MaxLost - 1)
  /\ newest \in 0..NumPackets /\ arrived \subseteq Packets
  /\ silences \in 0..NumSilences /\ scans \in 0..NumScans
  /\ played \in 0..NumPackets /\ disorder \in BOOLEAN
  /\ stale \in BOOLEAN /\ adrift \in BOOLEAN

\* Packets are handed on in order, across losses, skips to the next SPS, restarts
\* and the wrap of the numbers, in whatever order they come, until one is taken whose
\* turn is over: that one stays in its place and is handed out when the reader comes
\* round to it.
DeliversInOrder == OptTypeOK /\ (~stale => ~disorder)

\* What is asked for was sent, has not arrived and is still waited for; but not when
\* the reader has thrown away more than a window across the end of the buffer, which
\* leaves uPreReadSeq where it was, and has read nothing since.
AsksForMissing ==
  Scans /\ ~stale /\ ~adrift =>
    \A s \in Lost(uPacketNum) :
      \E n \in Packets : Seq(n) = s /\ n \in (played + 1)..newest /\ n \notin arrived
=============================================================================

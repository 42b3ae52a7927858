---------------------------- MODULE H264Packetizer ----------------------------
(***************************************************************************)
(* How packet_and_send_ (vid_stream.c) cuts an H.264 frame into RTP        *)
(* payloads, one per turn of its loop: pjmedia_h264_packetize of           *)
(* packed/h264_packetizer.c, called through get_h264_package (vid_codec.c). *)
(* `out` is what pjmedia_unpack_h264 of packed/dealrtpunpack.c makes of the *)
(* payloads at the other end, when all of them get there.                  *)
(*                                                                         *)
(* A NAL unit within the MTU is a payload of its own.  A longer one is cut *)
(* in place into FU-A fragments: two header bytes are written over the two *)
(* bytes in front of the fragment, which were sent already, and the next   *)
(* fragment looks up the NAL type in the header of the one before.         *)
(***************************************************************************)
EXTENDS Bitstream

CONSTANTS
  mtu,       \* pktz->cfg.mtu, 1300
  Lengths,   \* bound: lengths of NAL units
  Codes,     \* bound: lengths of the start codes behind the first
  MaxNals,   \* bound: NAL units of a frame
  SeqMod     \* 2^16: where sequence numbers wrap

VARIABLES
  pos,     \* enc_packed_pos
  pkt,     \* the payload made last; NoPacket before the first
  fu,      \* the last FU header written into the buffer: its place and its type
  seq,     \* out_extseq
  out      \* pFrameBuf of the receiver

vars == <<frame, pos, pkt, fu, seq, out>>

NoPacket == [fuA |-> FALSE, S |-> FALSE, E |-> FALSE, nal |-> 0, from |-> 0, to |-> 0,
             size |-> 0, ucMarker |-> FALSE]

NoHeader == [at |-> NONE, type |-> 0]
-----------------------------------------------------------------------------
\* nal_start as the call finds it: where a NAL unit or its next fragment begins,
\* and nal_octet as the number of the NAL unit it belongs to, 0 when it is NULL.
NalStart ==
  LET p == IF FrameLen - pos >= 4 THEN find_next_nal_unit(pos, pos + 4) ELSE NONE
  IN  IF p = NONE THEN [at |-> pos, nal |-> 0]
      ELSE [at |-> Octet(NalAt(p)), nal |-> NalAt(p)]

\* nal_end: the next start code, as far as the MTU lets the call look.
NalEnd(start) ==
  LET p == IF start + mtu + 1 > FrameLen THEN FrameLen ELSE start + mtu + 1
      q == find_next_nal_unit(start, p)
  IN  IF q = NONE THEN p ELSE q

\* Plausible slips: the length of a full fragment is not added, and the header before
\* is looked for one byte too far ahead.
FragmentEmpty(start, end) == IF end - start + 2 <= mtu THEN end ELSE start - 2

HeaderOffByOne(n, start) ==
  IF n.nal # 0 THEN n.nal ELSE IF fu.at = start - mtu + 1 THEN fu.type ELSE 0

\* The call takes the FU-A branch.
Fragmented(n, end) == n.nal = 0 \/ end - n.at > mtu

EndBit(start, end) == end - start + 2 <= mtu

\* Where a fragment ends.
FragmentEnd(start, end) == IF EndBit(start, end) THEN end ELSE start + mtu - 2

\* TYPE, from the NAL unit's first byte or the header of the fragment before.
HeaderType(n, start) ==
  IF n.nal # 0 THEN n.nal ELSE IF fu.at = start - mtu THEN fu.type ELSE 0

\* What pjmedia_unpack_h264 appends.  A payload of two bytes or less is refused,
\* and what was assembled is given up.
Unpacked(p) ==
  IF p.size <= 2 THEN <<>>
  ELSE IF ~p.fuA THEN out \o <<CODE>> \o Bytes(p.from, p.to)
  ELSE IF p.S THEN out \o <<CODE, Octet(p.nal)>> \o Bytes(p.from, p.to)
  ELSE out \o Bytes(p.from, p.to)

\* The rest of a turn: the marker, the header, the queue; the receiver's part.
Sent(p) ==
  LET q == [p EXCEPT !.ucMarker = pos' >= FrameLen]
  IN  pkt' = q /\ out' = Unpacked(q) /\ seq' = (seq + 1) % SeqMod

\* A NAL unit in a payload of its own.
SingleNal ==
  LET n == NalStart
      end == NalEnd(n.at)
  IN  /\ pos < FrameLen
      /\ ~Fragmented(n, end)
      /\ pos' = end
      /\ Sent([NoPacket EXCEPT !.nal = n.nal, !.from = n.at, !.to = end, !.size = end - n.at])
      /\ UNCHANGED <<frame, fu>>

\* The first or a further fragment.  The bytes before a fragment that is not the
\* first must be in the buffer.
FuA ==
  LET n == NalStart
      end == NalEnd(n.at)
      start == IF n.nal # 0 THEN n.at + 1 ELSE n.at
      to == FragmentEnd(start, end)
      type == HeaderType(n, start)
  IN  /\ pos < FrameLen
      /\ Fragmented(n, end)
      /\ n.nal = 0 => n.at >= mtu
      /\ pos' = to
      /\ fu' = [at |-> start - 2, type |-> type]
      /\ Sent([NoPacket EXCEPT !.fuA = TRUE, !.S = n.nal # 0, !.E = EndBit(start, end),
                               !.nal = type, !.from = start, !.to = to, !.size = to - start + 2])
      /\ UNCHANGED frame

\* PJ_ECANCELLED: the caller does not look at the result, and sends the payload it
\* has, the one before.
Cancelled ==
  /\ pos < FrameLen
  /\ NalStart.nal = 0 /\ pos < mtu
  /\ pos' = pos
  /\ Sent(pkt)
  /\ UNCHANGED <<frame, fu>>

\* The frames an encoder may hand over, with or without a start code in front.
Frames(most) ==
  UNION {{f \in [1..n -> [code : Codes \cup {0}, type : {0}, len : Lengths]] :
            \A k \in 2..n : f[k].code # 0} : n \in 1..most}

Init ==
  /\ frame \in Frames(MaxNals)
  /\ pos = 0 /\ pkt = NoPacket /\ seq = 0 /\ out = <<>>
  /\ fu = NoHeader

Next == SingleNal \/ FuA \/ Cancelled

Spec == Init /\ [][Next]_vars
-----------------------------------------------------------------------------
(***************************************************************************)
(* Properties.                                                             *)
(***************************************************************************)

\* The types of the variables.
TypeOK ==
  /\ frame \in Seq([code : Codes \cup {0}, type : {0}, len : Lengths]) /\ frame # <<>>
  /\ pos \in 0..FrameLen
  /\ pkt \in [fuA : BOOLEAN, S : BOOLEAN, E : BOOLEAN, nal : 0..Len(frame),
              from : 0..FrameLen, to : 0..FrameLen, size : 0..mtu, ucMarker : BOOLEAN]
  /\ fu.at \in NONE..FrameLen /\ fu.type \in 0..Len(frame)
  /\ seq \in 0..(SeqMod - 1)
  /\ out \in Seq({CODE} \cup 0..FrameLen)

\* The bytes of the k-th NAL unit left for the last fragment, if it is cut at all:
\* the first byte goes into the header, mtu - 2 of the others into a fragment.
Rest(k) == (frame[k].len - 1) % (mtu - 2)

\* A single byte is left of a NAL unit, and a start code of three bytes is behind:
\* the byte is skipped.
LeavesByte(k) ==
  /\ k < Len(frame) /\ frame[k + 1].code = 3
  /\ frame[k].len >= mtu - 1 /\ Rest(k) = 1

\* The start code of four bytes behind a NAL unit is just out of sight, and its
\* first byte is sent as the last of the NAL unit.
TakesZero(k) ==
  k < Len(frame) /\ frame[k + 1].code = 4 /\ frame[k].len = mtu - 2

\* The receiver has the frame's bytes up to pos, none missing, none twice, in order,
\* provided the frame starts with a start code and no NAL unit in front of another
\* has one of the lengths at which the search for the next start code goes wrong.
Lossless ==
  /\ TypeOK
  /\ (/\ frame[1].code # 0
      /\ \A k \in DOMAIN frame : frame[k].len > 2 /\ ~LeavesByte(k) /\ ~TakesZero(k))
       => out = Expected[pos]

\* The header of a fragment, which is looked up in the buffer where the fragment
\* before left its own, names the NAL unit whose bytes are in the fragment.  It has
\* the E bit if and only if the fragment is the last of its NAL unit, provided that
\* NAL unit is the last one, as it is when a frame is one slice behind its parameter
\* sets.
HeaderOfItsNal ==
  (frame[1].code # 0 /\ pkt.fuA) =>
    /\ pkt.nal # 0 /\ Octet(pkt.nal) < pkt.from /\ pkt.from < End(pkt.nal)
    /\ pkt.nal = Len(frame) => (pkt.E <=> pkt.to = FrameLen)
=============================================================================

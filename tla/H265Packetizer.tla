---------------------------- MODULE H265Packetizer ----------------------------
(***************************************************************************)
(* How packet_and_send_ (vid_stream.c) cuts an H.265 frame into RTP        *)
(* payloads, one per turn of its loop: pjmedia_h265_packetize of           *)
(* packed/h264_packetizer.c, called through get_h265_package (vid_codec.c). *)
(* `out` is what pjmeida_h265_unpacketize makes of the payloads at the     *)
(* other end, when all of them get there.                                  *)
(*                                                                         *)
(* What a call has to remember for the next is in pkt_msg, which is static. *)
(* The length of the frame's first start code is taken for that of all.    *)
(***************************************************************************)
EXTENDS Bitstream

CONSTANTS
  PAYLOAD_SIZE,  \* RTP_H265_PAYLOAD_SIZE, 970
  Lengths,       \* bound: lengths of NAL units
  Codes,         \* bound: lengths of start codes
  MaxNals,       \* bound: NAL units of a frame
  SeqMod         \* 2^16: where sequence numbers wrap

VARIABLES
  pos,     \* enc_packed_pos
  msg,     \* pkt_msg
  pkt,     \* the payload made last; NoPacket before the first
  seq,     \* out_extseq
  out      \* pFrameBuf of the receiver

vars == <<frame, pos, msg, pkt, seq, out>>

\* NAL unit types: what carries parameters or SEI, the slices an E bit may be set
\* for at once (TRAIL_R, IDR), and any other, which TRAIL_N stands for.
PARAM == 32
SLICE == 1
TRAIL_N == 0

NALU_H265_HEADER_SIZE == 4
WITHIN_LENGTH == PAYLOAD_SIZE + NALU_H265_HEADER_SIZE

\* A byte of value 1 that is not one of the frame.
ONE == -3

NoMsg == [nalu_header_len |-> 0, nal_type |-> TRAIL_N, nal |-> 0, fu_packet |-> FALSE,
          start_code |-> FALSE, start |-> FALSE, end |-> FALSE, len |-> 0]

NoPacket == [fu |-> FALSE, S |-> FALSE, E |-> FALSE, nal |-> 0, from |-> 0, to |-> 0,
             code |-> FALSE, ucMarker |-> FALSE]

Left == FrameLen - pos
-----------------------------------------------------------------------------
\* The NAL unit behind the start code at p, if its header is where the first start
\* code's length h makes the call look.  What is there otherwise is a byte of the start
\* code, which reads as type TRAIL_N, or the second one of the header.
NalRead(p, h) == IF p + h = Octet(NalAt(p)) THEN NalAt(p) ELSE 0

TypeRead(p, h) ==
  IF NalRead(p, h) # 0 THEN frame[NalRead(p, h)].type
  ELSE IF p + h = Octet(NalAt(p)) + 1 /\ frame[NalAt(p)].second # 1 THEN SLICE ELSE TRAIL_N

\* Is the NAL unit to be cut?
find_nalu_confirm_fu_packet(p, h) ==
  LET q == find_next_nal_unit(p + h, FrameLen)
  IN  (IF q = NONE THEN FrameLen ELSE q) - p - h >= PAYLOAD_SIZE

\* How much is taken when no next start code is in sight.
Take == IF Left < PAYLOAD_SIZE THEN Left ELSE PAYLOAD_SIZE

\* find_nal_within_len
Within == IF Left < WITHIN_LENGTH THEN Left ELSE WITHIN_LENGTH

\* packetize_rtp_payload_msg where no start code is ahead: a further piece.
MessageInside(m) ==
  LET q == find_next_nal_unit(pos, pos + Within)
  IN  [m EXCEPT !.start_code = FALSE, !.start = FALSE,
                !.len = IF q = NONE THEN Take ELSE q - pos,
                !.end = q # NONE \/ Left < PAYLOAD_SIZE]

\* The same where one is: a NAL unit, or the first piece of one.
MessageAt(p, m) ==
  LET h == m.nalu_header_len
      q == find_next_nal_unit(p + h, p + Within)
      type == TypeRead(p, h)
  IN  [m EXCEPT !.start_code = TRUE, !.nal_type = type, !.nal = NalRead(p, h),
                !.start = type # PARAM,
                !.fu_packet = IF type = PARAM THEN @ ELSE find_nalu_confirm_fu_packet(p, h),
                !.len = IF q = NONE THEN Take ELSE q - p,
                !.end = IF q = NONE THEN Left < PAYLOAD_SIZE ELSE type = SLICE]

\* A plausible slip: the mark of a first piece stays.
MessageKept(m) ==
  LET p == find_next_nal_unit(pos, pos + NALU_H265_HEADER_SIZE)
  IN  IF p = NONE THEN [MessageInside(m) EXCEPT !.start = m.start] ELSE MessageAt(p, m)

packetize_rtp_payload_msg(m) ==
  LET p == find_next_nal_unit(pos, pos + NALU_H265_HEADER_SIZE)
  IN  IF p = NONE THEN MessageInside(m) ELSE MessageAt(p, m)

\* pkt_msg after the call's search; it starts afresh with a frame.
Message ==
  packetize_rtp_payload_msg(
    IF pos = 0 THEN [NoMsg EXCEPT !.nalu_header_len = frame[1].code] ELSE msg)

\* The second byte of the header that is rebuilt from a first fragment: it is not that of
\* the NAL unit, which the fragments do not have, but the constant of their own header.
SecondRebuilt(k) == IF frame[k].second = 1 THEN Octet(k) + 1 ELSE ONE

\* What pjmeida_h265_unpacketize may append.  Less than three bytes, an empty
\* fragment, and one that is the first and the last are refused, and what was
\* assembled is given up.  Where a payload does not begin with a NAL unit's header
\* its bytes decide whether it is refused or taken for a NAL unit.
Unpacked(p) ==
  LET bytes == Bytes(p.from, p.to)
      header == IF p.nal = 0 THEN <<NONE, NONE>> ELSE <<Octet(p.nal), SecondRebuilt(p.nal)>>
  IN  IF p.fu
      THEN IF p.from = p.to \/ (p.S /\ p.E) THEN {<<>>}
           ELSE IF p.S THEN {out \o <<CODE>> \o header \o bytes} ELSE {out \o bytes}
      ELSE IF p.to - p.from < 3 THEN {<<>>}
      ELSE IF \E k \in DOMAIN frame : p.from = Octet(k) THEN {out \o <<CODE>> \o bytes}
      ELSE {<<>>, out \o <<CODE>> \o bytes}

\* The rest of a turn: the marker, the header, the queue; the receiver's part.
Sent(p) ==
  LET q == [p EXCEPT !.ucMarker = pos' >= FrameLen]
  IN  pkt' = q /\ out' \in Unpacked(q) /\ seq' = (seq + 1) % SeqMod

\* The call's payload begins behind the start code, if it found one, and a first
\* fragment's begins behind the NAL unit's header, too.
Piece(m) ==
  LET skipped == (IF m.start_code THEN m.nalu_header_len ELSE 0)
                 + (IF m.fu_packet /\ m.start_code THEN 2 ELSE 0)
  IN  [NoPacket EXCEPT !.fu = m.fu_packet, !.S = m.fu_packet /\ m.start,
                       !.E = m.fu_packet /\ m.end, !.nal = m.nal, !.code = m.start_code,
                       !.from = pos + skipped, !.to = pos + m.len]

\* Parameters, and NAL units shorter than a payload.
SingleNal ==
  LET m == Message
      whole == [m EXCEPT !.fu_packet = FALSE]
  IN  /\ pos < FrameLen /\ FrameLen >= NALU_H265_HEADER_SIZE
      /\ m.nal_type = PARAM \/ ~m.fu_packet
      /\ pos' = Piece(whole).to
      /\ msg' = m
      /\ Sent(Piece(whole))
      /\ UNCHANGED frame

Fu ==
  LET m == Message
  IN  /\ pos < FrameLen /\ FrameLen >= NALU_H265_HEADER_SIZE
      /\ m.nal_type # PARAM /\ m.fu_packet
      /\ pos' = Piece(m).to
      /\ msg' = m
      /\ Sent(Piece(m))
      /\ UNCHANGED frame

\* "no h265 bitstreams": the caller does not look at the result, and sends the
\* payload it has, which is empty.
TooShort ==
  /\ pos < FrameLen /\ FrameLen < NALU_H265_HEADER_SIZE
  /\ pos' = pos
  /\ Sent(pkt)
  /\ UNCHANGED <<frame, msg>>

\* A NAL unit; its header's second byte is 1, for the one layer there is and the lowest
\* temporal sub-layer, or 2, for the next.
Nals == [code : Codes \cup {0}, type : {PARAM, SLICE, TRAIL_N}, second : {1, 2}, len : Lengths]

\* The frames an encoder may hand over, with or without a start code in front.
Frames(most) ==
  UNION {{f \in [1..n -> Nals] :
            \A k \in 2..n : f[k].code # 0} : n \in 1..most}

Init ==
  /\ frame \in Frames(MaxNals)
  /\ pos = 0 /\ msg = NoMsg /\ pkt = NoPacket /\ seq = 0 /\ out = <<>>

Next == SingleNal \/ Fu \/ TooShort

Spec == Init /\ [][Next]_vars
-----------------------------------------------------------------------------
(***************************************************************************)
(* Properties.                                                             *)
(***************************************************************************)

\* The types of the variables.
TypeOK ==
  /\ frame \in Seq(Nals) /\ frame # <<>>
  /\ pos \in 0..FrameLen
  /\ msg \in [nalu_header_len : Codes \cup {0}, nal_type : {PARAM, SLICE, TRAIL_N},
              nal : Nat, fu_packet : BOOLEAN, start_code : BOOLEAN,
              start : BOOLEAN, end : BOOLEAN, len : 0..(PAYLOAD_SIZE + 1)]
  /\ pkt \in [fu : BOOLEAN, S : BOOLEAN, E : BOOLEAN, nal : 0..Len(frame), code : BOOLEAN,
              from : 0..FrameLen, to : 0..FrameLen, ucMarker : BOOLEAN]
  /\ seq \in 0..(SeqMod - 1)
  /\ out \in Seq({CODE, NONE, ONE} \cup 0..FrameLen)

\* All start codes have the length of the first, which is there.
SameCodes == frame[1].code # 0 /\ \A k \in DOMAIN frame : frame[k].code = frame[1].code

\* A NAL unit that is not cut into fragments is with its start code longer than a
\* payload, and the start code behind it is out of sight: what exceeds the payload
\* is sent by itself.
Splits(k) ==
  /\ frame[k].len < PAYLOAD_SIZE \/ frame[k].type = PARAM
  /\ frame[k].code + frame[k].len > PAYLOAD_SIZE
  /\ ~(k < Len(frame) /\ 2 * frame[k].code + frame[k].len <= WITHIN_LENGTH)

\* A byte as the receiver has it: the second one of the header of a NAL unit that is cut
\* comes as a 1, whatever it was.
Rebuilt(p) ==
  IF \E k \in DOMAIN frame :
       /\ frame[k].type # PARAM /\ frame[k].len >= PAYLOAD_SIZE /\ frame[k].second # 1
       /\ p = Octet(k) + 1
  THEN ONE ELSE p

Received(bytes) == [i \in DOMAIN bytes |-> Rebuilt(bytes[i])]

\* The receiver has the frame's bytes up to pos, none missing, none twice, in order, each
\* as it was but for those second bytes, provided all start codes are as long as the first
\* and no NAL unit has one of the lengths at which a NAL unit that is not cut does not fit
\* its payload.
Lossless ==
  /\ TypeOK
  /\ (SameCodes /\ \A k \in DOMAIN frame : frame[k].len > 2 /\ ~Splits(k)) =>
       out = Received(Expected[pos])

\* A fragment has the NAL unit whose type is in pkt_msg from the calls before.  The S
\* bit is on the first of them alone, the E bit on a fragment that ends its NAL unit,
\* never on another, and if there is a NAL unit behind, none ends without it.
FragmentOfItsNal ==
  (SameCodes /\ pkt.fu) =>
    /\ pkt.nal # 0 /\ Octet(pkt.nal) + 2 <= pkt.from /\ pkt.to <= End(pkt.nal)
    /\ pkt.S <=> pkt.from = Octet(pkt.nal) + 2
    /\ pkt.E => pkt.to = End(pkt.nal)
    /\ (pkt.to = End(pkt.nal) /\ pkt.nal < Len(frame)) => pkt.E
=============================================================================

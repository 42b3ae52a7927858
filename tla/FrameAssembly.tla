---------------------------- MODULE FrameAssembly ----------------------------
(***************************************************************************)
(* The assembly of video frames from RTP packets: packed/dealrtpunpack.c,   *)
(* driven by RTPUnpackH264 of packed/callCplus.c, which the playing thread  *)
(* calls for each packet it takes from the jitter buffer.                  *)
(*                                                                         *)
(* The unpacker is one record, u, which every packet updates.  Its frame   *)
(* buffer is the sequence of the packets whose payload was appended to it. *)
(* B frames are treated like P frames by the code, and are left out.       *)
(*                                                                         *)
(* The packets are those the sending side of the library makes of groups   *)
(* of pictures: parameter sets, an I frame, P frames, each a call of       *)
(* packet_and_send_ with its own timestamp and the marker on its last      *)
(* packet.  On the way to the unpacker a packet may be lost, and in its    *)
(* place the jitter buffer may hand over an old one (see JitterBuffer).    *)
(***************************************************************************)
EXTENDS Integers, Sequences, FiniteSets

CONSTANTS
  Codecs,      \* the codecs a stream may have
  SeqMod,      \* 2^16, the width of an RTP sequence number
  Lap,         \* slots of the jitter buffer, 0 if it replays nothing
  Longest,     \* bound: packets of a frame
  NumPackets   \* bound: packets of the stream

ASSUME Assumption ==
  /\ Codecs \subseteq {"H264", "H265"}
  /\ SeqMod \in Nat /\ Longest \in Nat /\ Longest < SeqMod
  /\ Lap \in Nat /\ NumPackets \in Nat

VARIABLES
  u,           \* *pUnpack
  status,      \* what the last call of pjmedia_unpack_rtp_h264 returned
  preFrame,    \* stPreFrame: the last frame finished
  \* the stream
  sent,        \* the packets sent so far
  todo,        \* the rest of the frame being sent
  \* history, read by properties only
  lostInGop,   \* a packet of this group of pictures did not come as sent
  failed,      \* something was given up after the last I frame that was finished
  idrSeen,     \* an I frame was finished after the last parameter sets
  simple       \* one slice a frame, nothing old, nothing behind a remnant: see WholeP

vars == <<u, status, preFrame, sent, todo, lostInGop, failed, idrSeen, simple>>

START == "START"
MIDDLE == "MIDDLE"
FINISH == "FINISH"
FAILURE == "FAILURE"
ERROR == "ERROR"

\* iFrameType
I == 1
P == 2
-----------------------------------------------------------------------------
(***************************************************************************)
(* The packets.                                                            *)
(***************************************************************************)

ParamSets == IF u.nCodecID = "H264" THEN <<"SPS", "PPS">> ELSE <<"VPS", "SPS", "PPS">>

\* A slice is a whole packet, its header tells the first one of a frame from the next
\* ones, or n fragments.
Slice(whole, n) ==
  IF n = 1 THEN <<whole>>
  ELSE [i \in 1..n |-> IF i = 1 THEN "start" ELSE IF i = n THEN "end" ELSE "middle"]

\* How a frame may be cut into packets: one slice, with or without a SEI in front, or two.
SliceShapes ==
  {Slice("first", n) : n \in 1..Longest}
    \cup {<<"SEI">> \o Slice("first", n) : n \in 1..(Longest - 1)}
    \cup {Slice("first", c[1]) \o Slice("next", c[2]) :
             c \in {d \in (1..Longest) \X (1..Longest) : d[1] + d[2] <= Longest}}

\* The packets of a frame of type t (0 for parameter sets).  `frame` is its
\* number and its timestamp, `index` and `size` place the packet in it.
FramePackets(shape, t) ==
  LET n == Len(sent)
      frame == IF sent = <<>> THEN 1 ELSE sent[n].frame + 1
  IN  [i \in DOMAIN shape |->
         [kind |-> shape[i], type |-> t, no |-> n + i - 1, usSeq |-> (n + i - 1) % SeqMod,
          ucMarker |-> i = Len(shape), uTimeStamp |-> frame, frame |-> frame,
          index |-> i, size |-> Len(shape)]]

IsParam(p) == p.kind \in {"VPS", "SPS", "PPS", "SEI"}
IsSlice(p) == p.kind \in {"first", "next"}
IsFragment(p) == p.kind \in {"start", "middle", "end"}
BeginsSlice(p) == p.kind \in {"first", "next", "start"}
-----------------------------------------------------------------------------
(***************************************************************************)
(* The unpacker.                                                           *)
(***************************************************************************)

pjmedia_unpack_reset_buf(v) ==
  [v EXCEPT !.iFrameType = 0, !.buf = <<>>, !.usRtpCnt = 0, !.usRtpESeq = -1,
            !.usRtpSSeq = -1, !.bLenom = FALSE, !.uTimeStamp = 0]

\* bSPS is left alone: in its place bPPS is cleared twice.
pjmedia_unpack_reset_frame(v) ==
  [pjmedia_unpack_reset_buf(v) EXCEPT !.bVPS = FALSE, !.bPPS = FALSE, !.bIDR = FALSE]

\* A plausible slip: the marker is left on.
MarkerKept(p) == p.ucMarker

\* pjmedia_parse_rtp_packet takes the marker off H.264 parameter sets.
ucMarker(p) == p.ucMarker /\ ~(u.nCodecID = "H264" /\ IsParam(p))

\* The first NAL unit of a group of pictures forgets what came before.
CheckParam(p, v) ==
  CASE p.kind = "VPS" ->
         [pjmedia_unpack_reset_frame(v) EXCEPT !.iFrameType = I, !.bVPS = TRUE]
    [] p.kind = "SPS" /\ v.nCodecID = "H264" ->
         [pjmedia_unpack_reset_frame(v) EXCEPT !.iFrameType = I, !.bSPS = TRUE]
    [] p.kind = "SPS" /\ v.nCodecID = "H265" -> [v EXCEPT !.bSPS = TRUE]
    [] p.kind = "PPS" -> [v EXCEPT !.bPPS = TRUE]
    [] p.kind = "SEI" -> v

\* A whole slice: the first one of a P frame starts the buffer anew.
CheckSlice(p, v) ==
  LET first == p.kind = "first"
      w == IF first /\ p.type = P THEN pjmedia_unpack_reset_buf(v) ELSE v
  IN  [w EXCEPT !.iFrameType = p.type,
                !.usRtpSSeq = IF first THEN p.usSeq ELSE @,
                !.usRtpESeq = IF ucMarker(p) THEN p.usSeq ELSE @]

\* A fragment: the first one of a P frame with a new timestamp starts the buffer
\* anew, unless the fragment before ended a slice but not its frame (bLenom).
CheckFragment(p, v) ==
  LET anew == /\ p.kind = "start" /\ p.type = P
              /\ ~v.bLenom /\ v.uTimeStamp # p.uTimeStamp
      w == [(IF anew THEN pjmedia_unpack_reset_buf(v) ELSE v) EXCEPT !.iFrameType = p.type]
  IN  CASE p.kind = "start" -> [w EXCEPT !.usRtpSSeq = IF @ = -1 THEN p.usSeq ELSE @]
        [] p.kind = "end" -> [w EXCEPT !.usRtpESeq = IF ucMarker(p) THEN p.usSeq ELSE @,
                                       !.bLenom = ~ucMarker(p)]
        [] p.kind = "middle" -> w

\* pjmedia_unpack_check_nal and pjmedia_unpack_check_h265_nal.
CheckNal(p, v) ==
  [(IF IsParam(p) THEN CheckParam(p, v)
    ELSE IF IsSlice(p) THEN CheckSlice(p, v) ELSE CheckFragment(p, v))
     EXCEPT !.uTimeStamp = p.uTimeStamp]

\* pjmedia_unpack_h264 and pjmeida_h265_unpacketize append the payload; what is
\* not a parameter set or SEI is counted.
Unpack(p, v) ==
  [v EXCEPT !.buf = Append(@, p), !.usRtpCnt = IF IsParam(p) THEN @ ELSE @ + 1]

\* A plausible slip: the end is not counted.
GapShort(v) == (v.usRtpESeq + SeqMod - v.usRtpSSeq) % SeqMod

usSeqGap(v) == (v.usRtpESeq + 1 + SeqMod - v.usRtpSSeq) % SeqMod

\* A plausible slip: P frames are not checked either.
CheckFrameNever(v) ==
  /\ v.nCodecID = "H265" => v.bVPS
  /\ v.bSPS /\ v.bPPS

\* Missing packets of an I frame are only logged.
pjmedia_unpack_check_frame(v) ==
  /\ v.nCodecID = "H265" => v.bVPS
  /\ v.bSPS /\ v.bPPS
  /\ v.iFrameType = I \/ usSeqGap(v) = v.usRtpCnt

\* The outcome for a packet that has been appended: the unpacker, what is
\* returned, and whether the frame goes to stPreFrame.
Finished(v) ==
  [u |-> pjmedia_unpack_reset_buf(v), status |-> FINISH, frame |-> v.buf]
Failed(v) ==
  [u |-> pjmedia_unpack_reset_frame(v), status |-> FAILURE, frame |-> <<>>]
Unfinished(v, s) == [u |-> v, status |-> s, frame |-> <<>>]

Outcome(p, v) ==
  LET w == [v EXCEPT !.usRtpESeq = p.usSeq]
  IN  CASE v.iFrameType = 0 -> Unfinished(v, IF IsParam(p) THEN START ELSE ERROR)
        [] v.iFrameType # 0 /\ ~ucMarker(p) -> Unfinished(v, MIDDLE)
        [] v.iFrameType = I /\ ucMarker(p) ->
             IF pjmedia_unpack_check_frame(v)
             THEN Finished([v EXCEPT !.bIDR = TRUE]) ELSE Failed(v)
        [] v.iFrameType = P /\ ucMarker(p) ->
             IF pjmedia_unpack_check_frame(w) /\ w.bIDR THEN Finished(w) ELSE Failed(w)

\* A fragmented slice is begun, as the first one it seems, behind packets of a frame
\* whose beginning was lost: a P frame with a SEI in front, or an I frame whose
\* group's first packet was lost, does not start the buffer anew.
BehindRemnant(p, v) == p.kind = "start" /\ v.usRtpSSeq = -1 /\ CheckNal(p, v).usRtpCnt > 0

\* pjmedia_unpack_rtp_h264, for a packet of a type it knows.
pjmedia_unpack_rtp_h264(p) ==
  LET o == Outcome(p, Unpack(p, CheckNal(p, u)))
  IN  /\ u' = o.u
      /\ status' = o.status
      /\ preFrame' = IF o.status = FINISH THEN o.frame ELSE preFrame
      /\ failed' = (o.status = FAILURE
                    \/ (failed /\ ~(o.status = FINISH /\ p.type = I)))
      /\ idrSeen' = ((o.status = FINISH /\ p.type = I)
                     \/ (idrSeen /\ ~(IsParam(p) /\ p.index = 1 /\ p.type = 0)))
-----------------------------------------------------------------------------
(***************************************************************************)
(* The stream.                                                             *)
(***************************************************************************)

Submit(shape, t) ==
  /\ Len(sent) + Len(shape) <= NumPackets
  /\ todo' = FramePackets(shape, t)

\* A group of pictures begins with parameter sets; then an I frame must come.
NextFrame ==
  /\ todo = <<>>
  /\ IF sent # <<>> /\ sent[Len(sent)].type = 0
     THEN \E shape \in SliceShapes : Submit(shape, I)
     ELSE \/ Submit(ParamSets, 0)
          \/ sent # <<>> /\ \E shape \in SliceShapes : Submit(shape, P)
  /\ lostInGop' = (lostInGop /\ todo'[1].type # 0)
  /\ simple' = (simple /\ \A i, j \in DOMAIN todo' :
                             BeginsSlice(todo'[i]) /\ BeginsSlice(todo'[j]) => i = j)
  /\ UNCHANGED <<u, status, preFrame, sent, failed, idrSeen>>

Advance ==
  /\ todo # <<>>
  /\ todo' = Tail(todo)
  /\ sent' = Append(sent, Head(todo))

Arrive ==
  /\ Advance
  /\ pjmedia_unpack_rtp_h264(Head(todo))
  /\ simple' = (simple /\ ~BehindRemnant(Head(todo), u))
  /\ UNCHANGED lostInGop

Lose ==
  /\ Advance
  /\ lostInGop' = TRUE
  /\ UNCHANGED <<u, status, preFrame, failed, idrSeen, simple>>

\* The jitter buffer gives the packet up and hands over what is in its slot.
Replay ==
  /\ Lap > 0 /\ Len(sent) >= Lap
  /\ Advance
  /\ pjmedia_unpack_rtp_h264(sent[Len(sent) + 1 - Lap])
  /\ lostInGop' = TRUE
  /\ simple' = FALSE

\* A payload of two bytes or less, or a NAL type that is not known: what was
\* assembled is given up.
Unsupported ==
  /\ Advance
  /\ u' = pjmedia_unpack_reset_frame(u)
  /\ status' = ERROR
  /\ lostInGop' = TRUE
  /\ failed' = TRUE
  /\ UNCHANGED <<preFrame, idrSeen, simple>>

\* Launch_CPlus resets what malloc returned; bSPS is the one field no one sets.
Init ==
  /\ \E codec \in Codecs, bSPS \in BOOLEAN :
       u = [nCodecID |-> codec, iFrameType |-> 0, buf |-> <<>>, usRtpCnt |-> 0, usRtpSSeq |-> -1,
            usRtpESeq |-> -1, bVPS |-> FALSE, bSPS |-> bSPS, bPPS |-> FALSE,
            bIDR |-> FALSE, bLenom |-> FALSE, uTimeStamp |-> 0]
  /\ status = START
  /\ preFrame = <<>>
  /\ sent = <<>> /\ todo = <<>>
  /\ lostInGop = FALSE /\ failed = FALSE /\ idrSeen = FALSE /\ simple = TRUE

Next == NextFrame \/ Arrive \/ Lose \/ Replay \/ Unsupported

Spec == Init /\ [][Next]_vars
-----------------------------------------------------------------------------
(***************************************************************************)
(* Properties.                                                             *)
(***************************************************************************)

PacketType ==
  [kind : {"VPS", "SPS", "PPS", "SEI", "first", "next", "start", "middle", "end"},
   type : {0, I, P}, no : 0..(NumPackets - 1), usSeq : 0..(SeqMod - 1),
   ucMarker : BOOLEAN, uTimeStamp : 1..NumPackets, frame : 1..NumPackets,
   index : 1..NumPackets, size : 1..NumPackets]

\* The types of the variables; no more packets are counted than were appended.
TypeOK ==
  /\ u \in [nCodecID : Codecs, iFrameType : {0, I, P}, buf : Seq(PacketType), usRtpCnt : 0..Len(u.buf),
            usRtpSSeq : -1..(SeqMod - 1), usRtpESeq : -1..(SeqMod - 1),
            bVPS : BOOLEAN, bSPS : BOOLEAN, bPPS : BOOLEAN, bIDR : BOOLEAN,
            bLenom : BOOLEAN, uTimeStamp : 0..NumPackets]
  /\ status \in {START, MIDDLE, FINISH, FAILURE, ERROR}
  /\ preFrame \in Seq(PacketType)
  /\ sent \in Seq(PacketType) /\ todo \in Seq(PacketType)
  /\ {lostInGop, failed, idrSeen, simple} \subseteq BOOLEAN

Last(s) == s[Len(s)]

\* f ends with the packets of all slices of one frame, from the beginning of the first
\* to the frame's end without a gap; in front of these are only parameter sets and SEIs,
\* and nothing else but a SEI is in front of them in the frame.
IsWhole(f) ==
  LET n == Len(f)
  IN  /\ n > 0 /\ f[n].index = f[n].size
      /\ \E k \in 1..n :
           /\ \A i \in 1..(k - 1) : IsParam(f[i])
           /\ \A i \in k..n :
                ~IsParam(f[i]) /\ f[i].frame = f[n].frame /\ f[i].no = f[n].no - n + i
           /\ f[k].kind \in {"first", "start"}
           /\ f[k].index = 1 \/ (f[k].index = 2 /\ sent[f[k].no].kind = "SEI")

FinishedP == status = FINISH /\ Last(preFrame).type = P

\* While every frame is one slice, nothing old takes a lost packet's place and nothing is
\* put behind a remnant, a P frame handed to the decoder lacks none of its packets and has
\* no others, whatever was lost.  The unpacker compares the number of packets with the
\* distance of two sequence numbers, which do not wrap here.
WholeP == TypeOK /\ (FinishedP /\ simple => IsWhole(preFrame))

\* H.264: a P frame is handed to the decoder only if its group's I frame was, and no
\* frame was given up since: it could refer to one that is missing.
PFollowsIdr == FinishedP /\ u.nCodecID = "H264" => idrSeen /\ ~failed

\* Whatever was lost before, from new parameter sets on every frame whose group
\* of pictures has come as it was sent is handed over, when its last packet is
\* there, and whole.
HealsAtGop ==
  (sent # <<>> /\ todo = <<>> /\ Last(sent).type # 0 /\ ~lostInGop) =>
    status = FINISH /\ Last(preFrame) = Last(sent) /\ IsWhole(preFrame)
=============================================================================

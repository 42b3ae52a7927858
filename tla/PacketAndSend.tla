---------------------------- MODULE PacketAndSend ----------------------------
(***************************************************************************)
(* packet_and_send_ of vid_stream.c: the frames of a stream, one call for  *)
(* each, are cut into RTP payloads by the packetizer of the stream's codec, *)
(* H264Packetizer or H265Packetizer, one payload per turn of its loop.     *)
(*                                                                         *)
(* From one call to the next the session keeps its sequence number, and    *)
(* the H.265 packetizer what it has noted, which is static; the payload in *)
(* the making, and the buffer with what was written into it, are new.      *)
(***************************************************************************)
EXTENDS Bitstream

CONSTANTS
  mtu,           \* of H.264 payloads, 1300
  PAYLOAD_SIZE,  \* of H.265 payloads, 970
  LengthsH264, LengthsH265,  \* bound: lengths of NAL units
  NalsH264, NalsH265,        \* bound: NAL units of the first frame
  NalsLater,     \* bound: NAL units of the frames behind it
  Codes,         \* bound: lengths of start codes
  SeqMod         \* 2^16: where sequence numbers wrap

ASSUME Assumption ==
  /\ mtu \in Nat /\ mtu > 3
  /\ PAYLOAD_SIZE \in Nat /\ PAYLOAD_SIZE > 6
  /\ LengthsH264 \cup LengthsH265 \subseteq Nat \ {0} /\ 1 \notin LengthsH265
  /\ {NalsH264, NalsH265, NalsLater} \subseteq Nat
  /\ Codes \subseteq {3, 4} /\ SeqMod \in Nat \ {0}

VARIABLES
  codecType,   \* of the stream: "H264" or "H265"
  pos,         \* enc_packed_pos
  pkt,         \* the payload made last
  fu,          \* H.264: the FU header in the buffer
  msg,         \* H.265: pkt_msg
  seq,         \* out_extseq
  out          \* pFrameBuf of the receiver

vars == <<frame, codecType, pos, pkt, fu, msg, seq, out>>

H264 == INSTANCE H264Packetizer WITH Lengths <- LengthsH264, MaxNals <- NalsH264
H265 == INSTANCE H265Packetizer WITH Lengths <- LengthsH265, MaxNals <- NalsH265
-----------------------------------------------------------------------------
\* vid_stream_create sets the codec.
Init ==
  \/ codecType = "H264" /\ H264!Init /\ msg = H265!NoMsg
  \/ codecType = "H265" /\ H265!Init /\ fu = H264!NoHeader

\* The next call.
packet_and_send ==
  /\ pos >= FrameLen
  /\ \/ codecType = "H264" /\ frame' \in H264!Frames(NalsLater) /\ pkt' = H264!NoPacket
     \/ codecType = "H265" /\ frame' \in H265!Frames(NalsLater) /\ pkt' = H265!NoPacket
  /\ pos' = 0 /\ out' = <<>> /\ fu' = H264!NoHeader
  /\ UNCHANGED <<codecType, msg, seq>>

\* A turn of the loop.
get_package ==
  \/ codecType = "H264" /\ H264!Next /\ UNCHANGED <<codecType, msg>>
  \/ codecType = "H265" /\ H265!Next /\ UNCHANGED <<codecType, fu>>

Next == packet_and_send \/ get_package

Spec == Init /\ [][Next]_vars
-----------------------------------------------------------------------------
(***************************************************************************)
(* Properties.                                                             *)
(***************************************************************************)

\* Of every frame the receiver has the bytes sent so far, none missing, none twice,
\* in order, whatever frames came before, but for the frames each packetizer's
\* property of this name excepts.  H.265: a byte that is not sent is rebuilt, and not
\* always as it was; the property says which.
Lossless == IF codecType = "H264" THEN H264!Lossless ELSE H265!Lossless

\* H.264: the header of a fragment names the NAL unit whose bytes are in it.
HeaderOfItsNal == codecType = "H264" => H264!HeaderOfItsNal

\* H.265: a fragment is of the NAL unit its header names, which the notes of an
\* earlier call tell, and has the S and E bits if it is the first or last of it.
FragmentOfItsNal == codecType = "H265" => H265!FragmentOfItsNal

\* Every turn of the loop gets on in a frame that begins with a start code, so the
\* loop comes to the frame's end.
GetsOn == [][get_package /\ frame[1].code # 0 => pos' > pos]_vars
=============================================================================

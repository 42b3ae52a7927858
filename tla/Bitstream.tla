------------------------------- MODULE Bitstream -------------------------------
(***************************************************************************)
(* A frame in the buffer the encoder hands over: NAL units, each behind a  *)
(* start code of three or four bytes.  The packetizers of                  *)
(* packed/h264_packetizer.c look for start codes in windows of the buffer; *)
(* a byte is known here by its position, counted from 0.                   *)
(*                                                                         *)
(* NAL units contain no start code and do not end in a zero (the encoder   *)
(* sees to that), and nothing that looks like a start code lies behind the *)
(* buffer, where the H.265 packetizer looks, too.                          *)
(***************************************************************************)
EXTENDS Integers, Sequences, FiniteSetsExt

VARIABLE frame   \* the NAL units: [code : 0, 3 or 4, type, len, ...]; 0 where it is missing

\* Where the k-th NAL unit's start code is; for k = Len(frame) + 1, the end.
Begin[k \in 1..(Len(frame) + 1)] ==
  IF k = 1 THEN 0 ELSE Begin[k - 1] + frame[k - 1].code + frame[k - 1].len

\* Where its first byte is, and where it ends.
Octet(k) == Begin[k] + frame[k].code
End(k) == Begin[k + 1]
FrameLen == Begin[Len(frame) + 1]

NONE == -1

\* A plausible slip: the leading zero of a start code is left to the NAL unit
\* before it.
FindWithoutZero(start, end) ==
  LET found == {p \in start..(end - 3) :
                  \E k \in DOMAIN frame : frame[k].code # 0 /\ p = Octet(k) - 3}
  IN  IF found = {} THEN NONE ELSE Min(found)

\* The first start code that lies between start and end, with its leading zero if
\* that lies there, too.
find_next_nal_unit(start, end) ==
  LET found == {p \in start..(end - 3) :
                  \E k \in DOMAIN frame : frame[k].code # 0 /\ p = Octet(k) - 3}
  IN  IF found = {} THEN NONE
      ELSE IF Min(found) > start /\ \E k \in DOMAIN frame :
                frame[k].code = 4 /\ Begin[k] = Min(found) - 1
           THEN Min(found) - 1 ELSE Min(found)

\* The NAL unit behind the start code at p.
NalAt(p) == CHOOSE k \in DOMAIN frame : Begin[k] <= p /\ p < Octet(k)

\* What a receiver's buffer holds: bytes, and start codes it wrote itself.
CODE == -2

\* What the byte at p adds to it: a start code when that ends there, or itself.
Token(p) ==
  IF \E k \in DOMAIN frame : p = Octet(k) - 1 THEN CODE
  ELSE IF \E k \in DOMAIN frame : Octet(k) <= p /\ p < End(k) THEN p
  ELSE NONE

\* A receiver that has been sent the first n bytes should hold this.
Expected[n \in 0..FrameLen] ==
  IF n = 0 THEN <<>>
  ELSE IF Token(n - 1) = NONE THEN Expected[n - 1] ELSE Append(Expected[n - 1], Token(n - 1))

Bytes(from, to) == [i \in 1..(to - from) |-> from + i - 1]
=============================================================================

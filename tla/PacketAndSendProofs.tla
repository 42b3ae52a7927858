-------------------------- MODULE PacketAndSendProofs --------------------------
(***************************************************************************)
(* Proofs about PacketAndSend, for frames of any number of NAL units of    *)
(* any lengths, and for any sizes of payloads.                             *)
(***************************************************************************)
EXTENDS PacketAndSend, NumberLemmas, SequenceTheorems, TLAPS

(***************************************************************************)
(* The frame: where its NAL units are.                                     *)
(***************************************************************************)

\* What all frames of an encoder have in common.
FrameOK ==
  /\ Len(frame) \in Nat \ {0} /\ DOMAIN frame = 1..Len(frame)
  /\ \A k \in DOMAIN frame :
       frame[k].code \in {0, 3, 4} /\ frame[k].len \in Nat \ {0} /\ (k > 1 => frame[k].code # 0)

\* Each packetizer has its own instance of Bitstream, about the same frame.
LEMMA SameBegin == H264!Begin = Begin /\ H265!Begin = Begin
BY DEF H264!Begin, H265!Begin, Begin

LEMMA SamePlaces ==
  /\ H264!FrameLen = FrameLen /\ H265!FrameLen = FrameLen
  /\ \A k : H264!Octet(k) = Octet(k) /\ H265!Octet(k) = Octet(k)
  /\ \A k : H264!End(k) = End(k) /\ H265!End(k) = End(k)
BY SameBegin DEF H264!FrameLen, H265!FrameLen, FrameLen, H264!Octet, H265!Octet, Octet,
                 H264!End, H265!End, End

LEMMA SameFind ==
  \A a, b : /\ H264!find_next_nal_unit(a, b) = find_next_nal_unit(a, b)
            /\ H265!find_next_nal_unit(a, b) = find_next_nal_unit(a, b)
<1>1. \A S : H264!Min(S) = Min(S) /\ H265!Min(S) = Min(S)
  BY DEF H264!Min, H265!Min, Min
<1>2. H264!NONE = NONE /\ H265!NONE = NONE
  BY DEF H264!NONE, H265!NONE, NONE
<1> TAKE a, b
<1> DEFINE found == {p \in a..(b - 3) :
                       \E k \in DOMAIN frame : frame[k].code # 0 /\ p = Octet(k) - 3}
           found4 == {p \in a..(b - 3) :
                       \E k \in DOMAIN frame : frame[k].code # 0 /\ p = H264!Octet(k) - 3}
           found5 == {p \in a..(b - 3) :
                       \E k \in DOMAIN frame : frame[k].code # 0 /\ p = H265!Octet(k) - 3}
<1>3. found4 = found /\ found5 = found
  BY SamePlaces
<1>4. H264!find_next_nal_unit(a, b) = find_next_nal_unit(a, b)
  <2>1. H264!find_next_nal_unit(a, b) =
          IF found4 = {} THEN H264!NONE
          ELSE IF H264!Min(found4) > a /\ \E k \in DOMAIN frame :
                    frame[k].code = 4 /\ H264!Begin[k] = H264!Min(found4) - 1
               THEN H264!Min(found4) - 1 ELSE H264!Min(found4)
    BY DEF H264!find_next_nal_unit
  <2>2. QED
    BY <1>1, <1>2, <1>3, <2>1, SameBegin DEF find_next_nal_unit
<1>5. H265!find_next_nal_unit(a, b) = find_next_nal_unit(a, b)
  <2>1. H265!find_next_nal_unit(a, b) =
          IF found5 = {} THEN H265!NONE
          ELSE IF H265!Min(found5) > a /\ \E k \in DOMAIN frame :
                    frame[k].code = 4 /\ H265!Begin[k] = H265!Min(found5) - 1
               THEN H265!Min(found5) - 1 ELSE H265!Min(found5)
    BY DEF H265!find_next_nal_unit
  <2>2. QED
    BY <1>1, <1>2, <1>3, <2>1, SameBegin DEF find_next_nal_unit
<1>6. QED
  BY <1>4, <1>5

LEMMA SameNalAt ==
  \A p : H264!NalAt(p) = NalAt(p) /\ H265!NalAt(p) = NalAt(p)
BY SameBegin, SamePlaces DEF H264!NalAt, H265!NalAt, NalAt

LEMMA SameToken ==
  \A p : H264!Token(p) = Token(p) /\ H265!Token(p) = Token(p)
BY SamePlaces DEF H264!Token, H265!Token, Token, H264!CODE, H265!CODE, CODE,
                  H264!NONE, H265!NONE, NONE

LEMMA SameExpected == H264!Expected = Expected /\ H265!Expected = Expected
BY SameToken, SamePlaces DEF H264!Expected, H265!Expected, Expected,
                             H264!NONE, H265!NONE, NONE

LEMMA SameBytes ==
  \A a, b : H264!Bytes(a, b) = Bytes(a, b) /\ H265!Bytes(a, b) = Bytes(a, b)
BY DEF H264!Bytes, H265!Bytes, Bytes

\* The recursion of Begin, solved: it starts at 0 and adds up start codes and lengths.
LEMMA BeginIs ==
  ASSUME FrameOK
  PROVE  /\ Begin \in [1..(Len(frame) + 1) -> Nat]
         /\ Begin[1] = 0
         /\ \A k \in 1..Len(frame) : Begin[k + 1] = Begin[k] + frame[k].code + frame[k].len
<1> DEFINE n == Len(frame)
           step == [k \in 1..n |-> [v \in Nat |-> v + frame[k].code + frame[k].len]]
           Equation(b) == b = [k \in 1..(n + 1) |->
                                 IF k = 1 THEN 0 ELSE b[k - 1] + frame[k - 1].code + frame[k - 1].len]
<1>1. n \in Nat /\ \A k \in 1..n : frame[k].code \in Nat /\ frame[k].len \in Nat
  BY DEF FrameOK
<1>2. step \in [1..n -> [Nat -> Nat]]
  BY <1>1
<1> HIDE DEF n
<1> HIDE DEF step
<1>3. PICK g \in [0..n -> Nat] : Iterates(g, n, 0, step)
  BY <1>1, <1>2, IterationExists
<1>4. ASSUME NEW k \in 1..n
      PROVE  g[k] = g[k - 1] + frame[k].code + frame[k].len
  <2>1. g[k - 1] \in Nat /\ g[k] = step[k][g[k - 1]]
    BY <1>1, <1>3 DEF Iterates
  <2>2. \A v \in Nat : step[k][v] = v + frame[k].code + frame[k].len
    BY DEF step
  <2>3. QED
    BY <2>1, <2>2
<1>5. \E b : Equation(b)
  <2> DEFINE b == [k \in 1..(n + 1) |-> g[k - 1]]
  <2>1. ASSUME NEW k \in 1..(n + 1)
        PROVE  b[k] = IF k = 1 THEN 0 ELSE b[k - 1] + frame[k - 1].code + frame[k - 1].len
    <3>1. CASE k = 1
      BY <1>1, <1>3, <3>1 DEF Iterates
    <3>2. CASE k # 1
      <4>1. k - 1 \in 1..n /\ k - 1 \in 1..(n + 1)
        BY <1>1, <3>2
      <4>2. QED
        BY <1>4, <3>2, <4>1
    <3>3. QED
      BY <3>1, <3>2
  <2>2. b = [k \in 1..(n + 1) |->
               IF k = 1 THEN 0 ELSE b[k - 1] + frame[k - 1].code + frame[k - 1].len]
    BY <2>1
  <2>3. Equation(b)
    BY <2>2
  <2>4. QED
    BY <2>3
<1>6. Equation(Begin)
  <2>1. Begin = CHOOSE b : Equation(b)
    BY DEF Begin, n
  <2>2. QED
    BY <1>5, <2>1
<1>7. /\ DOMAIN Begin = 1..(n + 1) /\ Begin[1] = 0
      /\ \A k \in 1..n : Begin[k + 1] = Begin[k] + frame[k].code + frame[k].len
  BY <1>1, <1>6
<1>8. \A k \in 1..(n + 1) : Begin[k] \in Nat
  <2> DEFINE T == {m \in Nat : m <= n => Begin[m + 1] \in Nat}
  <2>1. 0 \in T
    BY <1>7
  <2>2. \A m \in Nat : m \in T => m + 1 \in T
    <3> SUFFICES ASSUME NEW m \in Nat, m \in T, m + 1 <= n
                 PROVE  Begin[(m + 1) + 1] \in Nat
      OBVIOUS
    <3>1. m + 1 \in 1..n /\ Begin[m + 1] \in Nat
      BY <1>1
    <3>2. Begin[(m + 1) + 1] = Begin[m + 1] + frame[m + 1].code + frame[m + 1].len
      BY <1>7, <3>1
    <3>3. frame[m + 1].code \in Nat /\ frame[m + 1].len \in Nat
      BY <1>1, <3>1
    <3>4. QED
      BY <3>1, <3>2, <3>3
  <2> HIDE DEF T
  <2>3. Nat \subseteq T
    BY <2>1, <2>2, Induction
  <2>4. ASSUME NEW k \in 1..(n + 1)
        PROVE  Begin[k] \in Nat
    <3>1. k - 1 \in T /\ (k - 1) + 1 = k
      BY <1>1, <2>3
    <3>2. QED
      BY <1>1, <3>1 DEF T
  <2>5. QED
    BY <2>4
<1>9. Begin \in [1..(n + 1) -> Nat]
  <2>1. Begin = [k \in 1..(n + 1) |-> Begin[k]]
    BY <1>6
  <2>2. QED
    BY <1>8, <2>1
<1>10. QED
  BY <1>7, <1>9 DEF n

\* One NAL unit lies behind the other.
LEMMA InOrder ==
  ASSUME FrameOK, NEW j \in 1..Len(frame), NEW k \in 1..(Len(frame) + 1), j < k
  PROVE  Begin[j + 1] <= Begin[k]
<1> DEFINE n == Len(frame)
           T == {m \in Nat : j + 1 + m <= n + 1 => Begin[j + 1] <= Begin[j + 1 + m]}
<1>1. n \in Nat /\ \A i \in 1..n : frame[i].code \in Nat /\ frame[i].len \in Nat
  BY DEF FrameOK
<1>2. /\ \A i \in 1..(n + 1) : Begin[i] \in Nat
      /\ \A i \in 1..n : Begin[i + 1] = Begin[i] + frame[i].code + frame[i].len
  BY BeginIs
<1> HIDE DEF n
<1>3. 0 \in T
  <2>1. j + 1 + 0 = j + 1 /\ Begin[j + 1] \in Nat
    BY <1>1, <1>2 DEF n
  <2>2. QED
    BY <2>1
<1>4. \A m \in Nat : m \in T => m + 1 \in T
  <2> SUFFICES ASSUME NEW m \in Nat, m \in T, j + 1 + (m + 1) <= n + 1
               PROVE  Begin[j + 1] <= Begin[j + 1 + (m + 1)]
    OBVIOUS
  <2> DEFINE i == j + 1 + m
  <2>1. i \in 1..n /\ i + 1 = j + 1 + (m + 1) /\ j + 1 \in 1..(n + 1) /\ i \in 1..(n + 1)
    BY <1>1 DEF n
  <2>2. Begin[j + 1] <= Begin[i]
    BY <1>1, <2>1
  <2> HIDE DEF i
  <2>3. Begin[i + 1] = Begin[i] + frame[i].code + frame[i].len
    BY <1>2, <2>1
  <2>4. /\ Begin[i] \in Nat /\ Begin[j + 1] \in Nat
        /\ frame[i].code \in Nat /\ frame[i].len \in Nat
    BY <1>1, <1>2, <2>1
  <2>5. Begin[j + 1 + (m + 1)] = Begin[i + 1]
    BY <2>1
  <2>6. Begin[i + 1] \in Nat /\ Begin[i] <= Begin[i + 1]
    <3> DEFINE a == Begin[i]
               b == Begin[i + 1]
               c == frame[i].code
               l == frame[i].len
    <3>1. a \in Nat /\ c \in Nat /\ l \in Nat /\ b = a + c + l
      BY <2>3, <2>4
    <3> HIDE DEF a, b, c, l
    <3>2. b \in Nat /\ a <= b
      BY ONLY <3>1
    <3>3. QED
      BY <3>2 DEF a, b
  <2>7. Begin[j + 1] <= Begin[i + 1]
    BY ONLY <2>2, <2>4, <2>6
  <2>8. QED
    BY ONLY <2>5, <2>7
<1>5. k - (j + 1) \in T
  <2>1. k - (j + 1) \in Nat
    BY <1>1 DEF n
  <2>2. Nat \subseteq T
    <3> HIDE DEF T
    <3>1. QED
      BY <1>3, <1>4, Induction
  <2>3. QED
    BY <2>1, <2>2
<1>6. j + 1 + (k - (j + 1)) = k
  BY <1>1 DEF n
<1>7. QED
  BY <1>1, <1>5, <1>6 DEF n

\* The places of a NAL unit, and of the next, as numbers.
LEMMA Places ==
  ASSUME FrameOK, NEW k \in 1..Len(frame)
  PROVE  /\ Begin[k] \in Nat /\ Octet(k) \in Nat /\ End(k) \in Nat /\ FrameLen \in Nat
         /\ Octet(k) = Begin[k] + frame[k].code /\ End(k) = Octet(k) + frame[k].len
         /\ End(k) = Begin[k + 1] /\ End(k) <= FrameLen
         /\ frame[k].code \in {0, 3, 4} /\ frame[k].len \in Nat \ {0}
         /\ k > 1 => frame[k].code \in {3, 4}
         /\ k = Len(frame) => End(k) = FrameLen
         /\ k < Len(frame) => /\ k + 1 \in 1..Len(frame) /\ frame[k + 1].code \in {3, 4}
                              /\ Octet(k + 1) = End(k) + frame[k + 1].code
                              /\ Octet(k + 1) < FrameLen
<1>1. /\ Len(frame) \in Nat \ {0} /\ frame[k].code \in {0, 3, 4} /\ frame[k].len \in Nat \ {0}
      /\ k > 1 => frame[k].code # 0
  BY DEF FrameOK
<1>2. /\ Begin[k] \in Nat /\ Begin[k + 1] \in Nat /\ Begin[Len(frame) + 1] \in Nat
      /\ Begin[k + 1] = Begin[k] + frame[k].code + frame[k].len
  <2>1. {k, k + 1, Len(frame) + 1} \subseteq 1..(Len(frame) + 1)
    BY <1>1
  <2>2. QED
    BY <2>1, BeginIs
<1>3. Begin[k + 1] <= Begin[Len(frame) + 1]
  BY <1>1, InOrder
<1>4. ASSUME k < Len(frame)
      PROVE  /\ k + 1 \in 1..Len(frame) /\ frame[k + 1].code \in {3, 4}
             /\ Octet(k + 1) = End(k) + frame[k + 1].code
             /\ Octet(k + 1) < FrameLen
  <2>1. k + 1 \in 1..Len(frame) /\ k + 1 > 1
    BY <1>1, <1>4
  <2>2. frame[k + 1].code \in {3, 4} /\ frame[k + 1].len \in Nat \ {0}
    BY <2>1 DEF FrameOK
  <2>3. Begin[k + 2] \in Nat /\ Begin[k + 2] = Begin[k + 1] + frame[k + 1].code + frame[k + 1].len
    BY <1>1, <2>1, BeginIs
  <2>4. Begin[k + 2] <= Begin[Len(frame) + 1]
    <3>1. Begin[(k + 1) + 1] <= Begin[Len(frame) + 1]
      BY <1>1, <2>1, InOrder
    <3>2. QED
      BY <3>1
  <2>5. Begin[k + 1] + frame[k + 1].code < Begin[Len(frame) + 1]
    <3> DEFINE code == frame[k + 1].code
               len == frame[k + 1].len
    <3>1. /\ code \in {3, 4} /\ len \in Nat \ {0} /\ Begin[k + 1] \in Nat
          /\ Begin[k + 2] = Begin[k + 1] + code + len /\ Begin[k + 2] <= Begin[Len(frame) + 1]
          /\ Begin[Len(frame) + 1] \in Nat
      BY <1>2, <2>2, <2>3, <2>4
    <3> HIDE DEF code, len
    <3>2. Begin[k + 1] + code < Begin[Len(frame) + 1]
      BY <3>1
    <3>3. QED
      BY <3>2 DEF code
  <2>6. QED
    BY <2>1, <2>2, <2>5 DEF Octet, End, FrameLen
<1>5. QED
  BY <1>1, <1>2, <1>3, <1>4, SMTT(40) DEF Octet, End, FrameLen
-----------------------------------------------------------------------------
(***************************************************************************)
(* What find_next_nal_unit finds.                                          *)
(***************************************************************************)

\* The last three bytes of a start code, which are searched for.
Mark(k) == Octet(k) - 3

LEMMA MarksInOrder ==
  ASSUME FrameOK, NEW j \in 1..Len(frame), NEW k \in 1..Len(frame), j < k
  PROVE  /\ Octet(j) < Begin[k] /\ Octet(j) < Octet(k) /\ Begin[j] < Begin[k]
         /\ frame[j].code + 1 <= Begin[k] - Begin[j]
<1>1. Begin[j + 1] <= Begin[k]
  <2>1. k \in 1..(Len(frame) + 1)
    BY DEF FrameOK
  <2>2. QED
    BY <2>1, InOrder
<1> DEFINE a == Begin[j]
           b == Octet(j)
           c == frame[j].code
           d == frame[k].code
           l == frame[j].len
<1>2. /\ a \in Nat /\ b \in Nat /\ c \in Nat /\ d \in Nat /\ l \in Nat \ {0}
      /\ Begin[k] \in Nat /\ Octet(k) \in Nat /\ Octet(k) = Begin[k] + d
      /\ b = a + c /\ Begin[j + 1] = b + l
  <2>1. /\ a \in Nat /\ b \in Nat /\ c \in {0, 3, 4} /\ l \in Nat \ {0} /\ b = a + c
        /\ End(j) = b + l /\ End(j) = Begin[j + 1]
    BY Places
  <2>2. /\ Begin[k] \in Nat /\ Octet(k) \in Nat /\ Octet(k) = Begin[k] + d /\ d \in {0, 3, 4}
    BY Places
  <2>3. QED
    BY <2>1, <2>2
<1> HIDE DEF a, b, c, d, l
<1>3. b < Begin[k] /\ b < Octet(k) /\ a < Begin[k] /\ c + 1 <= Begin[k] - a
  BY <1>1, <1>2
<1>4. QED
  BY <1>3 DEF a, b, c

LEMMA FindNone ==
  ASSUME FrameOK, NEW a \in Int, NEW b \in Int,
         \A j \in 1..Len(frame) : frame[j].code = 0 \/ Mark(j) < a \/ Octet(j) > b
  PROVE  find_next_nal_unit(a, b) = NONE
<1> DEFINE found == {p \in a..(b - 3) :
                       \E k \in DOMAIN frame : frame[k].code # 0 /\ p = Octet(k) - 3}
<1>1. ASSUME NEW p \in a..(b - 3), NEW k \in DOMAIN frame, frame[k].code # 0, p = Octet(k) - 3
      PROVE  FALSE
  <2>1. k \in 1..Len(frame)
    BY DEF FrameOK
  <2>2. Octet(k) \in Nat
    BY <2>1, Places
  <2>3. Mark(k) < a \/ Octet(k) > b
    BY <1>1, <2>1
  <2>4. QED
    BY <1>1, <2>2, <2>3 DEF Mark
<1>2. found = {}
  BY <1>1
<1>3. QED
  BY <1>2 DEF find_next_nal_unit

LEMMA FindFirst ==
  ASSUME FrameOK, NEW a \in Int, NEW b \in Int, NEW k \in 1..Len(frame),
         frame[k].code # 0, a <= Mark(k), Octet(k) <= b,
         \A j \in 1..(k - 1) : frame[j].code = 0 \/ Mark(j) < a
  PROVE  find_next_nal_unit(a, b) =
           IF frame[k].code = 4 /\ a < Mark(k) THEN Begin[k] ELSE Mark(k)
<1> DEFINE found == {p \in a..(b - 3) :
                       \E j \in DOMAIN frame : frame[j].code # 0 /\ p = Octet(j) - 3}
           m == Mark(k)
<1>1. /\ DOMAIN frame = 1..Len(frame) /\ Octet(k) \in Nat /\ Begin[k] \in Nat
      /\ Octet(k) = Begin[k] + frame[k].code /\ frame[k].code \in {3, 4}
  <2>1. DOMAIN frame = 1..Len(frame)
    BY DEF FrameOK
  <2>2. Octet(k) \in Nat /\ Begin[k] \in Nat /\ Octet(k) = Begin[k] + frame[k].code
        /\ frame[k].code \in {0, 3, 4}
    BY Places
  <2>3. QED
    BY <2>1, <2>2
<1>2. m \in found
  BY <1>1 DEF Mark
<1>3. ASSUME NEW p \in found
      PROVE  m <= p
  <2>1. PICK j \in 1..Len(frame) : frame[j].code # 0 /\ p = Octet(j) - 3 /\ p >= a /\ p \in Int
    BY <1>1
  <2>2. ~(j < k)
    <3>1. j < k => j \in 1..(k - 1)
      BY <2>1
    <3>2. QED
      BY <2>1, <3>1 DEF Mark
  <2>3. j = k \/ (Octet(k) < Octet(j) /\ Octet(j) \in Nat)
    <3>1. Octet(j) \in Nat
      BY Places
    <3>2. QED
      BY <2>2, <3>1, MarksInOrder
  <2>4. QED
    BY <1>1, <2>1, <2>3 DEF Mark
<1> HIDE DEF found
<1>4. m \in Int /\ \A p \in found : p \in Int
  BY <1>1 DEF found, Mark
<1>5. Min(found) = m
  <2>1. ASSUME NEW x \in found, \A y \in found : x <= y
        PROVE  x = m
    <3>1. x <= m /\ m <= x /\ x \in Int
      BY <1>2, <1>3, <1>4, <2>1
    <3>2. QED
      BY <1>4, <3>1
  <2> HIDE DEF m
  <2>2. QED
    BY <1>2, <1>3, <2>1 DEF Min
<1>6. find_next_nal_unit(a, b) =
        IF m > a /\ \E j \in DOMAIN frame : frame[j].code = 4 /\ Begin[j] = m - 1
        THEN m - 1 ELSE m
  <2>1. find_next_nal_unit(a, b) =
          IF found = {} THEN NONE
          ELSE IF Min(found) > a /\ \E j \in DOMAIN frame :
                    frame[j].code = 4 /\ Begin[j] = Min(found) - 1
               THEN Min(found) - 1 ELSE Min(found)
    BY DEF find_next_nal_unit, found
  <2> HIDE DEF m
  <2>2. QED
    BY <1>2, <1>5, <2>1
<1>7. CASE frame[k].code = 4
  <2>1. m - 1 = Begin[k]
    BY <1>1, <1>7 DEF Mark
  <2>2. (m > a) <=> (a < m)
    BY <1>4
  <2> HIDE DEF m
  <2>3. QED
    BY <1>1, <1>6, <1>7, <2>1, <2>2 DEF m
<1>8. CASE frame[k].code = 3
  <2>1. m = Begin[k]
    BY <1>1, <1>8 DEF Mark
  <2>2. ASSUME NEW j \in 1..Len(frame), frame[j].code = 4, Begin[j] = m - 1
        PROVE  FALSE
    <3>1. Begin[j] \in Nat /\ Begin[j] < Begin[k]
      <4>1. Begin[j] \in Nat
        BY Places
      <4>2. QED
        BY <1>1, <2>1, <2>2, <4>1
    <3>2. j < k
      <4>1. k < j => Begin[k] < Begin[j]
        BY MarksInOrder
      <4>2. j # k
        BY <1>8, <2>2
      <4>3. QED
        BY <1>1, <3>1, <4>1, <4>2, SMTT(40)
    <3>3. frame[j].code + 1 <= Begin[k] - Begin[j]
      BY <3>2, MarksInOrder
    <3>4. QED
      BY <1>1, <2>1, <2>2, <3>1, <3>3
  <2> HIDE DEF m
  <2>3. QED
    BY <1>1, <1>6, <1>8, <2>2 DEF m
<1>9. QED
  BY <1>1, <1>7, <1>8

\* From inside a NAL unit, or from its end, the start code of the next is found, if
\* all of it is in the window.
LEMMA FindNext ==
  ASSUME FrameOK, NEW k \in 1..Len(frame), NEW a \in Int, NEW b \in Int,
         Octet(k) - 2 <= a, a <= End(k)
  PROVE  find_next_nal_unit(a, b) =
           IF k < Len(frame) /\ Octet(k + 1) <= b THEN End(k) ELSE NONE
<1>1. Len(frame) \in Nat \ {0} /\ Octet(k) \in Nat /\ End(k) \in Nat
  BY Places DEF FrameOK
<1>2. ASSUME NEW j \in 1..k
      PROVE  Mark(j) < a
  <2>1. j \in 1..Len(frame) /\ Octet(j) \in Nat
    <3>1. j \in 1..Len(frame)
      BY <1>1
    <3>2. QED
      BY <3>1, Places
  <2>2. j = k \/ Octet(j) < Octet(k)
    BY <1>1, <2>1, MarksInOrder
  <2>3. Octet(j) <= Octet(k)
    BY <1>1, <2>1, <2>2
  <2>4. QED
    BY <1>1, <2>1, <2>3 DEF Mark
<1>3. CASE k < Len(frame) /\ Octet(k + 1) <= b
  <2>1. /\ k + 1 \in 1..Len(frame) /\ frame[k + 1].code \in {3, 4} /\ Octet(k + 1) \in Nat
        /\ Octet(k + 1) = End(k) + frame[k + 1].code /\ Begin[k + 1] = End(k)
    <3>1. k + 1 \in 1..Len(frame)
      BY <1>1, <1>3
    <3>2. QED
      BY <1>3, <3>1, Places
  <2>2. \A j \in 1..((k + 1) - 1) : Mark(j) < a
    BY <1>2
  <2>3. a <= Mark(k + 1) /\ (frame[k + 1].code = 4 => a < Mark(k + 1) )
        /\ (frame[k + 1].code = 3 => Mark(k + 1) = End(k))
    BY <1>1, <2>1 DEF Mark
  <2>4. find_next_nal_unit(a, b) =
          IF frame[k + 1].code = 4 /\ a < Mark(k + 1) THEN Begin[k + 1] ELSE Mark(k + 1)
    <3>1. frame[k + 1].code # 0
      BY <2>1
    <3>2. QED
      BY <1>3, <2>1, <2>2, <2>3, <3>1, FindFirst
  <2>5. QED
    BY <1>3, <2>1, <2>3, <2>4
<1>4. CASE ~(k < Len(frame) /\ Octet(k + 1) <= b)
  <2>1. ASSUME NEW j \in 1..Len(frame), ~(Mark(j) < a)
        PROVE  Octet(j) > b
    <3>1. ~(j \in 1..k)
      BY <1>2, <2>1
    <3>2. k < j /\ k < Len(frame)
      BY <1>1, <3>1
    <3>3. Octet(k + 1) > b /\ k + 1 \in 1..Len(frame) /\ Octet(k + 1) \in Nat /\ Octet(j) \in Nat
      <4>1. k + 1 \in 1..Len(frame)
        BY <1>1, <3>2
      <4>2. Octet(k + 1) \in Nat /\ Octet(j) \in Nat
        BY <4>1, Places
      <4>3. QED
        BY <1>4, <3>2, <4>1, <4>2
    <3>4. j = k + 1 \/ Octet(k + 1) < Octet(j)
      <4>1. j = k + 1 \/ k + 1 < j
        BY <1>1, <3>2
      <4>2. QED
        BY <3>3, <4>1, MarksInOrder
    <3>5. QED
      BY <3>3, <3>4
  <2>2. find_next_nal_unit(a, b) = NONE
    BY <2>1, FindNone
  <2>3. QED
    BY <1>4, <2>2
<1>5. QED
  BY <1>3, <1>4, SMTT(40)

\* A start code that begins where the search does is found, with or without its
\* leading zero.
LEMMA FindHere ==
  ASSUME FrameOK, NEW k \in 1..Len(frame), frame[k].code # 0, NEW b \in Int, Octet(k) <= b
  PROVE  /\ find_next_nal_unit(Begin[k], b) = Begin[k]
         /\ frame[k].code = 4 => find_next_nal_unit(Begin[k] + 1, b) = Begin[k] + 1
<1>1. /\ Begin[k] \in Nat /\ Octet(k) \in Nat /\ frame[k].code \in {3, 4}
      /\ Octet(k) = Begin[k] + frame[k].code
  <2>1. /\ Begin[k] \in Nat /\ Octet(k) \in Nat /\ frame[k].code \in {0, 3, 4}
        /\ Octet(k) = Begin[k] + frame[k].code
    BY Places
  <2>2. QED
    BY <2>1
<1>2. ASSUME NEW j \in 1..(k - 1)
      PROVE  Mark(j) < Begin[k]
  <2>1. j \in 1..Len(frame) /\ j < k
    BY DEF FrameOK
  <2>2. Octet(j) \in Nat /\ Octet(j) < Begin[k]
    BY <2>1, Places, MarksInOrder
  <2>3. QED
    BY <1>1, <2>2 DEF Mark
<1>3. find_next_nal_unit(Begin[k], b) = Begin[k]
  <2>1. Begin[k] <= Mark(k) /\ (frame[k].code = 4 => Begin[k] < Mark(k))
        /\ (frame[k].code = 3 => Mark(k) = Begin[k])
    BY <1>1 DEF Mark
  <2>2. find_next_nal_unit(Begin[k], b) =
          IF frame[k].code = 4 /\ Begin[k] < Mark(k) THEN Begin[k] ELSE Mark(k)
    BY <1>1, <1>2, <2>1, FindFirst
  <2>3. QED
    BY <1>1, <2>1, <2>2
<1>4. ASSUME frame[k].code = 4
      PROVE  find_next_nal_unit(Begin[k] + 1, b) = Begin[k] + 1
  <2>1. Mark(k) = Begin[k] + 1 /\ Begin[k] + 1 \in Int /\ Begin[k] + 1 <= Mark(k)
        /\ ~(Begin[k] + 1 < Mark(k))
    BY <1>1, <1>4, SMTT(40) DEF Mark
  <2>2. \A j \in 1..(k - 1) : Mark(j) < Begin[k] + 1
    <3>1. ASSUME NEW j \in 1..(k - 1)
          PROVE  Mark(j) < Begin[k] + 1
      <4>1. j \in 1..Len(frame)
        BY DEF FrameOK
      <4>2. Octet(j) \in Nat
        BY <4>1, Places
      <4>3. QED
        BY <1>1, <1>2, <4>2 DEF Mark
    <3>2. QED
      BY <3>1
  <2>3. find_next_nal_unit(Begin[k] + 1, b) =
          IF frame[k].code = 4 /\ Begin[k] + 1 < Mark(k) THEN Begin[k] ELSE Mark(k)
    BY <2>1, <2>2, FindFirst
  <2>4. QED
    BY <2>1, <2>3
<1>5. QED
  BY <1>3, <1>4

\* The NAL unit behind a start code.
LEMMA NalAtIs ==
  ASSUME FrameOK, NEW k \in 1..Len(frame), NEW p \in Int, Begin[k] <= p, p < Octet(k)
  PROVE  NalAt(p) = k
<1>1. /\ DOMAIN frame = 1..Len(frame) /\ Begin[k] \in Nat /\ Octet(k) \in Nat
  BY Places DEF FrameOK
<1>2. ASSUME NEW j \in 1..Len(frame), Begin[j] <= p, p < Octet(j)
      PROVE  j = k
  <2>1. Begin[j] \in Nat /\ Octet(j) \in Nat
    BY Places
  <2>2. j < k => Octet(j) < Begin[k]
    BY MarksInOrder
  <2>3. k < j => Octet(k) < Begin[j]
    BY MarksInOrder
  <2>4. ~(j < k) /\ ~(k < j)
    BY <1>1, <1>2, <2>1, <2>2, <2>3
  <2>5. QED
    BY <1>1, <2>4
<1>3. QED
  BY <1>1, <1>2 DEF NalAt
-----------------------------------------------------------------------------
(***************************************************************************)
(* What a receiver should hold.                                            *)
(***************************************************************************)

LEMMA ExpectedIs ==
  ASSUME FrameOK
  PROVE  /\ Expected \in [0..FrameLen -> Seq(Int)]
         /\ Expected[0] = <<>>
         /\ \A n \in 1..FrameLen :
              Expected[n] = IF Token(n - 1) = NONE THEN Expected[n - 1]
                            ELSE Append(Expected[n - 1], Token(n - 1))
<1> DEFINE l == FrameLen
           step == [n \in 1..l |-> [s \in Seq(Int) |->
                      IF Token(n - 1) = NONE THEN s ELSE Append(s, Token(n - 1))]]
           Equation(x) == x = [n \in 0..l |->
                                 IF n = 0 THEN <<>>
                                 ELSE IF Token(n - 1) = NONE THEN x[n - 1]
                                 ELSE Append(x[n - 1], Token(n - 1))]
<1>1. l \in Nat
  <2>1. 1 \in 1..Len(frame)
    BY DEF FrameOK
  <2>2. QED
    BY <2>1, Places
<1>2. \A p \in Int : Token(p) \in Int
  BY DEF Token, CODE, NONE
<1> HIDE DEF l
<1>3. step \in [1..l -> [Seq(Int) -> Seq(Int)]]
  <2>1. ASSUME NEW n \in 1..l, NEW s \in Seq(Int)
        PROVE  (IF Token(n - 1) = NONE THEN s ELSE Append(s, Token(n - 1))) \in Seq(Int)
    <3>1. Token(n - 1) \in Int
      BY <1>1, <1>2
    <3>2. QED
      BY <3>1, AppendProperties
  <2>2. QED
    BY <2>1
<1> HIDE DEF step
<1>4. <<>> \in Seq(Int)
  BY EmptySeq
<1>5. PICK g \in [0..l -> Seq(Int)] : Iterates(g, l, <<>>, step)
  BY <1>1, <1>3, <1>4, IterationExists
<1>6. ASSUME NEW n \in 1..l
      PROVE  g[n] = IF Token(n - 1) = NONE THEN g[n - 1] ELSE Append(g[n - 1], Token(n - 1))
  <2>1. g[n - 1] \in Seq(Int) /\ g[n] = step[n][g[n - 1]]
    BY <1>1, <1>5 DEF Iterates
  <2>2. \A s \in Seq(Int) : step[n][s] = IF Token(n - 1) = NONE THEN s ELSE Append(s, Token(n - 1))
    BY DEF step
  <2>3. QED
    BY <2>1, <2>2
<1>7. Equation(g)
  <2>1. ASSUME NEW n \in 0..l
        PROVE  g[n] = IF n = 0 THEN <<>>
                      ELSE IF Token(n - 1) = NONE THEN g[n - 1]
                      ELSE Append(g[n - 1], Token(n - 1))
    <3>1. CASE n = 0
      BY <1>5, <3>1 DEF Iterates
    <3>2. CASE n # 0
      <4>1. n \in 1..l
        BY <1>1, <3>2
      <4>2. QED
        BY <1>6, <3>2, <4>1, ZenonT(40)
    <3>3. QED
      BY <3>1, <3>2
  <2>2. QED
    BY <1>5, <2>1
<1>8. Equation(Expected)
  <2>1. Expected = CHOOSE x : Equation(x)
    BY DEF Expected, l
  <2>2. QED
    BY <1>7, <2>1, ZenonT(40)
<1>9. /\ DOMAIN Expected = 0..l /\ Expected[0] = <<>>
      /\ \A n \in 1..l : Expected[n] = IF Token(n - 1) = NONE THEN Expected[n - 1]
                                       ELSE Append(Expected[n - 1], Token(n - 1))
  <2>1. DOMAIN Expected = 0..l /\ Expected[0] = <<>>
    BY <1>1, <1>8
  <2>2. ASSUME NEW n \in 1..l
        PROVE  Expected[n] = IF Token(n - 1) = NONE THEN Expected[n - 1]
                             ELSE Append(Expected[n - 1], Token(n - 1))
    <3>1. n \in 0..l /\ n # 0
      BY <1>1
    <3>2. QED
      BY <1>8, <3>1
  <2>3. QED
    BY <2>1, <2>2
<1>10. Expected \in [0..l -> Seq(Int)]
  <2> DEFINE T == {m \in Nat : m <= l => Expected[m] \in Seq(Int)}
  <2>1. 0 \in T
    BY <1>4, <1>9
  <2>2. \A m \in Nat : m \in T => m + 1 \in T
    <3> SUFFICES ASSUME NEW m \in Nat, m \in T, m + 1 <= l
                 PROVE  Expected[m + 1] \in Seq(Int)
      OBVIOUS
    <3>1. m + 1 \in 1..l /\ (m + 1) - 1 = m /\ Expected[m] \in Seq(Int)
      BY <1>1
    <3>2. Expected[m + 1] = IF Token(m) = NONE THEN Expected[m] ELSE Append(Expected[m], Token(m))
      BY <1>9, <3>1
    <3>3. Token(m) \in Int
      BY <1>2
    <3>4. Append(Expected[m], Token(m)) \in Seq(Int)
      BY <3>1, <3>3, AppendProperties
    <3>5. QED
      BY <3>1, <3>2, <3>4
  <2> HIDE DEF T
  <2>3. Nat \subseteq T
    BY <2>1, <2>2, Induction
  <2>4. \A n \in 0..l : Expected[n] \in Seq(Int)
    BY <1>1, <2>3 DEF T
  <2>5. Expected = [n \in 0..l |-> Expected[n]]
    BY <1>8
  <2>6. QED
    BY <2>4, <2>5
<1>11. QED
  BY <1>9, <1>10 DEF l

\* What a byte of the buffer adds, told from the NAL unit it belongs to.
LEMMA TokenIs ==
  ASSUME FrameOK, NEW k \in 1..Len(frame), NEW p \in Int, Begin[k] <= p, p < End(k)
  PROVE  Token(p) = IF Octet(k) <= p THEN p ELSE IF p = Octet(k) - 1 THEN CODE ELSE NONE
<1>1. /\ DOMAIN frame = 1..Len(frame) /\ Begin[k] \in Nat /\ Octet(k) \in Nat /\ End(k) \in Nat
  BY Places DEF FrameOK
<1>2. ASSUME NEW j \in 1..Len(frame), j # k
      PROVE  p # Octet(j) - 1 /\ ~(Octet(j) <= p /\ p < End(j))
  <2>1. /\ Begin[j] \in Nat /\ Octet(j) \in Nat /\ End(j) \in Nat /\ End(j) = Begin[j + 1]
        /\ Octet(j) = Begin[j] + frame[j].code /\ (j > 1 => frame[j].code \in {3, 4})
    BY Places
  <2>2. CASE j < k
    <3>1. k \in 1..(Len(frame) + 1)
      BY DEF FrameOK
    <3>2. Begin[j + 1] <= Begin[k] /\ Octet(j) < Begin[k]
      BY <2>2, <3>1, InOrder, MarksInOrder
    <3>3. QED
      BY <1>1, <1>2, <2>1, <3>2
  <2>3. CASE k < j
    <3>1. j \in 1..(Len(frame) + 1) /\ j > 1
      BY <2>3 DEF FrameOK
    <3>2. Begin[k + 1] <= Begin[j] /\ Begin[k + 1] = End(k)
      BY <2>3, <3>1, InOrder DEF End
    <3>3. Octet(j) >= Begin[j] + 3
      BY <2>1, <3>1
    <3>4. QED
      BY <1>1, <1>2, <2>1, <3>2, <3>3
  <2>4. QED
    BY <1>2, <2>2, <2>3
<1>3. CASE Octet(k) <= p
  <2>1. p # Octet(k) - 1
    BY <1>1, <1>3
  <2>2. ~\E j \in DOMAIN frame : p = Octet(j) - 1
    BY <1>1, <1>2, <2>1
  <2>3. QED
    BY <1>1, <1>3, <2>2 DEF Token
<1>4. CASE p = Octet(k) - 1
  <2>1. ~(Octet(k) <= p) /\ \E j \in DOMAIN frame : p = Octet(j) - 1
    BY <1>1, <1>4
  <2>2. QED
    BY <1>4, <2>1 DEF Token
<1>5. CASE ~(Octet(k) <= p) /\ p # Octet(k) - 1
  BY <1>1, <1>2, <1>5 DEF Token
<1>6. QED
  BY <1>3, <1>4, <1>5, SMTT(40)

LEMMA ExpectedNext ==
  ASSUME FrameOK, NEW k \in 1..Len(frame), NEW p \in Int, Begin[k] <= p, p < End(k)
  PROVE  /\ Expected[p] \in Seq(Int)
         /\ Octet(k) <= p => Expected[p + 1] = Append(Expected[p], p)
         /\ p = Octet(k) - 1 => Expected[p + 1] = Append(Expected[p], CODE)
         /\ p < Octet(k) - 1 => Expected[p + 1] = Expected[p]
<1>1. /\ Begin[k] \in Nat /\ Octet(k) \in Nat /\ End(k) \in Nat /\ FrameLen \in Nat
      /\ End(k) <= FrameLen
  BY Places
<1>2. p + 1 \in 1..FrameLen /\ (p + 1) - 1 = p /\ p \in 0..FrameLen /\ p # NONE
  BY <1>1 DEF NONE
<1>3. Expected[p + 1] = IF Token(p) = NONE THEN Expected[p] ELSE Append(Expected[p], Token(p))
  BY <1>2, ExpectedIs
<1>4. Expected[p] \in Seq(Int)
  BY <1>2, ExpectedIs
<1>5. Token(p) = IF Octet(k) <= p THEN p ELSE IF p = Octet(k) - 1 THEN CODE ELSE NONE
  BY TokenIs
<1>6. CODE # NONE
  BY DEF CODE, NONE
<1>7. CASE Octet(k) <= p
  <2>1. Token(p) = p /\ ~(p = Octet(k) - 1) /\ ~(p < Octet(k) - 1)
    BY <1>1, <1>5, <1>7
  <2>2. QED
    BY <1>2, <1>3, <1>4, <2>1
<1>8. CASE p = Octet(k) - 1
  <2>1. Token(p) = CODE /\ ~(Octet(k) <= p) /\ ~(p < Octet(k) - 1)
    BY <1>1, <1>5, <1>8
  <2>2. QED
    BY <1>3, <1>4, <1>6, <2>1
<1>9. CASE p < Octet(k) - 1
  <2>1. Token(p) = NONE /\ ~(Octet(k) <= p) /\ ~(p = Octet(k) - 1)
    BY <1>1, <1>5, <1>9
  <2>2. QED
    BY <1>3, <1>4, <2>1
<1>10. QED
  BY <1>1, <1>7, <1>8, <1>9

\* Over a start code.
LEMMA ExpectedCode ==
  ASSUME FrameOK, NEW k \in 1..Len(frame), frame[k].code # 0
  PROVE  /\ Expected[Begin[k]] \in Seq(Int)
         /\ Expected[Octet(k)] = Append(Expected[Begin[k]], CODE)
<1> DEFINE b == Begin[k]
<1>1. /\ b \in Nat /\ Octet(k) \in Nat /\ End(k) \in Nat /\ Octet(k) = b + frame[k].code
      /\ Octet(k) < End(k) /\ frame[k].code \in {3, 4}
  <2>1. /\ b \in Nat /\ Octet(k) \in Nat /\ End(k) \in Nat /\ Octet(k) = b + frame[k].code
        /\ End(k) = Octet(k) + frame[k].len /\ frame[k].code \in {0, 3, 4}
        /\ frame[k].len \in Nat \ {0}
    BY Places
  <2>2. QED
    BY <2>1
<1>2. ASSUME NEW i \in Int, 0 <= i, i < frame[k].code - 1
      PROVE  Expected[b + i + 1] = Expected[b + i]
  <2>1. b + i \in Int /\ Begin[k] <= b + i /\ b + i < End(k) /\ b + i < Octet(k) - 1
    BY <1>1, <1>2, SMTT(40)
  <2>2. QED
    BY <2>1, ExpectedNext
<1>3. /\ Expected[b] \in Seq(Int)
      /\ Expected[Octet(k)] = Append(Expected[Octet(k) - 1], CODE)
  <2>1. /\ b \in Int /\ Begin[k] <= b /\ b < End(k)
        /\ Octet(k) - 1 \in Int /\ Begin[k] <= Octet(k) - 1 /\ Octet(k) - 1 < End(k)
        /\ (Octet(k) - 1) + 1 = Octet(k)
    BY <1>1, SMTT(40)
  <2>2. Expected[b] \in Seq(Int)
    BY <2>1, ExpectedNext
  <2> DEFINE p == Octet(k) - 1
  <2>3. p = Octet(k) - 1 => Expected[p + 1] = Append(Expected[p], CODE)
    <3> HIDE DEF p
    <3>1. p = Octet(k) - 1 => p \in Int /\ Begin[k] <= p /\ p < End(k)
      BY <2>1
    <3>2. QED
      BY <3>1, ExpectedNext
  <2>4. QED
    BY <2>1, <2>2, <2>3
<1> HIDE DEF b
<1>4. Expected[b + 1] = Expected[b] /\ Expected[b + 2] = Expected[b]
      /\ (frame[k].code = 4 => Expected[b + 3] = Expected[b])
  <2>1. Expected[b + 0 + 1] = Expected[b + 0] /\ Expected[b + 1 + 1] = Expected[b + 1]
    BY <1>1, <1>2
  <2>2. b + 0 + 1 = b + 1 /\ b + 0 = b /\ b + 1 + 1 = b + 2 /\ b + 2 + 1 = b + 3
    BY <1>1
  <2>3. frame[k].code = 4 => Expected[b + 2 + 1] = Expected[b + 2]
    BY <1>2
  <2>4. QED
    BY <2>1, <2>2, <2>3
<1>5. Expected[Octet(k) - 1] = Expected[b]
  <2>1. CASE frame[k].code = 3
    <3>1. Octet(k) - 1 = b + 2
      BY <1>1, <2>1
    <3>2. QED
      BY <1>4, <3>1
  <2>2. CASE frame[k].code = 4
    <3>1. Octet(k) - 1 = b + 3
      BY <1>1, <2>2
    <3>2. QED
      BY <1>4, <2>2, <3>1
  <2>3. QED
    BY <1>1, <2>1, <2>2
<1>6. QED
  BY <1>3, <1>5 DEF b

LEMMA BytesMore ==
  ASSUME NEW a \in Int, NEW b \in Int, a <= b
  PROVE  /\ Bytes(a, b) \in Seq(Int)
         /\ Bytes(a, b + 1) = Append(Bytes(a, b), b)
<1> DEFINE n == b - a
           s == Bytes(a, b)
           t == Bytes(a, b + 1)
<1>1. n \in Nat /\ (b + 1) - a = n + 1
  OBVIOUS
<1>2. s = [i \in 1..n |-> a + i - 1] /\ t = [i \in 1..(n + 1) |-> a + i - 1]
  BY <1>1 DEF Bytes
<1>3. a + (n + 1) - 1 = b
  BY <1>1
<1> HIDE DEF n, s, t
<1>4. s \in Seq(Int) /\ Len(s) = n
  BY <1>1, <1>2
<1>5. t = Append(s, b)
  <2>1. /\ Append(s, b) \in Seq(Int) /\ Len(Append(s, b)) = n + 1
        /\ \A i \in 1..n : Append(s, b)[i] = s[i]
        /\ Append(s, b)[n + 1] = b
    BY <1>1, <1>4, AppendProperties
  <2>2. ASSUME NEW i \in 1..(n + 1)
        PROVE  t[i] = Append(s, b)[i]
    <3>1. CASE i \in 1..n
      BY <1>1, <1>2, <2>1, <3>1
    <3>2. CASE i = n + 1
      BY <1>1, <1>2, <1>3, <2>1, <3>2
    <3>3. i \in 1..n \/ i = n + 1
      BY <1>1
    <3>4. QED
      BY ONLY <3>1, <3>2, <3>3
  <2>3. t \in Seq(Int) /\ Len(t) = n + 1
    BY <1>1, <1>2
  <2>4. QED
    BY <1>1, <2>1, <2>2, <2>3, SeqEqual
<1>6. QED
  BY <1>4, <1>5 DEF s, t

LEMMA ConcatAppend ==
  ASSUME NEW s \in Seq(Int), NEW t \in Seq(Int), NEW e \in Int
  PROVE  s \o Append(t, e) = Append(s \o t, e)
<1>1. <<e>> \in Seq(Int) /\ s \o t \in Seq(Int)
  BY ConcatProperties
<1>2. Append(t, e) = t \o <<e>> /\ Append(s \o t, e) = (s \o t) \o <<e>>
  BY <1>1, AppendIsConcat
<1>3. s \o (t \o <<e>>) = (s \o t) \o <<e>>
  BY <1>1, ConcatAssociative
<1>4. QED
  BY <1>2, <1>3

\* Over bytes of a NAL unit.
LEMMA ExpectedBytes ==
  ASSUME FrameOK, NEW k \in 1..Len(frame), NEW a \in Int, NEW b \in Int,
         Octet(k) <= a, a <= b, b <= End(k), Expected[a] \in Seq(Int)
  PROVE  Expected[b] = Expected[a] \o Bytes(a, b)
<1> DEFINE Holds(m) == a + m <= End(k) => Expected[a + m] = Expected[a] \o Bytes(a, a + m)
           T == {m \in Nat : Holds(m)}
<1>1. Octet(k) \in Nat /\ End(k) \in Nat /\ Begin[k] \in Nat /\ Begin[k] <= Octet(k)
  <2>1. /\ Octet(k) \in Nat /\ End(k) \in Nat /\ Begin[k] \in Nat
        /\ Octet(k) = Begin[k] + frame[k].code /\ frame[k].code \in {0, 3, 4}
    BY Places
  <2>2. QED
    BY <2>1
<1>2. 0 \in T
  <2>1. a + 0 = a /\ Bytes(a, a) = <<>>
    BY DEF Bytes
  <2>2. Expected[a] \o <<>> = Expected[a]
    BY ConcatEmptySeq
  <2>3. QED
    BY <2>1, <2>2
<1>3. \A m \in Nat : m \in T => m + 1 \in T
  <2> SUFFICES ASSUME NEW m \in Nat, Holds(m), a + (m + 1) <= End(k)
               PROVE  Expected[a + (m + 1)] = Expected[a] \o Bytes(a, a + (m + 1))
    <3>1. ASSUME NEW m \in Nat, m \in T, Holds(m + 1)
          PROVE  m + 1 \in T
      <4> HIDE DEF Holds
      <4>1. QED
        BY <3>1
    <3>2. ASSUME NEW m \in Nat, m \in T
          PROVE  Holds(m)
      <4> HIDE DEF Holds
      <4>1. QED
        BY <3>2
    <3>3. QED
      BY <3>1, <3>2
  <2> DEFINE p == a + m
  <2>1. p \in Int /\ p + 1 = a + (m + 1) /\ Octet(k) <= p /\ p < End(k) /\ Begin[k] <= p /\ a <= p
    BY <1>1
  <2>2. Expected[p] = Expected[a] \o Bytes(a, p)
    <3>1. a + m <= End(k)
      BY <1>1, <2>1
    <3>2. QED
      BY ONLY <3>1, Holds(m)
  <2> HIDE DEF p
  <2>3. Expected[p + 1] = Append(Expected[p], p)
    BY <2>1, ExpectedNext
  <2>4. Bytes(a, p) \in Seq(Int) /\ Bytes(a, p + 1) = Append(Bytes(a, p), p)
    BY <2>1, BytesMore
  <2>5. Expected[a] \o Append(Bytes(a, p), p) = Append(Expected[a] \o Bytes(a, p), p)
    BY <2>1, <2>4, ConcatAppend
  <2>6. Expected[p + 1] = Expected[a] \o Bytes(a, p + 1)
    BY <2>2, <2>3, <2>4, <2>5
  <2>7. QED
    BY <2>1, <2>6
<1> HIDE DEF T
<1>4. b - a \in T /\ a + (b - a) = b
  BY <1>2, <1>3, Induction
<1>5. QED
  BY <1>4 DEF T
-----------------------------------------------------------------------------
(***************************************************************************)
(* The invariant.                                                          *)
(***************************************************************************)

\* H.264: where a turn of the loop can begin.  In front of a start code, behind the
\* leading zero of one if that was taken for the last byte of the NAL unit before, or
\* inside a NAL unit with so many full fragments sent, and the header of the last of
\* them in the buffer.
AtCode(k) == pos = Begin[k] /\ (k <= Len(frame) => frame[k].code # 0)

BehindZero(k) == frame[k].code = 4 /\ pos = Begin[k] + 1 /\ H264!TakesZero(k - 1)

H264Inside(k) ==
  /\ frame[k].code # 0
  /\ Octet(k) + mtu - 1 <= pos /\ pos < End(k)
  /\ (pos - Octet(k) - 1) % (mtu - 2) = 0
  /\ fu = [at |-> pos - mtu, type |-> k]

H264Place ==
  \/ pos = 0 /\ frame[1].code = 0
  \/ \E k \in 1..(Len(frame) + 1) : AtCode(k)
  \/ \E k \in 2..Len(frame) : BehindZero(k)
  \/ \E k \in 1..Len(frame) : H264Inside(k)

H264Inv ==
  /\ FrameOK /\ H264Place
  /\ pos = 0 => pkt.size = 0 /\ ~pkt.fuA
  /\ H264!Lossless /\ H264!HeaderOfItsNal

\* H.265, where all start codes have the length of the first: in front of one, or
\* inside a NAL unit, of which pkt_msg tells what it has to, and then what is left of
\* it is not a single byte with a start code of three behind.
H265Inside(k) ==
  /\ Begin[k] + PAYLOAD_SIZE <= pos /\ pos < End(k)
  /\ msg.nal = k /\ msg.nal_type = frame[k].type
  /\ frame[k].type # H265!PARAM => (msg.fu_packet <=> frame[k].len >= PAYLOAD_SIZE)
  /\ k < Len(frame) => /\ frame[k].len + 2 * frame[k].code > PAYLOAD_SIZE + 4
                       /\ frame[k].code = 3 => pos + 1 < End(k)

H265Place ==
  \/ \E k \in 1..(Len(frame) + 1) : pos = Begin[k]
  \/ \E k \in 1..Len(frame) : H265Inside(k)

H265Inv ==
  /\ FrameOK
  /\ pos > 0 => msg.nalu_header_len = frame[1].code /\ msg.nal \in 0..Len(frame)
  /\ FrameLen < 4 => ~pkt.fu /\ pkt.from = 0 /\ pkt.to = 0
  /\ H265!SameCodes => H265Place
  /\ H265!Lossless /\ H265!FragmentOfItsNal

Inv ==
  \/ codecType = "H264" /\ H264Inv
  \/ codecType = "H265" /\ H265Inv

\* A turn of the loop leaves the frame, and so all that is defined by it, as it is.
LEMMA FrameStays ==
  ASSUME frame' = frame
  PROVE  /\ FrameOK <=> FrameOK'
         /\ H264!Begin' = Begin /\ H265!Begin' = Begin /\ Begin' = Begin
         /\ H264!FrameLen' = FrameLen /\ H265!FrameLen' = FrameLen /\ FrameLen' = FrameLen
         /\ H264!Expected' = Expected /\ H265!Expected' = Expected
<1>1. FrameOK <=> FrameOK'
  BY DEF FrameOK
<1>2. Begin' = Begin
  BY DEF Begin
<1>3. H264!Begin' = H264!Begin /\ H265!Begin' = H265!Begin
  BY DEF H264!Begin, H265!Begin
<1>4. H264!FrameLen' = H264!FrameLen /\ H265!FrameLen' = H265!FrameLen /\ FrameLen' = FrameLen
  BY <1>2, <1>3 DEF H264!FrameLen, H265!FrameLen, FrameLen
<1>5. \A p : H264!Token(p)' = H264!Token(p)
  BY <1>3 DEF H264!Token, H264!Octet, H264!End
<1>6. \A p : H265!Token(p)' = H265!Token(p)
  BY <1>3 DEF H265!Token, H265!Octet, H265!End
<1>7. H264!Expected' = H264!Expected
  BY <1>4, <1>5 DEF H264!Expected
<1>8. H265!Expected' = H265!Expected
  BY <1>4, <1>6 DEF H265!Expected
<1>9. QED
  BY <1>1, <1>2, <1>3, <1>4, <1>7, <1>8, SameBegin, SamePlaces, SameExpected

\* Bytes of the buffer are numbers below its length.
LEMMA BytesType ==
  ASSUME NEW l \in Nat, NEW a \in Nat, NEW b \in Int, b <= l
  PROVE  Bytes(a, b) \in Seq(0..l) /\ Bytes(a, a) = <<>>
<1>1. Bytes(a, a) = <<>>
  BY DEF Bytes
<1>2. Bytes(a, b) \in Seq(0..l)
  <2>1. CASE a <= b
    <3>1. b - a \in Nat
      BY <2>1
    <3>2. \A i \in 1..(b - a) : a + i - 1 \in 0..l
      OBVIOUS
    <3>3. QED
      BY <3>1, <3>2 DEF Bytes
  <2>2. CASE b < a
    <3>1. 1..(b - a) = {}
      BY <2>2
    <3>2. Bytes(a, b) = <<>>
      BY <3>1 DEF Bytes
    <3>3. QED
      BY <3>2, EmptySeq
  <2>3. QED
    BY <2>1, <2>2
<1>3. QED
  BY <1>1, <1>2

LEMMA BytesFirst ==
  ASSUME NEW a \in Int, NEW b \in Int, a < b
  PROVE  Bytes(a, b) = <<a>> \o Bytes(a + 1, b)
<1> DEFINE n == b - (a + 1)
           s == Bytes(a + 1, b)
           t == Bytes(a, b)
<1>1. n \in Nat /\ b - a = n + 1
  OBVIOUS
<1>2. t = [i \in 1..(n + 1) |-> a + i - 1] /\ s = [i \in 1..n |-> (a + 1) + i - 1]
  BY <1>1 DEF Bytes
<1> HIDE DEF n, s, t
<1>3. /\ t \in Seq(Int) /\ Len(t) = n + 1 /\ s \in Seq(Int) /\ Len(s) = n
      /\ <<a>> \in Seq(Int) /\ Len(<<a>>) = 1 /\ <<a>>[1] = a
  BY <1>1, <1>2
<1>4. /\ <<a>> \o s \in Seq(Int) /\ Len(<<a>> \o s) = n + 1
      /\ \A i \in 1..(n + 1) : (<<a>> \o s)[i] = IF i <= 1 THEN <<a>>[i] ELSE s[i - 1]
  <2>1. /\ <<a>> \o s \in Seq(Int) /\ Len(<<a>> \o s) = 1 + n
        /\ \A i \in 1..(1 + n) : (<<a>> \o s)[i] = IF i <= 1 THEN <<a>>[i] ELSE s[i - 1]
    BY <1>3, ConcatProperties
  <2>2. 1 + n = n + 1
    BY <1>1
  <2>3. QED
    BY <2>1, <2>2
<1>5. ASSUME NEW i \in 1..(n + 1)
      PROVE  t[i] = (<<a>> \o s)[i]
  <2>1. CASE i = 1
    BY <1>1, <1>2, <1>3, <1>4, <2>1
  <2>2. CASE i # 1
    <3>1. i - 1 \in 1..n /\ ~(i <= 1)
      BY <1>1, <2>2
    <3>2. s[i - 1] = (a + 1) + (i - 1) - 1 /\ t[i] = a + i - 1
      BY <1>2, <3>1
    <3>3. (<<a>> \o s)[i] = s[i - 1]
      BY <1>4, <3>1
    <3>4. (a + 1) + (i - 1) - 1 = a + i - 1
      BY <1>1
    <3>5. QED
      BY <3>2, <3>3, <3>4
  <2>3. QED
    BY <2>1, <2>2
<1>6. t = <<a>> \o s
  BY <1>3, <1>4, <1>5, SeqEqual
<1>7. QED
  BY <1>6 DEF s, t

\* The receiver writes the start code and what it has to know from the header of a
\* first fragment in front of the bytes.
LEMMA SentBytes ==
  ASSUME NEW s \in Seq(Int), NEW a \in Int, NEW b \in Int
  PROVE  /\ s \o <<CODE>> \o Bytes(a, b) = Append(s, CODE) \o Bytes(a, b)
         /\ a < b => s \o <<CODE, a>> \o Bytes(a + 1, b) = Append(s, CODE) \o Bytes(a, b)
         /\ a + 1 < b =>
              s \o <<CODE>> \o <<a, a + 1>> \o Bytes(a + 2, b) = Append(s, CODE) \o Bytes(a, b)
<1> DEFINE h == Append(s, CODE)
           x == <<a>>
           y == <<a + 1>>
           xy == <<a, a + 1>>
           u == Bytes(a + 1, b)
           v == Bytes(a + 2, b)
<1>1. CODE \in Int /\ \A p, q, r \in Seq(Int) : (p \o q) \o r = p \o (q \o r)
  BY ConcatAssociative DEF CODE
<1>2. h = s \o <<CODE>> /\ h \in Seq(Int) /\ <<CODE>> \in Seq(Int)
  BY <1>1, AppendIsConcat, AppendProperties
<1>3. x \in Seq(Int) /\ y \in Seq(Int) /\ xy = x \o y /\ <<CODE, a>> = <<CODE>> \o x
  OBVIOUS
<1>4. u \in Seq(Int) /\ v \in Seq(Int)
  <2>1. ASSUME NEW p \in Int
        PROVE  Bytes(p, b) \in Seq(Int)
    <3>1. CASE p <= b
      BY <3>1, BytesMore
    <3>2. CASE b < p
      <4>1. Bytes(p, b) = <<>>
        BY <3>2 DEF Bytes
      <4>2. QED
        BY <4>1, EmptySeq
    <3>3. QED
      BY <3>1, <3>2
  <2>2. QED
    BY <2>1
<1>5. a < b => Bytes(a, b) = x \o u
  BY BytesFirst
<1>6. a + 1 < b => u = y \o v
  <2>1. ASSUME NEW p \in Int, p = a + 1, p < b
        PROVE  Bytes(p, b) = <<p>> \o Bytes(p + 1, b) /\ p + 1 = a + 2
    BY <2>1, BytesFirst
  <2>2. QED
    BY <2>1
<1> DEFINE hc == <<CODE>>
           cx == <<CODE, a>>
           w == Bytes(a, b)
<1>7. cx = hc \o x /\ h = s \o hc /\ hc \in Seq(Int)
  BY <1>2, <1>3
<1>8. a + 1 < b => a < b
  OBVIOUS
<1> HIDE DEF h, x, y, xy, u, v, hc, cx, w
<1>9. s \o cx = h \o x
  BY <1>1, <1>3, <1>7
<1>10. (h \o x) \o u = h \o (x \o u) /\ h \o x \in Seq(Int)
  <2>1. h \o x \in Seq(Int)
    BY <1>2, <1>3, ConcatProperties
  <2>2. h \in Seq(Int) /\ x \in Seq(Int) /\ u \in Seq(Int)
    BY <1>2, <1>3, <1>4
  <2>3. (h \o x) \o u = h \o (x \o u)
    BY ONLY <1>1, <2>2
  <2>4. QED
    BY <2>1, <2>3
<1>11. ((h \o x) \o y) \o v = (h \o x) \o (y \o v)
  BY <1>1, <1>3, <1>4, <1>10
<1>12. h \o xy = (h \o x) \o y
  BY <1>1, <1>2, <1>3
<1>13. a < b => (s \o cx) \o u = h \o w
  BY <1>5, <1>9, <1>10 DEF w
<1>14. a + 1 < b => ((s \o hc) \o xy) \o v = h \o w
  BY <1>5, <1>6, <1>7, <1>8, <1>10, <1>11, <1>12 DEF w
<1>15. QED
  BY <1>7, <1>13, <1>14 DEF h, hc, cx, xy, u, v, w

\* What a receiver should hold within a NAL unit, from what it should in front of it.
LEMMA ExpectedNal ==
  ASSUME FrameOK, NEW k \in 1..Len(frame), frame[k].code # 0,
         NEW b \in Int, Octet(k) <= b, b <= End(k)
  PROVE  /\ Expected[Begin[k]] \in Seq(Int)
         /\ Expected[b] = Append(Expected[Begin[k]], CODE) \o Bytes(Octet(k), b)
<1>1. /\ Expected[Begin[k]] \in Seq(Int)
      /\ Expected[Octet(k)] = Append(Expected[Begin[k]], CODE)
  BY ExpectedCode
<1>2. Octet(k) \in Int /\ CODE \in Int
  BY Places DEF CODE
<1>3. Expected[Octet(k)] \in Seq(Int)
  BY <1>1, <1>2, AppendProperties
<1>4. Expected[b] = Expected[Octet(k)] \o Bytes(Octet(k), b)
  <2>1. Octet(k) <= Octet(k)
    BY <1>2
  <2>2. QED
    BY <1>2, <1>3, <2>1, ExpectedBytes
<1>5. QED
  BY <1>1, <1>4
-----------------------------------------------------------------------------
(***************************************************************************)
(* H.264: what a turn finds.                                               *)
(***************************************************************************)

\* Where the start code of the k-th NAL unit is seen by the next turn: from its
\* beginning, from behind its leading zero, or from one byte in front of it.
Sees(k) ==
  \/ pos = Begin[k]
  \/ frame[k].code = 4 /\ pos = Begin[k] + 1
  \/ k > 1 /\ frame[k].code = 3 /\ pos = Begin[k] - 1

LEMMA StartAtCode ==
  ASSUME FrameOK, NEW k \in 1..Len(frame), frame[k].code # 0, Sees(k)
  PROVE  /\ H264!NalStart = [at |-> Octet(k), nal |-> k]
         /\ pos \in Int /\ pos < Octet(k) /\ pos < FrameLen
<1> DEFINE p == find_next_nal_unit(pos, pos + 4)
<1>1. /\ Begin[k] \in Nat /\ Octet(k) \in Nat /\ FrameLen \in Nat
      /\ frame[k].code \in {3, 4} /\ Octet(k) = Begin[k] + frame[k].code
      /\ Octet(k) + 1 <= FrameLen
  <2>1. /\ Begin[k] \in Nat /\ Octet(k) \in Nat /\ FrameLen \in Nat /\ End(k) \in Nat
        /\ frame[k].code \in {0, 3, 4} /\ Octet(k) = Begin[k] + frame[k].code
        /\ End(k) = Octet(k) + frame[k].len /\ End(k) <= FrameLen /\ frame[k].len \in Nat \ {0}
    BY Places
  <2>2. QED
    BY <2>1
<1>2. pos \in Int /\ pos + 4 \in Int /\ FrameLen - pos >= 4 /\ Octet(k) <= pos + 4 /\ pos < Octet(k)
  <2> DEFINE b == Begin[k]
             o == Octet(k)
             c == frame[k].code
  <2>1. b \in Nat /\ o \in Nat /\ FrameLen \in Nat /\ c \in {3, 4} /\ o = b + c /\ o + 1 <= FrameLen
    BY <1>1
  <2>2. pos = b \/ (c = 4 /\ pos = b + 1) \/ (c = 3 /\ pos = b - 1)
    BY DEF Sees
  <2> HIDE DEF b, o, c
  <2>3. pos \in Int
    BY <2>1, <2>2
  <2>4. FrameLen - pos >= 4 /\ o <= pos + 4 /\ pos < o
    BY <2>1, <2>2, <2>3
  <2>5. QED
    BY <2>3, <2>4 DEF o
<1>3. p \in Int /\ Begin[k] <= p /\ p < Octet(k)
  <2>1. CASE pos = Begin[k]
    <3>1. p = Begin[k]
      BY <1>2, <2>1, FindHere
    <3>2. QED
      BY <1>1, <3>1
  <2>2. CASE frame[k].code = 4 /\ pos = Begin[k] + 1
    <3>1. p = Begin[k] + 1
      <4>1. find_next_nal_unit(Begin[k] + 1, pos + 4) = Begin[k] + 1
        BY <1>2, <2>2, FindHere
      <4>2. QED
        BY <2>2, <4>1
    <3>2. QED
      BY <1>1, <2>2, <3>1
  <2>3. CASE k > 1 /\ frame[k].code = 3 /\ pos = Begin[k] - 1
    <3> DEFINE j == k - 1
    <3>1. j \in 1..Len(frame) /\ j < k /\ j + 1 = k /\ j < Len(frame)
      BY <2>3 DEF FrameOK
    <3> HIDE DEF j
    <3>2. /\ Octet(j) \in Nat /\ End(j) \in Nat /\ frame[j].len \in Nat \ {0}
          /\ End(j) = Octet(j) + frame[j].len /\ End(j) = Begin[k]
      BY <3>1, Places
    <3>3. Octet(j) - 2 <= pos /\ pos <= End(j)
      <4> DEFINE o == Octet(j)
                 l == frame[j].len
                 e == End(j)
      <4>1. o \in Nat /\ e \in Nat /\ l \in Nat \ {0} /\ e = o + l /\ pos = e - 1
        BY <2>3, <3>2
      <4> HIDE DEF o, l, e
      <4>2. o - 2 <= pos /\ pos <= e
        BY <4>1
      <4>3. QED
        BY <4>2 DEF o, e
    <3>4. p = IF j < Len(frame) /\ Octet(j + 1) <= pos + 4 THEN End(j) ELSE NONE
      BY <1>2, <3>1, <3>3, FindNext
    <3>5. p = Begin[k]
      BY <1>2, <3>1, <3>2, <3>4
    <3>6. QED
      BY <1>1, <3>5
  <2>4. QED
    BY <2>1, <2>2, <2>3 DEF Sees
<1>4. NalAt(p) = k
  <2> HIDE DEF p
  <2>1. QED
    BY <1>3, NalAtIs
<1>5. p # H264!NONE
  BY <1>1, <1>3 DEF H264!NONE
<1> HIDE DEF p
<1>6. H264!NalStart = [at |-> H264!Octet(H264!NalAt(p)), nal |-> H264!NalAt(p)]
  <2>1. H264!find_next_nal_unit(pos, pos + 4) = p /\ H264!FrameLen = FrameLen
    BY SameFind, SamePlaces DEF p
  <2>2. QED
    BY <1>2, <1>5, <2>1 DEF H264!NalStart
<1>7. H264!Octet(H264!NalAt(p)) = Octet(k) /\ H264!NalAt(p) = k
  BY <1>4, SameNalAt, SamePlaces
<1>8. QED
  BY <1>1, <1>2, <1>6, <1>7

LEMMA StartInside ==
  ASSUME FrameOK, NEW k \in 1..Len(frame), pos \in Int, Octet(k) <= pos, pos < End(k),
         ~(k < Len(frame) /\ frame[k + 1].code = 3 /\ pos + 1 = End(k))
  PROVE  H264!NalStart = [at |-> pos, nal |-> 0]
<1>1. /\ Octet(k) \in Nat /\ End(k) \in Nat
      /\ k < Len(frame) => frame[k + 1].code \in {3, 4} /\ Octet(k + 1) = End(k) + frame[k + 1].code
  BY Places
<1>2. find_next_nal_unit(pos, pos + 4) = NONE
  <2>1. pos + 4 \in Int /\ Octet(k) - 2 <= pos /\ pos <= End(k)
    BY <1>1
  <2>2. find_next_nal_unit(pos, pos + 4) =
          IF k < Len(frame) /\ Octet(k + 1) <= pos + 4 THEN End(k) ELSE NONE
    BY <2>1, FindNext
  <2>3. ~(k < Len(frame) /\ Octet(k + 1) <= pos + 4)
    BY <1>1, SMTT(40)
  <2>4. QED
    BY <2>2, <2>3
<1>3. H264!find_next_nal_unit(pos, pos + 4) = H264!NONE
  BY <1>2, SameFind DEF H264!NONE, NONE
<1>4. QED
  BY <1>3 DEF H264!NalStart

\* How far a turn looks that begins in the k-th NAL unit.
LEMMA EndSeen ==
  ASSUME FrameOK, NEW k \in 1..Len(frame), NEW start \in Int, Octet(k) <= start, start < End(k)
  PROVE  H264!NalEnd(start) =
           IF \/ k < Len(frame) /\ Octet(k + 1) <= start + mtu + 1
              \/ k = Len(frame) /\ End(k) <= start + mtu + 1
           THEN End(k) ELSE start + mtu + 1
<1> DEFINE m == start + mtu + 1
           p == IF m > FrameLen THEN FrameLen ELSE m
           q == find_next_nal_unit(start, p)
<1>1. /\ Octet(k) \in Nat /\ End(k) \in Nat /\ FrameLen \in Nat /\ Len(frame) \in Nat
      /\ End(k) <= FrameLen /\ (k = Len(frame) => End(k) = FrameLen)
      /\ k < Len(frame) => Octet(k + 1) \in Int /\ Octet(k + 1) < FrameLen
  <2>1. k < Len(frame) => k + 1 \in 1..Len(frame)
    BY DEF FrameOK
  <2>2. k < Len(frame) => Octet(k + 1) \in Int
    BY <2>1, Places
  <2>3. QED
    BY <2>2, Places, ZenonT(40) DEF FrameOK
<1>2. mtu \in Int /\ m \in Int /\ p \in Int
  BY <1>1, Assumption
<1>3. q = IF k < Len(frame) /\ Octet(k + 1) <= p THEN End(k) ELSE NONE
  <2>1. Octet(k) - 2 <= start /\ start <= End(k)
    BY <1>1
  <2> HIDE DEF p
  <2>2. QED
    BY <1>2, <2>1, FindNext
<1>4. H264!NalEnd(start) = IF q = NONE THEN p ELSE q
  BY SameFind, SamePlaces DEF H264!NalEnd, H264!NONE, NONE
<1>5. End(k) # NONE
  BY <1>1 DEF NONE
<1> HIDE DEF q
<1>6. CASE k < Len(frame) /\ Octet(k + 1) <= m
  <2>1. Octet(k + 1) <= p
    BY <1>1, <1>2, <1>6
  <2> HIDE DEF p
  <2>2. H264!NalEnd(start) = End(k)
    BY <1>3, <1>4, <1>5, <1>6, <2>1
  <2>3. QED
    BY <1>6, <2>2
<1>7. CASE k < Len(frame) /\ ~(Octet(k + 1) <= m)
  <2>1. p = m /\ ~(Octet(k + 1) <= p) /\ k # Len(frame)
    BY <1>1, <1>2, <1>7
  <2> HIDE DEF p
  <2>2. H264!NalEnd(start) = m
    BY <1>3, <1>4, <2>1
  <2>3. QED
    BY <1>7, <2>1, <2>2
<1>8. CASE k = Len(frame)
  <2>1. ~(k < Len(frame)) /\ q = NONE
    BY <1>1, <1>3, <1>8
  <2>2. H264!NalEnd(start) = p
    BY <1>4, <2>1
  <2>3. p = IF End(k) <= m THEN End(k) ELSE m
    BY <1>1, <1>2, <1>8
  <2> HIDE DEF p
  <2>4. QED
    BY <1>8, <2>1, <2>2, <2>3
<1>9. k < Len(frame) \/ k = Len(frame)
  BY <1>1
<1>10. QED
  BY <1>6, <1>7, <1>8, <1>9

\* At a start code a turn takes the whole NAL unit, or looks one byte beyond a payload.
LEMMA EndAtCode ==
  ASSUME FrameOK, NEW k \in 1..Len(frame)
  PROVE  LET end == H264!NalEnd(Octet(k))
             l == frame[k].len
         IN  \/ end = End(k) /\ l <= mtu
             \/ /\ end = Octet(k) + mtu + 1 /\ l >= mtu - 2
                /\ k = Len(frame) => l > mtu
                /\ k < Len(frame) /\ frame[k + 1].code = 3 => l > mtu - 2
<1> DEFINE o == Octet(k)
           l == frame[k].len
           e == End(k)
           end == H264!NalEnd(o)
<1>1. /\ o \in Nat /\ l \in Nat \ {0} /\ e = o + l /\ e \in Nat /\ mtu \in Nat /\ Len(frame) \in Nat
      /\ k < Len(frame) => frame[k + 1].code \in {3, 4} /\ Octet(k + 1) = e + frame[k + 1].code
  BY Places, Assumption DEF FrameOK
<1>2. end = IF \/ k < Len(frame) /\ Octet(k + 1) <= o + mtu + 1
               \/ k = Len(frame) /\ e <= o + mtu + 1
            THEN e ELSE o + mtu + 1
  <2>1. o \in Int /\ Octet(k) <= o /\ o < End(k)
    BY <1>1
  <2> HIDE DEF o
  <2>2. QED
    BY <2>1, EndSeen
<1> HIDE DEF o, l, e, end
<1>3. CASE k < Len(frame) /\ Octet(k + 1) <= o + mtu + 1
  <2>1. end = e /\ l <= mtu
    BY <1>1, <1>2, <1>3
  <2>2. QED
    BY <2>1 DEF o, l, e, end
<1>4. CASE k < Len(frame) /\ ~(Octet(k + 1) <= o + mtu + 1)
  <2>1. k # Len(frame) /\ end = o + mtu + 1
    BY <1>1, <1>2, <1>4
  <2>2. l >= mtu - 2 /\ (frame[k + 1].code = 3 => l > mtu - 2)
    BY <1>1, <1>4
  <2>3. QED
    BY <2>1, <2>2 DEF o, l, e, end
<1>5. CASE k = Len(frame)
  <2>1. ~(k < Len(frame))
    BY <1>1, <1>5
  <2>2. CASE e <= o + mtu + 1 /\ l <= mtu
    <3>1. end = e
      BY <1>2, <1>5, <2>1, <2>2
    <3>2. QED
      BY <2>2, <3>1 DEF o, l, e, end
  <2>3. CASE ~(e <= o + mtu + 1 /\ l <= mtu)
    <3>1. end = o + mtu + 1 /\ l > mtu /\ l >= mtu - 2
      BY <1>1, <1>2, <1>5, <2>1, <2>3
    <3>2. QED
      BY <2>1, <3>1 DEF o, l, e, end
  <2>4. QED
    BY <2>2, <2>3
<1>6. k < Len(frame) \/ k = Len(frame)
  BY <1>1
<1>7. QED
  BY <1>3, <1>4, <1>5, <1>6, SMTT(40)
-----------------------------------------------------------------------------
(***************************************************************************)
(* H.264: what a turn does.                                                *)
(***************************************************************************)

\* The frames Lossless is about.
H264Regular ==
  /\ frame[1].code # 0
  /\ \A k \in DOMAIN frame :
       frame[k].len > 2 /\ ~H264!LeavesByte(k) /\ ~H264!TakesZero(k)

H264Packets ==
  [fuA : BOOLEAN, S : BOOLEAN, E : BOOLEAN, nal : 0..Len(frame),
   from : 0..FrameLen, to : 0..FrameLen, size : 0..mtu, ucMarker : BOOLEAN]

Held == Seq({CODE} \cup 0..FrameLen)

LEMMA H264InvIs ==
  H264Inv <=>
    /\ FrameOK /\ H264Place
    /\ pos = 0 => pkt.size = 0 /\ ~pkt.fuA
    /\ frame \in Seq([code : Codes \cup {0}, type : {0}, len : LengthsH264]) /\ frame # <<>>
    /\ pos \in 0..FrameLen /\ pkt \in H264Packets
    /\ fu.at \in NONE..FrameLen /\ fu.type \in 0..Len(frame)
    /\ seq \in 0..(SeqMod - 1) /\ out \in Held
    /\ H264Regular => out = Expected[pos]
    /\ (frame[1].code # 0 /\ pkt.fuA) =>
         /\ pkt.nal # 0 /\ Octet(pkt.nal) < pkt.from /\ pkt.from < End(pkt.nal)
         /\ pkt.nal = Len(frame) => (pkt.E <=> pkt.to = FrameLen)
<1>1. H264!TypeOK <=>
        /\ frame \in Seq([code : Codes \cup {0}, type : {0}, len : LengthsH264]) /\ frame # <<>>
        /\ pos \in 0..FrameLen /\ pkt \in H264Packets
        /\ fu.at \in NONE..FrameLen /\ fu.type \in 0..Len(frame)
        /\ seq \in 0..(SeqMod - 1) /\ out \in Held
  BY SamePlaces DEF H264!TypeOK, H264Packets, Held, H264!NONE, NONE, H264!CODE, CODE
<1>2. H264!Lossless <=> H264!TypeOK /\ (H264Regular => out = Expected[pos])
  BY SameExpected DEF H264!Lossless, H264Regular
<1>3. H264!HeaderOfItsNal <=>
        ((frame[1].code # 0 /\ pkt.fuA) =>
          /\ pkt.nal # 0 /\ Octet(pkt.nal) < pkt.from /\ pkt.from < End(pkt.nal)
          /\ pkt.nal = Len(frame) => (pkt.E <=> pkt.to = FrameLen))
  BY SamePlaces DEF H264!HeaderOfItsNal
<1> HIDE DEF FrameOK, H264Place, H264Regular, H264Packets, Held
<1>4. QED
  BY <1>1, <1>2, <1>3 DEF H264Inv

\* The invariant after a turn, read in the frame before it.
LEMMA H264After ==
  ASSUME H264Inv, frame' = frame,
         \/ pos' = 0 /\ frame[1].code = 0
         \/ \E k \in 1..(Len(frame) + 1) : pos' = Begin[k] /\ (k <= Len(frame) => frame[k].code # 0)
         \/ \E k \in 2..Len(frame) :
              frame[k].code = 4 /\ pos' = Begin[k] + 1 /\ H264!TakesZero(k - 1)
         \/ \E k \in 1..Len(frame) :
              /\ frame[k].code # 0
              /\ Octet(k) + mtu - 1 <= pos' /\ pos' < End(k)
              /\ (pos' - Octet(k) - 1) % (mtu - 2) = 0
              /\ fu' = [at |-> pos' - mtu, type |-> k],
         pos' = 0 => pkt'.size = 0 /\ ~pkt'.fuA,
         pos' \in 0..FrameLen, pkt' \in H264Packets,
         fu'.at \in NONE..FrameLen, fu'.type \in 0..Len(frame),
         seq' \in 0..(SeqMod - 1), out' \in Held,
         H264Regular => out' = Expected[pos'],
         (frame[1].code # 0 /\ pkt'.fuA) =>
           /\ pkt'.nal # 0 /\ Octet(pkt'.nal) < pkt'.from /\ pkt'.from < End(pkt'.nal)
           /\ pkt'.nal = Len(frame) => (pkt'.E <=> pkt'.to = FrameLen)
  PROVE  H264Inv'
<1>1. /\ FrameOK' /\ Begin' = Begin /\ FrameLen' = FrameLen
      /\ H264!FrameLen' = FrameLen /\ H264!Begin' = Begin /\ H264!Expected' = Expected
  BY FrameStays, SameBegin DEF H264Inv
<1>2. H264Place'
  <2>1. CASE pos' = 0 /\ frame[1].code = 0
    BY <2>1 DEF H264Place
  <2>2. CASE \E k \in 1..(Len(frame) + 1) :
                pos' = Begin[k] /\ (k <= Len(frame) => frame[k].code # 0)
    <3>1. (\E k \in 1..(Len(frame) + 1) : AtCode(k))'
      BY <1>1, <2>2 DEF AtCode
    <3>2. QED
      BY <3>1 DEF H264Place
  <2>3. CASE \E k \in 2..Len(frame) :
                frame[k].code = 4 /\ pos' = Begin[k] + 1 /\ H264!TakesZero(k - 1)
    <3>1. (\E k \in 2..Len(frame) : BehindZero(k))'
      BY <1>1, <2>3 DEF BehindZero, H264!TakesZero
    <3>2. QED
      BY <3>1 DEF H264Place
  <2>4. CASE \E k \in 1..Len(frame) :
                /\ frame[k].code # 0
                /\ Octet(k) + mtu - 1 <= pos' /\ pos' < End(k)
                /\ (pos' - Octet(k) - 1) % (mtu - 2) = 0
                /\ fu' = [at |-> pos' - mtu, type |-> k]
    <3>1. (\E k \in 1..Len(frame) : H264Inside(k))'
      BY <1>1, <2>4 DEF H264Inside, Octet, End
    <3>2. QED
      BY <3>1 DEF H264Place
  <2>5. QED
    BY <2>1, <2>2, <2>3, <2>4
<1>3. H264!TypeOK'
  <2>1. frame \in Seq([code : Codes \cup {0}, type : {0}, len : LengthsH264]) /\ frame # <<>>
    BY H264InvIs
  <2>2. QED
    BY <1>1, <2>1 DEF H264!TypeOK, H264Packets, Held, H264!NONE, NONE, H264!CODE, CODE
<1>4. H264!Lossless'
  <2>1. (\A k \in DOMAIN frame : frame[k].len > 2 /\ ~H264!LeavesByte(k) /\ ~H264!TakesZero(k))' =
        (\A k \in DOMAIN frame : frame[k].len > 2 /\ ~H264!LeavesByte(k) /\ ~H264!TakesZero(k))
    BY DEF H264!LeavesByte, H264!TakesZero, H264!Rest
  <2>2. QED
    BY <1>1, <1>3, <2>1 DEF H264!Lossless, H264Regular
<1>5. H264!HeaderOfItsNal'
  BY <1>1 DEF H264!HeaderOfItsNal, H264!Octet, H264!End, Octet, End
<1>6. QED
  BY <1>1, <1>2, <1>4, <1>5 DEF H264Inv

\* What is the same in every turn: the header, the queue and the receiver.
LEMMA H264Sent ==
  ASSUME FrameOK, pos' \in Int, seq \in 0..(SeqMod - 1), out \in Held,
         NEW p \in H264Packets, p.fuA /\ p.S => p.nal # 0, H264!Sent(p)
  PROVE  /\ pkt' \in H264Packets /\ seq' \in 0..(SeqMod - 1) /\ out' \in Held
         /\ pkt'.fuA = p.fuA /\ pkt'.S = p.S /\ pkt'.E = p.E /\ pkt'.nal = p.nal
         /\ pkt'.from = p.from /\ pkt'.to = p.to /\ pkt'.size = p.size
         /\ out' = IF p.size <= 2 THEN <<>>
                   ELSE IF ~p.fuA THEN out \o <<CODE>> \o Bytes(p.from, p.to)
                   ELSE IF p.S THEN out \o <<CODE, Octet(p.nal)>> \o Bytes(p.from, p.to)
                   ELSE out \o Bytes(p.from, p.to)
<1>1. FrameLen \in Nat
  <2>1. 1 \in 1..Len(frame)
    BY DEF FrameOK
  <2>2. QED
    BY <2>1, Places
<1> DEFINE q == [p EXCEPT !.ucMarker = pos' >= H264!FrameLen]
<1>2. pkt' = q /\ out' = H264!Unpacked(q) /\ seq' = (seq + 1) % SeqMod
  BY DEF H264!Sent
<1>3. (pos' >= H264!FrameLen) \in BOOLEAN
  OBVIOUS
<1>4. /\ q \in H264Packets
      /\ q.fuA = p.fuA /\ q.S = p.S /\ q.E = p.E /\ q.nal = p.nal
      /\ q.from = p.from /\ q.to = p.to /\ q.size = p.size
  BY <1>3 DEF H264Packets
<1> HIDE DEF q
<1>5. seq' \in 0..(SeqMod - 1)
  <2>1. SeqMod \in Nat \ {0} /\ seq + 1 \in Int
    BY Assumption
  <2>2. (seq + 1) % SeqMod \in 0..(SeqMod - 1)
    BY <2>1, DivMod DEF Splits
  <2>3. QED
    BY <1>2, <2>2
<1>6. out' = IF p.size <= 2 THEN <<>>
             ELSE IF ~p.fuA THEN out \o <<CODE>> \o Bytes(p.from, p.to)
             ELSE IF p.S THEN out \o <<CODE, Octet(p.nal)>> \o Bytes(p.from, p.to)
             ELSE out \o Bytes(p.from, p.to)
  <2>1. H264!Unpacked(q) =
          IF q.size <= 2 THEN <<>>
          ELSE IF ~q.fuA THEN out \o <<H264!CODE>> \o H264!Bytes(q.from, q.to)
          ELSE IF q.S THEN out \o <<H264!CODE, H264!Octet(q.nal)>> \o H264!Bytes(q.from, q.to)
          ELSE out \o H264!Bytes(q.from, q.to)
    BY DEF H264!Unpacked
  <2>2. H264!CODE = CODE
    BY DEF H264!CODE, CODE
  <2>3. QED
    BY <1>2, <1>4, <2>1, <2>2, SamePlaces, SameBytes
<1>7. out' \in Held
  <2> DEFINE S == {CODE} \cup 0..FrameLen
             b == Bytes(p.from, p.to)
             h == <<CODE, Octet(p.nal)>>
             c == <<CODE>>
  <2>1. b \in Seq(0..FrameLen)
    <3>1. p.from \in Nat /\ p.to \in Int /\ p.to <= FrameLen
      BY <1>1 DEF H264Packets
    <3>2. QED
      BY <1>1, <3>1, BytesType
  <2>2. b \in Seq(S)
    <3> HIDE DEF b
    <3>1. QED
      BY <2>1, SeqMonotonic
  <2>3. c \in Seq(S)
    OBVIOUS
  <2>4. p.fuA /\ p.S => h \in Seq(S)
    <3> SUFFICES ASSUME p.fuA /\ p.S PROVE h \in Seq(S)
      OBVIOUS
    <3>1. p.nal \in 1..Len(frame)
      BY DEF H264Packets, FrameOK
    <3>2. Octet(p.nal) \in Nat /\ Octet(p.nal) <= FrameLen
      <4>1. /\ Octet(p.nal) \in Nat /\ End(p.nal) \in Nat /\ End(p.nal) <= FrameLen
            /\ End(p.nal) = Octet(p.nal) + frame[p.nal].len /\ frame[p.nal].len \in Nat \ {0}
        BY <3>1, Places
      <4>2. QED
        BY <1>1, <4>1
    <3>3. Octet(p.nal) \in S
      BY <1>1, <3>2
    <3>4. QED
      BY <3>3
  <2>5. out \in Seq(S) /\ <<>> \in Seq(S)
    BY DEF Held
  <2> HIDE DEF S, b, h, c
  <2>6. /\ out \o b \in Seq(S) /\ (out \o c) \o b \in Seq(S)
        /\ p.fuA /\ p.S => (out \o h) \o b \in Seq(S)
    BY <2>2, <2>3, <2>4, <2>5, ConcatProperties
  <2>7. out' = IF p.size <= 2 THEN <<>>
               ELSE IF ~p.fuA THEN (out \o c) \o b
               ELSE IF p.S THEN (out \o h) \o b ELSE out \o b
    BY <1>6 DEF b, h, c
  <2>8. p.fuA \in BOOLEAN /\ p.S \in BOOLEAN
    BY DEF H264Packets
  <2>9. out' \in Seq(S)
    BY <2>5, <2>6, <2>7, <2>8
  <2>10. QED
    BY <2>9 DEF S, Held
<1>8. QED
  BY <1>2, <1>4, <1>5, <1>6, <1>7

\* A NAL unit in a payload of its own.
LEMMA SingleTurn ==
  ASSUME H264Inv, NEW k \in 1..Len(frame), frame[k].code # 0, Sees(k),
         H264Regular => pos = Begin[k], H264!SingleNal
  PROVE  H264Inv' /\ pos' > pos
<1> DEFINE o == Octet(k)
           e == End(k)
           l == frame[k].len
           end == H264!NalEnd(o)
           p == [H264!NoPacket EXCEPT !.nal = k, !.from = o, !.to = e, !.size = e - o]
<1>1. /\ FrameOK /\ pos \in 0..FrameLen /\ fu.at \in NONE..FrameLen /\ fu.type \in 0..Len(frame)
      /\ seq \in 0..(SeqMod - 1) /\ out \in Held
      /\ H264Regular => out = Expected[pos]
  BY H264InvIs
<1>2. H264!NalStart = [at |-> o, nal |-> k] /\ pos \in Int /\ pos < o
  BY <1>1, StartAtCode, SMTT(40)
<1>3. /\ o \in Nat /\ e \in Nat /\ l \in Nat \ {0} /\ e = o + l /\ e <= FrameLen /\ FrameLen \in Nat
      /\ e = Begin[k + 1] /\ mtu \in Nat /\ mtu > 3 /\ Len(frame) \in Nat
      /\ k < Len(frame) => frame[k + 1].code \in {3, 4}
  BY <1>1, Places, Assumption DEF FrameOK
<1>4. end = e /\ l <= mtu
  <2>1. ~(end - o > mtu)
    BY <1>2 DEF H264!SingleNal, H264!Fragmented
  <2>2. \/ end = e /\ l <= mtu
        \/ end = o + mtu + 1
    BY <1>1, EndAtCode
  <2> HIDE DEF end, o, e, l
  <2>3. QED
    BY <1>3, <2>1, <2>2
<1>5. /\ frame' = frame /\ fu' = fu /\ pos' = e /\ H264!Sent(p)
  BY <1>2, <1>4 DEF H264!SingleNal
<1> HIDE DEF end
<1>6. /\ p \in H264Packets /\ p.fuA = FALSE
      /\ p.nal = k /\ p.from = o /\ p.to = e /\ p.size = l
  <2>1. e - o = l /\ e - o \in 0..mtu /\ k \in 0..Len(frame) /\ o \in 0..FrameLen /\ e \in 0..FrameLen
    BY <1>3, <1>4
  <2> HIDE DEF o, e, l
  <2>2. QED
    BY <2>1 DEF H264!NoPacket, H264Packets
<1> HIDE DEF p
<1>7. /\ pkt' \in H264Packets /\ seq' \in 0..(SeqMod - 1) /\ out' \in Held
      /\ pkt'.fuA = FALSE
      /\ out' = IF p.size <= 2 THEN <<>> ELSE out \o <<CODE>> \o Bytes(p.from, p.to)
  <2>1. pos' \in Int /\ (p.fuA /\ p.S => p.nal # 0)
    BY <1>3, <1>5, <1>6
  <2>2. QED
    BY <1>1, <1>5, <1>6, <2>1, H264Sent
<1>8. H264Regular => out' = Expected[pos']
  <2> SUFFICES ASSUME H264Regular PROVE out' = Expected[e]
    BY <1>5
  <2>1. l > 2 /\ pos = Begin[k]
    BY <1>1 DEF H264Regular, FrameOK
  <2>2. out' = Expected[Begin[k]] \o <<CODE>> \o Bytes(o, e)
    <3>1. ~(p.size <= 2)
      BY <1>3, <1>6, <2>1
    <3>2. QED
      BY <1>1, <1>6, <1>7, <2>1, <3>1
  <2>3. /\ Expected[Begin[k]] \in Seq(Int)
        /\ Expected[e] = Append(Expected[Begin[k]], CODE) \o Bytes(o, e)
    <3>1. e \in Int /\ Octet(k) <= e /\ e <= End(k)
      BY <1>3
    <3> HIDE DEF e
    <3>2. QED
      BY <1>1, <3>1, ExpectedNal
  <2> HIDE DEF o, e
  <2>4. Expected[Begin[k]] \o <<CODE>> \o Bytes(o, e) = Append(Expected[Begin[k]], CODE) \o Bytes(o, e)
    <3>1. o \in Int /\ e \in Int
      BY <1>3
    <3>2. QED
      BY <2>3, <3>1, SentBytes
  <2>5. QED
    BY <2>2, <2>3, <2>4
<1>9. pos' > pos /\ pos' \in 0..FrameLen /\ pos' # 0
  BY <1>1, <1>2, <1>3, <1>5
<1>10. \E j \in 1..(Len(frame) + 1) : pos' = Begin[j] /\ (j <= Len(frame) => frame[j].code # 0)
  <2>1. k + 1 \in 1..(Len(frame) + 1) /\ (k + 1 <= Len(frame) => frame[k + 1].code # 0)
    BY <1>3
  <2>2. QED
    BY <1>3, <1>5, <2>1
<1> HIDE DEF o, e, l
<1>11. H264Inv'
  BY <1>1, <1>5, <1>7, <1>8, <1>9, <1>10, H264After
<1>12. QED
  BY <1>9, <1>11

\* The first fragment of a NAL unit.
LEMMA FirstFuTurn ==
  ASSUME H264Inv, NEW k \in 1..Len(frame), frame[k].code # 0, Sees(k),
         H264Regular => pos = Begin[k], H264!FuA
  PROVE  H264Inv' /\ pos' > pos
<1> DEFINE o == Octet(k)
           e == End(k)
           l == frame[k].len
           c == frame[k + 1].code
           end == H264!NalEnd(o)
           to == o + mtu - 1
           p == [H264!NoPacket EXCEPT !.fuA = TRUE, !.S = TRUE, !.E = FALSE, !.nal = k,
                   !.from = o + 1, !.to = to, !.size = mtu]
<1>1. /\ FrameOK /\ pos \in 0..FrameLen /\ seq \in 0..(SeqMod - 1) /\ out \in Held
      /\ H264Regular => out = Expected[pos]
  BY H264InvIs
<1>2. H264!NalStart = [at |-> o, nal |-> k] /\ pos \in Int /\ pos < o
  BY <1>1, StartAtCode, SMTT(40)
<1>3. /\ o \in Nat /\ e \in Nat /\ l \in Nat \ {0} /\ e = o + l /\ e <= FrameLen /\ FrameLen \in Nat
      /\ e = Begin[k + 1] /\ mtu \in Nat /\ mtu > 3 /\ Len(frame) \in Nat
      /\ k < Len(frame) => c \in {3, 4} /\ Octet(k + 1) = e + c /\ Octet(k + 1) < FrameLen
      /\ k = Len(frame) => e = FrameLen
  BY <1>1, Places, Assumption, ZenonT(40) DEF FrameOK
<1>4. /\ end = o + mtu + 1 /\ l >= mtu - 2
      /\ k = Len(frame) => l > mtu
      /\ k < Len(frame) /\ c = 3 => l > mtu - 2
  <2>1. end - o > mtu
    <3>1. k # 0
      BY <1>3
    <3>2. QED
      BY <1>2, <3>1 DEF H264!FuA, H264!Fragmented
  <2>2. \/ end = e /\ l <= mtu
        \/ /\ end = o + mtu + 1 /\ l >= mtu - 2
           /\ k = Len(frame) => l > mtu
           /\ k < Len(frame) /\ c = 3 => l > mtu - 2
    BY <1>1, EndAtCode
  <2> HIDE DEF end, o, e, l, c
  <2>3. ~(end = e /\ l <= mtu)
    BY <1>3, <2>1
  <2>4. QED
    BY <2>2, <2>3
<1>5. /\ frame' = frame /\ fu' = [at |-> o - 1, type |-> k] /\ pos' = to /\ H264!Sent(p)
  <2> DEFINE start == o + 1
  <2>1. k # 0 /\ start - 2 = o - 1 /\ start + mtu - 2 = to /\ to - start + 2 = mtu
        /\ ~(end - start + 2 <= mtu)
    <3> HIDE DEF end, o, e, l, c
    <3>1. k # 0
      BY <1>3
    <3>2. start - 2 = o - 1 /\ start + mtu - 2 = to /\ to - start + 2 = mtu
      BY <1>3
    <3>3. ~(end - start + 2 <= mtu)
      BY <1>3, <1>4
    <3>4. QED
      BY <3>1, <3>2, <3>3
  <2>2. ~H264!EndBit(start, end) /\ H264!FragmentEnd(start, end) = to
    BY <2>1 DEF H264!EndBit, H264!FragmentEnd
  <2>3. H264!HeaderType([at |-> o, nal |-> k], start) = k
    BY <2>1 DEF H264!HeaderType
  <2>4. /\ frame' = frame
        /\ fu' = [at |-> start - 2, type |-> k] /\ pos' = to
        /\ H264!Sent([H264!NoPacket EXCEPT !.fuA = TRUE, !.S = k # 0, !.E = H264!EndBit(start, end),
                        !.nal = k, !.from = start, !.to = to, !.size = to - start + 2])
    <3> HIDE DEF to, end
    <3>1. QED
      BY <1>2, <2>1, <2>2, <2>3 DEF H264!FuA, end
  <2>5. (k # 0) = TRUE /\ H264!EndBit(start, end) = FALSE
    BY <2>1, <2>2 DEF H264!EndBit
  <2> HIDE DEF to, end, start
  <2>6. QED
    BY <2>1, <2>4, <2>5 DEF start
<1> HIDE DEF end
<1>6. to <= FrameLen /\ to \in Nat /\ to > pos /\ o + 1 < e /\ to > o
      /\ (k = Len(frame) => to < e)
      /\ (to < e \/ to = e \/ (k < Len(frame) /\ c = 4 /\ l = mtu - 2 /\ to = e + 1))
  <2> HIDE DEF o, e, l, c
  <2>1. to \in Nat /\ to > pos /\ o + 1 < e /\ to > o /\ (k = Len(frame) => to < e)
    <3>1. to \in Nat /\ to > pos /\ to > o
      BY <1>2, <1>3
    <3>2. o + 1 < e
      BY <1>3, <1>4
    <3>3. k = Len(frame) => to < e
      BY <1>3, <1>4
    <3>4. QED
      BY <3>1, <3>2, <3>3
  <2>2. CASE k = Len(frame)
    BY <1>3, <2>1, <2>2
  <2>3. CASE k < Len(frame) /\ c = 3
    BY <1>3, <1>4, <2>1, <2>3
  <2>4. CASE k < Len(frame) /\ c = 4
    BY <1>3, <1>4, <2>1, <2>4
  <2>5. QED
    BY <1>3, <2>1, <2>2, <2>3, <2>4
<1>7. /\ p \in H264Packets /\ p.fuA = TRUE /\ p.S = TRUE /\ p.E = FALSE
      /\ p.nal = k /\ p.from = o + 1 /\ p.to = to /\ p.size = mtu
  <2> HIDE DEF o, e, l, c
  <2>1. k \in 0..Len(frame) /\ o + 1 \in 0..FrameLen /\ to \in 0..FrameLen /\ mtu \in 0..mtu
    <3> HIDE DEF to
    <3>1. k \in 0..Len(frame) /\ mtu \in 0..mtu
      BY <1>3
    <3>2. o + 1 \in 0..FrameLen
      BY <1>3, <1>6
    <3>3. QED
      BY <1>3, <1>6, <3>1, <3>2
  <2> HIDE DEF to
  <2>2. QED
    BY <2>1 DEF H264!NoPacket, H264Packets
<1> HIDE DEF p, to
<1>8. /\ pkt' \in H264Packets /\ seq' \in 0..(SeqMod - 1) /\ out' \in Held
      /\ pkt'.fuA = TRUE /\ pkt'.E = FALSE /\ pkt'.nal = k /\ pkt'.from = o + 1 /\ pkt'.to = to
      /\ out' = IF p.size <= 2 THEN <<>> ELSE out \o <<CODE, Octet(p.nal)>> \o Bytes(p.from, p.to)
  <2>1. pos' \in Int /\ p.nal # 0
    BY <1>3, <1>5, <1>6, <1>7
  <2>2. QED
    BY <1>1, <1>5, <1>7, <2>1, H264Sent
<1>9. H264Regular => out' = Expected[pos']
  <2> SUFFICES ASSUME H264Regular PROVE out' = Expected[to]
    BY <1>5
  <2>1. pos = Begin[k] /\ ~H264!TakesZero(k)
    BY <1>1 DEF H264Regular, FrameOK
  <2>2. to <= e
    BY <1>3, <1>6, <2>1 DEF H264!TakesZero
  <2>3. out' = Expected[Begin[k]] \o <<CODE, o>> \o Bytes(o + 1, to)
    <3>1. ~(p.size <= 2)
      BY <1>3, <1>7
    <3>2. QED
      BY <1>1, <1>7, <1>8, <2>1, <3>1
  <2>4. /\ Expected[Begin[k]] \in Seq(Int)
        /\ Expected[to] = Append(Expected[Begin[k]], CODE) \o Bytes(o, to)
    <3>1. to \in Int /\ Octet(k) <= to /\ to <= End(k)
      BY <1>3, <1>6, <2>2
    <3>2. QED
      BY <1>1, <3>1, ExpectedNal
  <2> HIDE DEF o, e
  <2>5. Expected[Begin[k]] \o <<CODE, o>> \o Bytes(o + 1, to) = Append(Expected[Begin[k]], CODE) \o Bytes(o, to)
    <3>1. o \in Int /\ to \in Int /\ o < to
      BY <1>3, <1>6
    <3>2. QED
      BY <2>4, <3>1, SentBytes
  <2>6. QED
    BY <2>3, <2>4, <2>5
<1>10. pos' > pos /\ pos' \in 0..FrameLen /\ pos' # 0
  BY <1>1, <1>3, <1>5, <1>6
<1>11. fu'.at \in NONE..FrameLen /\ fu'.type \in 0..Len(frame)
  <2>1. fu'.at = o - 1 /\ fu'.type = k
    BY <1>5
  <2> HIDE DEF o, e, l, c
  <2>2. o - 1 \in NONE..FrameLen
    BY <1>3, <1>6 DEF NONE
  <2>3. k \in 0..Len(frame)
    BY <1>3
  <2>4. QED
    BY <2>1, <2>2, <2>3
<1>12. /\ pkt'.nal # 0 /\ Octet(pkt'.nal) < pkt'.from /\ pkt'.from < End(pkt'.nal)
       /\ pkt'.nal = Len(frame) => (pkt'.E <=> pkt'.to = FrameLen)
  <2>1. o < o + 1 /\ o + 1 < e /\ k # 0 /\ (k = Len(frame) => to # FrameLen)
    BY <1>3, <1>6
  <2>2. QED
    BY <1>8, <2>1
<1>13. CASE to < e
  <2>1. (to - o - 1) % (mtu - 2) = 0
    <3>1. Splits(to - o - 1, mtu - 2, 1, 0) /\ to - o - 1 \in Int /\ mtu - 2 \in Nat \ {0}
      BY <1>3 DEF Splits, to
    <3>2. QED
      BY <3>1, DivModUnique
  <2>2. o - 1 = to - mtu /\ o + mtu - 1 <= to
    BY <1>3 DEF to
  <2>3. \E j \in 1..Len(frame) :
          /\ frame[j].code # 0
          /\ Octet(j) + mtu - 1 <= pos' /\ pos' < End(j)
          /\ (pos' - Octet(j) - 1) % (mtu - 2) = 0
          /\ fu' = [at |-> pos' - mtu, type |-> j]
    BY <1>5, <1>13, <2>1, <2>2
  <2> HIDE DEF o, e, l, c
  <2>4. H264Inv'
    BY <1>1, <1>5, <1>8, <1>9, <1>10, <1>11, <1>12, <2>3, H264After
  <2>5. QED
    BY <1>10, <2>4
<1>14. CASE to = e
  <2>1. k + 1 \in 1..(Len(frame) + 1) /\ (k + 1 <= Len(frame) => frame[k + 1].code # 0)
    BY <1>3
  <2>2. \E j \in 1..(Len(frame) + 1) : pos' = Begin[j] /\ (j <= Len(frame) => frame[j].code # 0)
    BY <1>3, <1>5, <1>14, <2>1
  <2> HIDE DEF o, e, l, c
  <2>3. H264Inv'
    BY <1>1, <1>5, <1>8, <1>9, <1>10, <1>11, <1>12, <2>2, H264After
  <2>4. QED
    BY <1>10, <2>3
<1>15. CASE k < Len(frame) /\ c = 4 /\ l = mtu - 2 /\ to = e + 1
  <2>1. k + 1 \in 2..Len(frame) /\ (k + 1) - 1 = k
    BY <1>3, <1>15
  <2>2. H264!TakesZero((k + 1) - 1)
    BY <1>15, <2>1 DEF H264!TakesZero
  <2>3. \E j \in 2..Len(frame) : frame[j].code = 4 /\ pos' = Begin[j] + 1 /\ H264!TakesZero(j - 1)
    BY <1>3, <1>5, <1>15, <2>1, <2>2
  <2> HIDE DEF o, e, l, c
  <2>4. H264Inv'
    BY <1>1, <1>5, <1>8, <1>9, <1>10, <1>11, <1>12, <2>3, H264After
  <2>5. QED
    BY <1>10, <2>4
<1>16. QED
  BY <1>6, <1>13, <1>14, <1>15

\* A further fragment.
LEMMA NextFuTurn ==
  ASSUME H264Inv, NEW k \in 1..Len(frame), H264Inside(k),
         ~(k < Len(frame) /\ frame[k + 1].code = 3 /\ pos + 1 = End(k)), H264!FuA
  PROVE  H264Inv' /\ pos' > pos
<1> DEFINE o == Octet(k)
           e == End(k)
           c == frame[k + 1].code
           end == H264!NalEnd(pos)
           last == end - pos + 2 <= mtu
           to == IF last THEN end ELSE pos + mtu - 2
           p == [H264!NoPacket EXCEPT !.fuA = TRUE, !.S = FALSE, !.E = last, !.nal = k,
                   !.from = pos, !.to = to, !.size = to - pos + 2]
<1>1. /\ FrameOK /\ pos \in 0..FrameLen /\ seq \in 0..(SeqMod - 1) /\ out \in Held
      /\ H264Regular => out = Expected[pos]
  BY H264InvIs
<1>2. /\ o \in Nat /\ e \in Nat /\ e <= FrameLen /\ FrameLen \in Nat
      /\ e = Begin[k + 1] /\ mtu \in Nat /\ mtu > 3 /\ Len(frame) \in Nat
      /\ k < Len(frame) => c \in {3, 4} /\ Octet(k + 1) = e + c
      /\ k = Len(frame) => e = FrameLen
  BY <1>1, Places, Assumption, ZenonT(40) DEF FrameOK
<1>3. /\ frame[k].code # 0 /\ o + mtu - 1 <= pos /\ pos < e
      /\ (pos - o - 1) % (mtu - 2) = 0
      /\ fu = [at |-> pos - mtu, type |-> k]
  BY DEF H264Inside
<1>4. pos \in Int /\ o < pos
  <2> HIDE DEF o, e, c
  <2>1. QED
    BY <1>1, <1>2, <1>3
<1>5. H264!NalStart = [at |-> pos, nal |-> 0]
  <2>1. Octet(k) <= pos /\ pos < End(k)
    BY <1>2, <1>3, <1>4
  <2>2. QED
    BY <1>1, <1>4, <2>1, StartInside
<1>6. end = IF \/ k < Len(frame) /\ Octet(k + 1) <= pos + mtu + 1
               \/ k = Len(frame) /\ e <= pos + mtu + 1
            THEN e ELSE pos + mtu + 1
  <2>1. Octet(k) <= pos /\ pos < End(k)
    BY <1>2, <1>3, <1>4
  <2>2. QED
    BY <1>1, <1>4, <2>1, EndSeen
<1> HIDE DEF end
<1>7. /\ to \in Int /\ to > pos /\ to <= e /\ to - pos + 2 <= mtu
      /\ last => to = e
      /\ ~last => to = pos + mtu - 2
      /\ k = Len(frame) => (last <=> to = e)
  <2> HIDE DEF o, e, c
  <2>1. CASE k < Len(frame) /\ Octet(k + 1) <= pos + mtu + 1
    <3>4. end = e
      BY <1>6, <2>1
    <3>5. e + c <= pos + mtu + 1 /\ c >= 3 /\ c \in Int
      BY <1>2, <2>1
    <3>7. e \in Int /\ pos \in Int /\ mtu \in Int
      BY <1>2, <1>4
    <3>8. e - pos + 2 <= mtu
      BY <3>5, <3>7
    <3>6. end - pos + 2 <= mtu
      BY <3>4, <3>8
    <3>1. end = e /\ last
      BY <3>4, <3>6
    <3>2. k # Len(frame)
      BY <1>2, <2>1
    <3>3. QED
      BY <1>2, <1>3, <1>4, <3>1, <3>2
  <2>2. CASE k < Len(frame) /\ ~(Octet(k + 1) <= pos + mtu + 1)
    <3>1. k # Len(frame) /\ end = pos + mtu + 1
      BY <1>2, <1>6, <2>2
    <3>2. ~last /\ pos + mtu - 2 <= e
      BY <1>2, <1>3, <1>4, <2>2, <3>1
    <3>3. to = pos + mtu - 2
      BY <3>2
    <3>4. QED
      BY <1>2, <1>4, <3>1, <3>2, <3>3
  <2>3. CASE k = Len(frame)
    <3>1. ~(k < Len(frame))
      BY <1>2, <2>3
    <3>2. CASE e <= pos + mtu + 1
      <4>1. end = e
        BY <1>6, <2>3, <3>2
      <4>2. CASE last
        BY <1>2, <1>3, <1>4, <4>1, <4>2
      <4>3. CASE ~last
        <5>1. to = pos + mtu - 2
          BY <4>3
        <5>3. ~(e - pos + 2 <= mtu)
          BY <4>1, <4>3
        <5>4. pos + mtu - 2 < e
          <6> HIDE DEF last, to
          <6>1. QED
            BY <1>2, <1>4, <5>3
        <5>2. QED
          <6>1. to < e
            BY <5>1, <5>4
          <6> HIDE DEF last, to
          <6>2. QED
            BY <1>2, <1>4, <2>3, <4>3, <5>1, <6>1
      <4>4. QED
        BY <4>2, <4>3
    <3>3. CASE ~(e <= pos + mtu + 1)
      <4>1. end = pos + mtu + 1
        BY <1>6, <3>1, <3>3
      <4>5. ~(end - pos + 2 <= mtu) /\ pos + mtu - 2 < e
        <5> HIDE DEF last, to
        <5>1. QED
          BY <1>2, <1>4, <3>3, <4>1
      <4>2. ~last /\ pos + mtu - 2 < e
        BY <4>5
      <4>3. to = pos + mtu - 2
        BY <4>2
      <4>4. QED
        BY <1>2, <1>4, <4>2, <4>3
    <3>4. QED
      BY <3>2, <3>3
  <2>4. k < Len(frame) \/ k = Len(frame)
    BY <1>2
  <2>5. QED
    BY <2>1, <2>2, <2>3, <2>4
<1>8. /\ frame' = frame /\ fu' = [at |-> pos - 2, type |-> k] /\ pos' = to /\ H264!Sent(p)
  <2>1. H264!FragmentEnd(pos, end) = to /\ H264!EndBit(pos, end) = last
    BY DEF H264!FragmentEnd, H264!EndBit
  <2>2. H264!HeaderType([at |-> pos, nal |-> 0], pos) = k
    BY <1>3 DEF H264!HeaderType
  <2> DEFINE eb == H264!EndBit(pos, end)
             fe == H264!FragmentEnd(pos, end)
             ht == H264!HeaderType([at |-> pos, nal |-> 0], pos)
  <2>3. /\ frame' = frame
        /\ fu' = [at |-> pos - 2, type |-> ht] /\ pos' = fe
        /\ H264!Sent([H264!NoPacket EXCEPT !.fuA = TRUE, !.S = FALSE, !.E = eb,
                        !.nal = ht, !.from = pos, !.to = fe, !.size = fe - pos + 2])
    BY <1>5 DEF H264!FuA, end
  <2>4. eb = last /\ fe = to /\ ht = k
    BY <2>1, <2>2
  <2> HIDE DEF eb, fe, ht, last, to
  <2>5. QED
    BY <2>3, <2>4
<1>9. /\ p \in H264Packets /\ p.fuA = TRUE /\ p.S = FALSE /\ p.E = last
      /\ p.nal = k /\ p.from = pos /\ p.to = to /\ p.size = to - pos + 2
  <2> HIDE DEF o, e, c
  <2>1. k \in 0..Len(frame) /\ pos \in 0..FrameLen /\ to \in 0..FrameLen /\ to - pos + 2 \in 0..mtu
    <3> HIDE DEF last, to
    <3>1. k \in 0..Len(frame)
      BY <1>2
    <3>2. to \in 0..FrameLen /\ to - pos + 2 \in 0..mtu
      BY <1>1, <1>2, <1>7
    <3>3. QED
      BY <1>1, <3>1, <3>2
  <2>2. last \in BOOLEAN
    OBVIOUS
  <2> HIDE DEF to, last
  <2>3. QED
    BY <2>1, <2>2 DEF H264!NoPacket, H264Packets
<1> HIDE DEF p, to, last
<1>10. /\ pkt' \in H264Packets /\ seq' \in 0..(SeqMod - 1) /\ out' \in Held
       /\ pkt'.fuA = TRUE /\ pkt'.E = last /\ pkt'.nal = k /\ pkt'.from = pos /\ pkt'.to = to
       /\ out' = IF p.size <= 2 THEN <<>> ELSE out \o Bytes(p.from, p.to)
  <2>1. pos' \in Int /\ (p.fuA /\ p.S => p.nal # 0)
    BY <1>7, <1>8, <1>9
  <2>2. QED
    BY <1>1, <1>8, <1>9, <2>1, H264Sent
<1>11. H264Regular => out' = Expected[pos']
  <2> SUFFICES ASSUME H264Regular PROVE out' = Expected[to]
    BY <1>8
  <2>1. ~(p.size <= 2)
    BY <1>4, <1>7, <1>9
  <2>2. out' = Expected[pos] \o Bytes(pos, to)
    BY <1>1, <1>9, <1>10, <2>1
  <2>3. Expected[pos] \in Seq(Int)
    BY <1>1, ExpectedIs
  <2>4. Octet(k) <= pos /\ pos <= to /\ to <= End(k)
    BY <1>2, <1>4, <1>7
  <2>5. Expected[to] = Expected[pos] \o Bytes(pos, to)
    BY <1>1, <1>4, <1>7, <2>3, <2>4, ExpectedBytes
  <2>6. QED
    BY <2>2, <2>5
<1> HIDE DEF o, e, c
<1>12. pos' > pos /\ pos' \in 0..FrameLen /\ pos' # 0
  <2>1. to \in Int /\ to > pos /\ to <= e
    BY <1>7
  <2>2. pos \in 0..FrameLen /\ FrameLen \in Nat /\ e \in Nat /\ e <= FrameLen
    BY <1>1, <1>2
  <2>3. to > pos /\ to \in 0..FrameLen /\ to # 0
    BY <2>1, <2>2
  <2>4. QED
    BY <1>8, <2>3
<1>13. fu'.at \in NONE..FrameLen /\ fu'.type \in 0..Len(frame)
  <2>1. fu'.at = pos - 2 /\ fu'.type = k
    BY <1>8
  <2>2. pos - 2 \in NONE..FrameLen /\ k \in 0..Len(frame)
    BY <1>1, <1>2, <1>3 DEF NONE
  <2>3. QED
    BY <2>1, <2>2
<1>14. /\ pkt'.nal # 0 /\ Octet(pkt'.nal) < pkt'.from /\ pkt'.from < End(pkt'.nal)
       /\ pkt'.nal = Len(frame) => (pkt'.E <=> pkt'.to = FrameLen)
  <2>1. k # 0 /\ o < pos /\ pos < e /\ (k = Len(frame) => (last <=> to = FrameLen))
    BY <1>2, <1>3, <1>4, <1>7
  <2>2. QED
    BY <1>10, <2>1 DEF o, e
<1>15. CASE to = e
  <2>1. k + 1 \in 1..(Len(frame) + 1) /\ (k + 1 <= Len(frame) => frame[k + 1].code # 0)
    BY <1>2 DEF c
  <2>2. \E j \in 1..(Len(frame) + 1) : pos' = Begin[j] /\ (j <= Len(frame) => frame[j].code # 0)
    BY <1>2, <1>8, <1>15, <2>1
  <2>3. H264Inv'
    BY <1>1, <1>8, <1>10, <1>11, <1>12, <1>13, <1>14, <2>2, H264After
  <2>4. QED
    BY <1>12, <2>3
<1>16. CASE to # e
  <2>1. to < e /\ to = pos + mtu - 2
    BY <1>2, <1>7, <1>16
  <2>2. (to - o - 1) % (mtu - 2) = 0
    <3> DEFINE m == mtu - 2
               a == pos - o - 1
               q == a \div m
    <3>1. m \in Nat \ {0} /\ a \in Int /\ a % m = 0 /\ to - o - 1 = a + m
      BY <1>2, <1>3, <1>4, <2>1
    <3> HIDE DEF m, a
    <3>2. q \in Int /\ a = m * q + 0
      BY <3>1, DivMod DEF Splits
    <3> HIDE DEF q
    <3>3. m * (q + 1) = m * q + m
      BY <3>1, <3>2
    <3>4. Splits(a + m, m, q + 1, 0) /\ a + m \in Int
      BY <3>1, <3>2, <3>3 DEF Splits
    <3>5. (a + m) % m = 0
      BY <3>1, <3>4, DivModUnique
    <3>6. QED
      BY <3>1, <3>5 DEF m
  <2>3. pos - 2 = to - mtu /\ o + mtu - 1 <= to
    BY <1>2, <1>3, <1>4, <2>1
  <2>4. \E j \in 1..Len(frame) :
          /\ frame[j].code # 0
          /\ Octet(j) + mtu - 1 <= pos' /\ pos' < End(j)
          /\ (pos' - Octet(j) - 1) % (mtu - 2) = 0
          /\ fu' = [at |-> pos' - mtu, type |-> j]
    BY <1>3, <1>8, <2>1, <2>2, <2>3 DEF o, e
  <2>5. H264Inv'
    BY <1>1, <1>8, <1>10, <1>11, <1>12, <1>13, <1>14, <2>4, H264After
  <2>6. QED
    BY <1>12, <2>5
<1>17. QED
  BY <1>15, <1>16

\* A single byte in front of a start code of three bytes is left after full fragments
\* only if the NAL unit has the length that LeavesByte names.
LEMMA ByteLeft ==
  ASSUME H264Inv, NEW k \in 1..Len(frame), H264Inside(k),
         k < Len(frame), frame[k + 1].code = 3, pos + 1 = End(k)
  PROVE  H264!LeavesByte(k)
<1> DEFINE m == mtu - 2
           o == Octet(k)
           e == End(k)
           l == frame[k].len
<1>1. /\ o \in Nat /\ e \in Nat /\ l \in Nat \ {0} /\ e = o + l /\ m \in Nat \ {0} /\ m >= 2
      /\ mtu \in Nat /\ m = mtu - 2
  BY Places, Assumption, SMTT(40) DEF H264Inv
<1>2. o + mtu - 1 <= pos /\ (pos - o - 1) % m = 0 /\ pos \in Int
  BY H264InvIs DEF H264Inside
<1> HIDE DEF m, o, e, l
<1>3. pos - o - 1 = l - 2 /\ l >= mtu - 1 /\ l - 2 \in Int
  BY <1>1, <1>2 DEF e
<1>4. (0 + 1) % m = ((l - 2) + 1) % m
  <2>1. (l - 2) % m = 0
    BY <1>2, <1>3
  <2>2. (((l - 2) % m) + 1) % m = ((l - 2) + 1) % m
    BY <1>1, <1>3, ModPlusOne
  <2>3. QED
    BY <2>1, <2>2
<1>5. 1 % m = 1
  <2>1. 1 \in 0..(m - 1)
    BY <1>1
  <2>2. QED
    BY <1>1, <2>1, ModOfSmall
<1>6. (l - 1) % m = 1
  <2>1. 0 + 1 = 1 /\ (l - 2) + 1 = l - 1
    BY <1>1
  <2>2. QED
    BY <1>4, <1>5, <2>1
<1>7. QED
  BY <1>1, <1>3, <1>6 DEF H264!LeavesByte, H264!Rest, l, m

\* Every turn of the loop.
LEMMA H264Turn ==
  ASSUME H264Inv, H264!Next
  PROVE  H264Inv' /\ (frame[1].code # 0 => pos' > pos)
<1>1. /\ FrameOK /\ H264Place /\ pos \in 0..FrameLen /\ seq \in 0..(SeqMod - 1) /\ out \in Held
      /\ pkt \in H264Packets /\ fu.at \in NONE..FrameLen /\ fu.type \in 0..Len(frame)
      /\ pos = 0 => pkt.size = 0 /\ ~pkt.fuA
  BY H264InvIs
<1>2. H264!SingleNal \/ H264!FuA \/ H264!Cancelled
  BY DEF H264!Next
<1>3. pos < FrameLen /\ FrameLen \in Nat
  <2>1. 1 \in 1..Len(frame)
    BY <1>1 DEF FrameOK
  <2>2. FrameLen \in Nat
    BY <1>1, <2>1, Places
  <2>3. QED
    BY <1>2, <2>2, SamePlaces DEF H264!SingleNal, H264!FuA, H264!Cancelled
<1>4. ASSUME NEW k \in 1..Len(frame), frame[k].code # 0, Sees(k), H264Regular => pos = Begin[k]
      PROVE  H264Inv' /\ pos' > pos
  <2>1. H264!NalStart = [at |-> Octet(k), nal |-> k]
    BY <1>1, <1>4, StartAtCode
  <2>2. ~H264!Cancelled
    <3>1. k # 0
      BY <1>1 DEF FrameOK
    <3>2. QED
      BY <2>1, <3>1 DEF H264!Cancelled
  <2>3. QED
    BY <1>2, <1>4, <2>2, SingleTurn, FirstFuTurn
<1>5. ASSUME NEW k \in 1..(Len(frame) + 1), AtCode(k)
      PROVE  H264Inv' /\ pos' > pos
  <2>1. k # Len(frame) + 1
    BY <1>3, <1>5 DEF AtCode, FrameLen
  <2>2. k \in 1..Len(frame) /\ k <= Len(frame)
    BY <1>1, <2>1 DEF FrameOK
  <2>3. QED
    BY <1>4, <1>5, <2>2 DEF AtCode, Sees
<1>6. ASSUME NEW k \in 2..Len(frame), BehindZero(k)
      PROVE  H264Inv' /\ pos' > pos
  <2>1. k \in 1..Len(frame) /\ k - 1 \in DOMAIN frame
    BY <1>1 DEF FrameOK
  <2>2. ~H264Regular
    BY <1>6, <2>1 DEF BehindZero, H264Regular
  <2>3. QED
    BY <1>4, <1>6, <2>1, <2>2 DEF BehindZero, Sees
<1>7. ASSUME NEW k \in 1..Len(frame), H264Inside(k)
      PROVE  H264Inv' /\ pos' > pos
  <2>1. /\ Octet(k) \in Nat /\ End(k) \in Nat /\ End(k) = Begin[k + 1] /\ mtu \in Nat /\ mtu > 3
        /\ Octet(k) >= 3
    <3>1. /\ Octet(k) \in Nat /\ End(k) \in Nat /\ End(k) = Begin[k + 1]
          /\ Octet(k) = Begin[k] + frame[k].code /\ Begin[k] \in Nat /\ frame[k].code \in {0, 3, 4}
      BY <1>1, Places
    <3>2. frame[k].code # 0
      BY <1>7 DEF H264Inside
    <3>3. QED
      BY <3>1, <3>2, Assumption
  <2>2. Octet(k) + mtu - 1 <= pos /\ pos < End(k) /\ pos \in Int
    BY <1>1, <1>7 DEF H264Inside
  <2>3. pos >= mtu
    BY <2>1, <2>2
  <2>4. CASE k < Len(frame) /\ frame[k + 1].code = 3 /\ pos + 1 = End(k)
    <3>1. k \in DOMAIN frame /\ k + 1 \in 1..Len(frame) /\ k + 1 > 1
      BY <1>1, <2>4 DEF FrameOK
    <3>2. ~H264Regular
      BY <1>7, <2>4, <3>1, ByteLeft DEF H264Regular
    <3>3. Sees(k + 1)
      BY <2>1, <2>2, <2>4, <3>1 DEF Sees
    <3>4. frame[k + 1].code # 0
      BY <2>4
    <3>5. QED
      BY <1>4, <3>1, <3>2, <3>3, <3>4
  <2>5. CASE ~(k < Len(frame) /\ frame[k + 1].code = 3 /\ pos + 1 = End(k))
    <3>1. H264!NalStart = [at |-> pos, nal |-> 0]
      <4>1. Octet(k) <= pos
        BY <2>1, <2>2
      <4>2. QED
        BY <1>1, <2>2, <2>5, <4>1, StartInside
    <3>2. ~H264!SingleNal /\ ~H264!Cancelled
      <4>1. ~(pos < mtu)
        BY <2>1, <2>2, <2>3
      <4>2. QED
        BY <3>1, <4>1 DEF H264!SingleNal, H264!Fragmented, H264!Cancelled
    <3>3. QED
      BY <1>2, <1>7, <2>5, <3>2, NextFuTurn
  <2>6. QED
    BY <2>4, <2>5
<1>8. ASSUME pos = 0, frame[1].code = 0
      PROVE  H264Inv'
  <2>1. /\ 1 \in 1..Len(frame) /\ ~H264Regular /\ Len(frame) \in Nat
        /\ Begin[1] = 0 /\ Octet(1) = 0 /\ End(1) = Begin[2] /\ 0 < End(1) /\ End(1) \in Nat
    <3>1. 1 \in 1..Len(frame) /\ Len(frame) \in Nat
      BY <1>1 DEF FrameOK
    <3>2. /\ Begin[1] = 0 /\ Octet(1) = Begin[1] + frame[1].code /\ End(1) = Begin[1 + 1]
          /\ End(1) = Octet(1) + frame[1].len /\ frame[1].len \in Nat \ {0} /\ End(1) \in Nat
      BY <1>1, <3>1, Places, BeginIs
    <3>3. QED
      BY <1>8, <3>1, <3>2 DEF H264Regular
  <2>2. CASE 1 < Len(frame) /\ frame[1 + 1].code = 3 /\ pos + 1 = End(1)
    <3>1. 2 \in 1..Len(frame)
      BY <2>1, <2>2
    <3>2. frame[2].code = 3 /\ pos = Begin[2] - 1
      BY <1>8, <2>1, <2>2
    <3>3. Sees(2) /\ frame[2].code # 0
      BY <3>2 DEF Sees
    <3>4. QED
      BY <1>4, <2>1, <3>1, <3>3
  <2>3. CASE ~(1 < Len(frame) /\ frame[1 + 1].code = 3 /\ pos + 1 = End(1))
    <3>1. H264!NalStart = [at |-> pos, nal |-> 0]
      BY <1>1, <1>8, <2>1, <2>3, StartInside
    <3>2. ~H264!SingleNal /\ ~H264!FuA
      <4>1. ~(0 >= mtu)
        BY Assumption
      <4>2. QED
        BY <1>8, <3>1, <4>1 DEF H264!SingleNal, H264!FuA, H264!Fragmented
    <3>3. frame' = frame /\ fu' = fu /\ pos' = pos /\ H264!Sent(pkt)
      BY <1>2, <3>2 DEF H264!Cancelled
    <3>6. pkt \in H264Packets /\ pos' \in Int /\ (pkt.fuA /\ pkt.S => pkt.nal # 0)
      BY <1>1, <1>8, <3>3
    <3>4. /\ pkt' \in H264Packets /\ seq' \in 0..(SeqMod - 1) /\ out' \in Held
          /\ pkt'.fuA = pkt.fuA /\ pkt'.size = pkt.size
      BY <1>1, <3>3, <3>6, H264Sent
    <3>5. QED
      BY <1>1, <1>8, <2>1, <3>3, <3>4, H264After
  <2>4. QED
    BY <2>2, <2>3
<1>9. CASE pos = 0 /\ frame[1].code = 0
  BY <1>8, <1>9
<1>10. CASE ~(pos = 0 /\ frame[1].code = 0)
  BY <1>1, <1>5, <1>6, <1>7, <1>10 DEF H264Place
<1>11. QED
  BY <1>9, <1>10
-----------------------------------------------------------------------------
(***************************************************************************)
(* H.265: what a turn does.                                                *)
(***************************************************************************)

\* Whatever is searched for, what is found lies in the window, and at the beginning
\* of a start code or behind its leading zero.
LEMMA FindIn ==
  ASSUME FrameOK, NEW a \in Int, NEW b \in Int, NEW p, p = find_next_nal_unit(a, b), p # NONE
  PROVE  /\ p \in Int /\ a <= p /\ p + 3 <= b
         /\ \E k \in 1..Len(frame) :
              /\ frame[k].code # 0
              /\ Begin[k] <= p /\ p + 3 <= Octet(k) /\ Octet(k) <= b
<1> DEFINE found == {x \in a..(b - 3) :
                       \E j \in DOMAIN frame : frame[j].code # 0 /\ x = Octet(j) - 3}
<1>1. \A j \in 1..Len(frame) :
        /\ Begin[j] \in Nat /\ Octet(j) \in Nat /\ Octet(j) = Begin[j] + frame[j].code
        /\ frame[j].code \in {0, 3, 4}
  BY Places
<1>2. DOMAIN frame = 1..Len(frame)
  BY DEF FrameOK
<1>3. p = IF Min(found) > a /\ \E j \in DOMAIN frame :
                  frame[j].code = 4 /\ Begin[j] = Min(found) - 1
          THEN Min(found) - 1 ELSE Min(found)
  <2>1. p = IF found = {} THEN NONE
            ELSE IF Min(found) > a /\ \E j \in DOMAIN frame :
                      frame[j].code = 4 /\ Begin[j] = Min(found) - 1
                 THEN Min(found) - 1 ELSE Min(found)
    BY DEF find_next_nal_unit, found
  <2>2. QED
    BY <2>1
<1>4. found # {}
  BY DEF find_next_nal_unit, found
<1>5. found \subseteq Nat
  BY <1>1, <1>2
<1>6. PICK m \in found : \A x \in found : m <= x
  <2> HIDE DEF found
  <2>1. QED
    BY <1>4, <1>5, SmallestMember
<1>7. Min(found) = m
  <2> HIDE DEF found
  <2>1. ASSUME NEW x \in found, \A y \in found : x <= y
        PROVE  x = m
    BY <1>5, <1>6, <2>1
  <2>2. QED
    BY <1>6, <2>1 DEF Min
<1>8. PICK k \in 1..Len(frame) : frame[k].code # 0 /\ m = Octet(k) - 3 /\ a <= m /\ m <= b - 3
  BY <1>2, <1>6
<1>9. m \in Int
  BY <1>5, <1>6
<1> HIDE DEF found
<1>10. p = IF m > a /\ \E j \in 1..Len(frame) : frame[j].code = 4 /\ Begin[j] = m - 1
           THEN m - 1 ELSE m
  BY <1>2, <1>3, <1>7
<1>11. CASE m > a /\ \E j \in 1..Len(frame) : frame[j].code = 4 /\ Begin[j] = m - 1
  <2>1. PICK j \in 1..Len(frame) : frame[j].code = 4 /\ Begin[j] = m - 1
    BY <1>11
  <2>2. p = m - 1
    BY <1>10, <1>11
  <2>3. p \in Int /\ a <= p /\ p + 3 <= b
    BY <1>8, <1>9, <1>11, <2>2
  <2>4. Begin[j] <= p /\ p + 3 <= Octet(j) /\ Octet(j) <= b
    <3> DEFINE o == Octet(j)
               q == Octet(k)
               c == frame[j].code
               x == Begin[j]
    <3>1. o = x + c /\ c = 4 /\ x = m - 1 /\ o \in Nat /\ q \in Nat /\ x \in Nat
      BY <1>1, <2>1
    <3>2. m = q - 3 /\ m <= b - 3 /\ p = m - 1
      BY <1>8, <2>2
    <3> HIDE DEF o, q, c, x
    <3>3. x <= p /\ p + 3 <= o /\ o <= b
      BY <1>9, <3>1, <3>2
    <3>4. QED
      BY <3>3 DEF o, x
  <2>5. QED
    BY <2>1, <2>3, <2>4
<1>12. CASE ~(m > a /\ \E j \in 1..Len(frame) : frame[j].code = 4 /\ Begin[j] = m - 1)
  <2>1. p = m
    BY <1>10, <1>12
  <2>2. p \in Int /\ a <= p /\ p + 3 <= b
    BY <1>8, <1>9, <2>1
  <2>3. Begin[k] <= p /\ p + 3 <= Octet(k) /\ Octet(k) <= b
    <3> DEFINE o == Octet(k)
               c == frame[k].code
               x == Begin[k]
    <3>1. o = x + c /\ c \in {3, 4} /\ o \in Nat /\ x \in Nat
      BY <1>1, <1>8
    <3>2. m = o - 3 /\ m <= b - 3
      BY <1>8
    <3> HIDE DEF o, c, x
    <3>3. x <= p /\ p + 3 <= o /\ o <= b
      BY <1>9, <2>1, <3>1, <3>2
    <3>4. QED
      BY <3>3 DEF o, x
  <2>4. QED
    BY <1>8, <2>2, <2>3
<1>13. QED
  BY <1>11, <1>12

-----------------------------------------------------------------------------
(***************************************************************************)
(* H.265: the bytes a receiver rebuilds.                                   *)
(***************************************************************************)

\* The second byte of the header of a NAL unit that is cut, where it was not 1.
Spoiled(p) ==
  \E k \in 1..Len(frame) :
    /\ frame[k].type # H265!PARAM /\ frame[k].len >= PAYLOAD_SIZE /\ frame[k].second # 1
    /\ p = Octet(k) + 1

Rebuilt(p) == IF Spoiled(p) THEN H265!ONE ELSE p

Received(s) == [i \in DOMAIN s |-> Rebuilt(s[i])]

LEMMA SameReceived ==
  ASSUME FrameOK
  PROVE  \A s : H265!Received(s) = Received(s)
<1>1. DOMAIN frame = 1..Len(frame)
  BY DEF FrameOK
<1>2. \A p : H265!Rebuilt(p) = Rebuilt(p)
  BY <1>1, SamePlaces DEF H265!Rebuilt, Rebuilt, Spoiled
<1>3. QED
  BY <1>2 DEF H265!Received, Received

LEMMA ReceivedType ==
  ASSUME NEW s \in Seq(Int)
  PROVE  /\ Received(s) \in Seq(Int) /\ Len(Received(s)) = Len(s)
         /\ \A i \in 1..Len(s) : Received(s)[i] = Rebuilt(s[i])
<1> DEFINE n == Len(s)
<1>1. n \in Nat /\ DOMAIN s = 1..n /\ \A i \in 1..n : s[i] \in Int
  OBVIOUS
<1>2. \A i \in 1..n : Rebuilt(s[i]) \in Int
  BY <1>1 DEF Rebuilt, H265!ONE
<1>3. Received(s) = [i \in 1..n |-> Rebuilt(s[i])]
  BY <1>1 DEF Received
<1> HIDE DEF n
<1>4. Received(s) \in Seq(Int) /\ Len(Received(s)) = n /\ \A i \in 1..n : Received(s)[i] = Rebuilt(s[i])
  BY <1>1, <1>2, <1>3
<1>5. QED
  BY <1>4 DEF n

LEMMA ReceivedConcat ==
  ASSUME NEW s \in Seq(Int), NEW t \in Seq(Int)
  PROVE  Received(s \o t) = Received(s) \o Received(t)
<1> DEFINE st == s \o t
           x == Received(s)
           y == Received(t)
           xy == x \o y
           z == Received(st)
<1>1. /\ st \in Seq(Int) /\ Len(st) = Len(s) + Len(t)
      /\ \A i \in 1..(Len(s) + Len(t)) : st[i] = IF i <= Len(s) THEN s[i] ELSE t[i - Len(s)]
  BY ConcatProperties
<1>2. /\ x \in Seq(Int) /\ Len(x) = Len(s) /\ \A i \in 1..Len(s) : x[i] = Rebuilt(s[i])
      /\ y \in Seq(Int) /\ Len(y) = Len(t) /\ \A i \in 1..Len(t) : y[i] = Rebuilt(t[i])
  BY ReceivedType
<1> HIDE DEF st, x, y
<1>3. /\ z \in Seq(Int) /\ Len(z) = Len(st) /\ \A i \in 1..Len(st) : z[i] = Rebuilt(st[i])
  BY <1>1, ReceivedType
<1>4. /\ xy \in Seq(Int) /\ Len(xy) = Len(x) + Len(y)
      /\ \A i \in 1..(Len(x) + Len(y)) : xy[i] = IF i <= Len(x) THEN x[i] ELSE y[i - Len(x)]
  <2>1. x \in Seq(Int) /\ y \in Seq(Int)
    BY <1>2
  <2>2. QED
    BY ONLY <2>1, ConcatProperties
<1>5. Len(s) \in Nat /\ Len(t) \in Nat
  OBVIOUS
<1> HIDE DEF z, xy
<1>6. ASSUME NEW i \in 1..(Len(s) + Len(t))
      PROVE  z[i] = xy[i]
  <2>1. CASE i <= Len(s)
    <3>1. i \in 1..Len(s)
      BY <1>5, <2>1
    <3>2. z[i] = Rebuilt(s[i])
      BY <1>1, <1>3, <2>1
    <3>3. xy[i] = x[i]
      BY <1>2, <1>4, <2>1
    <3>4. QED
      BY <1>2, <3>1, <3>2, <3>3
  <2>2. CASE ~(i <= Len(s))
    <3>1. i - Len(s) \in 1..Len(t)
      BY <1>5, <2>2
    <3>2. z[i] = Rebuilt(t[i - Len(s)])
      BY <1>1, <1>3, <2>2
    <3>3. xy[i] = y[i - Len(s)]
      BY <1>2, <1>4, <2>2
    <3>4. QED
      BY <1>2, <3>1, <3>2, <3>3
  <2>3. QED
    BY <2>1, <2>2
<1>7. z = xy
  <2>1. Len(z) = Len(s) + Len(t) /\ Len(xy) = Len(s) + Len(t)
    BY <1>1, <1>2, <1>3, <1>4
  <2>2. QED
    BY <1>3, <1>4, <1>6, <2>1, SeqEqual
<1>8. QED
  BY <1>7 DEF z, xy, st, x, y

\* Nothing happens to bytes that are sent.
LEMMA ReceivedAsIs ==
  ASSUME NEW s \in Seq(Int), \A i \in 1..Len(s) : ~Spoiled(s[i])
  PROVE  Received(s) = s
<1>1. /\ Received(s) \in Seq(Int) /\ Len(Received(s)) = Len(s)
      /\ \A i \in 1..Len(s) : Received(s)[i] = Rebuilt(s[i])
  BY ReceivedType
<1>2. \A i \in 1..Len(s) : Received(s)[i] = s[i]
  BY <1>1 DEF Rebuilt
<1>3. QED
  BY <1>1, <1>2, SeqEqual

LEMMA SpoiledIs ==
  ASSUME FrameOK, NEW k \in 1..Len(frame), NEW p \in Int, Octet(k) <= p, p < End(k)
  PROVE  Spoiled(p) <=> /\ frame[k].type # H265!PARAM /\ frame[k].len >= PAYLOAD_SIZE
                        /\ frame[k].second # 1 /\ p = Octet(k) + 1
<1> SUFFICES ASSUME NEW j \in 1..Len(frame), frame[j].len >= PAYLOAD_SIZE, p = Octet(j) + 1
             PROVE  j = k
  BY DEF Spoiled
<1>1. PAYLOAD_SIZE \in Nat /\ PAYLOAD_SIZE > 6
  BY Assumption
<1>2. /\ Begin[j] \in Nat /\ Octet(j) \in Nat /\ frame[j].code \in {0, 3, 4}
      /\ Octet(j) = Begin[j] + frame[j].code /\ Begin[j + 1] = Octet(j) + frame[j].len
      /\ frame[j].len \in Nat
  BY Places
<1>3. /\ Begin[k] \in Nat /\ Octet(k) \in Nat /\ frame[k].code \in {0, 3, 4}
      /\ Octet(k) = Begin[k] + frame[k].code /\ Begin[k + 1] = Octet(k) + frame[k].len
      /\ End(k) = Begin[k + 1] /\ frame[k].len \in Nat
  BY Places
<1> DEFINE bj == Begin[j]
           ej == Begin[j + 1]
           oj == Octet(j)
           lj == frame[j].len
           bk == Begin[k]
           ek == Begin[k + 1]
           ok == Octet(k)
           lk == frame[k].len
<1>4. /\ bj \in Nat /\ oj \in Nat /\ bj <= oj /\ ej = oj + lj /\ lj \in Nat /\ lj >= PAYLOAD_SIZE
      /\ bk \in Nat /\ ok \in Nat /\ bk <= ok /\ ek = ok + lk /\ lk \in Nat
      /\ ok <= p /\ p < ek /\ p = oj + 1
  <2>1. bj <= oj /\ oj \in Nat /\ lj \in Nat /\ bk <= ok /\ ok \in Nat
    <3>1. ASSUME NEW x \in Nat, NEW y \in Nat, NEW c \in {0, 3, 4}, y = x + c
          PROVE  x <= y
      BY <3>1
    <3>2. QED
      BY <1>2, <1>3, <3>1
  <2>2. bj \in Nat /\ ej = oj + lj /\ lj >= PAYLOAD_SIZE /\ p = oj + 1
    BY <1>2
  <2>3. bk \in Nat /\ ek = ok + lk /\ lk \in Nat /\ ok <= p /\ p < ek
    BY <1>3
  <2> HIDE DEF bj, ej, oj, lj, bk, ek, ok, lk
  <2>4. QED
    BY <2>1, <2>2, <2>3
<1> HIDE DEF bj, ej, oj, lj, bk, ek, ok, lk
<1>5. ~(j < k)
  <2> SUFFICES ASSUME j < k PROVE FALSE
    OBVIOUS
  <2>1. k \in 1..(Len(frame) + 1)
    BY DEF FrameOK
  <2>2. Begin[j + 1] <= Begin[k]
    BY <2>1, InOrder
  <2>3. ej <= bk
    BY <2>2 DEF ej, bk
  <2>4. QED
    BY <1>1, <1>4, <2>3
<1>6. ~(k < j)
  <2> SUFFICES ASSUME k < j PROVE FALSE
    OBVIOUS
  <2>1. j \in 1..(Len(frame) + 1)
    BY DEF FrameOK
  <2>2. Begin[k + 1] <= Begin[j]
    BY <2>1, InOrder
  <2>3. ek <= bj
    BY <2>2 DEF ek, bj
  <2>4. QED
    BY <1>4, <2>3
<1>7. QED
  BY <1>5, <1>6 DEF FrameOK

LEMMA ReceivedCode ==
  ASSUME FrameOK
  PROVE  <<CODE>> \in Seq(Int) /\ Received(<<CODE>>) = <<CODE>>
<1>1. <<CODE>> \in Seq(Int) /\ Len(<<CODE>>) = 1 /\ <<CODE>>[1] = CODE
  BY DEF CODE
<1>2. ~Spoiled(CODE)
  <2>1. \A k \in 1..Len(frame) : Octet(k) \in Nat
    BY Places
  <2>2. QED
    BY <2>1 DEF Spoiled, CODE
<1>3. \A i \in 1..Len(<<CODE>>) : ~Spoiled(<<CODE>>[i])
  BY <1>1, <1>2
<1>4. QED
  BY <1>1, <1>3, ReceivedAsIs

\* Behind the header, and where the NAL unit is not cut.
LEMMA ReceivedInNal ==
  ASSUME FrameOK, NEW k \in 1..Len(frame), NEW a \in Int, NEW b \in Int,
         Octet(k) <= a, a <= b, b <= End(k),
         \/ Octet(k) + 2 <= a
         \/ frame[k].type = H265!PARAM \/ frame[k].len < PAYLOAD_SIZE
  PROVE  Bytes(a, b) \in Seq(Int) /\ Received(Bytes(a, b)) = Bytes(a, b)
<1> DEFINE s == Bytes(a, b)
           n == b - a
<1>1. /\ n \in Nat /\ s \in Seq(Int) /\ Len(s) = n
      /\ \A i \in 1..n : s[i] = a + i - 1
  <2>1. s = [i \in 1..n |-> a + i - 1] /\ n \in Nat
    BY DEF Bytes
  <2> HIDE DEF s, n
  <2>2. QED
    BY <2>1
<1>2. Octet(k) \in Nat /\ End(k) \in Nat /\ frame[k].len \in Nat /\ PAYLOAD_SIZE \in Nat
  BY Places, Assumption
<1> HIDE DEF s
<1>3. ASSUME NEW i \in 1..n
      PROVE  ~Spoiled(s[i])
  <2>1. PICK p \in Int : p = s[i] /\ a <= p /\ p < b
    <3>1. s[i] = a + i - 1 /\ a + i - 1 \in Int /\ a <= a + i - 1 /\ a + i - 1 < b
      BY <1>1
    <3>2. QED
      BY <3>1
  <2>2. Octet(k) <= p /\ p < End(k)
    BY <1>2, <2>1
  <2>3. /\ Octet(k) + 2 <= a => p # Octet(k) + 1
        /\ frame[k].len < PAYLOAD_SIZE => ~(frame[k].len >= PAYLOAD_SIZE)
    BY <1>2, <2>1
  <2>4. QED
    BY <2>1, <2>2, <2>3, SpoiledIs
<1> HIDE DEF n
<1>4. Received(s) = s
  BY <1>1, <1>3, ReceivedAsIs
<1>5. QED
  BY <1>1, <1>4 DEF s

LEMMA ReceivedHeader ==
  ASSUME FrameOK, NEW k \in 1..Len(frame),
         frame[k].type # H265!PARAM, frame[k].len >= PAYLOAD_SIZE
  PROVE  /\ <<Octet(k), Octet(k) + 1>> \in Seq(Int)
         /\ Received(<<Octet(k), Octet(k) + 1>>) = <<Octet(k), H265!SecondRebuilt(k)>>
<1> DEFINE o == Octet(k)
           r == H265!SecondRebuilt(k)
           s == <<o, o + 1>>
<1>1. /\ o \in Nat /\ End(k) = o + frame[k].len /\ frame[k].len \in Nat
      /\ PAYLOAD_SIZE \in Nat /\ PAYLOAD_SIZE > 6
  BY Places, Assumption
<1>2. o < End(k) /\ o + 1 < End(k) /\ o <= o /\ o <= o + 1 /\ o # o + 1 /\ o + 1 \in Int
  BY <1>1
<1>3. Rebuilt(o) = o
  <2>1. ~Spoiled(o)
    BY <1>1, <1>2, SpoiledIs
  <2>2. QED
    BY <2>1 DEF Rebuilt
<1>4. Rebuilt(o + 1) = r
  <2>1. Spoiled(o + 1) <=> frame[k].second # 1
    <3>1. PICK p \in Int : p = o + 1
      BY <1>2
    <3>2. Spoiled(p) <=> frame[k].second # 1
      BY <1>2, <3>1, SpoiledIs
    <3>3. QED
      BY <3>1, <3>2
  <2>2. r = IF frame[k].second = 1 THEN o + 1 ELSE H265!ONE
    BY SamePlaces DEF H265!SecondRebuilt
  <2>3. QED
    BY <2>1, <2>2 DEF Rebuilt
<1> HIDE DEF o, r
<1>5. s \in Seq(Int) /\ DOMAIN s = 1..2 /\ s[1] = o /\ s[2] = o + 1
  BY <1>1
<1>6. Received(s) = [i \in 1..2 |-> Rebuilt(s[i])]
  BY <1>5 DEF Received
<1>7. [i \in 1..2 |-> Rebuilt(s[i])] = <<o, r>>
  BY <1>3, <1>4, <1>5
<1>8. QED
  BY <1>5, <1>6, <1>7 DEF o, r

\* The parts of what is sent, put together.
LEMMA ReceivedParts ==
  ASSUME NEW s \in Seq(Int), NEW h \in Seq(Int), NEW t \in Seq(Int), FrameOK
  PROVE  /\ Received(s \o <<CODE>> \o t) = Received(s) \o <<CODE>> \o Received(t)
         /\ Received(s \o <<CODE>> \o h \o t) = Received(s) \o <<CODE>> \o Received(h) \o Received(t)
<1> DEFINE c == <<CODE>>
<1>1. c \in Seq(Int) /\ Received(c) = c
  BY ReceivedCode
<1> HIDE DEF c
<1>2. s \o c \in Seq(Int) /\ Received(s \o c) = Received(s) \o c
  BY <1>1, ReceivedConcat, ConcatProperties
<1>3. (s \o c) \o h \in Seq(Int) /\ Received((s \o c) \o h) = (Received(s) \o c) \o Received(h)
  BY <1>2, ReceivedConcat, ConcatProperties
<1>4. QED
  BY <1>2, <1>3, ReceivedConcat DEF c

\* The frames Lossless is about.
H265Regular ==
  H265!SameCodes /\ \A k \in DOMAIN frame : frame[k].len > 2 /\ ~H265!Splits(k)

NalTypes == {H265!PARAM, H265!SLICE, H265!TRAIL_N}

Nals265 == [code : Codes \cup {0}, type : NalTypes, second : {1, 2}, len : LengthsH265]

H265Frames == Seq(Nals265)

\* Notes about NAL units of this frame.
H265Messages ==
  [nalu_header_len : Codes \cup {0}, nal_type : NalTypes, nal : 0..Len(frame),
   fu_packet : BOOLEAN, start_code : BOOLEAN, start : BOOLEAN, end : BOOLEAN,
   len : 0..(PAYLOAD_SIZE + 1)]

H265Packets ==
  [fu : BOOLEAN, S : BOOLEAN, E : BOOLEAN, nal : 0..Len(frame), code : BOOLEAN,
   from : 0..FrameLen, to : 0..FrameLen, ucMarker : BOOLEAN]

H265Held == Seq({CODE, NONE, H265!ONE} \cup 0..FrameLen)

LEMMA H265InvIs ==
  H265Inv <=>
    /\ FrameOK /\ (H265!SameCodes => H265Place)
    /\ frame \in H265Frames /\ frame # <<>>
    /\ pos \in 0..FrameLen /\ pkt \in H265Packets
    /\ msg \in [nalu_header_len : Codes \cup {0}, nal_type : NalTypes, nal : Nat,
                fu_packet : BOOLEAN, start_code : BOOLEAN, start : BOOLEAN, end : BOOLEAN,
                len : 0..(PAYLOAD_SIZE + 1)]
    /\ pos > 0 => msg.nalu_header_len = frame[1].code /\ msg.nal \in 0..Len(frame)
    /\ FrameLen < 4 => ~pkt.fu /\ pkt.from = 0 /\ pkt.to = 0
    /\ seq \in 0..(SeqMod - 1) /\ out \in H265Held
    /\ H265Regular => out = Received(Expected[pos])
    /\ (H265!SameCodes /\ pkt.fu) =>
         /\ pkt.nal # 0 /\ Octet(pkt.nal) + 2 <= pkt.from /\ pkt.to <= End(pkt.nal)
         /\ pkt.S <=> pkt.from = Octet(pkt.nal) + 2
         /\ pkt.E => pkt.to = End(pkt.nal)
         /\ (pkt.to = End(pkt.nal) /\ pkt.nal < Len(frame)) => pkt.E
<1>1. H265!TypeOK <=>
        /\ frame \in H265Frames /\ frame # <<>>
        /\ pos \in 0..FrameLen /\ pkt \in H265Packets
        /\ msg \in [nalu_header_len : Codes \cup {0}, nal_type : NalTypes, nal : Nat,
                    fu_packet : BOOLEAN, start_code : BOOLEAN, start : BOOLEAN, end : BOOLEAN,
                    len : 0..(PAYLOAD_SIZE + 1)]
        /\ seq \in 0..(SeqMod - 1) /\ out \in H265Held
  BY SamePlaces DEF H265!TypeOK, H265!Nals, H265Packets, H265Frames, Nals265, NalTypes, H265Held,
                    H265!NONE, NONE, H265!CODE, CODE
<1>2. FrameOK => (H265!Lossless <=> H265!TypeOK /\ (H265Regular => out = Received(Expected[pos])))
  <2> SUFFICES ASSUME FrameOK
               PROVE  H265!Lossless <=> H265!TypeOK /\ (H265Regular => out = Received(Expected[pos]))
    OBVIOUS
  <2>1. H265!Received(H265!Expected[pos]) = Received(Expected[pos])
    BY SameExpected, SameReceived
  <2>2. QED
    BY <2>1 DEF H265!Lossless, H265Regular
<1>3. H265!FragmentOfItsNal <=>
        ((H265!SameCodes /\ pkt.fu) =>
           /\ pkt.nal # 0 /\ Octet(pkt.nal) + 2 <= pkt.from /\ pkt.to <= End(pkt.nal)
           /\ pkt.S <=> pkt.from = Octet(pkt.nal) + 2
           /\ pkt.E => pkt.to = End(pkt.nal)
           /\ (pkt.to = End(pkt.nal) /\ pkt.nal < Len(frame)) => pkt.E)
  BY SamePlaces DEF H265!FragmentOfItsNal
<1> HIDE DEF FrameOK, H265Place, H265Regular, H265Packets, H265Frames, NalTypes, H265Held
<1>4. QED
  BY <1>1, <1>2, <1>3 DEF H265Inv

\* The invariant after a turn, read in the frame before it.
LEMMA H265After ==
  ASSUME H265Inv, frame' = frame,
         H265!SameCodes =>
           \/ \E k \in 1..(Len(frame) + 1) : pos' = Begin[k]
           \/ \E k \in 1..Len(frame) :
                /\ Begin[k] + PAYLOAD_SIZE <= pos' /\ pos' < End(k)
                /\ msg'.nal = k /\ msg'.nal_type = frame[k].type
                /\ frame[k].type # H265!PARAM => (msg'.fu_packet <=> frame[k].len >= PAYLOAD_SIZE)
                /\ k < Len(frame) => /\ frame[k].len + 2 * frame[k].code > PAYLOAD_SIZE + 4
                                     /\ frame[k].code = 3 => pos' + 1 < End(k),
         pos' \in 0..FrameLen, pkt' \in H265Packets,
         \/ msg' \in H265Messages /\ msg'.nalu_header_len = frame[1].code
         \/ msg' = msg /\ pos' = pos,
         FrameLen < 4 => ~pkt'.fu /\ pkt'.from = 0 /\ pkt'.to = 0,
         seq' \in 0..(SeqMod - 1), out' \in H265Held,
         H265Regular => out' = Received(Expected[pos']),
         (H265!SameCodes /\ pkt'.fu) =>
           /\ pkt'.nal # 0 /\ Octet(pkt'.nal) + 2 <= pkt'.from /\ pkt'.to <= End(pkt'.nal)
           /\ pkt'.S <=> pkt'.from = Octet(pkt'.nal) + 2
           /\ pkt'.E => pkt'.to = End(pkt'.nal)
           /\ (pkt'.to = End(pkt'.nal) /\ pkt'.nal < Len(frame)) => pkt'.E
  PROVE  H265Inv'
<1>1. /\ FrameOK' /\ Begin' = Begin /\ FrameLen' = FrameLen
      /\ H265!FrameLen' = FrameLen /\ H265!Begin' = Begin /\ H265!Expected' = Expected
  BY FrameStays, SameBegin DEF H265Inv
<1>2. H265!SameCodes' <=> H265!SameCodes
  BY DEF H265!SameCodes
<1>3. H265!SameCodes' => H265Place'
  <2> SUFFICES ASSUME H265!SameCodes PROVE H265Place'
    BY <1>2
  <2>1. CASE \E k \in 1..(Len(frame) + 1) : pos' = Begin[k]
    BY <1>1, <2>1 DEF H265Place
  <2>2. CASE \E k \in 1..Len(frame) :
                /\ Begin[k] + PAYLOAD_SIZE <= pos' /\ pos' < End(k)
                /\ msg'.nal = k /\ msg'.nal_type = frame[k].type
                /\ frame[k].type # H265!PARAM => (msg'.fu_packet <=> frame[k].len >= PAYLOAD_SIZE)
                /\ k < Len(frame) => /\ frame[k].len + 2 * frame[k].code > PAYLOAD_SIZE + 4
                                     /\ frame[k].code = 3 => pos' + 1 < End(k)
    <3>1. (\E k \in 1..Len(frame) : H265Inside(k))'
      BY <1>1, <2>2 DEF H265Inside, End, H265!PARAM
    <3>2. QED
      BY <3>1 DEF H265Place
  <2>3. QED
    BY <2>1, <2>2
<1>4. /\ frame \in H265Frames /\ frame # <<>>
      /\ msg \in [nalu_header_len : Codes \cup {0}, nal_type : NalTypes, nal : Nat,
                  fu_packet : BOOLEAN, start_code : BOOLEAN, start : BOOLEAN, end : BOOLEAN,
                  len : 0..(PAYLOAD_SIZE + 1)]
      /\ pos > 0 => msg.nalu_header_len = frame[1].code /\ msg.nal \in 0..Len(frame)
  BY H265InvIs
<1>5. msg' \in [nalu_header_len : Codes \cup {0}, nal_type : NalTypes, nal : Nat,
                fu_packet : BOOLEAN, start_code : BOOLEAN, start : BOOLEAN, end : BOOLEAN,
                len : 0..(PAYLOAD_SIZE + 1)]
  BY <1>4 DEF H265Messages
<1>6. H265!TypeOK'
  BY <1>1, <1>4, <1>5 DEF H265!TypeOK, H265!Nals, H265Packets, H265Frames, Nals265, NalTypes, H265Held,
                          H265!NONE, NONE, H265!ONE, H265!CODE, CODE,
                          H265!PARAM, H265!SLICE, H265!TRAIL_N
<1>7. H265!Lossless'
  <2>1. (\A k \in DOMAIN frame : frame[k].len > 2 /\ ~H265!Splits(k))' <=>
        (\A k \in DOMAIN frame : frame[k].len > 2 /\ ~H265!Splits(k))
    BY DEF H265!Splits, H265!PARAM, H265!WITHIN_LENGTH, H265!NALU_H265_HEADER_SIZE
  <2>2. \A p : H265!Rebuilt(p)' = H265!Rebuilt(p)
    BY <1>1, SameBegin DEF H265!Rebuilt, H265!Octet, H265!PARAM, H265!ONE
  <2>3. H265!Received(H265!Expected[pos])' = H265!Received(Expected[pos'])
    BY <1>1, <2>2 DEF H265!Received
  <2>4. H265!Received(Expected[pos']) = Received(Expected[pos'])
    BY SameReceived DEF H265Inv
  <2>5. QED
    BY <1>1, <1>2, <1>6, <2>1, <2>3, <2>4 DEF H265!Lossless, H265Regular
<1>8. H265!FragmentOfItsNal'
  BY <1>1, <1>2 DEF H265!FragmentOfItsNal, H265!Octet, H265!End, Octet, End
<1>9. /\ (pos > 0 => msg.nalu_header_len = frame[1].code /\ msg.nal \in 0..Len(frame))'
      /\ (FrameLen < 4 => ~pkt.fu /\ pkt.from = 0 /\ pkt.to = 0)'
  BY <1>1, <1>4 DEF H265Messages
<1>10. QED
  BY <1>1, <1>3, <1>7, <1>8, <1>9 DEF H265Inv

\* What is the same in every turn: the header, the queue and the receiver.
LEMMA H265Sent ==
  ASSUME FrameOK, seq \in 0..(SeqMod - 1), out \in H265Held,
         NEW p \in H265Packets, H265!Sent(p)
  PROVE  /\ pkt' \in H265Packets /\ seq' \in 0..(SeqMod - 1) /\ out' \in H265Held
         /\ pkt'.fu = p.fu /\ pkt'.S = p.S /\ pkt'.E = p.E /\ pkt'.nal = p.nal
         /\ pkt'.from = p.from /\ pkt'.to = p.to
         /\ (p.fu /\ p.from # p.to /\ ~p.S) => out' = out \o Bytes(p.from, p.to)
         /\ (p.fu /\ p.from # p.to /\ p.S /\ ~p.E /\ p.nal # 0) =>
              out' = out \o <<CODE>> \o <<Octet(p.nal), H265!SecondRebuilt(p.nal)>> \o Bytes(p.from, p.to)
         /\ (~p.fu /\ ~(p.to - p.from < 3) /\ \E k \in 1..Len(frame) : p.from = Octet(k)) =>
              out' = out \o <<CODE>> \o Bytes(p.from, p.to)
<1>1. FrameLen \in Nat
  <2>1. 1 \in 1..Len(frame)
    BY DEF FrameOK
  <2>2. QED
    BY <2>1, Places
<1> DEFINE q == [p EXCEPT !.ucMarker = pos' >= H265!FrameLen]
<1>2. pkt' = q /\ out' \in H265!Unpacked(q) /\ seq' = (seq + 1) % SeqMod
  BY DEF H265!Sent
<1>3. (pos' >= H265!FrameLen) \in BOOLEAN
  OBVIOUS
<1>4. /\ q \in H265Packets
      /\ q.fu = p.fu /\ q.S = p.S /\ q.E = p.E /\ q.nal = p.nal
      /\ q.from = p.from /\ q.to = p.to
  BY <1>3 DEF H265Packets
<1> HIDE DEF q
<1>5. seq' \in 0..(SeqMod - 1)
  <2>1. SeqMod \in Nat \ {0} /\ seq + 1 \in Int
    BY Assumption
  <2>2. (seq + 1) % SeqMod \in 0..(SeqMod - 1)
    BY <2>1, DivMod DEF Splits
  <2>3. QED
    BY <1>2, <2>2
<1> DEFINE bytes == Bytes(p.from, p.to)
           header == IF p.nal = 0 THEN <<NONE, NONE>>
                     ELSE <<Octet(p.nal), H265!SecondRebuilt(p.nal)>>
<1>6. out' \in IF p.fu
               THEN IF p.from = p.to \/ (p.S /\ p.E) THEN {<<>>}
                    ELSE IF p.S THEN {out \o <<CODE>> \o header \o bytes} ELSE {out \o bytes}
               ELSE IF p.to - p.from < 3 THEN {<<>>}
               ELSE IF \E k \in DOMAIN frame : p.from = Octet(k) THEN {out \o <<CODE>> \o bytes}
               ELSE {<<>>, out \o <<CODE>> \o bytes}
  <2> DEFINE qbytes == H265!Bytes(q.from, q.to)
             qheader == IF q.nal = 0 THEN <<H265!NONE, H265!NONE>>
                        ELSE <<H265!Octet(q.nal), H265!SecondRebuilt(q.nal)>>
  <2>1. H265!Unpacked(q) =
          IF q.fu
          THEN IF q.from = q.to \/ (q.S /\ q.E) THEN {<<>>}
               ELSE IF q.S THEN {out \o <<H265!CODE>> \o qheader \o qbytes} ELSE {out \o qbytes}
          ELSE IF q.to - q.from < 3 THEN {<<>>}
          ELSE IF \E k \in DOMAIN frame : q.from = H265!Octet(k) THEN {out \o <<H265!CODE>> \o qbytes}
          ELSE {<<>>, out \o <<H265!CODE>> \o qbytes}
    BY DEF H265!Unpacked
  <2>2. H265!CODE = CODE /\ H265!NONE = NONE
    BY DEF H265!CODE, CODE, H265!NONE, NONE
  <2>3. qbytes = bytes /\ qheader = header
    BY <1>4, <2>2, SamePlaces, SameBytes
  <2>4. (\E k \in DOMAIN frame : q.from = H265!Octet(k)) <=> (\E k \in DOMAIN frame : p.from = Octet(k))
    BY <1>4, SamePlaces
  <2> HIDE DEF qbytes, qheader, bytes, header
  <2>5. QED
    BY <1>2, <1>4, <2>1, <2>2, <2>3, <2>4
<1>7. DOMAIN frame = 1..Len(frame) /\ p.fu \in BOOLEAN /\ p.S \in BOOLEAN /\ p.E \in BOOLEAN
  BY DEF FrameOK, H265Packets
<1>8. out' \in H265Held
  <2> DEFINE S == {CODE, NONE, H265!ONE} \cup 0..FrameLen
             c == <<CODE>>
  <2>1. bytes \in Seq(0..FrameLen)
    <3>1. p.from \in Nat /\ p.to \in Int /\ p.to <= FrameLen
      BY <1>1 DEF H265Packets
    <3>2. QED
      BY <1>1, <3>1, BytesType
  <2>2. bytes \in Seq(S)
    <3> HIDE DEF bytes
    <3>1. QED
      BY <2>1, SeqMonotonic
  <2>3. c \in Seq(S)
    OBVIOUS
  <2>4. header \in Seq(S)
    <3>1. CASE p.nal = 0
      BY <3>1
    <3>2. CASE p.nal # 0
      <4>1. p.nal \in 1..Len(frame)
        BY <3>2 DEF H265Packets, FrameOK
      <4>2. /\ Octet(p.nal) \in Nat /\ End(p.nal) \in Nat /\ End(p.nal) <= FrameLen
            /\ End(p.nal) = Octet(p.nal) + frame[p.nal].len /\ frame[p.nal].len \in Nat \ {0}
        BY <4>1, Places
      <4>3. Octet(p.nal) \in S /\ H265!SecondRebuilt(p.nal) \in S
        <5>1. Octet(p.nal) \in 0..FrameLen /\ Octet(p.nal) + 1 \in 0..FrameLen
          BY <1>1, <4>2
        <5>2. H265!SecondRebuilt(p.nal) \in {Octet(p.nal) + 1, H265!ONE}
          BY SamePlaces DEF H265!SecondRebuilt
        <5>3. QED
          BY <5>1, <5>2
      <4>4. header = <<Octet(p.nal), H265!SecondRebuilt(p.nal)>>
        BY <3>2
      <4> HIDE DEF header, S
      <4>5. QED
        BY <4>3, <4>4
    <3>3. QED
      BY <3>1, <3>2
  <2>5. out \in Seq(S) /\ <<>> \in Seq(S)
    BY DEF H265Held
  <2> HIDE DEF S, bytes, header, c
  <2>6. /\ out \o bytes \in Seq(S) /\ (out \o c) \o bytes \in Seq(S)
        /\ ((out \o c) \o header) \o bytes \in Seq(S)
    BY <2>2, <2>3, <2>4, <2>5, ConcatProperties
  <2>7. \/ out' = <<>> \/ out' = out \o bytes \/ out' = (out \o c) \o bytes
        \/ out' = ((out \o c) \o header) \o bytes
    BY <1>6 DEF c
  <2>8. out' \in Seq(S)
    BY <2>5, <2>6, <2>7
  <2>9. QED
    BY <2>8 DEF S, H265Held
<1>9. (p.fu /\ p.from # p.to /\ ~p.S) => out' = out \o bytes
  <2> HIDE DEF bytes, header
  <2>1. QED
    BY <1>6, <1>7
<1>10. (p.fu /\ p.from # p.to /\ p.S /\ ~p.E /\ p.nal # 0) => out' = out \o <<CODE>> \o header \o bytes
  <2> HIDE DEF bytes, header
  <2>1. QED
    BY <1>6, <1>7
<1>11. (~p.fu /\ ~(p.to - p.from < 3) /\ \E k \in 1..Len(frame) : p.from = Octet(k)) =>
         out' = out \o <<CODE>> \o bytes
  <2> HIDE DEF bytes, header
  <2>1. QED
    BY <1>6, <1>7
<1>12. p.nal # 0 => header = <<Octet(p.nal), H265!SecondRebuilt(p.nal)>>
  OBVIOUS
<1> HIDE DEF bytes, header
<1>13. QED
  BY <1>2, <1>4, <1>5, <1>8, <1>9, <1>10, <1>11, <1>12 DEF bytes
-----------------------------------------------------------------------------
(***************************************************************************)
(* H.265: what a turn notes in pkt_msg.                                    *)
(***************************************************************************)

\* The notes the call's search starts from.
H265Notes == IF pos = 0 THEN [H265!NoMsg EXCEPT !.nalu_header_len = frame[1].code] ELSE msg

LEMMA NotesType ==
  ASSUME H265Inv
  PROVE  /\ H265Notes \in H265Messages /\ H265Notes.nalu_header_len = frame[1].code
         /\ pos > 0 => H265Notes = msg
<1>1. /\ FrameOK /\ frame \in H265Frames /\ pos \in 0..FrameLen
      /\ msg \in [nalu_header_len : Codes \cup {0}, nal_type : NalTypes, nal : Nat,
                  fu_packet : BOOLEAN, start_code : BOOLEAN, start : BOOLEAN, end : BOOLEAN,
                  len : 0..(PAYLOAD_SIZE + 1)]
      /\ pos > 0 => msg.nalu_header_len = frame[1].code /\ msg.nal \in 0..Len(frame)
  BY H265InvIs
<1>2. 1 \in DOMAIN frame /\ Len(frame) \in Nat
  BY <1>1 DEF FrameOK
<1>3. frame[1].code \in Codes \cup {0}
  <2>1. frame \in Seq(Nals265)
    BY <1>1 DEF H265Frames
  <2>2. frame[1] \in Nals265
    <3>1. 1 \in 1..Len(frame)
      BY <1>1 DEF FrameOK
    <3>2. QED
      BY <2>1, <3>1, ElementOfSeq
  <2>3. QED
    BY <2>2 DEF Nals265
<1>4. CASE pos = 0
  <2>1. H265Notes = [H265!NoMsg EXCEPT !.nalu_header_len = frame[1].code]
    BY <1>4 DEF H265Notes
  <2>2. 0 \in 0..(PAYLOAD_SIZE + 1) /\ 0 \in 0..Len(frame)
    BY <1>2, Assumption
  <2>3. H265!TRAIL_N \in NalTypes /\ FALSE \in BOOLEAN
    BY DEF NalTypes
  <2>4. H265Notes =
          [nalu_header_len |-> frame[1].code, nal_type |-> H265!TRAIL_N, nal |-> 0,
           fu_packet |-> FALSE, start_code |-> FALSE, start |-> FALSE, end |-> FALSE, len |-> 0]
    BY <2>1 DEF H265!NoMsg
  <2>5. QED
    BY <1>3, <1>4, <2>2, <2>3, <2>4 DEF H265Messages
<1>5. CASE pos > 0
  <2>1. H265Notes = msg
    BY <1>5 DEF H265Notes
  <2>2. QED
    BY <1>1, <1>5, <2>1 DEF H265Messages
<1>6. QED
  BY <1>1, <1>2, <1>4, <1>5

\* How far a turn looks for the next start code, and what it takes otherwise.
Ahead == IF FrameLen - pos < PAYLOAD_SIZE + 4 THEN FrameLen ELSE pos + PAYLOAD_SIZE + 4

Taken == IF FrameLen - pos < PAYLOAD_SIZE THEN FrameLen - pos ELSE PAYLOAD_SIZE

LEMMA NotesInside ==
  ASSUME FrameOK, NEW m \in H265Messages, pos \in 0..FrameLen, FrameLen \in Nat
  PROVE  LET q == find_next_nal_unit(pos, Ahead)
             n == H265!MessageInside(m)
         IN  /\ n.nalu_header_len = m.nalu_header_len /\ n.nal_type = m.nal_type
             /\ n.nal = m.nal /\ n.fu_packet = m.fu_packet
             /\ n.start_code = FALSE /\ n.start = FALSE
             /\ n.len = IF q = NONE THEN Taken ELSE q - pos
             /\ n.end <=> (q # NONE \/ FrameLen - pos < PAYLOAD_SIZE)
             /\ n.len \in 0..(PAYLOAD_SIZE + 1) => n \in H265Messages
<1> DEFINE q == find_next_nal_unit(pos, Ahead)
           n == H265!MessageInside(m)
<1>1. pos + H265!Within = Ahead /\ H265!Take = Taken /\ H265!Left = FrameLen - pos
  <2>1. H265!Left = FrameLen - pos
    BY SamePlaces DEF H265!Left
  <2>2. pos + (FrameLen - pos) = FrameLen /\ pos + (PAYLOAD_SIZE + 4) = pos + PAYLOAD_SIZE + 4
    BY Assumption
  <2>3. QED
    BY <2>1, <2>2 DEF H265!Within, H265!WITHIN_LENGTH, H265!NALU_H265_HEADER_SIZE, Ahead,
                      H265!Take, Taken
<1>2. H265!find_next_nal_unit(pos, pos + H265!Within) = q /\ H265!NONE = NONE
  BY <1>1, SameFind DEF H265!NONE, NONE
<1>3. n = [m EXCEPT !.start_code = FALSE, !.start = FALSE,
                    !.len = IF q = NONE THEN Taken ELSE q - pos,
                    !.end = q # NONE \/ FrameLen - pos < PAYLOAD_SIZE]
  BY <1>1, <1>2 DEF H265!MessageInside
<1> DEFINE len == IF q = NONE THEN Taken ELSE q - pos
           end == q # NONE \/ FrameLen - pos < PAYLOAD_SIZE
<1>4. n = [m EXCEPT !.start_code = FALSE, !.start = FALSE, !.len = len, !.end = end]
  BY <1>3
<1>5. end \in BOOLEAN
  OBVIOUS
<1> HIDE DEF len, end, n
<1>6. /\ n.nalu_header_len = m.nalu_header_len /\ n.nal_type = m.nal_type
      /\ n.nal = m.nal /\ n.fu_packet = m.fu_packet
      /\ n.start_code = FALSE /\ n.start = FALSE
      /\ n.len = len /\ n.end = end
      /\ n.len \in 0..(PAYLOAD_SIZE + 1) => n \in H265Messages
  BY <1>4, <1>5 DEF H265Messages
<1>7. QED
  BY <1>6 DEF len, end, n

LEMMA NotesAt ==
  ASSUME FrameOK, NEW m \in H265Messages, pos \in 0..FrameLen, FrameLen \in Nat, NEW p
  PROVE  LET h == m.nalu_header_len
             q == find_next_nal_unit(p + h, p + (Ahead - pos))
             n == H265!MessageAt(p, m)
         IN  /\ n.nalu_header_len = h
             /\ n.nal_type = H265!TypeRead(p, h) /\ n.nal = H265!NalRead(p, h)
             /\ n.start_code = TRUE /\ (n.start <=> n.nal_type # H265!PARAM)
             /\ n.nal_type # H265!PARAM =>
                  (n.fu_packet <=> H265!find_nalu_confirm_fu_packet(p, h))
             /\ n.len = IF q = NONE THEN Taken ELSE q - p
             /\ n.end <=> IF q = NONE THEN FrameLen - pos < PAYLOAD_SIZE
                          ELSE n.nal_type = H265!SLICE
             /\ (/\ n.len \in 0..(PAYLOAD_SIZE + 1) /\ n.nal_type \in NalTypes
                 /\ n.nal \in 0..Len(frame)) => n \in H265Messages
<1> DEFINE h == m.nalu_header_len
           q == find_next_nal_unit(p + h, p + (Ahead - pos))
           n == H265!MessageAt(p, m)
           type == H265!TypeRead(p, h)
           nal == H265!NalRead(p, h)
           confirm == H265!find_nalu_confirm_fu_packet(p, h)
           fu_packet == IF type = H265!PARAM THEN m.fu_packet ELSE confirm
           len == IF q = NONE THEN Taken ELSE q - p
           end == IF q = NONE THEN FrameLen - pos < PAYLOAD_SIZE ELSE type = H265!SLICE
           start == type # H265!PARAM
<1>1. H265!Within = Ahead - pos /\ H265!Take = Taken /\ H265!Left = FrameLen - pos
  <2>1. H265!Left = FrameLen - pos
    BY SamePlaces DEF H265!Left
  <2>2. PAYLOAD_SIZE + 4 = (pos + PAYLOAD_SIZE + 4) - pos
    BY Assumption
  <2>3. QED
    BY <2>1, <2>2 DEF H265!Within, H265!WITHIN_LENGTH, H265!NALU_H265_HEADER_SIZE, Ahead,
                      H265!Take, Taken
<1>2. H265!find_next_nal_unit(p + h, p + H265!Within) = q /\ H265!NONE = NONE
  BY <1>1, SameFind DEF H265!NONE, NONE
<1> HIDE DEF type, nal, confirm, q, h
<1>3. n = [m EXCEPT !.start_code = TRUE, !.nal_type = type, !.nal = nal,
                    !.start = start, !.fu_packet = fu_packet, !.len = len, !.end = end]
  BY <1>1, <1>2 DEF H265!MessageAt, type, nal, confirm, h
<1>4. end \in BOOLEAN /\ start \in BOOLEAN /\ confirm \in BOOLEAN /\ fu_packet \in BOOLEAN
  <2>1. confirm \in BOOLEAN
    BY DEF confirm, H265!find_nalu_confirm_fu_packet
  <2>2. m.fu_packet \in BOOLEAN
    BY DEF H265Messages
  <2>3. fu_packet \in BOOLEAN
    <3>1. CASE type = H265!PARAM
      BY <2>2, <3>1
    <3>2. CASE type # H265!PARAM
      BY <2>1, <3>2
    <3>3. QED
      BY <3>1, <3>2
  <2>4. end \in BOOLEAN
    <3>1. CASE q = NONE
      BY <3>1
    <3>2. CASE q # NONE
      BY <3>2
    <3>3. QED
      BY <3>1, <3>2
  <2>5. start \in BOOLEAN
    OBVIOUS
  <2>6. QED
    BY <2>1, <2>3, <2>4, <2>5
<1> HIDE DEF len, end, n, start, fu_packet
<1>5. /\ n.nalu_header_len = h /\ n.nal_type = type /\ n.nal = nal
      /\ n.start_code = TRUE /\ n.start = start /\ n.fu_packet = fu_packet
      /\ n.len = len /\ n.end = end
      /\ (/\ n.len \in 0..(PAYLOAD_SIZE + 1) /\ n.nal_type \in NalTypes
          /\ n.nal \in 0..Len(frame)) => n \in H265Messages
  BY <1>3, <1>4 DEF H265Messages, h
<1>6. QED
  BY <1>4, <1>5 DEF len, end, n, start, fu_packet, type, nal, confirm, h, q

\* A start code that lies in the window is found, or one before it.
LEMMA FindSome ==
  ASSUME FrameOK, NEW a \in Nat, NEW b \in Int, NEW k \in 1..Len(frame),
         frame[k].code # 0, a <= Octet(k) - 3, Octet(k) <= b
  PROVE  find_next_nal_unit(a, b) # NONE
<1> DEFINE T == {j \in 1..Len(frame) : frame[j].code # 0 /\ a <= Mark(j)}
<1>1. k \in T /\ T \subseteq Nat
  BY DEF FrameOK, Mark
<1>2. PICK j \in T : \A i \in T : j <= i
  <2> HIDE DEF T
  <2>1. QED
    BY <1>1, SmallestMember
<1>3. j \in 1..Len(frame) /\ frame[j].code # 0 /\ a <= Mark(j) /\ j <= k
  BY <1>1, <1>2
<1>4. \A i \in 1..(j - 1) : frame[i].code = 0 \/ Mark(i) < a
  <2> SUFFICES ASSUME NEW i \in 1..(j - 1), frame[i].code # 0, ~(Mark(i) < a) PROVE FALSE
    OBVIOUS
  <2>1. i \in 1..Len(frame) /\ i < j
    BY <1>3 DEF FrameOK
  <2>2. Mark(i) \in Int
    BY <2>1, Places, SMTT(40) DEF Mark
  <2>3. i \in T
    BY <2>1, <2>2
  <2>4. QED
    BY <1>2, <1>3, <2>1, <2>3
<1>5. Octet(j) <= b /\ Begin[j] \in Nat /\ Mark(j) \in Nat
  <2>1. /\ Octet(j) \in Nat /\ Octet(k) \in Nat /\ Begin[j] \in Nat
        /\ Octet(j) = Begin[j] + frame[j].code /\ frame[j].code \in {0, 3, 4}
    BY <1>3, Places
  <2>2. j = k \/ Octet(j) < Octet(k)
    <3>1. j = k \/ j < k
      BY <1>3
    <3>2. QED
      BY <1>3, <3>1, MarksInOrder
  <2>3. QED
    BY <1>3, <2>1, <2>2 DEF Mark
<1>6. find_next_nal_unit(a, b) = Begin[j] \/ find_next_nal_unit(a, b) = Mark(j)
  BY <1>3, <1>4, <1>5, FindFirst
<1>7. QED
  BY <1>5, <1>6 DEF NONE

LEMMA MessageIs ==
  LET p == find_next_nal_unit(pos, pos + 4)
  IN  H265!Message = IF p = NONE THEN H265!MessageInside(H265Notes)
                     ELSE H265!MessageAt(p, H265Notes)
<1>1. H265!NONE = NONE
  BY DEF H265!NONE, NONE
<1>2. QED
  BY <1>1, SameFind DEF H265!Message, H265!packetize_rtp_payload_msg, H265Notes,
                        H265!NALU_H265_HEADER_SIZE

\* What holds of every turn, whatever start codes the frame has.
LEMMA MessageType ==
  ASSUME H265Inv, pos < FrameLen, FrameLen >= 4
  PROVE  LET m == H265!Message
             h == frame[1].code
         IN  /\ m \in H265Messages /\ m.nalu_header_len = h
             /\ pos + m.len \in 0..FrameLen /\ (h # 0 => pos + m.len > pos)
             /\ m.start_code => pos + h \in 0..FrameLen
             /\ (m.start_code /\ m.fu_packet /\ m.nal_type # H265!PARAM) => pos + h + 2 \in 0..FrameLen
<1> DEFINE m == H265!Message
           n == H265Notes
           h == frame[1].code
           p == find_next_nal_unit(pos, pos + 4)
<1>1. /\ FrameOK /\ frame \in H265Frames /\ pos \in 0..FrameLen
      /\ n \in H265Messages /\ n.nalu_header_len = h
  BY NotesType, H265InvIs
<1>2. FrameLen \in Nat /\ pos \in Nat /\ h \in {0, 3, 4} /\ PAYLOAD_SIZE \in Nat /\ PAYLOAD_SIZE > 6
  <2>1. 1 \in 1..Len(frame)
    BY <1>1 DEF FrameOK
  <2>2. FrameLen \in Nat /\ h \in {0, 3, 4}
    BY <1>1, <2>1, Places
  <2>3. QED
    BY <1>1, <2>2, Assumption
<1>3. /\ Ahead \in Int /\ Ahead <= FrameLen /\ Ahead <= pos + PAYLOAD_SIZE + 4
      /\ Taken \in Int /\ Taken > 0 /\ Taken <= PAYLOAD_SIZE /\ pos + Taken <= FrameLen
  BY <1>2 DEF Ahead, Taken
<1>4. CASE p = NONE
  <2> DEFINE q == find_next_nal_unit(pos, Ahead)
  <2>1. m = H265!MessageInside(n)
    BY <1>4, MessageIs
  <2>2. /\ m.nalu_header_len = h /\ ~m.start_code
        /\ m.len = IF q = NONE THEN Taken ELSE q - pos
        /\ m.len \in 0..(PAYLOAD_SIZE + 1) => m \in H265Messages
    <3> HIDE DEF m, n
    <3>1. QED
      BY <1>1, <1>2, <2>1, NotesInside
  <2>3. q # NONE => q \in Int /\ pos < q /\ q + 3 <= Ahead
    <3> SUFFICES ASSUME q # NONE PROVE q \in Int /\ pos < q /\ q + 3 <= Ahead
      OBVIOUS
    <3>1. PICK x : x = q
      OBVIOUS
    <3>2. pos \in Int
      BY <1>2
    <3>3. /\ x \in Int /\ pos <= x /\ x + 3 <= Ahead
          /\ \E k \in 1..Len(frame) : frame[k].code # 0 /\ Begin[k] <= x /\ x + 3 <= Octet(k) /\ Octet(k) <= Ahead
      BY <1>1, <1>3, <3>1, <3>2, FindIn
    <3>4. x # pos
      <4> SUFFICES ASSUME x = pos PROVE FALSE
        OBVIOUS
      <4>1. PICK k \in 1..Len(frame) : frame[k].code # 0 /\ Begin[k] <= pos /\ pos + 3 <= Octet(k)
        BY <3>3
      <4>2. /\ Begin[k] \in Nat /\ Octet(k) \in Nat /\ Octet(k) = Begin[k] + frame[k].code
            /\ frame[k].code \in {0, 3, 4}
        BY <1>1, Places
      <4>3. pos <= Octet(k) - 3 /\ Octet(k) <= pos + 4 /\ pos + 4 \in Int
        BY <1>2, <4>1, <4>2
      <4>4. QED
        BY <1>1, <1>2, <1>4, <4>1, <4>3, FindSome
    <3>5. QED
      BY <1>2, <3>1, <3>3, <3>4
  <2> HIDE DEF m, q, h
  <2>4. m.len \in 0..(PAYLOAD_SIZE + 1) /\ pos + m.len \in 0..FrameLen /\ pos + m.len > pos
    <3>1. CASE q = NONE
      BY <1>2, <1>3, <2>2, <3>1
    <3>2. CASE q # NONE
      BY <1>2, <1>3, <2>2, <2>3, <3>2
    <3>3. QED
      BY <3>1, <3>2
  <2>5. QED
    BY <2>2, <2>4 DEF m, h
<1>5. CASE p # NONE
  <2> DEFINE b == p + (Ahead - pos)
             q == find_next_nal_unit(p + h, b)
  <2>1. m = H265!MessageAt(p, n)
    BY <1>5, MessageIs
  <2>2. /\ m.nalu_header_len = h
        /\ m.nal_type = H265!TypeRead(p, h) /\ m.nal = H265!NalRead(p, h)
        /\ m.nal_type # H265!PARAM => (m.fu_packet <=> H265!find_nalu_confirm_fu_packet(p, h))
        /\ m.len = IF q = NONE THEN Taken ELSE q - p
        /\ (/\ m.len \in 0..(PAYLOAD_SIZE + 1) /\ m.nal_type \in NalTypes
            /\ m.nal \in 0..Len(frame)) => m \in H265Messages
    <3> HIDE DEF m, n, p, h
    <3>1. QED
      BY <1>1, <1>2, <2>1, NotesAt
  <2>3. /\ p \in Int /\ pos <= p /\ p + 3 <= pos + 4
        /\ \E k \in 1..Len(frame) : frame[k].code # 0 /\ Begin[k] <= p /\ p + 3 <= Octet(k) /\ Octet(k) <= pos + 4
    <3>1. pos \in Int /\ pos + 4 \in Int
      BY <1>2
    <3>2. PICK x : x = p
      OBVIOUS
    <3>3. /\ x \in Int /\ pos <= x /\ x + 3 <= pos + 4
          /\ \E k \in 1..Len(frame) : frame[k].code # 0 /\ Begin[k] <= x /\ x + 3 <= Octet(k) /\ Octet(k) <= pos + 4
      BY <1>1, <1>5, <3>1, <3>2, FindIn
    <3>4. QED
      BY <3>2, <3>3
  <2>4. PICK k \in 1..Len(frame) : frame[k].code # 0 /\ Begin[k] <= p /\ p + 3 <= Octet(k) /\ Octet(k) <= pos + 4
    BY <2>3
  <2>5. /\ Octet(k) \in Nat /\ Begin[k] \in Nat /\ End(k) \in Nat /\ End(k) <= FrameLen
        /\ End(k) = Octet(k) + frame[k].len /\ frame[k].len \in Nat \ {0}
    BY <1>1, Places
  <2> HIDE DEF p, h
  <2>6. pos + h \in 0..FrameLen
    <3> DEFINE o == Octet(k)
    <3>1. pos \in Nat /\ h \in {0, 3, 4} /\ FrameLen \in Nat
      BY <1>2
    <3>2. p \in Int /\ pos <= p /\ p + 3 <= o /\ o \in Nat /\ o + 1 <= FrameLen
      <4>1. p \in Int /\ pos <= p
        BY <2>3
      <4>2. p + 3 <= o
        BY <2>4
      <4>3. o \in Nat /\ o + 1 <= FrameLen
        BY <2>5, <3>1
      <4>4. QED
        BY <4>1, <4>2, <4>3
    <3> HIDE DEF o
    <3>3. QED
      BY <3>1, <3>2
  <2>7. m.nal \in 0..Len(frame) /\ m.nal_type \in NalTypes
    <3>1. p < Octet(k)
      BY <2>3, <2>4, <2>5
    <3>2. NalAt(p) = k
      BY <1>1, <2>3, <2>4, <3>1, NalAtIs
    <3>3. m.nal = k \/ m.nal = 0
      BY <2>2, <3>2, SameNalAt DEF H265!NalRead
    <3>4. m.nal_type \in {H265!TRAIL_N, H265!SLICE} \/ m.nal_type = frame[k].type
      BY <2>2, <3>2, SameNalAt DEF H265!TypeRead, H265!NalRead
    <3>5. frame[k].type \in NalTypes
      <4>1. frame[k] \in Nals265
        BY <1>1, ElementOfSeq DEF H265Frames
      <4>2. QED
        BY <4>1 DEF Nals265
    <3>6. H265!TRAIL_N \in NalTypes /\ H265!SLICE \in NalTypes /\ Len(frame) \in Nat
      BY <1>1 DEF NalTypes, FrameOK
    <3>7. QED
      BY <3>3, <3>4, <3>5, <3>6
  <2>8. q # NONE => q \in Int /\ p + h <= q /\ q + 3 <= b /\ q <= FrameLen
    <3> SUFFICES ASSUME q # NONE PROVE q \in Int /\ p + h <= q /\ q + 3 <= b /\ q <= FrameLen
      OBVIOUS
    <3>1. PICK x : x = q
      OBVIOUS
    <3>2. p + h \in Int /\ b \in Int
      BY <1>2, <1>3, <2>3
    <3> HIDE DEF b
    <3>3. /\ x \in Int /\ p + h <= x /\ x + 3 <= b
          /\ \E j \in 1..Len(frame) : x + 3 <= Octet(j)
      BY <1>1, <3>1, <3>2, FindIn
    <3>4. PICK j \in 1..Len(frame) : x + 3 <= Octet(j)
      BY <3>3
    <3>5. /\ Octet(j) \in Nat /\ End(j) \in Nat /\ End(j) <= FrameLen
          /\ End(j) = Octet(j) + frame[j].len /\ frame[j].len \in Nat \ {0}
      BY <1>1, Places
    <3>6. x <= FrameLen
      BY <1>2, <3>3, <3>4, <3>5
    <3>7. QED
      BY <3>1, <3>3, <3>6
  <2> HIDE DEF m, q
  <2>9. /\ m.len \in 0..(PAYLOAD_SIZE + 1) /\ pos + m.len \in 0..FrameLen
        /\ h # 0 => pos + m.len > pos
    <3>1. CASE q = NONE
      BY <1>2, <1>3, <2>2, <3>1
    <3>2. CASE q # NONE
      <4>1. m.len = q - p
        BY <2>2, <3>2
      <4>2. q \in Int /\ p + h <= q /\ q + 3 <= b /\ q <= FrameLen
        BY <2>8, <3>2
      <4>3. QED
        BY <1>2, <1>3, <2>3, <4>1, <4>2
    <3>3. QED
      BY <3>1, <3>2
  <2>10. (m.fu_packet /\ m.nal_type # H265!PARAM) => pos + h + 2 \in 0..FrameLen
    <3> SUFFICES ASSUME m.fu_packet, m.nal_type # H265!PARAM PROVE pos + h + 2 \in 0..FrameLen
      OBVIOUS
    <3> DEFINE z == find_next_nal_unit(p + h, FrameLen)
               f == IF z = NONE THEN FrameLen ELSE z
    <3>1. f - p - h >= PAYLOAD_SIZE
      <4>1. H265!find_next_nal_unit(p + h, H265!FrameLen) = z /\ H265!NONE = NONE /\ H265!FrameLen = FrameLen
        BY SameFind, SamePlaces DEF H265!NONE, NONE
      <4>2. H265!find_nalu_confirm_fu_packet(p, h)
        BY <2>2
      <4> HIDE DEF z
      <4>3. QED
        BY <4>1, <4>2 DEF H265!find_nalu_confirm_fu_packet
    <3>2. f \in Int /\ f <= FrameLen
      <4>1. CASE z = NONE
        BY <1>2, <4>1
      <4>2. CASE z # NONE
        <5>1. PICK x : x = z
          OBVIOUS
        <5>2. p + h \in Int /\ FrameLen \in Int
          BY <1>2, <2>3
        <5>3. x \in Int /\ x + 3 <= FrameLen
          BY <1>1, <4>2, <5>1, <5>2, FindIn
        <5> HIDE DEF z
        <5>4. QED
          BY <1>2, <4>2, <5>1, <5>3
      <4>3. QED
        BY <4>1, <4>2
    <3> HIDE DEF f
    <3>3. QED
      BY <1>2, <2>3, <3>1, <3>2
  <2>11. QED
    BY <2>2, <2>6, <2>7, <2>9, <2>10 DEF m, h
<1>6. QED
  BY <1>4, <1>5
-----------------------------------------------------------------------------
(***************************************************************************)
(* H.265: the turns.                                                       *)
(***************************************************************************)

LEMMA PieceIs ==
  ASSUME NEW m \in H265Messages
  PROVE  LET p == H265!Piece(m)
         IN  /\ p.fu = m.fu_packet /\ (p.S <=> m.fu_packet /\ m.start)
             /\ (p.E <=> m.fu_packet /\ m.end) /\ p.nal = m.nal
             /\ p.from = pos + ((IF m.start_code THEN m.nalu_header_len ELSE 0)
                                + (IF m.fu_packet /\ m.start_code THEN 2 ELSE 0))
             /\ p.to = pos + m.len
             /\ (p.from \in 0..FrameLen /\ p.to \in 0..FrameLen) => p \in H265Packets
<1> DEFINE p == H265!Piece(m)
           S == m.fu_packet /\ m.start
           E == m.fu_packet /\ m.end
           from == pos + ((IF m.start_code THEN m.nalu_header_len ELSE 0)
                          + (IF m.fu_packet /\ m.start_code THEN 2 ELSE 0))
           to == pos + m.len
<1>1. p = [H265!NoPacket EXCEPT !.fu = m.fu_packet, !.S = S, !.E = E, !.nal = m.nal,
                                !.code = m.start_code, !.from = from, !.to = to]
  BY DEF H265!Piece
<1>2. /\ S \in BOOLEAN /\ E \in BOOLEAN /\ m.fu_packet \in BOOLEAN /\ m.start_code \in BOOLEAN
      /\ m.nal \in 0..Len(frame)
  BY DEF H265Messages
<1> HIDE DEF p, S, E, from, to
<1>3. p = [fu |-> m.fu_packet, S |-> S, E |-> E, nal |-> m.nal, from |-> from, to |-> to,
           code |-> m.start_code, ucMarker |-> FALSE]
  BY <1>1 DEF H265!NoPacket
<1>4. /\ p.fu = m.fu_packet /\ p.S = S /\ p.E = E /\ p.nal = m.nal /\ p.from = from /\ p.to = to
      /\ (from \in 0..FrameLen /\ to \in 0..FrameLen) => p \in H265Packets
  BY <1>2, <1>3 DEF H265Packets
<1>5. QED
  BY <1>4 DEF p, S, E, from, to

\* A turn that makes a fragment, or a part of a NAL unit that is not cut.
LEMMA TurnIs ==
  ASSUME H265Inv, H265!SingleNal \/ H265!Fu
  PROVE  LET m == H265!Message
             p == H265!Piece(IF H265!Fu THEN m ELSE [m EXCEPT !.fu_packet = FALSE])
         IN  /\ frame' = frame /\ msg' = m /\ pos' = pos + m.len /\ H265!Sent(p)
             /\ m \in H265Messages /\ m.nalu_header_len = frame[1].code
             /\ pos' \in 0..FrameLen /\ (frame[1].code # 0 => pos' > pos)
             /\ p \in H265Packets /\ p.nal = m.nal /\ p.to = pos'
             /\ H265!Fu => /\ m.nal_type # H265!PARAM /\ m.fu_packet
                           /\ p.fu /\ (p.S <=> m.start) /\ (p.E <=> m.end)
                           /\ p.from = pos + IF m.start_code THEN frame[1].code + 2 ELSE 0
             /\ ~H265!Fu => /\ m.nal_type = H265!PARAM \/ ~m.fu_packet
                            /\ ~p.fu
                            /\ p.from = pos + IF m.start_code THEN frame[1].code ELSE 0
             /\ FrameLen >= 4 /\ pos < FrameLen
<1> DEFINE m == H265!Message
           h == frame[1].code
<1>1. FrameOK /\ pos \in 0..FrameLen
  BY H265InvIs
<1>2. FrameLen \in Nat /\ pos \in Nat /\ h \in {0, 3, 4} /\ Len(frame) \in Nat
  <2>1. 1 \in 1..Len(frame)
    BY <1>1 DEF FrameOK
  <2>2. FrameLen \in Nat /\ h \in {0, 3, 4}
    BY <1>1, <2>1, Places
  <2>3. QED
    BY <1>1, <2>2 DEF FrameOK
<1>3. pos < FrameLen /\ FrameLen >= 4
  BY SamePlaces DEF H265!SingleNal, H265!Fu, H265!NALU_H265_HEADER_SIZE
<1>4. /\ m \in H265Messages /\ m.nalu_header_len = h
      /\ pos + m.len \in 0..FrameLen /\ (h # 0 => pos + m.len > pos)
      /\ m.start_code => pos + h \in 0..FrameLen
      /\ (m.start_code /\ m.fu_packet /\ m.nal_type # H265!PARAM) => pos + h + 2 \in 0..FrameLen
  BY <1>3, MessageType
<1>5. m.fu_packet \in BOOLEAN /\ m.start_code \in BOOLEAN
  BY <1>4 DEF H265Messages
<1>6. CASE H265!Fu
  <2> DEFINE p == H265!Piece(m)
  <2>1. /\ frame' = frame /\ msg' = m /\ pos' = p.to /\ H265!Sent(p)
        /\ m.nal_type # H265!PARAM /\ m.fu_packet
    BY <1>6 DEF H265!Fu
  <2> HIDE DEF m
  <2>2. /\ p.fu = m.fu_packet /\ (p.S <=> m.fu_packet /\ m.start)
        /\ (p.E <=> m.fu_packet /\ m.end) /\ p.nal = m.nal
        /\ p.from = pos + ((IF m.start_code THEN m.nalu_header_len ELSE 0)
                           + (IF m.fu_packet /\ m.start_code THEN 2 ELSE 0))
        /\ p.to = pos + m.len
        /\ (p.from \in 0..FrameLen /\ p.to \in 0..FrameLen) => p \in H265Packets
    BY <1>4, PieceIs
  <2> HIDE DEF p
  <2>3. p.from = pos + IF m.start_code THEN h + 2 ELSE 0
    <3>1. CASE m.start_code
      BY <1>2, <1>4, <2>1, <2>2, <3>1
    <3>2. CASE ~m.start_code
      BY <1>2, <1>4, <2>1, <2>2, <3>2
    <3>3. QED
      BY <3>1, <3>2
  <2>4. p.from \in 0..FrameLen
    <3>1. CASE m.start_code
      BY <1>2, <1>4, <2>1, <2>3, <3>1
    <3>2. CASE ~m.start_code
      BY <1>1, <1>2, <2>3, <3>2
    <3>3. QED
      BY <3>1, <3>2
  <2>5. H265!Piece(IF H265!Fu THEN m ELSE [m EXCEPT !.fu_packet = FALSE]) = p
    BY <1>6 DEF p
  <2>6. QED
    BY <1>3, <1>4, <1>6, <2>1, <2>2, <2>3, <2>4, <2>5 DEF m
<1>7. CASE ~H265!Fu
  <2> DEFINE n == [m EXCEPT !.fu_packet = FALSE]
             p == H265!Piece(n)
  <2>1. /\ frame' = frame /\ msg' = m /\ pos' = p.to /\ H265!Sent(p)
        /\ m.nal_type = H265!PARAM \/ ~m.fu_packet
    BY <1>7 DEF H265!SingleNal
  <2> HIDE DEF m
  <2>2. /\ n \in H265Messages /\ ~n.fu_packet /\ n.nal = m.nal /\ n.len = m.len
        /\ n.start_code = m.start_code /\ n.nalu_header_len = h
    BY <1>4 DEF H265Messages
  <2> HIDE DEF n
  <2>3. /\ p.fu = n.fu_packet /\ p.nal = n.nal
        /\ p.from = pos + ((IF n.start_code THEN n.nalu_header_len ELSE 0)
                           + (IF n.fu_packet /\ n.start_code THEN 2 ELSE 0))
        /\ p.to = pos + n.len
        /\ (p.from \in 0..FrameLen /\ p.to \in 0..FrameLen) => p \in H265Packets
    BY <2>2, PieceIs
  <2> HIDE DEF p
  <2>4. p.from = pos + IF m.start_code THEN h ELSE 0
    <3>1. CASE m.start_code
      BY <1>2, <2>2, <2>3, <3>1
    <3>2. CASE ~m.start_code
      BY <1>2, <2>2, <2>3, <3>2
    <3>3. QED
      BY <3>1, <3>2
  <2>5. p.from \in 0..FrameLen
    <3>1. CASE m.start_code
      BY <1>2, <1>4, <2>4, <3>1
    <3>2. CASE ~m.start_code
      BY <1>1, <1>2, <2>4, <3>2
    <3>3. QED
      BY <3>1, <3>2
  <2>6. H265!Piece(IF H265!Fu THEN m ELSE [m EXCEPT !.fu_packet = FALSE]) = p
    BY <1>7 DEF p, n
  <2>7. QED
    BY <1>3, <1>4, <1>7, <2>1, <2>2, <2>3, <2>4, <2>5, <2>6 DEF m
<1>8. QED
  BY <1>6, <1>7

\* Start codes of different lengths: only the types are kept.
LEMMA TurnOfOther ==
  ASSUME H265Inv, H265!SingleNal \/ H265!Fu, ~H265!SameCodes
  PROVE  H265Inv' /\ (frame[1].code # 0 => pos' > pos)
<1> DEFINE m == H265!Message
           p == H265!Piece(IF H265!Fu THEN m ELSE [m EXCEPT !.fu_packet = FALSE])
<1>1. /\ frame' = frame /\ msg' = m /\ H265!Sent(p)
      /\ m \in H265Messages /\ m.nalu_header_len = frame[1].code
      /\ pos' \in 0..FrameLen /\ (frame[1].code # 0 => pos' > pos)
      /\ p \in H265Packets /\ FrameLen >= 4
  BY TurnIs
<1>2. FrameOK /\ seq \in 0..(SeqMod - 1) /\ out \in H265Held
  BY H265InvIs
<1> HIDE DEF m, p
<1>3. pkt' \in H265Packets /\ seq' \in 0..(SeqMod - 1) /\ out' \in H265Held
  BY <1>1, <1>2, H265Sent
<1>4. ~H265Regular /\ ~(FrameLen < 4)
  <2>1. FrameLen \in Nat
    <3>1. 1 \in 1..Len(frame)
      BY <1>2 DEF FrameOK
    <3>2. QED
      BY <1>2, <3>1, Places
  <2>2. QED
    BY <1>1, <2>1 DEF H265Regular
<1>5. H265Inv'
  BY <1>1, <1>3, <1>4, H265After
<1>6. QED
  BY <1>1, <1>5

\* A frame too short for the packetizer.
LEMMA TooShortTurn ==
  ASSUME H265Inv, H265!TooShort
  PROVE  H265Inv' /\ frame[1].code = 0
<1>1. /\ FrameOK /\ pos \in 0..FrameLen /\ pkt \in H265Packets
      /\ H265!SameCodes => H265Place
      /\ seq \in 0..(SeqMod - 1) /\ out \in H265Held
      /\ FrameLen < 4 => ~pkt.fu /\ pkt.from = 0 /\ pkt.to = 0
  BY H265InvIs
<1>2. frame' = frame /\ msg' = msg /\ pos' = pos /\ FrameLen < 4 /\ H265!Sent(pkt)
  BY SamePlaces DEF H265!TooShort, H265!NALU_H265_HEADER_SIZE
<1>3. frame[1].code = 0
  <2>1. 1 \in 1..Len(frame)
    BY <1>1 DEF FrameOK
  <2>2. /\ FrameLen \in Nat /\ End(1) \in Nat /\ End(1) <= FrameLen
        /\ End(1) = Octet(1) + frame[1].len /\ Octet(1) = Begin[1] + frame[1].code
        /\ Begin[1] \in Nat /\ frame[1].len \in Nat \ {0} /\ frame[1].code \in {0, 3, 4}
    BY <1>1, <2>1, Places
  <2>3. QED
    BY <1>2, <2>2
<1>4. ~H265!SameCodes /\ ~H265Regular
  BY <1>3 DEF H265!SameCodes, H265Regular
<1>5. /\ pkt' \in H265Packets /\ seq' \in 0..(SeqMod - 1) /\ out' \in H265Held
      /\ pkt'.fu = pkt.fu /\ pkt'.from = pkt.from /\ pkt'.to = pkt.to
  BY <1>1, <1>2, H265Sent
<1>6. H265Inv'
  BY <1>1, <1>2, <1>4, <1>5, H265After
<1>7. QED
  BY <1>3, <1>6

\* In front of a start code, in a frame whose start codes all are of the same length:
\* the NAL unit is taken whole, or as much of it as a payload holds.
LEMMA MessageAtCode ==
  ASSUME H265Inv, H265!SameCodes, NEW k \in 1..Len(frame), pos = Begin[k], FrameLen >= 4
  PROVE  LET m == H265!Message
             c == frame[k].code
             l == frame[k].len
         IN  /\ m.nal = k /\ m.nal_type = frame[k].type
             /\ m.start_code /\ (m.start <=> m.nal_type # H265!PARAM)
             /\ m.nal_type # H265!PARAM => (m.fu_packet <=> l >= PAYLOAD_SIZE)
             /\ \/ k < Len(frame) /\ 2 * c + l <= PAYLOAD_SIZE + 4 /\ m.len = c + l
                \/ k = Len(frame) /\ c + l < PAYLOAD_SIZE /\ m.len = c + l
                \/ /\ k < Len(frame) => 2 * c + l > PAYLOAD_SIZE + 4
                   /\ c + l >= PAYLOAD_SIZE /\ m.len = PAYLOAD_SIZE /\ ~m.end
<1> DEFINE m == H265!Message
           n == H265Notes
           c == frame[k].code
           l == frame[k].len
           b == Begin[k]
           o == Octet(k)
           e == End(k)
           N == Len(frame)
           q == find_next_nal_unit(o, Ahead)
<1>1. FrameOK /\ pos \in 0..FrameLen /\ n \in H265Messages /\ n.nalu_header_len = frame[1].code
  BY NotesType, H265InvIs
<1>2. c \in {3, 4} /\ n.nalu_header_len = c /\ (k < N => frame[k + 1].code = c)
  <2>1. k \in DOMAIN frame /\ (k < N => k + 1 \in DOMAIN frame) /\ 1 \in DOMAIN frame
    BY <1>1 DEF FrameOK
  <2>2. c = frame[1].code /\ c # 0 /\ (k < N => frame[k + 1].code = c)
    BY <2>1 DEF H265!SameCodes
  <2>3. c \in {0, 3, 4}
    BY <1>1, Places
  <2>4. QED
    BY <1>1, <2>2, <2>3
<1>3. /\ b \in Nat /\ o \in Nat /\ e \in Nat /\ FrameLen \in Nat /\ N \in Nat
      /\ o = b + c /\ e = o + l /\ e <= FrameLen /\ l \in Nat \ {0} /\ pos = b
      /\ k = N => e = FrameLen
      /\ k < N => Octet(k + 1) = e + c /\ Octet(k + 1) < FrameLen /\ k + 1 \in 1..N
      /\ PAYLOAD_SIZE \in Nat /\ PAYLOAD_SIZE > 6
  <2>1. N \in Nat
    BY <1>1 DEF FrameOK
  <2>2. QED
    BY <1>1, <1>2, <2>1, Places, Assumption
<1>4. Ahead \in Int /\ Ahead = IF FrameLen - b < PAYLOAD_SIZE + 4 THEN FrameLen ELSE b + PAYLOAD_SIZE + 4
  BY <1>3 DEF Ahead
<1>5. Taken = IF FrameLen - b < PAYLOAD_SIZE THEN FrameLen - b ELSE PAYLOAD_SIZE
  BY <1>3 DEF Taken
<1> HIDE DEF b, o, e, l, c, N
<1>6. find_next_nal_unit(pos, pos + 4) = b /\ b # NONE
  <2>1. o <= b + 4 /\ b + 4 \in Int
    BY <1>2, <1>3
  <2>2. find_next_nal_unit(b, b + 4) = b
    BY <1>1, <1>2, <2>1, FindHere DEF b, o, c
  <2>3. QED
    BY <1>3, <2>2 DEF NONE
<1>7. m = H265!MessageAt(b, n)
  BY <1>6, MessageIs
<1>8. H265!NalRead(b, c) = k
  <2>1. b <= b /\ b < o /\ b \in Int
    BY <1>2, <1>3
  <2>2. NalAt(b) = k
    <3>1. PICK x \in Int : x = b
      BY <2>1
    <3>2. Begin[k] <= x /\ x < Octet(k)
      BY <2>1, <3>1 DEF b, o
    <3>3. NalAt(x) = k
      BY <1>1, <3>2, NalAtIs
    <3>4. QED
      BY <3>1, <3>3
  <2>3. b + c = H265!Octet(k)
    BY <1>3, SamePlaces DEF o
  <2>4. QED
    BY <2>2, <2>3, SameNalAt DEF H265!NalRead
<1>9. H265!TypeRead(b, c) = frame[k].type
  <2>1. k # 0
    BY <1>1 DEF FrameOK
  <2>2. QED
    BY <1>8, <2>1 DEF H265!TypeRead
<1>10. H265!find_nalu_confirm_fu_packet(b, c) <=> l >= PAYLOAD_SIZE
  <2>1. find_next_nal_unit(o, FrameLen) = IF k < N /\ Octet(k + 1) <= FrameLen THEN e ELSE NONE
    <3>1. o \in Int /\ FrameLen \in Int /\ Octet(k) - 2 <= o /\ o <= End(k)
      BY <1>3 DEF o, e
    <3>2. QED
      BY <1>1, <3>1, FindNext DEF e, N
  <2> DEFINE z == find_next_nal_unit(o, FrameLen)
             f == IF z = NONE THEN FrameLen ELSE z
  <2>2. f = e
    <3>1. CASE k < N
      <4>3. Octet(k + 1) <= FrameLen /\ e # NONE
        <5>1. Octet(k + 1) = e + c /\ Octet(k + 1) < FrameLen /\ c \in Int /\ e \in Nat /\ FrameLen \in Int
          BY <1>2, <1>3, <3>1
        <5>2. QED
          BY <5>1 DEF NONE
      <4>1. z = e /\ e # NONE
        BY <2>1, <3>1, <4>3
      <4> HIDE DEF z
      <4>2. QED
        BY <4>1
    <3>2. CASE k = N
      <4>1. z = NONE
        BY <1>3, <2>1, <3>2
      <4> HIDE DEF z
      <4>2. QED
        BY <1>3, <3>2, <4>1
    <3>3. QED
      BY <1>3, <3>1, <3>2 DEF N
  <2>3. H265!find_next_nal_unit(b + c, H265!FrameLen) = z /\ H265!NONE = NONE /\ H265!FrameLen = FrameLen
    <3>1. b + c = o
      BY <1>3
    <3>2. QED
      BY <3>1, SameFind, SamePlaces DEF H265!NONE, NONE
  <2> HIDE DEF z
  <2>4. H265!find_nalu_confirm_fu_packet(b, c) <=> f - b - c >= PAYLOAD_SIZE
    BY <2>3 DEF H265!find_nalu_confirm_fu_packet
  <2> HIDE DEF f
  <2>5. f - b - c = l
    BY <1>2, <1>3, <2>2
  <2>6. QED
    BY <2>4, <2>5
<1>11. /\ m.nal_type = frame[k].type /\ m.nal = k
       /\ m.start_code /\ (m.start <=> m.nal_type # H265!PARAM)
       /\ m.nal_type # H265!PARAM => (m.fu_packet <=> l >= PAYLOAD_SIZE)
       /\ m.len = IF q = NONE THEN Taken ELSE q - b
       /\ q = NONE => (m.end <=> FrameLen - b < PAYLOAD_SIZE)
  <2>1. b + n.nalu_header_len = o /\ b + (Ahead - pos) = Ahead
    BY <1>2, <1>3, <1>4, SMTT(40)
  <2> DEFINE qq == find_next_nal_unit(b + n.nalu_header_len, b + (Ahead - pos))
  <2>2. qq = q
    BY <2>1
  <2> HIDE DEF m, n, q, qq
  <2>3. /\ m.nal_type = H265!TypeRead(b, n.nalu_header_len)
        /\ m.nal = H265!NalRead(b, n.nalu_header_len)
        /\ m.start_code = TRUE /\ (m.start <=> m.nal_type # H265!PARAM)
        /\ m.nal_type # H265!PARAM =>
             (m.fu_packet <=> H265!find_nalu_confirm_fu_packet(b, n.nalu_header_len))
        /\ m.len = IF qq = NONE THEN Taken ELSE qq - b
        /\ m.end <=> IF qq = NONE THEN FrameLen - pos < PAYLOAD_SIZE
                     ELSE m.nal_type = H265!SLICE
    BY <1>1, <1>3, <1>7, NotesAt DEF qq
  <2>4. QED
    BY <1>2, <1>3, <1>8, <1>9, <1>10, <2>2, <2>3
<1> HIDE DEF m, n
<1>12. q = IF k < N /\ e + c <= Ahead THEN e ELSE NONE
  <2>1. o \in Int /\ Ahead \in Int /\ Octet(k) - 2 <= o /\ o <= End(k)
    BY <1>3, <1>4 DEF o, e
  <2>2. q = IF k < N /\ Octet(k + 1) <= Ahead THEN e ELSE NONE
    BY <1>1, <2>1, FindNext DEF e, N
  <2>3. QED
    BY <1>3, <2>2
<1> HIDE DEF q
<1>13. \/ k < N /\ 2 * c + l <= PAYLOAD_SIZE + 4 /\ m.len = c + l
       \/ k = N /\ c + l < PAYLOAD_SIZE /\ m.len = c + l
       \/ /\ k < N => 2 * c + l > PAYLOAD_SIZE + 4
          /\ c + l >= PAYLOAD_SIZE /\ m.len = PAYLOAD_SIZE /\ ~m.end
  <2>1. CASE k < N
    <3>1. e + c < FrameLen
      BY <1>3, <2>1
    <3>2. CASE 2 * c + l <= PAYLOAD_SIZE + 4
      <4>1. e + c <= Ahead
        BY <1>2, <1>3, <1>4, <3>1, <3>2
      <4>2. q = e /\ q # NONE
        BY <1>3, <1>12, <2>1, <4>1 DEF NONE
      <4>3. m.len = c + l
        BY <1>2, <1>3, <1>11, <4>2
      <4>4. QED
        BY <2>1, <3>2, <4>3
    <3>3. CASE ~(2 * c + l <= PAYLOAD_SIZE + 4)
      <4>1. ~(e + c <= Ahead) /\ ~(FrameLen - b < PAYLOAD_SIZE) /\ 2 * c + l > PAYLOAD_SIZE + 4
            /\ c + l >= PAYLOAD_SIZE
        BY <1>2, <1>3, <1>4, <3>1, <3>3
      <4>2. q = NONE
        BY <1>12, <4>1
      <4>3. m.len = PAYLOAD_SIZE /\ ~m.end
        BY <1>5, <1>11, <4>1, <4>2
      <4>4. QED
        BY <4>1, <4>3
    <3>4. QED
      BY <3>2, <3>3
  <2>2. CASE k = N
    <3>1. q = NONE /\ ~(k < N) /\ FrameLen - b = c + l
      BY <1>2, <1>3, <1>12, <2>2
    <3>2. CASE c + l < PAYLOAD_SIZE
      <4>1. m.len = c + l
        BY <1>5, <1>11, <3>1, <3>2
      <4>2. QED
        BY <2>2, <3>2, <4>1
    <3>3. CASE ~(c + l < PAYLOAD_SIZE)
      <4>1. m.len = PAYLOAD_SIZE /\ ~m.end
        BY <1>5, <1>11, <3>1, <3>3
      <4>2. c + l >= PAYLOAD_SIZE
        BY <1>2, <1>3, <3>3
      <4>3. QED
        BY <3>1, <4>1, <4>2
    <3>4. QED
      BY <3>2, <3>3
  <2>3. QED
    BY <1>3, <2>1, <2>2 DEF N
<1>14. QED
  BY <1>11, <1>13 DEF m, c, l, N

\* Inside a NAL unit: the rest of it, or as much as a payload holds.
LEMMA MessageInNal ==
  ASSUME H265Inv, H265!SameCodes, NEW k \in 1..Len(frame), H265Inside(k), FrameLen >= 4
  PROVE  LET m == H265!Message
             c == frame[k].code
             r == End(k) - pos
         IN  /\ m.nal = k /\ m.nal_type = frame[k].type /\ m.fu_packet = msg.fu_packet
             /\ ~m.start_code /\ ~m.start
             /\ \/ k < Len(frame) /\ m.len = r /\ m.end
                \/ k = Len(frame) /\ m.len = r /\ m.end
                \/ /\ k < Len(frame) => r + c > PAYLOAD_SIZE + 4
                   /\ r >= PAYLOAD_SIZE /\ m.len = PAYLOAD_SIZE /\ ~m.end
<1> DEFINE m == H265!Message
           n == H265Notes
           c == frame[k].code
           b == Begin[k]
           o == Octet(k)
           e == End(k)
           r == e - pos
           N == Len(frame)
           q == find_next_nal_unit(pos, Ahead)
<1>1. FrameOK /\ pos \in 0..FrameLen /\ n \in H265Messages /\ (pos > 0 => n = msg)
  BY NotesType, H265InvIs
<1>2. c \in {3, 4} /\ (k < N => frame[k + 1].code = c)
  <2>1. k \in DOMAIN frame /\ (k < N => k + 1 \in DOMAIN frame) /\ 1 \in DOMAIN frame
    BY <1>1 DEF FrameOK
  <2>2. c = frame[1].code /\ c # 0 /\ (k < N => frame[k + 1].code = c)
    BY <2>1 DEF H265!SameCodes
  <2>3. c \in {0, 3, 4}
    BY <1>1, Places
  <2>4. QED
    BY <1>1, <2>2, <2>3
<1>3. /\ b \in Nat /\ o \in Nat /\ e \in Nat /\ FrameLen \in Nat /\ N \in Nat
      /\ o = b + c /\ e <= FrameLen
      /\ k = N => e = FrameLen
      /\ k < N => Octet(k + 1) = e + c /\ Octet(k + 1) < FrameLen /\ k + 1 \in 1..N
      /\ PAYLOAD_SIZE \in Nat /\ PAYLOAD_SIZE > 6
  <2>1. N \in Nat
    BY <1>1 DEF FrameOK
  <2>2. QED
    BY <1>1, <1>2, <2>1, Places, Assumption
<1>4. /\ b + PAYLOAD_SIZE <= pos /\ pos < e /\ msg.nal = k /\ msg.nal_type = frame[k].type
      /\ (k < N /\ c = 3) => pos + 1 < e
  BY DEF H265Inside
<1>5. pos \in Int /\ pos > 0 /\ o - 2 <= pos /\ pos <= e /\ r \in Int /\ r > 0
  <2> HIDE DEF b, o, e, c, N
  <2>1. QED
    BY <1>1, <1>2, <1>3, <1>4
<1>6. /\ Ahead \in Int
      /\ Ahead = IF FrameLen - pos < PAYLOAD_SIZE + 4 THEN FrameLen ELSE pos + PAYLOAD_SIZE + 4
  BY <1>3, <1>5 DEF Ahead
<1>7. Taken = IF FrameLen - pos < PAYLOAD_SIZE THEN FrameLen - pos ELSE PAYLOAD_SIZE
  BY DEF Taken
<1>8. \A w \in Int : find_next_nal_unit(pos, w) = IF k < N /\ Octet(k + 1) <= w THEN e ELSE NONE
  <2> TAKE w \in Int
  <2>1. Octet(k) - 2 <= pos /\ pos <= End(k)
    BY <1>5
  <2>2. QED
    BY <1>1, <1>5, <2>1, FindNext
<1> HIDE DEF b, o, e, c, N
<1>9. find_next_nal_unit(pos, pos + 4) = NONE
  <2>1. pos + 4 \in Int
    BY <1>5
  <2>2. k < N => ~(Octet(k + 1) <= pos + 4)
    <3> SUFFICES ASSUME k < N PROVE ~(Octet(k + 1) <= pos + 4)
      OBVIOUS
    <3>1. Octet(k + 1) = e + c
      BY <1>3
    <3>2. ~(e + c <= pos + 4)
      BY <1>2, <1>3, <1>4, <1>5
    <3>3. QED
      BY <3>1, <3>2
  <2>3. QED
    BY <1>8, <2>1, <2>2
<1>10. m = H265!MessageInside(n) /\ n = msg
  BY <1>1, <1>5, <1>9, MessageIs
<1>11. /\ m.nal = k /\ m.nal_type = frame[k].type /\ m.fu_packet = msg.fu_packet
       /\ ~m.start_code /\ ~m.start
       /\ m.len = IF q = NONE THEN Taken ELSE q - pos
       /\ m.end <=> (q # NONE \/ FrameLen - pos < PAYLOAD_SIZE)
  <2> HIDE DEF m, n
  <2>1. QED
    BY <1>1, <1>3, <1>4, <1>10, NotesInside
<1> HIDE DEF m, n
<1>12. q = IF k < N /\ e + c <= Ahead THEN e ELSE NONE
  BY <1>3, <1>6, <1>8
<1> HIDE DEF q
<1>13. \/ k < N /\ m.len = r /\ m.end
       \/ k = N /\ m.len = r /\ m.end
       \/ /\ k < N => r + c > PAYLOAD_SIZE + 4
          /\ r >= PAYLOAD_SIZE /\ m.len = PAYLOAD_SIZE /\ ~m.end
  <2>1. CASE k < N
    <3>1. e + c < FrameLen
      BY <1>3, <2>1
    <3>2. CASE r + c <= PAYLOAD_SIZE + 4
      <4>1. e + c <= Ahead
        BY <1>2, <1>3, <1>5, <1>6, <3>1, <3>2
      <4>2. q = e /\ q # NONE
        BY <1>3, <1>12, <2>1, <4>1 DEF NONE
      <4>3. m.len = r /\ m.end
        BY <1>11, <4>2
      <4>4. QED
        BY <2>1, <4>3
    <3>3. CASE ~(r + c <= PAYLOAD_SIZE + 4)
      <4>1. ~(e + c <= Ahead) /\ ~(FrameLen - pos < PAYLOAD_SIZE) /\ r + c > PAYLOAD_SIZE + 4
            /\ r >= PAYLOAD_SIZE
        BY <1>2, <1>3, <1>5, <1>6, <3>1, <3>3
      <4>2. q = NONE
        BY <1>12, <4>1
      <4>3. m.len = PAYLOAD_SIZE /\ ~m.end
        BY <1>7, <1>11, <4>1, <4>2
      <4>4. QED
        BY <4>1, <4>3
    <3>4. QED
      BY <3>2, <3>3
  <2>2. CASE k = N
    <3>1. q = NONE /\ ~(k < N) /\ FrameLen - pos = r
      BY <1>3, <1>12, <2>2
    <3>2. CASE r < PAYLOAD_SIZE
      <4>1. m.len = r /\ m.end
        BY <1>7, <1>11, <3>1, <3>2
      <4>2. QED
        BY <2>2, <4>1
    <3>3. CASE ~(r < PAYLOAD_SIZE)
      <4>1. m.len = PAYLOAD_SIZE /\ ~m.end
        BY <1>7, <1>11, <3>1, <3>3
      <4>2. r >= PAYLOAD_SIZE
        BY <1>3, <1>5, <3>3
      <4>3. QED
        BY <3>1, <4>1, <4>2
    <3>4. QED
      BY <3>2, <3>3
  <2>3. QED
    BY <1>3, <2>1, <2>2 DEF N
<1>14. QED
  BY <1>11, <1>13 DEF m, c, r, e, N

\* What a receiver is to hold behind a first fragment, or a NAL unit sent whole.
LEMMA FuAtCode ==
  ASSUME H265Inv, H265!SameCodes, NEW k \in 1..Len(frame), pos = Begin[k], H265!Fu
  PROVE  H265Inv'
<1> DEFINE m == H265!Message
           p == H265!Piece(IF H265!Fu THEN m ELSE [m EXCEPT !.fu_packet = FALSE])
           c == frame[k].code
           l == frame[k].len
           b == Begin[k]
           o == Octet(k)
           e == End(k)
           to == b + PAYLOAD_SIZE
<1>1. /\ FrameOK /\ seq \in 0..(SeqMod - 1) /\ out \in H265Held
      /\ H265Regular => out = Received(Expected[pos])
  BY H265InvIs
<1>2. /\ frame' = frame /\ msg' = m /\ pos' = pos + m.len /\ H265!Sent(p)
      /\ m \in H265Messages /\ m.nalu_header_len = frame[1].code
      /\ pos' \in 0..FrameLen
      /\ p \in H265Packets /\ p.nal = m.nal /\ p.to = pos'
      /\ m.nal_type # H265!PARAM /\ m.fu_packet
      /\ p.fu /\ (p.S <=> m.start) /\ (p.E <=> m.end)
      /\ p.from = pos + IF m.start_code THEN frame[1].code + 2 ELSE 0
      /\ FrameLen >= 4
  BY TurnIs
<1> HIDE DEF m, p
<1>3. c \in {3, 4} /\ frame[1].code = c /\ frame[k].code # 0
  <2>1. k \in DOMAIN frame
    BY <1>1 DEF FrameOK
  <2>2. c = frame[1].code /\ c # 0
    BY <2>1 DEF H265!SameCodes
  <2>3. c \in {0, 3, 4}
    BY <1>1, Places
  <2>4. QED
    BY <2>2, <2>3
<1>4. /\ b \in Nat /\ o \in Nat /\ e \in Nat /\ FrameLen \in Nat
      /\ o = b + c /\ e = o + l /\ e <= FrameLen /\ l \in Nat \ {0} /\ pos = b
      /\ PAYLOAD_SIZE \in Nat /\ PAYLOAD_SIZE > 6 /\ k # 0
  <2>1. k # 0
    BY <1>1 DEF FrameOK
  <2>2. /\ b \in Nat /\ o \in Nat /\ e \in Nat /\ FrameLen \in Nat
        /\ o = b + c /\ e = o + l /\ e <= FrameLen /\ l \in Nat \ {0}
    BY <1>1, Places
  <2>3. QED
    BY <2>1, <2>2, Assumption
<1>5. /\ m.nal = k /\ m.nal_type = frame[k].type /\ m.start_code /\ m.start /\ l >= PAYLOAD_SIZE
      /\ \/ 2 * c + l <= PAYLOAD_SIZE + 4
         \/ c + l < PAYLOAD_SIZE
         \/ /\ k < Len(frame) => 2 * c + l > PAYLOAD_SIZE + 4
            /\ m.len = PAYLOAD_SIZE /\ ~m.end
  BY <1>2, MessageAtCode DEF m
<1> HIDE DEF b, o, e, l, c
<1>6. /\ m.len = PAYLOAD_SIZE /\ ~m.end
      /\ k < Len(frame) => 2 * c + l > PAYLOAD_SIZE + 4
  <2>1. ~(2 * c + l <= PAYLOAD_SIZE + 4) /\ ~(c + l < PAYLOAD_SIZE)
    BY <1>3, <1>4, <1>5
  <2>2. QED
    BY <1>5, <2>1
<1>7. p.from = o + 2 /\ p.to = to /\ pos' = to /\ p.nal = k /\ p.S /\ ~p.E
  <2>1. p.from = b + (c + 2) /\ pos' = b + PAYLOAD_SIZE
    BY <1>2, <1>3, <1>4, <1>5, <1>6
  <2>2. b + (c + 2) = o + 2
    BY <1>3, <1>4
  <2>3. QED
    BY <1>2, <1>5, <1>6, <2>1, <2>2
<1>8. to \in Int /\ o + 2 < to /\ to < e /\ to + 1 < e
  <2>1. l >= PAYLOAD_SIZE
    BY <1>5
  <2>2. /\ b + PAYLOAD_SIZE \in Int /\ o + 2 < b + PAYLOAD_SIZE /\ b + PAYLOAD_SIZE < e
        /\ b + PAYLOAD_SIZE + 1 < e
    BY <1>3, <1>4, <2>1
  <2>3. QED
    BY <2>2
<1> HIDE DEF to
<1>9. /\ pkt' \in H265Packets /\ seq' \in 0..(SeqMod - 1) /\ out' \in H265Held
      /\ pkt'.fu = p.fu /\ pkt'.S = p.S /\ pkt'.E = p.E /\ pkt'.nal = p.nal
      /\ pkt'.from = p.from /\ pkt'.to = p.to
      /\ (p.fu /\ p.from # p.to /\ p.S /\ ~p.E /\ p.nal # 0) =>
           out' = out \o <<CODE>> \o <<Octet(p.nal), H265!SecondRebuilt(p.nal)>> \o Bytes(p.from, p.to)
  BY <1>1, <1>2, H265Sent
<1>10. H265Regular => out' = Received(Expected[pos'])
  <2> SUFFICES ASSUME H265Regular PROVE out' = Received(Expected[to])
    BY <1>7
  <2> DEFINE x == Expected[b]
             h == <<o, o + 1>>
             y == Bytes(o + 2, to)
             r == <<o, H265!SecondRebuilt(k)>>
  <2>1. p.from # p.to
    BY <1>4, <1>7, <1>8
  <2>2. out' = Received(x) \o <<CODE>> \o r \o y
    <3>1. out' = out \o <<CODE>> \o <<Octet(p.nal), H265!SecondRebuilt(p.nal)>> \o Bytes(p.from, p.to)
      BY <1>2, <1>4, <1>7, <1>9, <2>1
    <3>2. Octet(p.nal) = o /\ p.nal = k /\ p.from = o + 2 /\ p.to = to /\ out = Received(x)
      BY <1>1, <1>4, <1>7 DEF o
    <3>3. QED
      BY <3>1, <3>2
  <2>3. Octet(k) <= to /\ to <= End(k)
    <3>1. o <= to /\ to <= e
      BY <1>4, <1>8
    <3>2. QED
      BY <3>1 DEF o, e
  <2>4. x \in Seq(Int) /\ Expected[to] = Append(x, CODE) \o Bytes(o, to)
    BY <1>1, <1>3, <1>8, <2>3, ExpectedNal DEF b, o
  <2>5. x \o <<CODE>> \o h \o y = Append(x, CODE) \o Bytes(o, to)
    <3>1. o \in Int /\ to \in Int /\ o + 1 < to
      BY <1>4, <1>8
    <3>2. QED
      BY <2>4, <3>1, SentBytes
  <2>6. h \in Seq(Int) /\ Received(h) = r
    BY <1>1, <1>2, <1>5, ReceivedHeader DEF o, l
  <2>7. y \in Seq(Int) /\ Received(y) = y
    <3>1. PICK z \in Int : z = o + 2
      BY <1>4
    <3>2. o <= z /\ z <= to /\ to <= e /\ o + 2 <= z
      BY <1>4, <1>8, <3>1
    <3>3. Bytes(z, to) \in Seq(Int) /\ Received(Bytes(z, to)) = Bytes(z, to)
      BY <1>1, <1>8, <3>2, ReceivedInNal DEF o, e
    <3>4. QED
      BY <3>1, <3>3
  <2> HIDE DEF x, h, y, r
  <2>8. Received(x \o <<CODE>> \o h \o y) = Received(x) \o <<CODE>> \o r \o y
    <3>1. x \in Seq(Int) /\ h \in Seq(Int) /\ y \in Seq(Int) /\ FrameOK
      BY <1>1, <2>4, <2>6, <2>7
    <3>2. Received(x \o <<CODE>> \o h \o y) = Received(x) \o <<CODE>> \o Received(h) \o Received(y)
      BY ONLY <3>1, ReceivedParts
    <3>3. QED
      BY <2>6, <2>7, <3>2
  <2>9. QED
    BY <2>2, <2>4, <2>5, <2>8
<1>11. /\ Begin[k] + PAYLOAD_SIZE <= pos' /\ pos' < End(k)
       /\ msg'.nal = k /\ msg'.nal_type = frame[k].type
       /\ frame[k].type # H265!PARAM => (msg'.fu_packet <=> frame[k].len >= PAYLOAD_SIZE)
       /\ k < Len(frame) => /\ frame[k].len + 2 * frame[k].code > PAYLOAD_SIZE + 4
                            /\ frame[k].code = 3 => pos' + 1 < End(k)
  <2>1. b + PAYLOAD_SIZE <= to /\ to < e
    BY <1>4, <1>8 DEF to
  <2>2. k < Len(frame) => l + 2 * c > PAYLOAD_SIZE + 4
    BY <1>3, <1>4, <1>6, SMTT(40)
  <2>3. c = 3 => to + 1 < e
    BY <1>8
  <2>4. QED
    BY <1>2, <1>5, <1>7, <2>1, <2>2, <2>3 DEF b, e, l, c
<1>12. /\ pkt'.nal # 0 /\ Octet(pkt'.nal) + 2 <= pkt'.from /\ pkt'.to <= End(pkt'.nal)
       /\ pkt'.S <=> pkt'.from = Octet(pkt'.nal) + 2
       /\ pkt'.E => pkt'.to = End(pkt'.nal)
       /\ (pkt'.to = End(pkt'.nal) /\ pkt'.nal < Len(frame)) => pkt'.E
  <2>1. o + 2 <= o + 2 /\ to <= e /\ to # e
    BY <1>4, <1>8
  <2>2. QED
    BY <1>4, <1>7, <1>9, <2>1 DEF o, e
<1>13. ~(FrameLen < 4)
  BY <1>2, <1>4
<1>14. QED
  BY <1>1, <1>2, <1>9, <1>10, <1>11, <1>12, <1>13, H265After

LEMMA SingleAtCode ==
  ASSUME H265Inv, H265!SameCodes, NEW k \in 1..Len(frame), pos = Begin[k],
         H265!SingleNal, ~H265!Fu
  PROVE  H265Inv'
<1> DEFINE m == H265!Message
           p == H265!Piece(IF H265!Fu THEN m ELSE [m EXCEPT !.fu_packet = FALSE])
           c == frame[k].code
           l == frame[k].len
           b == Begin[k]
           o == Octet(k)
           e == End(k)
           N == Len(frame)
<1>1. /\ FrameOK /\ seq \in 0..(SeqMod - 1) /\ out \in H265Held
      /\ H265Regular => out = Received(Expected[pos])
  BY H265InvIs
<1>2. /\ frame' = frame /\ msg' = m /\ pos' = pos + m.len /\ H265!Sent(p)
      /\ m \in H265Messages /\ m.nalu_header_len = frame[1].code
      /\ pos' \in 0..FrameLen
      /\ p \in H265Packets /\ p.nal = m.nal /\ p.to = pos'
      /\ m.nal_type = H265!PARAM \/ ~m.fu_packet
      /\ ~p.fu
      /\ p.from = pos + IF m.start_code THEN frame[1].code ELSE 0
      /\ FrameLen >= 4
  BY TurnIs
<1> HIDE DEF m, p
<1>3. c \in {3, 4} /\ frame[1].code = c /\ frame[k].code # 0
  <2>1. k \in DOMAIN frame
    BY <1>1 DEF FrameOK
  <2>2. c = frame[1].code /\ c # 0
    BY <2>1 DEF H265!SameCodes
  <2>3. c \in {0, 3, 4}
    BY <1>1, Places
  <2>4. QED
    BY <2>2, <2>3
<1>4. /\ b \in Nat /\ o \in Nat /\ e \in Nat /\ FrameLen \in Nat /\ N \in Nat
      /\ o = b + c /\ e = o + l /\ e <= FrameLen /\ l \in Nat \ {0} /\ pos = b
      /\ e = Begin[k + 1]
      /\ PAYLOAD_SIZE \in Nat /\ PAYLOAD_SIZE > 6
  <2>1. N \in Nat
    BY <1>1 DEF FrameOK
  <2>2. QED
    BY <1>1, <2>1, Places, Assumption
<1>5. /\ m.nal = k /\ m.nal_type = frame[k].type /\ m.start_code
      /\ m.nal_type # H265!PARAM => (m.fu_packet <=> l >= PAYLOAD_SIZE)
      /\ \/ m.len = c + l
         \/ /\ k < N => 2 * c + l > PAYLOAD_SIZE + 4
            /\ c + l >= PAYLOAD_SIZE /\ m.len = PAYLOAD_SIZE
  BY <1>2, MessageAtCode DEF m
<1> HIDE DEF b, o, e, l, c, N
<1>6. p.from = o /\ p.to = pos' /\ o \in Int
  BY <1>2, <1>3, <1>4, <1>5
<1>7. /\ pkt' \in H265Packets /\ seq' \in 0..(SeqMod - 1) /\ out' \in H265Held
      /\ ~pkt'.fu
      /\ (~p.fu /\ ~(p.to - p.from < 3) /\ \E j \in 1..Len(frame) : p.from = Octet(j)) =>
           out' = out \o <<CODE>> \o Bytes(p.from, p.to)
  BY <1>1, <1>2, H265Sent
<1>8. ~(FrameLen < 4)
  BY <1>2, <1>4
<1>9. CASE pos' = e
  <2>1. H265Regular => out' = Received(Expected[pos'])
    <3> SUFFICES ASSUME H265Regular PROVE out' = Received(Expected[e])
      BY <1>9
    <3> DEFINE x == Expected[b]
               y == Bytes(o, e)
    <3>1. l > 2
      BY <1>1 DEF H265Regular, FrameOK, l
    <3>2. ~(p.to - p.from < 3)
      BY <1>4, <1>6, <1>9, <3>1
    <3>3. out' = Received(x) \o <<CODE>> \o y
      <4>1. p.from = Octet(k)
        BY <1>6 DEF o
      <4>2. out' = out \o <<CODE>> \o Bytes(p.from, p.to)
        BY <1>2, <1>7, <3>2, <4>1
      <4>3. out = Received(x) /\ p.from = o /\ p.to = e
        BY <1>1, <1>4, <1>6, <1>9
      <4>4. QED
        BY <4>2, <4>3
    <3>4. Octet(k) <= o /\ o <= e /\ Octet(k) <= e /\ e <= End(k) /\ e \in Int
      <4>1. o <= o /\ o <= e /\ e \in Int
        BY <1>4
      <4>2. e <= e
        BY <1>4
      <4>3. QED
        BY <4>1, <4>2 DEF o, e
    <3>5. x \in Seq(Int) /\ Expected[e] = Append(x, CODE) \o y
      BY <1>1, <1>3, <3>4, ExpectedNal DEF b, o
    <3>6. x \o <<CODE>> \o y = Append(x, CODE) \o y
      <4>1. o \in Int /\ e \in Int
        BY <1>6, <3>4
      <4>2. QED
        BY <3>5, <4>1, SentBytes
    <3>7. y \in Seq(Int) /\ Received(y) = y
      <4>1. frame[k].type = H265!PARAM \/ l < PAYLOAD_SIZE
        <5>1. frame[k].type = H265!PARAM \/ ~(l >= PAYLOAD_SIZE)
          BY <1>2, <1>5
        <5>2. QED
          BY <1>4, <5>1
      <4>2. QED
        BY <1>1, <1>6, <3>4, <4>1, ReceivedInNal DEF l
    <3> HIDE DEF x, y
    <3>8. Received(x \o <<CODE>> \o y) = Received(x) \o <<CODE>> \o y
      BY <1>1, <3>5, <3>7, ReceivedParts
    <3>9. QED
      BY <3>3, <3>5, <3>6, <3>8
  <2>2. k + 1 \in 1..(Len(frame) + 1) /\ pos' = Begin[k + 1]
    BY <1>4, <1>9 DEF N
  <2>3. QED
    BY <1>1, <1>2, <1>7, <1>8, <2>1, <2>2, H265After
<1>10. CASE pos' # e
  <2>1. /\ m.len = PAYLOAD_SIZE /\ c + l >= PAYLOAD_SIZE
        /\ k < N => 2 * c + l > PAYLOAD_SIZE + 4
    <3>1. b + (c + l) = e
      BY <1>3, <1>4
    <3>2. m.len # c + l
      BY <1>2, <1>4, <1>10, <3>1
    <3>3. QED
      BY <1>5, <3>2
  <2>2. pos' = b + PAYLOAD_SIZE /\ c + l > PAYLOAD_SIZE /\ pos' < e
    <3>1. pos' = b + PAYLOAD_SIZE
      BY <1>2, <1>4, <2>1
    <3>2. b + PAYLOAD_SIZE # e
      BY <1>10, <3>1
    <3>3. c + l > PAYLOAD_SIZE /\ b + PAYLOAD_SIZE < e
      BY <1>3, <1>4, <2>1, <3>2
    <3>4. QED
      BY <3>1, <3>3
  <2>3. (k < N /\ c = 3) => pos' + 1 < e
    BY <1>3, <1>4, <2>1, <2>2
  <2>4. l + 2 * c = 2 * c + l
    BY <1>3, <1>4
  <2>5. /\ Begin[k] + PAYLOAD_SIZE <= pos' /\ pos' < End(k)
        /\ msg'.nal = k /\ msg'.nal_type = frame[k].type
        /\ frame[k].type # H265!PARAM => (msg'.fu_packet <=> frame[k].len >= PAYLOAD_SIZE)
        /\ k < Len(frame) => /\ frame[k].len + 2 * frame[k].code > PAYLOAD_SIZE + 4
                             /\ frame[k].code = 3 => pos' + 1 < End(k)
    <3>1. b + PAYLOAD_SIZE <= pos'
      BY <1>4, <2>2
    <3>2. QED
      BY <1>2, <1>5, <2>1, <2>2, <2>3, <2>4, <3>1 DEF b, e, l, c, N
  <2>6. ~H265Regular
    <3>1. l < PAYLOAD_SIZE \/ frame[k].type = H265!PARAM
      <4>1. frame[k].type = H265!PARAM \/ ~(l >= PAYLOAD_SIZE)
        BY <1>2, <1>5
      <4>2. QED
        BY <1>4, <4>1
    <3>2. ~(k < N /\ 2 * c + l <= PAYLOAD_SIZE + 4)
      <4>1. 2 * c + l \in Int /\ PAYLOAD_SIZE + 4 \in Int
        BY <1>3, <1>4
      <4>2. QED
        BY <2>1, <4>1
    <3>3. H265!Splits(k)
      BY <2>2, <3>1, <3>2 DEF H265!Splits, H265!WITHIN_LENGTH, H265!NALU_H265_HEADER_SIZE, l, c, N
    <3>4. k \in DOMAIN frame
      BY <1>1 DEF FrameOK
    <3>5. QED
      BY <3>3, <3>4 DEF H265Regular
  <2>7. QED
    BY <1>1, <1>2, <1>7, <1>8, <2>5, <2>6, H265After
<1>11. QED
  BY <1>9, <1>10

\* A further piece of a NAL unit, as a fragment or not.
LEMMA TurnInNal ==
  ASSUME H265Inv, H265!SameCodes, NEW k \in 1..Len(frame), H265Inside(k),
         H265!SingleNal \/ H265!Fu
  PROVE  H265Inv'
<1> DEFINE m == H265!Message
           p == H265!Piece(IF H265!Fu THEN m ELSE [m EXCEPT !.fu_packet = FALSE])
           c == frame[k].code
           l == frame[k].len
           b == Begin[k]
           o == Octet(k)
           e == End(k)
           N == Len(frame)
<1>1. /\ FrameOK /\ seq \in 0..(SeqMod - 1) /\ out \in H265Held /\ pos \in 0..FrameLen
      /\ H265Regular => out = Received(Expected[pos])
  BY H265InvIs
<1>2. /\ frame' = frame /\ msg' = m /\ pos' = pos + m.len /\ H265!Sent(p)
      /\ m \in H265Messages /\ m.nalu_header_len = frame[1].code
      /\ pos' \in 0..FrameLen /\ (frame[1].code # 0 => pos' > pos)
      /\ p \in H265Packets /\ p.nal = m.nal /\ p.to = pos'
      /\ H265!Fu => /\ m.nal_type # H265!PARAM /\ m.fu_packet
                    /\ p.fu /\ (p.S <=> m.start) /\ (p.E <=> m.end)
                    /\ p.from = pos + IF m.start_code THEN frame[1].code + 2 ELSE 0
      /\ ~H265!Fu => /\ m.nal_type = H265!PARAM \/ ~m.fu_packet
                     /\ ~p.fu
      /\ FrameLen >= 4
  BY TurnIs
<1>3. /\ m.nal = k /\ m.nal_type = frame[k].type /\ m.fu_packet = msg.fu_packet
      /\ ~m.start_code /\ ~m.start
      /\ \/ m.len = e - pos /\ m.end
         \/ /\ k < N => (e - pos) + c > PAYLOAD_SIZE + 4
            /\ e - pos >= PAYLOAD_SIZE /\ m.len = PAYLOAD_SIZE /\ ~m.end
  BY <1>2, MessageInNal
<1> HIDE DEF m, p
<1>4. c \in {3, 4} /\ frame[1].code = c
  <2>1. k \in DOMAIN frame
    BY <1>1 DEF FrameOK
  <2>2. c = frame[1].code /\ c # 0
    BY <2>1 DEF H265!SameCodes
  <2>3. c \in {0, 3, 4}
    BY <1>1, Places
  <2>4. QED
    BY <2>2, <2>3
<1>5. /\ b \in Nat /\ o \in Nat /\ e \in Nat /\ FrameLen \in Nat /\ N \in Nat
      /\ o = b + c /\ e = o + l /\ e <= FrameLen /\ l \in Nat \ {0}
      /\ e = Begin[k + 1]
      /\ PAYLOAD_SIZE \in Nat /\ PAYLOAD_SIZE > 6
  <2>1. N \in Nat
    BY <1>1 DEF FrameOK
  <2>2. QED
    BY <1>1, <2>1, Places, Assumption
<1>6. /\ b + PAYLOAD_SIZE <= pos /\ pos < e
      /\ frame[k].type # H265!PARAM => (msg.fu_packet <=> l >= PAYLOAD_SIZE)
      /\ k < N => l + 2 * c > PAYLOAD_SIZE + 4
  BY DEF H265Inside
<1> HIDE DEF b, o, e, l, c, N
<1>7. pos \in Int /\ o + 2 < pos
  BY <1>1, <1>4, <1>5, <1>6
<1>8. /\ pkt' \in H265Packets /\ seq' \in 0..(SeqMod - 1) /\ out' \in H265Held
      /\ pkt'.fu = p.fu /\ pkt'.S = p.S /\ pkt'.E = p.E /\ pkt'.nal = p.nal
      /\ pkt'.from = p.from /\ pkt'.to = p.to
      /\ (p.fu /\ p.from # p.to /\ ~p.S) => out' = out \o Bytes(p.from, p.to)
  BY <1>1, <1>2, H265Sent
<1>9. ~(FrameLen < 4)
  BY <1>2, <1>5
<1>10. /\ pos' \in Int /\ pos < pos' /\ pos' <= e
       /\ m.end => pos' = e
       /\ ~m.end => pos' = pos + PAYLOAD_SIZE
       /\ ~m.end /\ k < N => pos' < e /\ (c = 3 => pos' + 1 < e)
  <2>1. CASE m.len = e - pos /\ m.end
    <3>3. pos' = pos + (e - pos)
      BY <1>2, <2>1
    <3>4. pos + (e - pos) = e
      BY <1>5, <1>7
    <3>1. pos' = e
      BY <3>3, <3>4
    <3>2. QED
      BY <1>5, <1>6, <2>1, <3>1
  <2>2. CASE /\ k < N => (e - pos) + c > PAYLOAD_SIZE + 4
             /\ e - pos >= PAYLOAD_SIZE /\ m.len = PAYLOAD_SIZE /\ ~m.end
    <3>1. pos' = pos + PAYLOAD_SIZE
      BY <1>2, <2>2
    <3>2. pos + PAYLOAD_SIZE \in Int /\ pos < pos + PAYLOAD_SIZE /\ pos + PAYLOAD_SIZE <= e
      BY <1>5, <1>7, <2>2
    <3>3. (k < N /\ c = 3) => (pos + PAYLOAD_SIZE) + 1 < e
      BY <1>5, <1>7, <2>2
    <3>4. k < N => pos + PAYLOAD_SIZE < e
      BY <1>4, <1>5, <1>7, <2>2
    <3>5. QED
      BY <2>2, <3>1, <3>2, <3>3, <3>4
  <2>3. QED
    BY <1>3, <2>1, <2>2
<1>11. H265Regular => H265!Fu /\ out' = Received(Expected[pos'])
  <2> SUFFICES ASSUME H265Regular PROVE H265!Fu /\ out' = Received(Expected[pos'])
    OBVIOUS
  <2>1. H265!Fu
    <3> SUFFICES ASSUME ~H265!Fu PROVE FALSE
      OBVIOUS
    <3>1. l < PAYLOAD_SIZE \/ frame[k].type = H265!PARAM
      <4>1. frame[k].type = H265!PARAM \/ ~(l >= PAYLOAD_SIZE)
        BY <1>2, <1>3, <1>6
      <4>2. QED
        BY <1>5, <4>1
    <3>2. c + l > PAYLOAD_SIZE
      <4>1. b + PAYLOAD_SIZE <= pos /\ pos < (b + c) + l
        BY <1>5, <1>6
      <4>2. c \in Int /\ l \in Int /\ b \in Int /\ PAYLOAD_SIZE \in Int
        BY <1>4, <1>5
      <4>3. QED
        BY <1>7, <4>1, <4>2
    <3>3. ~(k < N /\ 2 * c + l <= PAYLOAD_SIZE + 4)
      <4>1. 2 * c + l \in Int /\ PAYLOAD_SIZE + 4 \in Int /\ 2 * c + l = l + 2 * c
        BY <1>4, <1>5
      <4>2. k < N => 2 * c + l > PAYLOAD_SIZE + 4
        BY <1>6, <4>1
      <4>3. QED
        BY <4>1, <4>2
    <3>4. H265!Splits(k)
      BY <3>1, <3>2, <3>3 DEF H265!Splits, H265!WITHIN_LENGTH, H265!NALU_H265_HEADER_SIZE, l, c, N
    <3>5. k \in DOMAIN frame
      BY <1>1 DEF FrameOK
    <3>6. QED
      BY <3>4, <3>5 DEF H265Regular
  <2>2. p.fu /\ ~p.S /\ p.from = pos /\ p.to = pos' /\ p.from # p.to
    BY <1>2, <1>3, <1>7, <1>10, <2>1
  <2>3. out' = Received(Expected[pos]) \o Bytes(pos, pos')
    BY <1>1, <1>8, <2>2
  <2>4. Expected[pos] \in Seq(Int)
    BY <1>1, ExpectedIs
  <2>5. PICK x \in Int : x = pos'
    BY <1>10
  <2>6. Octet(k) <= pos /\ pos <= x /\ x <= End(k)
    <3>1. o <= pos /\ pos <= x /\ x <= e
      BY <1>5, <1>7, <1>10, <2>5
    <3>2. QED
      BY <3>1 DEF o, e
  <2>7. Expected[x] = Expected[pos] \o Bytes(pos, x)
    BY <1>1, <1>7, <2>4, <2>6, ExpectedBytes
  <2>8. Bytes(pos, x) \in Seq(Int) /\ Received(Bytes(pos, x)) = Bytes(pos, x)
    <3>1. Octet(k) + 2 <= pos
      <4>1. o + 2 <= pos
        BY <1>5, <1>7
      <4>2. QED
        BY <4>1 DEF o
    <3>2. QED
      BY <1>1, <1>7, <2>6, <3>1, ReceivedInNal
  <2>9. Received(Expected[x]) = Received(Expected[pos]) \o Bytes(pos, x)
    BY <2>4, <2>7, <2>8, ReceivedConcat
  <2>10. QED
    BY <2>1, <2>3, <2>5, <2>9
<1>12. (H265!SameCodes /\ pkt'.fu) =>
         /\ pkt'.nal # 0 /\ Octet(pkt'.nal) + 2 <= pkt'.from /\ pkt'.to <= End(pkt'.nal)
         /\ pkt'.S <=> pkt'.from = Octet(pkt'.nal) + 2
         /\ pkt'.E => pkt'.to = End(pkt'.nal)
         /\ (pkt'.to = End(pkt'.nal) /\ pkt'.nal < Len(frame)) => pkt'.E
  <2> SUFFICES ASSUME pkt'.fu
               PROVE  /\ pkt'.nal # 0 /\ Octet(pkt'.nal) + 2 <= pkt'.from /\ pkt'.to <= End(pkt'.nal)
                      /\ pkt'.S <=> pkt'.from = Octet(pkt'.nal) + 2
                      /\ pkt'.E => pkt'.to = End(pkt'.nal)
                      /\ (pkt'.to = End(pkt'.nal) /\ pkt'.nal < Len(frame)) => pkt'.E
    OBVIOUS
  <2>1. H265!Fu
    BY <1>2, <1>8
  <2>2. /\ pkt'.nal = k /\ pkt'.from = pos /\ pkt'.to = pos' /\ ~pkt'.S /\ (pkt'.E <=> m.end)
    <3>1. p.from = pos
      BY <1>2, <1>3, <1>7, <2>1
    <3>2. QED
      BY <1>2, <1>3, <1>8, <2>1, <3>1
  <2>3. /\ k # 0 /\ o + 2 <= pos /\ pos' <= e /\ pos # o + 2
        /\ m.end => pos' = e
        /\ pos' = e /\ k < N => m.end
    <3>1. k # 0
      BY <1>1 DEF FrameOK
    <3>2. o + 2 <= pos /\ pos # o + 2
      BY <1>5, <1>7
    <3>3. pos' = e /\ k < N => m.end
      BY <1>5, <1>10
    <3>4. QED
      BY <1>10, <3>1, <3>2, <3>3
  <2>4. QED
    BY <2>2, <2>3 DEF o, e, N
<1>13. CASE pos' = e
  <2>1. k + 1 \in 1..(Len(frame) + 1) /\ pos' = Begin[k + 1]
    BY <1>5, <1>13 DEF N
  <2>2. QED
    BY <1>1, <1>2, <1>8, <1>9, <1>11, <1>12, <2>1, H265After
<1>14. CASE pos' # e
  <2>1. /\ b + PAYLOAD_SIZE <= pos' /\ pos' < e
        /\ (k < N /\ c = 3) => pos' + 1 < e
    <3>1. ~m.end
      BY <1>10, <1>14
    <3>2. PICK x \in Int : x = pos'
      BY <1>10
    <3>3. x <= e /\ x # e /\ pos < x
      BY <1>10, <1>14, <3>2
    <3>4. b + PAYLOAD_SIZE <= x /\ x < e
      BY <1>5, <1>6, <1>7, <3>3
    <3>5. QED
      BY <1>10, <3>1, <3>2, <3>4
  <2>2. /\ Begin[k] + PAYLOAD_SIZE <= pos' /\ pos' < End(k)
        /\ msg'.nal = k /\ msg'.nal_type = frame[k].type
        /\ frame[k].type # H265!PARAM => (msg'.fu_packet <=> frame[k].len >= PAYLOAD_SIZE)
        /\ k < Len(frame) => /\ frame[k].len + 2 * frame[k].code > PAYLOAD_SIZE + 4
                             /\ frame[k].code = 3 => pos' + 1 < End(k)
    BY <1>2, <1>3, <1>6, <2>1 DEF b, e, l, c, N
  <2>3. QED
    BY <1>1, <1>2, <1>8, <1>9, <1>11, <1>12, <2>2, H265After
<1>15. QED
  BY <1>13, <1>14

\* Every turn of the loop.
LEMMA H265Turn ==
  ASSUME H265Inv, H265!Next
  PROVE  H265Inv' /\ (frame[1].code # 0 => pos' > pos)
<1>1. CASE H265!TooShort
  BY <1>1, TooShortTurn
<1>2. CASE H265!SingleNal \/ H265!Fu
  <2>1. FrameLen >= 4 /\ pos < FrameLen /\ (frame[1].code # 0 => pos' > pos)
    BY <1>2, TurnIs
  <2>2. CASE ~H265!SameCodes
    BY <1>2, <2>2, TurnOfOther
  <2>3. CASE H265!SameCodes
    <3>1. FrameOK /\ H265Place
      BY <2>3, H265InvIs
    <3>2. ASSUME NEW k \in 1..(Len(frame) + 1), pos = Begin[k]
          PROVE  H265Inv'
      <4>1. k \in 1..Len(frame)
        <5>1. FrameLen \in Nat
          <6>1. 1 \in 1..Len(frame)
            BY <3>1 DEF FrameOK
          <6>2. QED
            BY <3>1, <6>1, Places
        <5>2. k # Len(frame) + 1
          BY <2>1, <3>2, <5>1 DEF FrameLen
        <5>3. QED
          BY <3>1, <5>2 DEF FrameOK
      <4>2. QED
        BY <1>2, <2>3, <3>2, <4>1, FuAtCode, SingleAtCode
    <3>3. ASSUME NEW k \in 1..Len(frame), H265Inside(k)
          PROVE  H265Inv'
      BY <1>2, <2>3, <3>3, TurnInNal
    <3>4. QED
      BY <2>1, <3>1, <3>2, <3>3 DEF H265Place
  <2>4. QED
    BY <2>2, <2>3
<1>3. QED
  BY <1>1, <1>2 DEF H265!Next
-----------------------------------------------------------------------------
(***************************************************************************)
(* A call begins.                                                          *)
(***************************************************************************)

LEMMA H264FramesAre ==
  ASSUME NEW most \in Nat, NEW f \in H264!Frames(most)
  PROVE  /\ f \in Seq([code : Codes \cup {0}, type : {0}, len : LengthsH264]) /\ f # <<>>
         /\ Len(f) \in Nat \ {0} /\ DOMAIN f = 1..Len(f)
         /\ \A k \in DOMAIN f : f[k].code \in {0, 3, 4} /\ f[k].len \in Nat \ {0}
                                /\ (k > 1 => f[k].code # 0)
<1> DEFINE R == [code : Codes \cup {0}, type : {0}, len : LengthsH264]
<1>1. PICK n \in 1..most : f \in [1..n -> R] /\ \A k \in 2..n : f[k].code # 0
  BY DEF H264!Frames
<1>2. \A r \in R : r.code \in {0, 3, 4} /\ r.len \in Nat \ {0}
  BY Assumption
<1> HIDE DEF R
<1>3. n \in Nat \ {0} /\ DOMAIN f = 1..n
  BY <1>1
<1>4. f \in Seq(R) /\ Len(f) = n
  <2>1. f \in Seq(R)
    BY <1>1, <1>3
  <2>2. QED
    BY <1>3, <2>1, LenProperties
<1>5. \A k \in DOMAIN f : f[k] \in R /\ (k > 1 => k \in 2..n)
  BY <1>1, <1>3
<1>6. f # <<>>
  BY <1>3, <1>4
<1>7. QED
  BY <1>1, <1>2, <1>3, <1>4, <1>5, <1>6 DEF R

LEMMA H265FramesAre ==
  ASSUME NEW most \in Nat, NEW f \in H265!Frames(most)
  PROVE  /\ f \in H265Frames /\ f # <<>>
         /\ Len(f) \in Nat \ {0} /\ DOMAIN f = 1..Len(f)
         /\ \A k \in DOMAIN f : f[k].code \in {0, 3, 4} /\ f[k].len \in Nat \ {0}
                                /\ (k > 1 => f[k].code # 0)
<1> DEFINE R == Nals265
<1>1. PICK n \in 1..most : f \in [1..n -> R] /\ \A k \in 2..n : f[k].code # 0
  BY DEF H265!Frames, H265!Nals, Nals265, NalTypes
<1>2. \A r \in R : r.code \in {0, 3, 4} /\ r.len \in Nat \ {0}
  BY Assumption DEF Nals265
<1> HIDE DEF R
<1>3. n \in Nat \ {0} /\ DOMAIN f = 1..n
  BY <1>1
<1>4. f \in Seq(R) /\ Len(f) = n
  <2>1. f \in Seq(R)
    BY <1>1, <1>3
  <2>2. QED
    BY <1>3, <2>1, LenProperties
<1>5. \A k \in DOMAIN f : f[k] \in R /\ (k > 1 => k \in 2..n)
  BY <1>1, <1>3
<1>6. f # <<>>
  BY <1>3, <1>4
<1>7. QED
  BY <1>1, <1>2, <1>3, <1>4, <1>5, <1>6 DEF R, H265Frames

\* The state a call begins in, the first or a later one.
H264Fresh ==
  /\ \E most \in Nat : frame \in H264!Frames(most)
  /\ pos = 0 /\ pkt = H264!NoPacket /\ fu = H264!NoHeader /\ out = <<>>
  /\ seq \in 0..(SeqMod - 1)

H265Fresh ==
  /\ \E most \in Nat : frame \in H265!Frames(most)
  /\ pos = 0 /\ pkt = H265!NoPacket /\ out = <<>>
  /\ seq \in 0..(SeqMod - 1)
  /\ msg \in [nalu_header_len : Codes \cup {0}, nal_type : NalTypes, nal : Nat,
              fu_packet : BOOLEAN, start_code : BOOLEAN, start : BOOLEAN, end : BOOLEAN,
              len : 0..(PAYLOAD_SIZE + 1)]

LEMMA H264Begins == H264Fresh => H264Inv
<1> SUFFICES ASSUME H264Fresh PROVE H264Inv
  OBVIOUS
<1>1. /\ frame \in Seq([code : Codes \cup {0}, type : {0}, len : LengthsH264]) /\ frame # <<>>
      /\ FrameOK
  BY H264FramesAre DEF H264Fresh, FrameOK
<1>2. 1 \in 1..Len(frame) /\ Len(frame) \in Nat
  BY <1>1 DEF FrameOK
<1>3. FrameLen \in Nat /\ Begin[1] = 0
  BY <1>1, <1>2, Places, BeginIs
<1>4. /\ pos = 0 /\ seq \in 0..(SeqMod - 1) /\ out = <<>>
      /\ pkt = H264!NoPacket /\ fu = H264!NoHeader
  BY DEF H264Fresh
<1>5. pos \in 0..FrameLen /\ out \in Held /\ out = Expected[pos]
  <2>1. Expected[0] = <<>>
    BY <1>1, ExpectedIs
  <2>2. QED
    BY <1>3, <1>4, <2>1 DEF Held
<1>6. pkt \in H264Packets /\ ~pkt.fuA /\ pkt.size = 0
  <2>1. 0 \in 0..FrameLen /\ 0 \in 0..Len(frame) /\ 0 \in 0..mtu
    BY <1>2, <1>3, Assumption
  <2>2. QED
    BY <1>4, <2>1 DEF H264Packets, H264!NoPacket
<1>7. fu.at \in NONE..FrameLen /\ fu.type \in 0..Len(frame)
  BY <1>2, <1>3, <1>4 DEF H264!NoHeader, H264!NONE, NONE
<1>8. H264Place
  <2>1. CASE frame[1].code = 0
    BY <1>4, <2>1 DEF H264Place
  <2>2. CASE frame[1].code # 0
    <3>1. AtCode(1) /\ 1 \in 1..(Len(frame) + 1)
      BY <1>2, <1>3, <1>4, <2>2 DEF AtCode
    <3>2. QED
      BY <3>1 DEF H264Place
  <2>3. QED
    BY <2>1, <2>2
<1>9. QED
  BY <1>1, <1>4, <1>5, <1>6, <1>7, <1>8, H264InvIs

LEMMA H265Begins == H265Fresh => H265Inv
<1> SUFFICES ASSUME H265Fresh PROVE H265Inv
  OBVIOUS
<1>1. frame \in H265Frames /\ frame # <<>> /\ FrameOK
  BY H265FramesAre DEF H265Fresh, FrameOK
<1>2. 1 \in 1..Len(frame) /\ Len(frame) \in Nat
  BY <1>1 DEF FrameOK
<1>3. FrameLen \in Nat /\ Begin[1] = 0
  BY <1>1, <1>2, Places, BeginIs
<1>4. /\ pos = 0 /\ seq \in 0..(SeqMod - 1) /\ out = <<>> /\ pkt = H265!NoPacket
      /\ msg \in [nalu_header_len : Codes \cup {0}, nal_type : NalTypes, nal : Nat,
                  fu_packet : BOOLEAN, start_code : BOOLEAN, start : BOOLEAN, end : BOOLEAN,
                  len : 0..(PAYLOAD_SIZE + 1)]
  BY DEF H265Fresh
<1>5. pos \in 0..FrameLen /\ out \in H265Held /\ out = Received(Expected[pos])
  <2>1. Expected[0] = <<>>
    BY <1>1, ExpectedIs
  <2>2. Received(<<>>) = <<>>
    <3>1. <<>> \in Seq(Int) /\ \A i \in 1..Len(<<>>) : ~Spoiled(<<>>[i])
      BY EmptySeq
    <3>2. QED
      BY <3>1, ReceivedAsIs
  <2>3. QED
    BY <1>3, <1>4, <2>1, <2>2 DEF H265Held
<1>6. pkt \in H265Packets /\ ~pkt.fu /\ pkt.from = 0 /\ pkt.to = 0
  <2>1. 0 \in 0..FrameLen /\ 0 \in 0..Len(frame)
    BY <1>2, <1>3
  <2>2. QED
    BY <1>4, <2>1 DEF H265Packets, H265!NoPacket
<1>7. H265Place
  <2>1. pos = Begin[1] /\ 1 \in 1..(Len(frame) + 1)
    BY <1>2, <1>3, <1>4
  <2>2. QED
    BY <2>1 DEF H265Place
<1>8. ~(pos > 0)
  BY <1>4
<1>9. QED
  BY <1>1, <1>4, <1>5, <1>6, <1>7, <1>8, H265InvIs

LEMMA BeginsLater == (H264Fresh' => H264Inv') /\ (H265Fresh' => H265Inv')
BY H264Begins, H265Begins, PTL

-----------------------------------------------------------------------------
(***************************************************************************)
(* The invariant holds.                                                    *)
(***************************************************************************)

LEMMA InitInv == Init => Inv
<1>1. NalsH264 \in Nat /\ NalsH265 \in Nat /\ 0 \in 0..(SeqMod - 1)
  BY Assumption
<1>2. CASE codecType = "H264" /\ H264!Init
  <2>1. H264Fresh
    BY <1>1, <1>2 DEF H264!Init, H264Fresh
  <2>2. QED
    BY <1>2, <2>1, H264Begins DEF Inv
<1>3. CASE codecType = "H265" /\ H265!Init
  <2>1. H265!NoMsg \in [nalu_header_len : Codes \cup {0}, nal_type : NalTypes, nal : Nat,
              fu_packet : BOOLEAN, start_code : BOOLEAN, start : BOOLEAN, end : BOOLEAN,
              len : 0..(PAYLOAD_SIZE + 1)]
    <3>1. 0 \in 0..(PAYLOAD_SIZE + 1)
      BY Assumption
    <3>2. QED
      BY <3>1 DEF H265!NoMsg, NalTypes
  <2>2. H265Fresh
    BY <1>1, <1>3, <2>1 DEF H265!Init, H265Fresh
  <2>3. QED
    BY <1>3, <2>2, H265Begins DEF Inv
<1>4. QED
  BY <1>2, <1>3 DEF Init

LEMMA CallInv ==
  ASSUME Inv, packet_and_send
  PROVE  Inv'
<1>1. NalsLater \in Nat
  BY Assumption
<1>2. CASE codecType = "H264" /\ H264Inv
  <2>1. /\ frame' \in H264!Frames(NalsLater) /\ pkt' = H264!NoPacket
        /\ pos' = 0 /\ out' = <<>> /\ fu' = H264!NoHeader /\ codecType' = codecType /\ seq' = seq
    BY <1>2 DEF packet_and_send
  <2>2. seq \in 0..(SeqMod - 1)
    BY <1>2, H264InvIs
  <2>3. H264Fresh'
    BY <1>1, <2>1, <2>2 DEF H264Fresh, H264!Frames, H264!NoPacket, H264!NoHeader, H264!NONE
  <2>4. QED
    BY <1>2, <2>1, <2>3, BeginsLater DEF Inv
<1>3. CASE codecType = "H265" /\ H265Inv
  <2>1. /\ frame' \in H265!Frames(NalsLater) /\ pkt' = H265!NoPacket
        /\ pos' = 0 /\ out' = <<>> /\ codecType' = codecType /\ msg' = msg /\ seq' = seq
    BY <1>3 DEF packet_and_send
  <2>2. /\ seq \in 0..(SeqMod - 1)
        /\ msg \in [nalu_header_len : Codes \cup {0}, nal_type : NalTypes, nal : Nat,
                    fu_packet : BOOLEAN, start_code : BOOLEAN, start : BOOLEAN, end : BOOLEAN,
                    len : 0..(PAYLOAD_SIZE + 1)]
    BY <1>3, H265InvIs
  <2>3. H265Fresh'
    BY <1>1, <2>1, <2>2 DEF H265Fresh, H265!Frames, H265!NoPacket, NalTypes, H265!PARAM,
                            H265!SLICE, H265!TRAIL_N
  <2>4. QED
    BY <1>3, <2>1, <2>3, BeginsLater DEF Inv
<1>4. QED
  BY <1>2, <1>3 DEF Inv

LEMMA TurnInv ==
  ASSUME Inv, get_package
  PROVE  Inv' /\ (frame[1].code # 0 => pos' > pos)
<1>1. CASE codecType = "H264" /\ H264Inv
  <2>1. H264!Next /\ codecType' = codecType
    BY <1>1 DEF get_package
  <2>2. QED
    BY <1>1, <2>1, H264Turn DEF Inv
<1>2. CASE codecType = "H265" /\ H265Inv
  <2>1. H265!Next /\ codecType' = codecType
    BY <1>2 DEF get_package
  <2>2. QED
    BY <1>2, <2>1, H265Turn DEF Inv
<1>3. QED
  BY <1>1, <1>2 DEF Inv

LEMMA StutterInv ==
  ASSUME Inv, UNCHANGED vars
  PROVE  Inv'
<1>1. /\ frame' = frame /\ codecType' = codecType /\ pos' = pos /\ pkt' = pkt /\ fu' = fu
      /\ msg' = msg /\ seq' = seq /\ out' = out
  BY DEF vars
<1>2. CASE codecType = "H264" /\ H264Inv
  <2>1. H264Inv'
    BY <1>1, <1>2, H264InvIs, H264After
       DEF H264Place, AtCode, BehindZero, H264Inside
  <2>2. QED
    BY <1>1, <1>2, <2>1 DEF Inv
<1>3. CASE codecType = "H265" /\ H265Inv
  <2>1. H265Inv'
    BY <1>1, <1>3, H265InvIs, H265After DEF H265Place, H265Inside
  <2>2. QED
    BY <1>1, <1>3, <2>1 DEF Inv
<1>4. QED
  BY <1>2, <1>3 DEF Inv

\* Where a turn of the loop can begin, what the buffer and pkt_msg hold there, and what
\* the receiver has, for both codecs.
THEOREM Invariance == Spec => []Inv
<1>1. Inv /\ [Next]_vars => Inv'
  BY CallInv, TurnInv, StutterInv DEF Next
<1>2. QED
  BY InitInv, <1>1, PTL DEF Spec

\* packet_and_send_ and the packetizers lose, repeat and reorder no byte of a frame, but
\* for the frames each packetizer's property of this name excepts, and the second header
\* byte of an H.265 NAL unit in fragments, for which the receiver has the constant 1.
THEOREM NothingLost == Spec => []Lossless
<1>1. Inv => Lossless
  BY DEF Inv, H264Inv, H265Inv, Lossless
<1>2. QED
  BY Invariance, <1>1, PTL

\* The header that pjmedia_h264_packetize looks up in the buffer is that of the fragment
\* before, and so names the NAL unit whose bytes are sent.
THEOREM HeadersAreRight == Spec => []HeaderOfItsNal
<1>1. Inv => HeaderOfItsNal
  BY DEF Inv, H264Inv, HeaderOfItsNal
<1>2. QED
  BY Invariance, <1>1, PTL

\* What pjmedia_h265_packetize has noted in pkt_msg when it makes a fragment is of the
\* NAL unit whose bytes are in it.
THEOREM FragmentsAreRight == Spec => []FragmentOfItsNal
<1>1. Inv => FragmentOfItsNal
  BY DEF Inv, H265Inv, FragmentOfItsNal
<1>2. QED
  BY Invariance, <1>1, PTL

\* The loop of packet_and_send_ does not go round without moving on in the frame.
THEOREM LoopGetsOn == Spec => GetsOn
<1>1. Inv => [get_package /\ frame[1].code # 0 => pos' > pos]_vars
  BY TurnInv
<1>2. QED
  BY Invariance, <1>1, PTL DEF GetsOn
=============================================================================

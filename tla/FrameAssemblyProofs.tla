------------------------- MODULE FrameAssemblyProofs -------------------------
(***************************************************************************)
(* Proofs about FrameAssembly, for streams and frames of any length, cut   *)
(* into any number of fragments, of which anything may be lost.            *)
(***************************************************************************)
EXTENDS FrameAssembly, NumberLemmas, SequenceTheorems, TLAPS

-----------------------------------------------------------------------------
(***************************************************************************)
(* The stream.  The packets sent and those to be sent are numbered from 0. *)
(***************************************************************************)

Total == Len(sent) + Len(todo)

Stream ==
  [n \in 0..(Total - 1) |-> IF n < Len(sent) THEN sent[n + 1] ELSE todo[n + 1 - Len(sent)]]

\* The n-th packet is called that, and is one of a frame all of which is there.
Numbered(n) ==
  /\ Stream[n] \in PacketType
  /\ Stream[n].no = n /\ Stream[n].usSeq = n % SeqMod
  /\ Stream[n].uTimeStamp = Stream[n].frame /\ Stream[n].frame <= n + 1
  /\ Stream[n].index <= Stream[n].size /\ Stream[n].index <= n + 1
  /\ n - Stream[n].index + Stream[n].size < Total
  /\ Stream[n].ucMarker <=> Stream[n].index = Stream[n].size

\* Packets m and n are where their places in their frames say.
Placed(m, n) ==
  /\ m <= n => Stream[m].frame <= Stream[n].frame
  /\ Stream[m].frame = Stream[n].frame =>
       /\ Stream[m].index - Stream[n].index = m - n
       /\ Stream[m].type = Stream[n].type /\ Stream[m].size = Stream[n].size
  /\ m - n \in (1 - Stream[n].index)..(Stream[n].size - Stream[n].index) =>
       Stream[m].frame = Stream[n].frame

Kinds == {"SEI", "first", "next", "start", "middle", "end"}

\* The kinds of packets.
Parameters(n) ==
  Stream[n].type = 0 =>
    /\ Stream[n].size = Len(ParamSets)
    /\ Stream[n].kind = ParamSets[Stream[n].index]

Sliced(n) ==
  Stream[n].type # 0 =>
    /\ Stream[n].size <= Longest
    /\ Stream[n].kind \in Kinds
    /\ Stream[n].index = 1 => Stream[n].kind \in {"SEI", "first", "start"}
    /\ Stream[n].index # 1 => Stream[n].kind # "SEI"
    /\ Stream[n].kind = "first" /\ Stream[n].index # 1 =>
         Stream[n].index = 2 /\ Stream[n - 1].kind = "SEI"
    /\ Stream[n].index = Stream[n].size => Stream[n].kind \in {"first", "next", "end"}
    /\ Stream[n].kind \in {"next", "middle", "end"} =>
         \E m \in 0..(n - 1) : Stream[m].frame = Stream[n].frame /\ BeginsSlice(Stream[m])

\* What follows a packet in its frame.
Followed(n) ==
  Stream[n].type # 0 /\ Stream[n].index < Stream[n].size =>
    /\ Stream[n].kind = "SEI" => Stream[n + 1].kind \in {"first", "start"}
    /\ Stream[n].kind \in {"start", "middle"} => Stream[n + 1].kind \in {"middle", "end"}
    /\ Stream[n].kind \in {"first", "next", "end"} => Stream[n + 1].kind \in {"next", "start"}

\* Parameter sets come first, an I frame after them.
Grouped(n) ==
  /\ n = 0 => Stream[n].type = 0
  /\ n > 0 /\ Stream[n].index = 1 =>
       /\ Stream[n].type = I <=> Stream[n - 1].type = 0
       /\ Stream[n].type = 0 => Stream[n - 1].type # 0

StreamInv ==
  /\ Total <= NumPackets
  /\ \A n \in 0..(Total - 1) :
       Numbered(n) /\ Parameters(n) /\ Sliced(n) /\ Followed(n) /\ Grouped(n)
  /\ \A m, n \in 0..(Total - 1) : Placed(m, n)

\* The types of the stream.
StreamType == u.nCodecID \in Codecs /\ sent \in Seq(PacketType) /\ todo \in Seq(PacketType)

LEMMA SliceFacts ==
  ASSUME NEW whole \in {"first", "next"}, NEW n \in Nat \ {0}
  PROVE  /\ Slice(whole, n) \in Seq({whole, "start", "middle", "end"})
         /\ Len(Slice(whole, n)) = n
         /\ \A i \in 1..n :
              Slice(whole, n)[i] = IF n = 1 THEN whole ELSE IF i = 1 THEN "start"
                                   ELSE IF i = n THEN "end" ELSE "middle"
<1>1. CASE n = 1
  BY <1>1 DEF Slice
<1>2. CASE n # 1
  BY <1>2 DEF Slice
<1>3. QED
  BY <1>1, <1>2

\* How the packets of a frame follow one another.
LEMMA ShapeFacts ==
  ASSUME NEW shape \in SliceShapes
  PROVE  /\ shape \in Seq(Kinds) /\ Len(shape) \in 1..Longest
         /\ shape[1] \in {"SEI", "first", "start"}
         /\ shape[Len(shape)] \in {"first", "next", "end"}
         /\ \A i \in 2..Len(shape) : shape[i] # "SEI"
         /\ \A i \in 2..Len(shape) : shape[i] = "first" => i = 2 /\ shape[1] = "SEI"
         /\ \A i \in 1..Len(shape) : shape[i] \in {"next", "middle", "end"} =>
              \E j \in 1..(i - 1) : shape[j] \in {"first", "next", "start"}
         /\ \A i \in 1..(Len(shape) - 1) :
              /\ shape[i] = "SEI" => shape[i + 1] \in {"first", "start"}
              /\ shape[i] \in {"start", "middle"} => shape[i + 1] \in {"middle", "end"}
              /\ shape[i] \in {"first", "next", "end"} => shape[i + 1] \in {"next", "start"}
<1>0. Longest \in Nat
  BY Assumption
<1>1. CASE \E n \in 1..Longest : shape = Slice("first", n)
  <2>1. PICK n \in 1..Longest : shape = Slice("first", n)
    BY <1>1
  <2>2. /\ shape \in Seq({"first", "start", "middle", "end"}) /\ Len(shape) = n
        /\ \A i \in 1..n : shape[i] = IF n = 1 THEN "first" ELSE IF i = 1 THEN "start"
                                      ELSE IF i = n THEN "end" ELSE "middle"
    BY <1>0, <2>1, SliceFacts
  <2>3. shape \in Seq(Kinds)
    BY <2>2 DEF Kinds
  <2>4. \A i \in 1..n : shape[i] \in {"next", "middle", "end"} => 1 \in 1..(i - 1)
    BY <2>2
  <2>5. QED
    BY <1>0, <2>2, <2>3, <2>4
<1>2. CASE \E n \in 1..(Longest - 1) : shape = <<"SEI">> \o Slice("first", n)
  <2>1. PICK n \in 1..(Longest - 1) : shape = <<"SEI">> \o Slice("first", n)
    BY <1>2
  <2> DEFINE s == Slice("first", n)
  <2>2. /\ s \in Seq({"first", "start", "middle", "end"}) /\ Len(s) = n
        /\ \A i \in 1..n : s[i] = IF n = 1 THEN "first" ELSE IF i = 1 THEN "start"
                                  ELSE IF i = n THEN "end" ELSE "middle"
    BY <1>0, SliceFacts
  <2>3. s \in Seq(Kinds) /\ <<"SEI">> \in Seq(Kinds)
    BY <2>2 DEF Kinds
  <2> HIDE DEF s
  <2>4. shape = <<"SEI">> \o s
    BY <2>1 DEF s
  <2> DEFINE h == <<"SEI">>
  <2>h. h \in Seq(Kinds) /\ Len(h) = 1 /\ h[1] = "SEI"
    BY <2>3
  <2> HIDE DEF h
  <2>c. shape = h \o s
    BY <2>4 DEF h
  <2>5. /\ shape \in Seq(Kinds) /\ Len(shape) = n + 1
        /\ \A i \in 1..(n + 1) : shape[i] = IF i = 1 THEN "SEI" ELSE s[i - 1]
    <3>1. /\ shape \in Seq(Kinds) /\ Len(shape) = Len(h) + Len(s)
          /\ \A i \in 1..(Len(h) + Len(s)) :
               shape[i] = IF i <= Len(h) THEN h[i] ELSE s[i - Len(h)]
      BY ONLY <2>c, <2>h, <2>3, ConcatProperties
    <3>2. QED
      BY <1>0, <2>2, <2>h, <3>1
  <2>6. \A i \in 1..(n + 1) :
          shape[i] = IF i = 1 THEN "SEI" ELSE IF n = 1 THEN "first" ELSE IF i = 2 THEN "start"
                     ELSE IF i = n + 1 THEN "end" ELSE "middle"
    BY <1>0, <2>2, <2>5
  <2>7. \A i \in 1..(n + 1) : shape[i] \in {"next", "middle", "end"} =>
          2 \in 1..(i - 1) /\ shape[2] \in {"first", "next", "start"}
    BY <1>0, <2>6
  <2>8. QED
    BY <1>0, <2>5, <2>6, <2>7
<1>3. CASE \E c \in {d \in (1..Longest) \X (1..Longest) : d[1] + d[2] <= Longest} :
             shape = Slice("first", c[1]) \o Slice("next", c[2])
  <2>1. PICK n \in 1..Longest, m \in 1..Longest :
          n + m <= Longest /\ shape = Slice("first", n) \o Slice("next", m)
    BY <1>3
  <2> DEFINE s == Slice("first", n)
             t == Slice("next", m)
  <2>2. /\ s \in Seq({"first", "start", "middle", "end"}) /\ Len(s) = n
        /\ \A i \in 1..n : s[i] = IF n = 1 THEN "first" ELSE IF i = 1 THEN "start"
                                  ELSE IF i = n THEN "end" ELSE "middle"
    BY <1>0, SliceFacts
  <2>3. /\ t \in Seq({"next", "start", "middle", "end"}) /\ Len(t) = m
        /\ \A i \in 1..m : t[i] = IF m = 1 THEN "next" ELSE IF i = 1 THEN "start"
                                  ELSE IF i = m THEN "end" ELSE "middle"
    BY <1>0, SliceFacts
  <2>4. s \in Seq(Kinds) /\ t \in Seq(Kinds)
    BY <2>2, <2>3 DEF Kinds
  <2> HIDE DEF s, t
  <2>5. shape = s \o t
    BY <2>1 DEF s, t
  <2>6. /\ shape \in Seq(Kinds) /\ Len(shape) = n + m
        /\ \A i \in 1..(n + m) : shape[i] = IF i <= n THEN s[i] ELSE t[i - n]
    <3>1. /\ shape \in Seq(Kinds) /\ Len(shape) = Len(s) + Len(t)
          /\ \A i \in 1..(Len(s) + Len(t)) :
               shape[i] = IF i <= Len(s) THEN s[i] ELSE t[i - Len(s)]
      BY ONLY <2>4, <2>5, ConcatProperties
    <3>2. QED
      BY <2>2, <2>3, <3>1
  <2>7. \A i \in 1..n :
          shape[i] = IF n = 1 THEN "first" ELSE IF i = 1 THEN "start"
                     ELSE IF i = n THEN "end" ELSE "middle"
    BY <1>0, <2>2, <2>6
  <2>8. \A i \in (n + 1)..(n + m) :
          shape[i] = IF m = 1 THEN "next" ELSE IF i = n + 1 THEN "start"
                     ELSE IF i = n + m THEN "end" ELSE "middle"
    BY <1>0, <2>3, <2>6
  <2>9. \A i \in 1..(n + m) : shape[i] \in {"next", "middle", "end"} =>
          1 \in 1..(i - 1) /\ shape[1] \in {"first", "next", "start"}
    BY <1>0, <2>7, <2>8
  <2>10. \A i \in 1..(n + m) : i \in 1..n \/ i \in (n + 1)..(n + m)
    BY <1>0
  <2>11. /\ shape[1] \in {"first", "start"} /\ shape[n + m] \in {"next", "end"}
         /\ \A i \in 2..(n + m) : shape[i] \notin {"SEI", "first"}
         /\ \A i \in 1..(n + m) : shape[i] # "SEI"
    BY <1>0, <2>7, <2>8, <2>10
  <2>12. ASSUME NEW i \in 1..(n + m - 1)
         PROVE  /\ shape[i] \in {"start", "middle"} => shape[i + 1] \in {"middle", "end"}
                /\ shape[i] \in {"first", "next", "end"} => shape[i + 1] \in {"next", "start"}
    <3>1. CASE i < n
      BY <1>0, <2>7, <3>1
    <3>2. CASE i = n
      BY <1>0, <2>7, <2>8, <3>2
    <3>3. CASE i > n
      BY <1>0, <2>8, <3>3
    <3>4. QED
      BY <1>0, <3>1, <3>2, <3>3
  <2>13. shape \in Seq(Kinds) /\ Len(shape) = n + m /\ Len(shape) \in 1..Longest
    BY <1>0, <2>1, <2>6
  <2>14. \A i \in 1..Len(shape) : shape[i] \in {"next", "middle", "end"} =>
              \E j \in 1..(i - 1) : shape[j] \in {"first", "next", "start"}
    BY <2>9, <2>13
  <2>15. \A i \in 1..(Len(shape) - 1) : shape[i] # "SEI"
    BY <1>0, <2>11, <2>13
  <2>16. \A i \in 1..(Len(shape) - 1) :
              /\ shape[i] \in {"start", "middle"} => shape[i + 1] \in {"middle", "end"}
              /\ shape[i] \in {"first", "next", "end"} => shape[i + 1] \in {"next", "start"}
    BY <2>12, <2>13
  <2>17. QED
    BY <2>11, <2>13, <2>14, <2>15, <2>16
<1>4. QED
  BY <1>1, <1>2, <1>3 DEF SliceShapes

-----------------------------------------------------------------------------
(***************************************************************************)
(* The steps of the stream.                                                *)
(***************************************************************************)

LEMMA StreamFacts ==
  ASSUME StreamType
  PROVE  /\ Len(sent) \in Nat /\ Len(todo) \in Nat /\ Total \in Nat
         /\ \A n \in 0..(Len(sent) - 1) : Stream[n] = sent[n + 1]
         /\ \A n \in Len(sent)..(Total - 1) : Stream[n] = todo[n + 1 - Len(sent)]
         /\ sent # <<>> <=> Len(sent) > 0
         /\ todo # <<>> <=> Len(sent) < Total
BY DEF StreamType, Stream, Total

\* A packet that goes on its way does not change the stream.
LEMMA AdvanceFacts ==
  ASSUME StreamType, Advance
  PROVE  /\ Stream' = Stream /\ Total' = Total
         /\ Len(sent') = Len(sent) + 1 /\ Len(sent) \in 0..(Total - 1)
         /\ Head(todo) = Stream[Len(sent)] /\ Last(sent') = Head(todo)
         /\ Head(todo) \in PacketType
         /\ sent' \in Seq(PacketType) /\ todo' \in Seq(PacketType)
         /\ sent' # <<>>
<1> DEFINE a == Len(sent)
           b == Len(todo)
           h == Head(todo)
<1>1. /\ sent \in Seq(PacketType) /\ todo \in Seq(PacketType) /\ todo # <<>>
      /\ a \in Nat /\ b \in Nat \ {0} /\ h = todo[1] /\ h \in PacketType
  BY DEF StreamType, Advance
<1>2. /\ sent' \in Seq(PacketType) /\ Len(sent') = a + 1 /\ sent'[a + 1] = h
      /\ \A i \in 1..a : sent'[i] = sent[i]
  BY <1>1, AppendProperties DEF Advance
<1>3. /\ todo' \in Seq(PacketType) /\ Len(todo') = b - 1
      /\ \A i \in 1..(b - 1) : todo'[i] = todo[i + 1]
  BY <1>1, HeadTailProperties DEF Advance
<1>4. Total = a + b /\ Total' = a + b
  BY <1>1, <1>2, <1>3 DEF Total
<1>5. ASSUME NEW n \in 0..(a + b - 1)
      PROVE  (IF n < Len(sent') THEN sent'[n + 1] ELSE todo'[n + 1 - Len(sent')]) =
             (IF n < a THEN sent[n + 1] ELSE todo[n + 1 - a])
  <2>1. CASE n < a
    BY SMTT(30), <1>1, <1>2, <2>1
  <2>2. CASE n = a
    BY <1>1, <1>2, <2>2
  <2>3. CASE n > a
    <3>1. n - a \in 1..(b - 1) /\ n + 1 - Len(sent') = n - a /\ ~(n < Len(sent'))
      BY <1>1, <1>2, <2>3
    <3>2. todo'[n - a] = todo[n - a + 1] /\ n - a + 1 = n + 1 - a
      BY SMTT(30), <1>1, <1>3, <3>1
    <3>3. QED
      BY <1>1, <2>3, <3>1, <3>2
  <2>4. QED
    BY <1>1, <2>1, <2>2, <2>3
<1>6. Stream' = Stream
  <2>1. Stream' = [n \in 0..(a + b - 1) |->
                     IF n < Len(sent') THEN sent'[n + 1] ELSE todo'[n + 1 - Len(sent')]]
    BY <1>4 DEF Stream
  <2>2. Stream = [n \in 0..(a + b - 1) |-> IF n < a THEN sent[n + 1] ELSE todo[n + 1 - a]]
    BY <1>4 DEF Stream
  <2> HIDE DEF a, b
  <2>3. QED
    BY ONLY <1>5, <2>1, <2>2
<1>7. Stream[a] = h /\ a \in 0..(Total - 1)
  BY <1>1, <1>4 DEF Stream
<1>8. Last(sent') = h /\ sent' # <<>>
  BY <1>1, <1>2 DEF Last
<1>9. QED
  BY <1>1, <1>2, <1>3, <1>4, <1>6, <1>7, <1>8

\* The last packet sent and the next one.
LEMMA EdgeFacts ==
  ASSUME StreamType
  PROVE  /\ sent # <<>> => Last(sent) = Stream[Len(sent) - 1] /\ Len(sent) - 1 \in 0..(Total - 1)
         /\ todo # <<>> => todo[1] = Stream[Len(sent)] /\ Len(sent) \in 0..(Total - 1)
BY DEF StreamType, Stream, Total, Last

\* The number of the next frame.
NextNumber == IF sent = <<>> THEN 1 ELSE Last(sent).frame + 1

\* A new frame is put behind the stream.
LEMMA SubmitFacts ==
  ASSUME StreamType, StreamInv, todo = <<>>, sent' = sent,
         NEW shape \in Seq({"VPS", "SPS", "PPS"} \cup Kinds), NEW t \in {0, I, P},
         Len(shape) > 0, Submit(shape, t)
  PROVE  /\ Total = Len(sent) /\ Total' = Len(sent) + Len(shape) /\ Total' <= NumPackets
         /\ \A n \in 0..(Len(sent) - 1) : Stream'[n] = Stream[n]
         /\ \A n \in Len(sent)..(Total' - 1) :
              /\ Stream'[n] \in PacketType
              /\ Stream'[n].kind = shape[n - Len(sent) + 1] /\ Stream'[n].type = t
              /\ Stream'[n].no = n /\ Stream'[n].usSeq = n % SeqMod
              /\ Stream'[n].uTimeStamp = NextNumber /\ Stream'[n].frame = NextNumber
              /\ Stream'[n].index = n - Len(sent) + 1 /\ Stream'[n].size = Len(shape)
              /\ Stream'[n].ucMarker <=> n = Total' - 1
         /\ NextNumber \in 1..(Len(sent) + 1)
         /\ Len(todo') = Len(shape) /\ todo' \in Seq(PacketType)
         /\ \A i \in 1..Len(shape) : todo'[i] = Stream'[Len(sent) + i - 1]
<1> DEFINE a == Len(sent)
           b == Len(shape)
<1>1. sent \in Seq(PacketType) /\ a \in Nat /\ b \in Nat \ {0} /\ Total = a
  BY DEF StreamType, Total
<1>2. /\ todo' = FramePackets(shape, t) /\ a + b <= NumPackets
  BY DEF Submit
<1>3. NextNumber \in 1..(a + 1) /\ (IF sent = <<>> THEN 1 ELSE sent[a].frame + 1) = NextNumber
  <2>1. CASE sent = <<>>
    BY <1>1, <2>1 DEF NextNumber
  <2>2. CASE sent # <<>>
    <3>1. a > 0 /\ Last(sent) = Stream[a - 1] /\ a - 1 \in 0..(Total - 1)
      BY <1>1, <2>2, EdgeFacts
    <3>2. Stream[a - 1].frame <= a /\ Stream[a - 1] \in PacketType
      BY <1>1, <3>1 DEF StreamInv, Numbered
    <3>3. Stream[a - 1].frame \in Int /\ Stream[a - 1].frame >= 1
      BY <3>2, Assumption DEF PacketType
    <3>4. Last(sent).frame + 1 \in 1..(a + 1)
      BY <1>1, <3>1, <3>2, <3>3
    <3>5. QED
      BY <1>1, <2>2, <3>4 DEF NextNumber, Last
  <2>3. QED
    BY <2>1, <2>2
<1> DEFINE q(i) == [kind |-> shape[i], type |-> t, no |-> a + i - 1,
                    usSeq |-> (a + i - 1) % SeqMod, ucMarker |-> i = b,
                    uTimeStamp |-> NextNumber, frame |-> NextNumber,
                    index |-> i, size |-> b]
<1>4. todo' = [i \in 1..b |-> q(i)]
  BY SMTT(30), <1>1, <1>2, <1>3 DEF FramePackets
<1>5. ASSUME NEW i \in 1..b PROVE q(i) \in PacketType
  <2>1. SeqMod \in Nat \ {0} /\ NumPackets \in Nat /\ i \in Nat /\ a + i - 1 \in Nat
    BY <1>1, Assumption
  <2>2. ((a + i - 1) % SeqMod) \in 0..(SeqMod - 1)
    BY <2>1
  <2>3. a + i - 1 \in 0..(NumPackets - 1) /\ i \in 1..NumPackets /\ b \in 1..NumPackets
        /\ NextNumber \in 1..NumPackets
    BY <1>1, <1>2, <1>3, <2>1
  <2>4. shape[i] \in {"VPS", "SPS", "PPS", "SEI", "first", "next", "start", "middle", "end"}
    BY <1>1 DEF Kinds
  <2>5. QED
    BY <2>2, <2>3, <2>4 DEF PacketType
<1>6. todo' \in Seq(PacketType) /\ Len(todo') = b /\ \A i \in 1..b : todo'[i] = q(i)
  BY <1>1, <1>4, <1>5
<1> DEFINE Fields(r, n, i) ==
             /\ r.kind = shape[i] /\ r.type = t
             /\ r.no = n /\ r.usSeq = n % SeqMod
             /\ r.uTimeStamp = NextNumber /\ r.frame = NextNumber
             /\ r.index = i /\ r.size = b
             /\ r.ucMarker <=> i = b
<1>f. ASSUME NEW i \in 1..b PROVE Fields(q(i), a + i - 1, i)
  OBVIOUS
<1> HIDE DEF q, Fields
<1>7. Total' = a + b
  BY <1>1, <1>6 DEF Total
<1>8. \A n \in 0..(a - 1) : Stream'[n] = Stream[n]
  BY <1>1, <1>7 DEF Stream, Total
<1>9. \A n \in a..(a + b - 1) : Stream'[n] = todo'[n - a + 1]
  BY <1>1, <1>7 DEF Stream
<1>10. ASSUME NEW n \in a..(a + b - 1)
       PROVE  /\ Stream'[n] \in PacketType
              /\ Stream'[n].kind = shape[n - a + 1] /\ Stream'[n].type = t
              /\ Stream'[n].no = n /\ Stream'[n].usSeq = n % SeqMod
              /\ Stream'[n].uTimeStamp = NextNumber /\ Stream'[n].frame = NextNumber
              /\ Stream'[n].index = n - a + 1 /\ Stream'[n].size = b
              /\ Stream'[n].ucMarker <=> n = a + b - 1
  <2> DEFINE i == n - a + 1
  <2>1. n \in Int /\ n >= a /\ n <= a + b - 1
    BY <1>1
  <2>2. i \in 1..b /\ a + i - 1 = n /\ (i = b <=> n = a + b - 1)
    BY <1>1, <2>1
  <2>3. Stream'[n] = todo'[i]
    BY <1>9
  <2> HIDE DEF i
  <2>4. Stream'[n] = q(i) /\ q(i) \in PacketType /\ Fields(q(i), n, i)
    BY <1>5, <1>6, <1>f, <2>2, <2>3
  <2>5. QED
    BY <2>2, <2>4 DEF Fields, i
<1>11. \A i \in 1..b : todo'[i] = Stream'[a + i - 1]
  BY <1>1, <1>9
<1>12. QED
  BY <1>1, <1>2, <1>3, <1>6, <1>7, <1>8, <1>10, <1>11

\* Which frame may come next.
LEMMA NextFrameFacts ==
  ASSUME StreamType, NextFrame
  PROVE  \E t \in {0, I, P}, shape \in Seq({"VPS", "SPS", "PPS"} \cup Kinds) :
           /\ Len(shape) > 0 /\ Submit(shape, t)
           /\ t = 0 => shape = ParamSets
           /\ t # 0 => shape \in SliceShapes
           /\ sent = <<>> => t = 0
           /\ sent # <<>> => (t = I <=> Last(sent).type = 0)
<1>1. ParamSets \in Seq({"VPS", "SPS", "PPS"} \cup Kinds) /\ Len(ParamSets) > 0
  <2>1. CASE u.nCodecID = "H264"
    <3>1. ParamSets = <<"SPS", "PPS">>
      BY <2>1 DEF ParamSets
    <3>2. QED
      BY <3>1
  <2>2. CASE u.nCodecID # "H264"
    <3>1. ParamSets = <<"VPS", "SPS", "PPS">>
      BY <2>2 DEF ParamSets
    <3>2. QED
      BY <3>1
  <2>3. QED
    BY <2>1, <2>2
<1>2. ASSUME NEW shape \in SliceShapes
      PROVE  shape \in Seq({"VPS", "SPS", "PPS"} \cup Kinds) /\ Len(shape) > 0
  <2>1. shape \in Seq(Kinds) /\ Len(shape) \in 1..Longest
    BY ShapeFacts
  <2>2. QED
    BY <2>1, Assumption
<1>3. CASE sent # <<>> /\ sent[Len(sent)].type = 0
  <2>1. PICK shape \in SliceShapes : Submit(shape, I)
    BY <1>3 DEF NextFrame
  <2>2. Last(sent).type = 0 /\ I \in {0, I, P} /\ I # 0
    BY <1>3 DEF Last, I
  <2>3. QED
    BY <1>2, <1>3, <2>1, <2>2
<1>4. CASE ~(sent # <<>> /\ sent[Len(sent)].type = 0)
  <2>1. sent # <<>> => Last(sent).type # 0
    BY <1>4 DEF Last
  <2>2. CASE Submit(ParamSets, 0)
    BY <1>1, <2>1, <2>2 DEF I
  <2>3. CASE sent # <<>> /\ \E shape \in SliceShapes : Submit(shape, P)
    <3>1. PICK shape \in SliceShapes : Submit(shape, P)
      BY <2>3
    <3>2. P \in {0, I, P} /\ P # 0 /\ P # I
      BY DEF P, I
    <3>3. QED
      BY <1>2, <2>1, <2>3, <3>1, <3>2
  <2>4. QED
    BY <1>4, <2>2, <2>3 DEF NextFrame
<1>5. QED
  BY <1>3, <1>4

\* All of the last frame is there.
LEMMA WholeStream ==
  ASSUME StreamType, StreamInv, NEW n \in 0..(Total - 1)
  PROVE  /\ Stream[n].index \in Nat \ {0} /\ Stream[n].size \in Nat \ {0} /\ Stream[n].frame \in Nat
         /\ Stream[n].type \in {0, I, P} /\ Stream[n].no = n /\ Stream[n].uTimeStamp = Stream[n].frame
         /\ Stream[n].index <= Stream[n].size /\ Stream[n].index <= n + 1
         /\ n - Stream[n].index + Stream[n].size < Total
         /\ n = Total - 1 => Stream[n].index = Stream[n].size
<1>1. Numbered(n) /\ Total \in Nat /\ n \in Nat
  BY StreamFacts DEF StreamInv
<1>2. /\ Stream[n].index \in Nat \ {0} /\ Stream[n].size \in Nat \ {0} /\ Stream[n].frame \in Nat
      /\ Stream[n].type \in {0, I, P}
  BY <1>1, Assumption DEF Numbered, PacketType
<1>3. QED
  BY <1>1, <1>2 DEF Numbered

LEMMA StreamGrows ==
  ASSUME StreamType, StreamInv, NextFrame
  PROVE  StreamInv'
<1> DEFINE a == Len(sent)
<1>1. PICK t \in {0, I, P}, shape \in Seq({"VPS", "SPS", "PPS"} \cup Kinds) :
        /\ Len(shape) > 0 /\ Submit(shape, t)
        /\ t = 0 => shape = ParamSets
        /\ t # 0 => shape \in SliceShapes
        /\ sent = <<>> => t = 0
        /\ sent # <<>> => (t = I <=> Last(sent).type = 0)
  BY NextFrameFacts
<1> DEFINE b == Len(shape)
<1>2. /\ todo = <<>> /\ sent' = sent /\ u' = u /\ ParamSets' = ParamSets
      /\ a \in Nat /\ b \in Nat \ {0} /\ Total = a
  BY <1>1, StreamFacts DEF NextFrame, ParamSets, StreamType, Total
<1>3. /\ Total' = a + b /\ Total' <= NumPackets
      /\ \A n \in 0..(a - 1) : Stream'[n] = Stream[n]
      /\ NextNumber \in 1..(a + 1)
  BY <1>1, <1>2, SubmitFacts
<1>4. \A n \in a..(a + b - 1) :
        /\ Stream'[n] \in PacketType
        /\ Stream'[n].kind = shape[n - a + 1] /\ Stream'[n].type = t
        /\ Stream'[n].no = n /\ Stream'[n].usSeq = n % SeqMod
        /\ Stream'[n].uTimeStamp = NextNumber /\ Stream'[n].frame = NextNumber
        /\ Stream'[n].index = n - a + 1 /\ Stream'[n].size = b
        /\ Stream'[n].ucMarker <=> n = a + b - 1
  <2>1. \A n \in a..(Total' - 1) :
          /\ Stream'[n] \in PacketType
          /\ Stream'[n].kind = shape[n - a + 1] /\ Stream'[n].type = t
          /\ Stream'[n].no = n /\ Stream'[n].usSeq = n % SeqMod
          /\ Stream'[n].uTimeStamp = NextNumber /\ Stream'[n].frame = NextNumber
          /\ Stream'[n].index = n - a + 1 /\ Stream'[n].size = b
          /\ Stream'[n].ucMarker <=> n = Total' - 1
    BY <1>1, <1>2, SubmitFacts
  <2>2. Total' - 1 = a + b - 1
    BY <1>3
  <2>3. QED
    BY ONLY <2>1, <2>2
<1>5. a > 0 => a - 1 \in 0..(Total - 1) /\ Last(sent) = Stream[a - 1]
               /\ NextNumber = Stream[a - 1].frame + 1
  BY <1>2, EdgeFacts, StreamFacts DEF NextNumber
<1> HIDE DEF a, b
<1>6. ASSUME NEW n \in 0..(a - 1)
      PROVE  /\ Stream'[n] = Stream[n] /\ n \in 0..(Total - 1) /\ n < a
             /\ Numbered(n)' /\ Parameters(n)' /\ Sliced(n)' /\ Followed(n)' /\ Grouped(n)'
  <2>1. /\ Stream'[n] = Stream[n] /\ n \in 0..(Total - 1) /\ n \in Nat /\ n < a
        /\ Numbered(n) /\ Parameters(n) /\ Sliced(n) /\ Followed(n) /\ Grouped(n)
    BY <1>2, <1>3 DEF StreamInv
  <2>2. /\ Stream[n].index \in Nat \ {0} /\ Stream[n].size \in Nat \ {0}
        /\ Stream[n].index <= Stream[n].size /\ Stream[n].index <= n + 1
        /\ n - Stream[n].index + Stream[n].size < a
    BY <1>2, <2>1, WholeStream
  <2>3. Numbered(n)'
    BY SMTT(30), <1>2, <1>3, <2>1, <2>2 DEF Numbered
  <2>4. Parameters(n)'
    BY <1>2, <2>1 DEF Parameters
  <2>5. n > 0 => n - 1 \in 0..(a - 1) /\ Stream'[n - 1] = Stream[n - 1]
    BY <1>2, <1>3, <2>1
  <2>6. Sliced(n)'
    <3>1. \A m \in 0..(n - 1) : Stream'[m] = Stream[m]
      BY SMTT(30), <1>2, <1>3, <2>1
    <3>2. Stream[n].index = 2 => Stream'[n - 1] = Stream[n - 1]
      BY <2>1, <2>2, <2>5
    <3>3. QED
      BY <2>1, <3>1, <3>2 DEF Sliced
  <2>7. Followed(n)'
    <3>1. Stream[n].index < Stream[n].size => Stream'[n + 1] = Stream[n + 1]
      <4>1. Stream[n].index < Stream[n].size => n + 1 \in 0..(a - 1)
        BY <1>2, <2>1, <2>2
      <4>2. QED
        BY <1>3, <4>1
    <3>2. QED
      BY <2>1, <3>1 DEF Followed
  <2>8. Grouped(n)'
    BY <2>1, <2>5 DEF Grouped
  <2>9. QED
    BY <2>1, <2>3, <2>4, <2>6, <2>7, <2>8
<1>7. ASSUME NEW n \in a..(a + b - 1)
      PROVE  /\ n \in Nat /\ n >= a
             /\ Numbered(n)' /\ Parameters(n)' /\ Sliced(n)' /\ Followed(n)' /\ Grouped(n)'
  <2> DEFINE i == n - a + 1
  <2>1. n \in Nat /\ n >= a /\ i \in 1..b /\ (n = a + b - 1 <=> i = b)
    BY <1>2
  <2>2. /\ Stream'[n] \in PacketType
        /\ Stream'[n].kind = shape[i] /\ Stream'[n].type = t
        /\ Stream'[n].no = n /\ Stream'[n].usSeq = n % SeqMod
        /\ Stream'[n].uTimeStamp = NextNumber /\ Stream'[n].frame = NextNumber
        /\ Stream'[n].index = i /\ Stream'[n].size = b
        /\ Stream'[n].ucMarker <=> i = b
    BY <1>4, <2>1
  <2>3. Numbered(n)'
    <3>1. i <= n + 1 /\ i <= b /\ n - i + b < Total' /\ NextNumber <= n + 1
      BY <1>2, <1>3, <2>1
    <3>2. QED
      BY <2>2, <3>1 DEF Numbered
  <2>4. Parameters(n)'
    BY <1>1, <1>2, <2>2 DEF Parameters, b
  <2>5. Sliced(n)'
    <3>1. SUFFICES ASSUME t # 0 PROVE Sliced(n)'
      BY <2>2 DEF Sliced
    <3>2. /\ shape \in Seq(Kinds) /\ b \in 1..Longest
          /\ shape[1] \in {"SEI", "first", "start"}
          /\ shape[b] \in {"first", "next", "end"}
          /\ \A k \in 2..b : shape[k] # "SEI"
          /\ \A k \in 2..b : shape[k] = "first" => k = 2 /\ shape[1] = "SEI"
          /\ \A k \in 1..b : shape[k] \in {"next", "middle", "end"} =>
               \E j \in 1..(k - 1) : shape[j] \in {"first", "next", "start"}
      BY <1>1, <3>1, ShapeFacts DEF b
    <3>3. b <= Longest /\ shape[i] \in Kinds
      BY <1>2, <2>1, <3>2, Assumption DEF b
    <3>4. i # 1 => /\ i \in 2..b /\ shape[i] # "SEI"
                   /\ shape[i] = "first" => i = 2 /\ shape[1] = "SEI"
      BY <1>2, <2>1, <3>2
    <3>5. i = 2 => n - 1 \in a..(a + b - 1) /\ Stream'[n - 1].kind = shape[1]
      <4>1. i = 2 => n - 1 = a /\ n - 1 \in a..(a + b - 1) /\ (n - 1) - a + 1 = 1
        BY <1>2, <2>1
      <4>2. QED
        BY <1>4, <4>1
    <3>6. ASSUME shape[i] \in {"next", "middle", "end"}
          PROVE  \E m \in 0..(n - 1) : Stream'[m].frame = NextNumber /\ BeginsSlice(Stream'[m])
      <4>1. PICK j \in 1..(i - 1) : shape[j] \in {"first", "next", "start"}
        BY <2>1, <3>2, <3>6
      <4> DEFINE m == a + j - 1
      <4>2. m \in a..(a + b - 1) /\ m \in 0..(n - 1) /\ m - a + 1 = j
        BY <1>2, <2>1, <4>1
      <4>3. Stream'[m].frame = NextNumber /\ Stream'[m].kind = shape[j]
        BY <1>4, <4>2
      <4>4. QED
        BY <4>1, <4>2, <4>3 DEF BeginsSlice
    <3>7. QED
      BY <2>2, <3>2, <3>3, <3>4, <3>5, <3>6 DEF Sliced
  <2>6. Followed(n)'
    <3>1. SUFFICES ASSUME t # 0, i < b
                   PROVE  Followed(n)'
      BY <2>2 DEF Followed
    <3>2. \A k \in 1..(b - 1) :
            /\ shape[k] = "SEI" => shape[k + 1] \in {"first", "start"}
            /\ shape[k] \in {"start", "middle"} => shape[k + 1] \in {"middle", "end"}
            /\ shape[k] \in {"first", "next", "end"} => shape[k + 1] \in {"next", "start"}
      BY <1>1, <3>1, ShapeFacts DEF b
    <3>3. i \in 1..(b - 1) /\ n + 1 \in a..(a + b - 1) /\ (n + 1) - a + 1 = i + 1
      BY <1>2, <2>1, <3>1
    <3>4. Stream'[n + 1].kind = shape[i + 1]
      BY <1>4, <3>3
    <3>5. QED
      BY <2>2, <3>2, <3>3, <3>4 DEF Followed
  <2>7. Grouped(n)'
    <3>1. CASE n = 0
      <4>1. sent = <<>>
        BY <1>2, <2>1, <3>1, StreamFacts DEF a
      <4>2. QED
        BY <1>1, <2>2, <3>1, <4>1 DEF Grouped
    <3>2. CASE n > 0 /\ i = 1
      <4>1. n = a /\ a > 0 /\ sent # <<>>
        BY <1>2, <2>1, <3>2, StreamFacts DEF a
      <4>2. Stream'[n - 1] = Last(sent)
        BY <1>2, <1>3, <1>5, <4>1
      <4>3. t = I <=> Stream'[n - 1].type = 0
        BY <1>1, <4>1, <4>2
      <4>4. QED
        BY <2>2, <3>2, <4>3 DEF Grouped, I
    <3>3. QED
      BY <2>1, <2>2, <3>1, <3>2 DEF Grouped
  <2>8. QED
    BY <2>1, <2>3, <2>4, <2>5, <2>6, <2>7
<1>8. ASSUME NEW m \in 0..(a + b - 1), NEW n \in 0..(a + b - 1)
      PROVE  Placed(m, n)'
  <2>1. CASE m < a /\ n < a
    <3>1. /\ Stream'[m] = Stream[m] /\ Stream'[n] = Stream[n]
          /\ m \in 0..(Total - 1) /\ n \in 0..(Total - 1)
      BY SMTT(30), <1>2, <1>3, <2>1
    <3>2. Placed(m, n)
      BY <3>1 DEF StreamInv
    <3>3. QED
      BY <3>1, <3>2 DEF Placed
  <2>2. CASE m < a /\ n >= a
    <3>1. /\ Stream'[m] = Stream[m] /\ m \in 0..(Total - 1) /\ n \in a..(a + b - 1)
          /\ a - 1 \in 0..(Total - 1) /\ m <= a - 1 /\ NextNumber = Stream[a - 1].frame + 1
          /\ m \in Nat /\ n \in Nat /\ m < n
      BY <1>2, <1>3, <1>5, <2>2
    <3>2. Stream[m].frame <= Stream[a - 1].frame
      BY <3>1 DEF StreamInv, Placed
    <3>3. Stream[m].frame \in Nat /\ Stream[a - 1].frame \in Nat
      BY <3>1, WholeStream
    <3>4. Stream'[n].frame = NextNumber /\ Stream'[n].index = n - a + 1
      BY <1>4, <3>1
    <3>5. Stream'[m].frame < Stream'[n].frame
      BY <3>1, <3>2, <3>3, <3>4
    <3>6. Stream'[m].frame # Stream'[n].frame /\ Stream'[m].frame <= Stream'[n].frame
      BY <3>1, <3>3, <3>4, <3>5
    <3>7. ~(m - n >= 1 - Stream'[n].index)
      BY <1>2, <2>2, <3>1, <3>4
    <3>8. m - n \notin (1 - Stream'[n].index)..(Stream'[n].size - Stream'[n].index)
      BY <1>2, <3>1, <3>4, <3>7
    <3>9. QED
      BY <3>6, <3>8 DEF Placed
  <2>3. CASE m >= a /\ n < a
    <3>1. /\ Stream'[n] = Stream[n] /\ n \in 0..(Total - 1) /\ m \in a..(a + b - 1)
          /\ a - 1 \in 0..(Total - 1) /\ n <= a - 1 /\ NextNumber = Stream[a - 1].frame + 1
          /\ m \in Nat /\ n \in Nat /\ ~(m <= n)
      BY <1>2, <1>3, <1>5, <2>3
    <3>2. Stream[n].frame <= Stream[a - 1].frame
      BY <3>1 DEF StreamInv, Placed
    <3>3. /\ Stream[n].frame \in Nat /\ Stream[a - 1].frame \in Nat
          /\ Stream[n].index \in Nat /\ Stream[n].size \in Nat
          /\ n - Stream[n].index + Stream[n].size < a
      BY <1>2, <3>1, WholeStream
    <3>4. Stream'[m].frame = NextNumber
      BY <1>4, <3>1
    <3>5. Stream'[m].frame # Stream'[n].frame
      BY <3>1, <3>2, <3>3, <3>4
    <3>6. ~(m - n <= Stream[n].size - Stream[n].index)
      BY SMTT(30), <1>2, <2>3, <3>1, <3>3
    <3>7. m - n \notin (1 - Stream'[n].index)..(Stream'[n].size - Stream'[n].index)
      BY <3>1, <3>3, <3>6
    <3>8. QED
      BY <3>1, <3>5, <3>7 DEF Placed
  <2>4. CASE m >= a /\ n >= a
    <3>1. m \in a..(a + b - 1) /\ n \in a..(a + b - 1)
      BY <1>2, <2>4
    <3>2. /\ Stream'[m].frame = NextNumber /\ Stream'[n].frame = NextNumber
          /\ Stream'[m].type = Stream'[n].type /\ Stream'[m].size = Stream'[n].size
          /\ Stream'[m].index = m - a + 1 /\ Stream'[n].index = n - a + 1
      BY <1>4, <3>1
    <3>3. Stream'[m].index - Stream'[n].index = m - n
      BY <1>2, <3>1, <3>2
    <3>4. NextNumber <= NextNumber
      BY <1>2, <1>3
    <3>5. QED
      BY <3>2, <3>3, <3>4 DEF Placed
  <2>5. QED
    BY <1>2, <2>1, <2>2, <2>3, <2>4
<1>9. ASSUME NEW n \in 0..(a + b - 1)
      PROVE  Numbered(n)' /\ Parameters(n)' /\ Sliced(n)' /\ Followed(n)' /\ Grouped(n)'
  <2>1. n \in 0..(a - 1) \/ n \in a..(a + b - 1)
    BY <1>2
  <2>2. QED
    BY <1>6, <1>7, <2>1
<1>10. Total' - 1 = a + b - 1
  BY <1>2, <1>3
<1>11. \A n \in 0..(Total - 1)' :
         Numbered(n)' /\ Parameters(n)' /\ Sliced(n)' /\ Followed(n)' /\ Grouped(n)'
  BY ONLY <1>9, <1>10
<1>12. \A m, n \in 0..(Total - 1)' : Placed(m, n)'
  BY ONLY <1>8, <1>10
<1>13. QED
  BY ONLY <1>3, <1>11, <1>12 DEF StreamInv

-----------------------------------------------------------------------------
(***************************************************************************)
(* The unpacker.                                                           *)
(***************************************************************************)

Unpackers ==
  [nCodecID : Codecs, iFrameType : {0, I, P}, buf : Seq(PacketType), usRtpCnt : Nat,
   usRtpSSeq : -1..(SeqMod - 1), usRtpESeq : -1..(SeqMod - 1),
   bVPS : BOOLEAN, bSPS : BOOLEAN, bPPS : BOOLEAN, bIDR : BOOLEAN,
   bLenom : BOOLEAN, uTimeStamp : 0..NumPackets]

\* The packet p makes the unpacker forget the frame's parameter sets; it starts the
\* buffer anew.
Forgets(p) == p.kind = "VPS" \/ (p.kind = "SPS" /\ u.nCodecID = "H264")

Anew(p) ==
  /\ p.type = P
  /\ p.kind = "first" \/ (p.kind = "start" /\ ~u.bLenom /\ u.uTimeStamp # p.uTimeStamp)

\* The unpacker when p has been appended.
Holding(p) == Unpack(p, CheckNal(p, u))

\* The buffer of v is empty.
Cleared(v) ==
  /\ v.iFrameType = 0 /\ v.buf = <<>> /\ v.usRtpCnt = 0 /\ v.usRtpSSeq = -1
  /\ ~v.bLenom /\ v.uTimeStamp = 0

LEMMA ResetFacts ==
  ASSUME NEW v \in Unpackers
  PROVE  /\ pjmedia_unpack_reset_buf(v) \in Unpackers /\ Cleared(pjmedia_unpack_reset_buf(v))
         /\ pjmedia_unpack_reset_buf(v).nCodecID = v.nCodecID
         /\ pjmedia_unpack_reset_buf(v).bVPS <=> v.bVPS
         /\ pjmedia_unpack_reset_buf(v).bSPS <=> v.bSPS
         /\ pjmedia_unpack_reset_buf(v).bPPS <=> v.bPPS
         /\ pjmedia_unpack_reset_buf(v).bIDR <=> v.bIDR
         /\ pjmedia_unpack_reset_frame(v) \in Unpackers /\ Cleared(pjmedia_unpack_reset_frame(v))
         /\ pjmedia_unpack_reset_frame(v).nCodecID = v.nCodecID
         /\ pjmedia_unpack_reset_frame(v).bSPS <=> v.bSPS
         /\ ~pjmedia_unpack_reset_frame(v).bVPS
         /\ ~pjmedia_unpack_reset_frame(v).bPPS
         /\ ~pjmedia_unpack_reset_frame(v).bIDR
<1> DEFINE w == pjmedia_unpack_reset_buf(v)
<1>1. /\ -1 \in -1..(SeqMod - 1) /\ 0 \in 0..NumPackets /\ 0 \in Nat
      /\ <<>> \in Seq(PacketType) /\ 0 \in {0, I, P} /\ FALSE \in BOOLEAN
  BY Assumption
<1>2. w \in Unpackers /\ w.nCodecID = v.nCodecID /\ Cleared(w)
  <2>1. w \in Unpackers
    BY <1>1, Zenon DEF Unpackers, pjmedia_unpack_reset_buf
  <2>2. w.nCodecID = v.nCodecID /\ Cleared(w)
    BY DEF Unpackers, pjmedia_unpack_reset_buf, Cleared
  <2>3. QED
    BY <2>1, <2>2
<1>3. (w.bVPS <=> v.bVPS) /\ (w.bSPS <=> v.bSPS) /\ (w.bPPS <=> v.bPPS) /\ (w.bIDR <=> v.bIDR)
  BY DEF Unpackers, pjmedia_unpack_reset_buf
<1>4. pjmedia_unpack_reset_frame(v) = [w EXCEPT !.bVPS = FALSE, !.bPPS = FALSE, !.bIDR = FALSE]
  BY DEF pjmedia_unpack_reset_frame
<1> HIDE DEF w
<1> DEFINE x == pjmedia_unpack_reset_frame(v)
<1>5. x \in Unpackers /\ x.nCodecID = w.nCodecID /\ Cleared(x)
  BY <1>2, <1>4 DEF Unpackers, Cleared
<1>6. (x.bSPS <=> w.bSPS) /\ ~x.bVPS /\ ~x.bPPS /\ ~x.bIDR
  BY <1>2, <1>4 DEF Unpackers
<1> HIDE DEF x
<1>7. QED
  BY <1>2, <1>3, <1>5, <1>6 DEF w, x

\* What checking and appending a packet does to each field.
LEMMA HoldingFacts ==
  ASSUME u \in Unpackers, NEW p \in PacketType
  PROVE  /\ Holding(p) \in Unpackers /\ Holding(p).nCodecID = u.nCodecID
         /\ Holding(p).buf = IF Forgets(p) \/ Anew(p) THEN <<p>> ELSE Append(u.buf, p)
         /\ Holding(p).usRtpCnt = (IF Forgets(p) \/ Anew(p) THEN 0 ELSE u.usRtpCnt)
                                   + (IF IsParam(p) THEN 0 ELSE 1)
         /\ Holding(p).iFrameType = IF Forgets(p) THEN I
                                    ELSE IF IsParam(p) THEN u.iFrameType ELSE p.type
         /\ Holding(p).usRtpSSeq =
              IF Forgets(p) THEN -1
              ELSE IF p.kind = "first" \/ Anew(p) \/ (p.kind = "start" /\ u.usRtpSSeq = -1)
              THEN p.usSeq ELSE u.usRtpSSeq
         /\ Holding(p).uTimeStamp = p.uTimeStamp
         /\ Holding(p).bLenom <=> IF p.kind = "end" THEN ~ucMarker(p)
                                  ELSE u.bLenom /\ ~Forgets(p) /\ ~Anew(p)
         /\ Holding(p).bIDR <=> u.bIDR /\ ~Forgets(p)
         /\ Holding(p).bSPS <=> u.bSPS \/ p.kind = "SPS"
         /\ Holding(p).bVPS <=> (u.bVPS /\ ~Forgets(p)) \/ p.kind = "VPS"
         /\ Holding(p).bPPS <=> (u.bPPS /\ ~Forgets(p)) \/ p.kind = "PPS"
         /\ CheckNal(p, u).usRtpCnt = IF Forgets(p) \/ Anew(p) THEN 0 ELSE u.usRtpCnt
<1> DEFINE c == CheckNal(p, u)
           Emptied == Forgets(p) \/ Anew(p)
<1>1. /\ p.kind \in {"VPS", "SPS", "PPS", "SEI", "first", "next", "start", "middle", "end"}
      /\ p.type \in {0, I, P} /\ p.usSeq \in 0..(SeqMod - 1) /\ p.uTimeStamp \in 1..NumPackets
      /\ ucMarker(p) \in BOOLEAN /\ I \in {0, I, P} /\ 0 \in {0, I, P}
      /\ SeqMod \in Nat /\ NumPackets \in Nat /\ u.nCodecID \in {"H264", "H265"}
  BY Assumption DEF PacketType, Unpackers, ucMarker
<1>2. /\ -1 \in -1..(SeqMod - 1) /\ 0 \in 0..NumPackets
      /\ p.usSeq \in -1..(SeqMod - 1) /\ p.uTimeStamp \in 0..NumPackets
  BY <1>1
<1> DEFINE Said ==
      /\ c \in Unpackers /\ c.nCodecID = u.nCodecID
      /\ c.buf = IF Emptied THEN <<>> ELSE u.buf
      /\ c.usRtpCnt = IF Emptied THEN 0 ELSE u.usRtpCnt
      /\ c.iFrameType = IF Forgets(p) THEN I ELSE IF IsParam(p) THEN u.iFrameType ELSE p.type
      /\ c.usRtpSSeq =
           IF Forgets(p) THEN -1
           ELSE IF p.kind = "first" \/ Anew(p) \/ (p.kind = "start" /\ u.usRtpSSeq = -1)
           THEN p.usSeq ELSE u.usRtpSSeq
      /\ c.uTimeStamp = p.uTimeStamp
      /\ c.bLenom <=> IF p.kind = "end" THEN ~ucMarker(p) ELSE u.bLenom /\ ~Emptied
      /\ c.bIDR <=> u.bIDR /\ ~Forgets(p)
      /\ c.bSPS <=> u.bSPS \/ p.kind = "SPS"
      /\ c.bVPS <=> (u.bVPS /\ ~Forgets(p)) \/ p.kind = "VPS"
      /\ c.bPPS <=> (u.bPPS /\ ~Forgets(p)) \/ p.kind = "PPS"
<1>3. ASSUME IsParam(p) PROVE Said
  <2>1. ~Anew(p)
    BY <1>3 DEF Anew, IsParam
  <2>2. c = [CheckParam(p, u) EXCEPT !.uTimeStamp = p.uTimeStamp]
    BY <1>3 DEF CheckNal
  <2>3. CASE Forgets(p)
    <3> DEFINE w == pjmedia_unpack_reset_frame(u)
    <3>1. /\ w \in Unpackers /\ w.nCodecID = u.nCodecID /\ Cleared(w)
          /\ (w.bSPS <=> u.bSPS) /\ ~w.bVPS /\ ~w.bPPS /\ ~w.bIDR
      BY ResetFacts
    <3> HIDE DEF w
    <3>2. CASE p.kind = "VPS"
      <4>1. c = [[w EXCEPT !.iFrameType = I, !.bVPS = TRUE] EXCEPT !.uTimeStamp = p.uTimeStamp]
        BY <2>2, <3>2 DEF CheckParam, w
      <4> HIDE DEF c
      <4>2. /\ c.nCodecID = w.nCodecID /\ c.iFrameType = I /\ c.buf = w.buf
            /\ c.usRtpCnt = w.usRtpCnt /\ c.usRtpSSeq = w.usRtpSSeq /\ c.uTimeStamp = p.uTimeStamp
        BY <3>1, <4>1 DEF Unpackers
      <4>3. /\ c.bLenom <=> w.bLenom
            /\ c.bIDR <=> w.bIDR
            /\ c.bSPS <=> w.bSPS
            /\ c.bVPS
            /\ c.bPPS <=> w.bPPS
        BY <3>1, <4>1 DEF Unpackers
      <4>4. c \in Unpackers
        BY <1>1, <1>2, <3>1, <4>1 DEF Unpackers
      <4>5. QED
        BY <2>1, <2>3, <3>1, <3>2, <4>2, <4>3, <4>4 DEF Cleared
    <3>3. CASE p.kind = "SPS" /\ u.nCodecID = "H264"
      <4>1. c = [[w EXCEPT !.iFrameType = I, !.bSPS = TRUE] EXCEPT !.uTimeStamp = p.uTimeStamp]
        BY <2>2, <3>3 DEF CheckParam, w
      <4> HIDE DEF c
      <4>2. /\ c.nCodecID = w.nCodecID /\ c.iFrameType = I /\ c.buf = w.buf
            /\ c.usRtpCnt = w.usRtpCnt /\ c.usRtpSSeq = w.usRtpSSeq /\ c.uTimeStamp = p.uTimeStamp
        BY <3>1, <4>1 DEF Unpackers
      <4>3. /\ c.bLenom <=> w.bLenom
            /\ c.bIDR <=> w.bIDR
            /\ c.bSPS
            /\ c.bVPS <=> w.bVPS
            /\ c.bPPS <=> w.bPPS
        BY <3>1, <4>1 DEF Unpackers
      <4>4. c \in Unpackers
        BY <1>1, <1>2, <3>1, <4>1 DEF Unpackers
      <4>5. QED
        BY <2>1, <2>3, <3>1, <3>3, <4>2, <4>3, <4>4 DEF Cleared
    <3>4. QED
      BY <2>3, <3>2, <3>3 DEF Forgets
  <2>4. CASE ~Forgets(p)
    <3>1. CheckParam(p, u) = IF p.kind = "SPS" THEN [u EXCEPT !.bSPS = TRUE]
                             ELSE IF p.kind = "PPS" THEN [u EXCEPT !.bPPS = TRUE] ELSE u
      BY <1>1, <1>3, <2>4 DEF CheckParam, IsParam, Forgets
    <3>2. p.kind \notin {"VPS", "first", "next", "start", "middle", "end"}
      BY <1>3, <2>4 DEF IsParam, Forgets
    <3>3. CASE p.kind = "SPS"
      <4>1. c = [[u EXCEPT !.bSPS = TRUE] EXCEPT !.uTimeStamp = p.uTimeStamp]
        BY <2>2, <3>1, <3>3
      <4> HIDE DEF c
      <4>2. /\ c.nCodecID = u.nCodecID /\ c.iFrameType = u.iFrameType /\ c.buf = u.buf
            /\ c.usRtpCnt = u.usRtpCnt /\ c.usRtpSSeq = u.usRtpSSeq /\ c.uTimeStamp = p.uTimeStamp
        BY <4>1 DEF Unpackers
      <4>3. /\ c.bLenom <=> u.bLenom
            /\ c.bIDR <=> u.bIDR
            /\ c.bSPS
            /\ c.bVPS <=> u.bVPS
            /\ c.bPPS <=> u.bPPS
        BY <4>1 DEF Unpackers
      <4>4. c \in Unpackers
        BY <1>2, <4>1 DEF Unpackers
      <4>5. QED
        BY <1>3, <2>1, <2>4, <3>3, <4>2, <4>3, <4>4
    <3>4. CASE p.kind = "PPS"
      <4>1. c = [[u EXCEPT !.bPPS = TRUE] EXCEPT !.uTimeStamp = p.uTimeStamp]
        BY <2>2, <3>1, <3>4
      <4> HIDE DEF c
      <4>2. /\ c.nCodecID = u.nCodecID /\ c.iFrameType = u.iFrameType /\ c.buf = u.buf
            /\ c.usRtpCnt = u.usRtpCnt /\ c.usRtpSSeq = u.usRtpSSeq /\ c.uTimeStamp = p.uTimeStamp
        BY <4>1 DEF Unpackers
      <4>3. /\ c.bLenom <=> u.bLenom
            /\ c.bIDR <=> u.bIDR
            /\ c.bSPS <=> u.bSPS
            /\ c.bVPS <=> u.bVPS
            /\ c.bPPS
        BY <4>1 DEF Unpackers
      <4>4. c \in Unpackers
        BY <1>2, <4>1 DEF Unpackers
      <4>5. QED
        BY <1>3, <2>1, <2>4, <3>4, <4>2, <4>3, <4>4
    <3>5. CASE p.kind = "SEI"
      <4>1. c = [u EXCEPT !.uTimeStamp = p.uTimeStamp]
        BY <2>2, <3>1, <3>5
      <4> HIDE DEF c
      <4>2. /\ c.nCodecID = u.nCodecID /\ c.iFrameType = u.iFrameType /\ c.buf = u.buf
            /\ c.usRtpCnt = u.usRtpCnt /\ c.usRtpSSeq = u.usRtpSSeq /\ c.uTimeStamp = p.uTimeStamp
        BY <4>1 DEF Unpackers
      <4>3. /\ c.bLenom <=> u.bLenom
            /\ c.bIDR <=> u.bIDR
            /\ c.bSPS <=> u.bSPS
            /\ c.bVPS <=> u.bVPS
            /\ c.bPPS <=> u.bPPS
        BY <4>1 DEF Unpackers
      <4>4. c \in Unpackers
        BY <1>2, <4>1 DEF Unpackers
      <4>5. QED
        BY <1>3, <2>1, <2>4, <3>5, <4>2, <4>3, <4>4
    <3>6. QED
      BY <1>1, <3>2, <3>3, <3>4, <3>5
  <2>5. QED
    BY <2>3, <2>4
<1>4. ASSUME IsSlice(p) PROVE Said
  <2> DEFINE w == IF Anew(p) THEN pjmedia_unpack_reset_buf(u) ELSE u
  <2>1. ~Forgets(p) /\ ~IsParam(p) /\ p.kind # "end" /\ p.kind # "start"
        /\ p.kind # "VPS" /\ p.kind # "SPS" /\ p.kind # "PPS"
        /\ (Anew(p) <=> p.kind = "first" /\ p.type = P)
    BY <1>4 DEF Forgets, IsParam, IsSlice, Anew
  <2>2. /\ w \in Unpackers /\ w.nCodecID = u.nCodecID
        /\ w.buf = IF Emptied THEN <<>> ELSE u.buf
        /\ w.usRtpCnt = IF Emptied THEN 0 ELSE u.usRtpCnt
        /\ w.usRtpSSeq = IF Emptied THEN -1 ELSE u.usRtpSSeq
        /\ w.bLenom <=> u.bLenom /\ ~Emptied
        /\ w.bIDR <=> u.bIDR
        /\ w.bSPS <=> u.bSPS
        /\ w.bVPS <=> u.bVPS
        /\ w.bPPS <=> u.bPPS
    <3>1. CASE Anew(p)
      BY <3>1, ResetFacts DEF Cleared
    <3>2. CASE ~Anew(p)
      BY <2>1, <3>2
    <3>3. QED
      BY <3>1, <3>2
  <2>3. c = [[w EXCEPT !.iFrameType = p.type,
                !.usRtpSSeq = IF p.kind = "first" THEN p.usSeq ELSE @,
                !.usRtpESeq = IF ucMarker(p) THEN p.usSeq ELSE @] EXCEPT !.uTimeStamp = p.uTimeStamp]
    BY <1>4, <2>1 DEF CheckNal, CheckSlice
  <2> HIDE DEF w, c
  <2>4. /\ c.nCodecID = w.nCodecID /\ c.buf = w.buf /\ c.usRtpCnt = w.usRtpCnt
        /\ c.iFrameType = p.type /\ c.uTimeStamp = p.uTimeStamp
        /\ c.usRtpSSeq = IF p.kind = "first" THEN p.usSeq ELSE w.usRtpSSeq
        /\ c.bLenom <=> w.bLenom
        /\ c.bIDR <=> w.bIDR
        /\ c.bSPS <=> w.bSPS
        /\ c.bVPS <=> w.bVPS
        /\ c.bPPS <=> w.bPPS
    BY <2>2, <2>3 DEF Unpackers
  <2>5. c \in Unpackers
    BY <1>1, <1>2, <2>2, <2>3 DEF Unpackers
  <2>6. QED
    BY <2>1, <2>2, <2>4, <2>5
<1>5. ASSUME IsFragment(p) PROVE Said
  <2> DEFINE w == IF Anew(p) THEN pjmedia_unpack_reset_buf(u) ELSE u
  <2>1. ~Forgets(p) /\ ~IsParam(p) /\ ~IsSlice(p) /\ p.kind # "first"
        /\ p.kind # "VPS" /\ p.kind # "SPS" /\ p.kind # "PPS"
        /\ (Anew(p) <=> p.kind = "start" /\ p.type = P /\ ~u.bLenom /\ u.uTimeStamp # p.uTimeStamp)
        /\ p.kind \in {"start", "middle", "end"}
    BY <1>5 DEF Forgets, IsParam, IsSlice, IsFragment, Anew
  <2>2. /\ w \in Unpackers /\ w.nCodecID = u.nCodecID
        /\ w.buf = IF Emptied THEN <<>> ELSE u.buf
        /\ w.usRtpCnt = IF Emptied THEN 0 ELSE u.usRtpCnt
        /\ w.usRtpSSeq = IF Emptied THEN -1 ELSE u.usRtpSSeq
        /\ w.bLenom <=> u.bLenom /\ ~Emptied
        /\ w.bIDR <=> u.bIDR
        /\ w.bSPS <=> u.bSPS
        /\ w.bVPS <=> u.bVPS
        /\ w.bPPS <=> u.bPPS
    <3>1. CASE Anew(p)
      BY <3>1, ResetFacts DEF Cleared
    <3>2. CASE ~Anew(p)
      BY <2>1, <3>2
    <3>3. QED
      BY <3>1, <3>2
  <2> DEFINE x == [w EXCEPT !.iFrameType = p.type]
  <2>3. c = [(CASE p.kind = "start" -> [x EXCEPT !.usRtpSSeq = IF @ = -1 THEN p.usSeq ELSE @]
                [] p.kind = "end" -> [x EXCEPT !.usRtpESeq = IF ucMarker(p) THEN p.usSeq ELSE @,
                                               !.bLenom = ~ucMarker(p)]
                [] p.kind = "middle" -> x) EXCEPT !.uTimeStamp = p.uTimeStamp]
    BY <2>1 DEF CheckNal, CheckFragment
  <2> HIDE DEF w, c
  <2>4. /\ x \in Unpackers /\ x.nCodecID = w.nCodecID /\ x.buf = w.buf /\ x.usRtpCnt = w.usRtpCnt
        /\ x.iFrameType = p.type /\ x.usRtpSSeq = w.usRtpSSeq
        /\ x.bLenom <=> w.bLenom
        /\ x.bIDR <=> w.bIDR
        /\ x.bSPS <=> w.bSPS
        /\ x.bVPS <=> w.bVPS
        /\ x.bPPS <=> w.bPPS
    BY <1>1, <2>2 DEF Unpackers
  <2> HIDE DEF x
  <2>5. CASE p.kind = "start"
    <3>1. c = [[x EXCEPT !.usRtpSSeq = IF @ = -1 THEN p.usSeq ELSE @] EXCEPT !.uTimeStamp = p.uTimeStamp]
      BY <2>3, <2>5
    <3>2. c \in Unpackers /\ c.nCodecID = x.nCodecID /\ c.buf = x.buf /\ c.usRtpCnt = x.usRtpCnt
          /\ c.iFrameType = x.iFrameType /\ c.uTimeStamp = p.uTimeStamp
          /\ c.usRtpSSeq = IF x.usRtpSSeq = -1 THEN p.usSeq ELSE x.usRtpSSeq
      BY <1>2, <2>4, <3>1 DEF Unpackers
    <3>3. /\ c.bLenom <=> x.bLenom
          /\ c.bIDR <=> x.bIDR
          /\ c.bSPS <=> x.bSPS
          /\ c.bVPS <=> x.bVPS
          /\ c.bPPS <=> x.bPPS
      BY <2>4, <3>1 DEF Unpackers
    <3>4. QED
      BY <2>1, <2>2, <2>4, <2>5, <3>2, <3>3
  <2>6. CASE p.kind = "middle"
    <3>1. c = [x EXCEPT !.uTimeStamp = p.uTimeStamp]
      BY <2>3, <2>6
    <3>2. c \in Unpackers /\ c.nCodecID = x.nCodecID /\ c.buf = x.buf /\ c.usRtpCnt = x.usRtpCnt
          /\ c.iFrameType = x.iFrameType /\ c.uTimeStamp = p.uTimeStamp
          /\ c.usRtpSSeq = x.usRtpSSeq
      BY <1>2, <2>4, <3>1 DEF Unpackers
    <3>3. /\ c.bLenom <=> x.bLenom
          /\ c.bIDR <=> x.bIDR
          /\ c.bSPS <=> x.bSPS
          /\ c.bVPS <=> x.bVPS
          /\ c.bPPS <=> x.bPPS
      BY <2>4, <3>1 DEF Unpackers
    <3>4. QED
      BY <2>1, <2>2, <2>4, <2>6, <3>2, <3>3
  <2>7. CASE p.kind = "end"
    <3>1. c = [[x EXCEPT !.usRtpESeq = IF ucMarker(p) THEN p.usSeq ELSE @,
                         !.bLenom = ~ucMarker(p)] EXCEPT !.uTimeStamp = p.uTimeStamp]
      BY <2>3, <2>7
    <3>2. c.nCodecID = x.nCodecID /\ c.buf = x.buf /\ c.usRtpCnt = x.usRtpCnt
          /\ c.iFrameType = x.iFrameType /\ c.uTimeStamp = p.uTimeStamp
          /\ c.usRtpSSeq = x.usRtpSSeq
      BY <2>4, <3>1 DEF Unpackers
    <3>3. /\ c.bLenom <=> ~ucMarker(p)
          /\ c.bIDR <=> x.bIDR
          /\ c.bSPS <=> x.bSPS
          /\ c.bVPS <=> x.bVPS
          /\ c.bPPS <=> x.bPPS
      BY <2>4, <3>1 DEF Unpackers
    <3>4. c \in Unpackers
      BY <1>1, <1>2, <2>4, <3>1 DEF Unpackers
    <3>5. QED
      BY <2>1, <2>2, <2>4, <2>7, <3>2, <3>3, <3>4
  <2>8. QED
    BY <2>1, <2>5, <2>6, <2>7
<1>6. Said
  BY <1>1, <1>3, <1>4, <1>5 DEF IsParam, IsSlice, IsFragment
<1>7. Holding(p) = [c EXCEPT !.buf = Append(@, p), !.usRtpCnt = IF IsParam(p) THEN @ ELSE @ + 1]
  BY DEF Holding, Unpack
<1> HIDE DEF c
<1>8. c \in Unpackers /\ c.buf \in Seq(PacketType) /\ c.usRtpCnt \in Nat /\ u.usRtpCnt \in Nat
  BY <1>6 DEF Unpackers
<1>9. /\ Append(c.buf, p) \in Seq(PacketType)
      /\ Append(c.buf, p) = IF Emptied THEN <<p>> ELSE Append(u.buf, p)
  <2>1. Append(<<>>, p) = <<p>>
    OBVIOUS
  <2>2. c.buf = IF Emptied THEN <<>> ELSE u.buf
    BY <1>6
  <2>3. QED
    BY <1>8, <2>1, <2>2, AppendProperties
<1>10. /\ Holding(p).buf = Append(c.buf, p)
       /\ Holding(p).usRtpCnt = IF IsParam(p) THEN c.usRtpCnt ELSE c.usRtpCnt + 1
       /\ Holding(p).nCodecID = c.nCodecID /\ Holding(p).iFrameType = c.iFrameType
       /\ Holding(p).usRtpSSeq = c.usRtpSSeq /\ Holding(p).uTimeStamp = c.uTimeStamp
  BY <1>7, <1>8 DEF Unpackers
<1>11. /\ Holding(p).bLenom <=> c.bLenom
       /\ Holding(p).bIDR <=> c.bIDR
       /\ Holding(p).bSPS <=> c.bSPS
       /\ Holding(p).bVPS <=> c.bVPS
       /\ Holding(p).bPPS <=> c.bPPS
  BY <1>7, <1>8 DEF Unpackers
<1>12. Holding(p) \in Unpackers
  <2> DEFINE d == Append(c.buf, p)
             e == IF IsParam(p) THEN c.usRtpCnt ELSE c.usRtpCnt + 1
  <2>1. d \in Seq(PacketType) /\ e \in Nat
    BY <1>8, <1>9
  <2>2. Holding(p) = [c EXCEPT !.buf = d, !.usRtpCnt = e]
    BY <1>7
  <2> HIDE DEF d, e
  <2>3. QED
    BY <1>8, <2>1, <2>2, Zenon DEF Unpackers
<1>13. CheckNal(p, u).usRtpCnt = IF Emptied THEN 0 ELSE u.usRtpCnt
  BY <1>6 DEF c
<1>14. QED
  BY <1>6, <1>8, <1>9, <1>10, <1>11, <1>12, <1>13

\* The packet p ends a frame, of which the checks of that frame say nothing is missing.
Ends(p) == Holding(p).iFrameType # 0 /\ ucMarker(p)

Passes(p) ==
  /\ Holding(p).nCodecID = "H265" => Holding(p).bVPS
  /\ Holding(p).bSPS /\ Holding(p).bPPS
  /\ \/ Holding(p).iFrameType = I
     \/ /\ (p.usSeq + 1 + SeqMod - Holding(p).usRtpSSeq) % SeqMod = Holding(p).usRtpCnt
        /\ Holding(p).bIDR

\* What a packet does to the unpacker.
LEMMA ReceivedFacts ==
  ASSUME u \in Unpackers, NEW p \in PacketType, pjmedia_unpack_rtp_h264(p)
  PROVE  /\ u' \in Unpackers /\ u'.nCodecID = u.nCodecID
         /\ ~Ends(p) => u' = Holding(p) /\ status' \in {START, MIDDLE, ERROR} /\ preFrame' = preFrame
         /\ Ends(p) => Cleared(u') /\ (u'.bSPS <=> Holding(p).bSPS)
         /\ Ends(p) /\ Passes(p) =>
              /\ status' = FINISH /\ preFrame' = Holding(p).buf /\ u'.bIDR
              /\ u'.bPPS <=> Holding(p).bPPS
              /\ u'.bVPS <=> Holding(p).bVPS
         /\ Ends(p) /\ ~Passes(p) => status' = FAILURE /\ preFrame' = preFrame /\ ~u'.bIDR
<1> DEFINE v == Holding(p)
           o == Outcome(p, v)
           w == [v EXCEPT !.usRtpESeq = p.usSeq]
<1>1. /\ v \in Unpackers /\ v.nCodecID = u.nCodecID /\ v.iFrameType \in {0, I, P}
      /\ p.usSeq \in -1..(SeqMod - 1) /\ ucMarker(p) \in BOOLEAN /\ I # P /\ I # 0 /\ P # 0
  <2>1. v \in Unpackers /\ v.nCodecID = u.nCodecID
    BY HoldingFacts
  <2>2. p.usSeq \in 0..(SeqMod - 1) /\ ucMarker(p) \in BOOLEAN
    BY DEF PacketType, ucMarker
  <2>3. p.usSeq \in -1..(SeqMod - 1)
    BY <2>2, Assumption
  <2>4. v.iFrameType \in {0, I, P}
    BY <2>1 DEF Unpackers
  <2>5. QED
    BY <2>1, <2>2, <2>3, <2>4 DEF I, P
<1>2. /\ u' = o.u /\ status' = o.status
      /\ preFrame' = IF o.status = FINISH THEN o.frame ELSE preFrame
  BY DEF pjmedia_unpack_rtp_h264, Holding
<1>3. /\ Ends(p) <=> v.iFrameType # 0 /\ ucMarker(p)
      /\ Passes(p) <=>
           /\ v.nCodecID = "H265" => v.bVPS
           /\ v.bSPS /\ v.bPPS
           /\ v.iFrameType = I \/
                ((p.usSeq + 1 + SeqMod - v.usRtpSSeq) % SeqMod = v.usRtpCnt /\ v.bIDR)
  BY DEF Ends, Passes
<1> HIDE DEF v
<1>4. /\ w \in Unpackers /\ w.nCodecID = v.nCodecID /\ w.usRtpESeq = p.usSeq
      /\ w.usRtpSSeq = v.usRtpSSeq /\ w.usRtpCnt = v.usRtpCnt /\ w.buf = v.buf
      /\ w.iFrameType = v.iFrameType
      /\ w.bVPS <=> v.bVPS
      /\ w.bSPS <=> v.bSPS
      /\ w.bPPS <=> v.bPPS
      /\ w.bIDR <=> v.bIDR
  BY <1>1 DEF Unpackers
<1>5. CASE ~Ends(p)
  <2>1. o = Unfinished(v, START) \/ o = Unfinished(v, ERROR) \/ o = Unfinished(v, MIDDLE)
    BY <1>1, <1>3, <1>5 DEF Outcome
  <2>2. o.u = v /\ o.status \in {START, MIDDLE, ERROR} /\ o.status # FINISH
    BY <2>1 DEF Unfinished, START, MIDDLE, ERROR, FINISH
  <2>3. QED
    BY <1>1, <1>2, <1>5, <2>2 DEF v
<1>6. ASSUME NEW x \in Unpackers, o = Failed(x), x.nCodecID = v.nCodecID, x.bSPS <=> v.bSPS
      PROVE  /\ u' \in Unpackers /\ u'.nCodecID = u.nCodecID
             /\ Cleared(u') /\ (u'.bSPS <=> v.bSPS)
             /\ status' = FAILURE /\ preFrame' = preFrame /\ ~u'.bIDR
  <2>1. u' = pjmedia_unpack_reset_frame(x) /\ status' = FAILURE /\ preFrame' = preFrame
    BY <1>2, <1>6 DEF Failed, FAILURE, FINISH
  <2>2. QED
    BY <1>1, <1>6, <2>1, ResetFacts
<1>7. ASSUME NEW x \in Unpackers, o = Finished(x), x.nCodecID = v.nCodecID, x.buf = v.buf, x.bIDR,
             x.bSPS <=> v.bSPS, x.bPPS <=> v.bPPS, x.bVPS <=> v.bVPS
      PROVE  /\ u' \in Unpackers /\ u'.nCodecID = u.nCodecID
             /\ Cleared(u') /\ (u'.bSPS <=> v.bSPS)
             /\ status' = FINISH /\ preFrame' = v.buf /\ u'.bIDR
             /\ u'.bPPS <=> v.bPPS
             /\ u'.bVPS <=> v.bVPS
  <2>1. u' = pjmedia_unpack_reset_buf(x) /\ status' = FINISH /\ preFrame' = x.buf
    BY <1>2, <1>7 DEF Finished, FINISH
  <2>2. QED
    BY <1>1, <1>7, <2>1, ResetFacts
<1>8. CASE Ends(p) /\ v.iFrameType = I
  <2> DEFINE x == [v EXCEPT !.bIDR = TRUE]
  <2>1. o = IF pjmedia_unpack_check_frame(v) THEN Finished(x) ELSE Failed(v)
    BY <1>1, <1>3, <1>8 DEF Outcome
  <2>2. pjmedia_unpack_check_frame(v) <=> Passes(p)
    BY <1>3, <1>8 DEF pjmedia_unpack_check_frame
  <2>3. /\ x \in Unpackers /\ x.nCodecID = v.nCodecID /\ x.buf = v.buf /\ x.bIDR
        /\ x.bSPS <=> v.bSPS
        /\ x.bPPS <=> v.bPPS
        /\ x.bVPS <=> v.bVPS
    BY <1>1 DEF Unpackers
  <2> HIDE DEF x, o
  <2>4. CASE Passes(p)
    BY <1>7, <1>8, <2>1, <2>2, <2>3, <2>4 DEF v
  <2>5. CASE ~Passes(p)
    BY <1>1, <1>6, <1>8, <2>1, <2>2, <2>5 DEF v
  <2>6. QED
    BY <2>4, <2>5
<1>9. CASE Ends(p) /\ v.iFrameType = P
  <2>1. o = IF pjmedia_unpack_check_frame(w) /\ w.bIDR THEN Finished(w) ELSE Failed(w)
    BY <1>1, <1>3, <1>9 DEF Outcome
  <2> HIDE DEF w, o
  <2>2. pjmedia_unpack_check_frame(w) /\ w.bIDR <=> Passes(p)
    BY <1>1, <1>3, <1>4, <1>9 DEF pjmedia_unpack_check_frame, usSeqGap
  <2>3. CASE Passes(p)
    BY <1>4, <1>7, <1>9, <2>1, <2>2, <2>3 DEF v
  <2>4. CASE ~Passes(p)
    BY <1>4, <1>6, <1>9, <2>1, <2>2, <2>4 DEF v
  <2>5. QED
    BY <2>3, <2>4
<1>10. QED
  BY <1>1, <1>3, <1>5, <1>8, <1>9

\* The types, with what the unpacker counts.
TypeInv ==
  /\ u \in Unpackers /\ u.usRtpCnt <= Len(u.buf)
  /\ status \in {START, MIDDLE, FINISH, FAILURE, ERROR}
  /\ preFrame \in Seq(PacketType)
  /\ sent \in Seq(PacketType) /\ todo \in Seq(PacketType)
  /\ lostInGop \in BOOLEAN /\ failed \in BOOLEAN /\ idrSeen \in BOOLEAN /\ simple \in BOOLEAN

\* What may be given to the unpacker is a packet of the stream.
ReplayFacts ==
  Lap > 0 /\ Len(sent) >= Lap =>
    /\ Len(sent) - Lap \in 0..(Len(sent) - 1)
    /\ sent[Len(sent) + 1 - Lap] = Stream[Len(sent) - Lap]
    /\ sent[Len(sent) + 1 - Lap] \in PacketType

LEMMA ReplayedWasSent ==
  ASSUME StreamType
  PROVE  ReplayFacts
<1>1. Len(sent) \in Nat /\ Lap \in Nat /\ sent \in Seq(PacketType)
  BY Assumption DEF StreamType
<1>2. SUFFICES ASSUME Lap > 0, Len(sent) >= Lap
               PROVE  /\ Len(sent) - Lap \in 0..(Len(sent) - 1)
                      /\ sent[Len(sent) + 1 - Lap] = Stream[Len(sent) - Lap]
                      /\ sent[Len(sent) + 1 - Lap] \in PacketType
  BY DEF ReplayFacts
<1>3. Len(sent) - Lap \in 0..(Len(sent) - 1) /\ Len(sent) + 1 - Lap \in 1..Len(sent)
      /\ (Len(sent) - Lap) + 1 = Len(sent) + 1 - Lap
  BY <1>1, <1>2
<1>4. Stream[Len(sent) - Lap] = sent[(Len(sent) - Lap) + 1]
  BY <1>3, StreamFacts
<1>5. QED
  BY <1>1, <1>3, <1>4

\* The buffer with p appended.
LEMMA HeldFacts ==
  ASSUME TypeInv, NEW p \in PacketType
  PROVE  /\ Holding(p).buf \in Seq(PacketType) /\ Holding(p).usRtpCnt \in 0..Len(Holding(p).buf)
         /\ Len(Holding(p).buf) = IF Forgets(p) \/ Anew(p) THEN 1 ELSE Len(u.buf) + 1
         /\ Holding(p).buf[Len(Holding(p).buf)] = p
         /\ \A i \in 1..(Len(Holding(p).buf) - 1) :
              ~Forgets(p) /\ ~Anew(p) /\ i \in 1..Len(u.buf) /\ Holding(p).buf[i] = u.buf[i]
         /\ u.buf \in Seq(PacketType) /\ Len(u.buf) \in Nat /\ u.usRtpCnt \in 0..Len(u.buf)
<1> DEFINE b == Holding(p).buf
           c == Holding(p).usRtpCnt
<1>1. /\ b = IF Forgets(p) \/ Anew(p) THEN <<p>> ELSE Append(u.buf, p)
      /\ c = (IF Forgets(p) \/ Anew(p) THEN 0 ELSE u.usRtpCnt) + (IF IsParam(p) THEN 0 ELSE 1)
  BY HoldingFacts DEF TypeInv
<1>2. u.buf \in Seq(PacketType) /\ Len(u.buf) \in Nat /\ u.usRtpCnt \in Nat /\ u.usRtpCnt <= Len(u.buf)
  BY DEF TypeInv, Unpackers
<1> HIDE DEF b, c
<1>3. CASE Forgets(p) \/ Anew(p)
  <2>1. b = <<p>> /\ c \in {0, 1}
    BY <1>1, <1>3
  <2>2. b \in Seq(PacketType) /\ Len(b) = 1 /\ b[1] = p
    BY <2>1
  <2>3. QED
    BY <1>2, <1>3, <2>1, <2>2 DEF b, c
<1>4. CASE ~(Forgets(p) \/ Anew(p))
  <2>1. b = Append(u.buf, p) /\ c \in {u.usRtpCnt, u.usRtpCnt + 1}
    BY <1>1, <1>2, <1>4
  <2>2. /\ b \in Seq(PacketType) /\ Len(b) = Len(u.buf) + 1 /\ b[Len(u.buf) + 1] = p
        /\ \A i \in 1..Len(u.buf) : b[i] = u.buf[i]
    BY <1>2, <2>1, AppendProperties
  <2>3. c \in 0..Len(b)
    BY <1>2, <2>1, <2>2
  <2>4. \A i \in 1..(Len(b) - 1) : i \in 1..Len(u.buf) /\ b[i] = u.buf[i]
    BY <1>2, <2>2
  <2>5. QED
    BY <1>2, <1>4, <2>2, <2>3, <2>4 DEF b, c
<1>5. QED
  BY <1>3, <1>4

\* A step that gives the unpacker a packet keeps the types.
LEMMA TypeReceived ==
  ASSUME TypeInv, Advance, NEW p \in PacketType, pjmedia_unpack_rtp_h264(p),
         lostInGop' \in BOOLEAN, simple' \in BOOLEAN
  PROVE  TypeInv' /\ u'.nCodecID = u.nCodecID
<1>1. StreamType
  BY DEF TypeInv, StreamType, Unpackers
<1>2. sent' \in Seq(PacketType) /\ todo' \in Seq(PacketType)
  BY <1>1, AdvanceFacts
<1>3. Holding(p).buf \in Seq(PacketType) /\ Holding(p).usRtpCnt <= Len(Holding(p).buf)
  BY HeldFacts
<1>4. /\ u' \in Unpackers /\ u'.nCodecID = u.nCodecID
      /\ u' = Holding(p) \/ Cleared(u')
      /\ status' \in {START, MIDDLE, FINISH, FAILURE, ERROR}
      /\ preFrame' = preFrame \/ preFrame' = Holding(p).buf
  BY ReceivedFacts DEF TypeInv
<1>5. u'.usRtpCnt <= Len(u'.buf)
  BY <1>3, <1>4 DEF Cleared
<1>6. failed' \in BOOLEAN /\ idrSeen' \in BOOLEAN
  BY Zenon DEF pjmedia_unpack_rtp_h264
<1>7. QED
  BY <1>2, <1>3, <1>4, <1>5, <1>6 DEF TypeInv

LEMMA TypeStep ==
  ASSUME TypeInv, StreamInv, [Next]_vars
  PROVE  TypeInv' /\ u'.nCodecID = u.nCodecID
<1>1. StreamType /\ u \in Unpackers
  BY DEF TypeInv, StreamType, Unpackers
<1>2. CASE NextFrame
  <2>1. PICK t \in {0, I, P}, shape \in Seq({"VPS", "SPS", "PPS"} \cup Kinds) :
          Len(shape) > 0 /\ Submit(shape, t)
    BY <1>1, <1>2, NextFrameFacts
  <2>2. todo' \in Seq(PacketType)
    BY <1>1, <1>2, <2>1, SubmitFacts DEF NextFrame
  <2>3. lostInGop' \in BOOLEAN /\ simple' \in BOOLEAN
    BY <1>2, Zenon DEF NextFrame
  <2>4. UNCHANGED <<u, status, preFrame, sent, failed, idrSeen>>
    BY <1>2 DEF NextFrame
  <2>5. QED
    BY <2>2, <2>3, <2>4 DEF TypeInv
<1>3. CASE Arrive
  <2>1. Advance /\ Head(todo) \in PacketType /\ pjmedia_unpack_rtp_h264(Head(todo))
    BY <1>1, <1>3, AdvanceFacts DEF Arrive
  <2>2. lostInGop' \in BOOLEAN /\ simple' \in BOOLEAN
    <3>1. lostInGop' = lostInGop /\ lostInGop \in BOOLEAN
      BY <1>3 DEF Arrive, TypeInv
    <3>2. simple' \in BOOLEAN
      BY <1>3, Zenon DEF Arrive
    <3>3. QED
      BY <3>1, <3>2
  <2>3. QED
    BY <2>1, <2>2, TypeReceived
<1>4. CASE Lose
  <2>1. sent' \in Seq(PacketType) /\ todo' \in Seq(PacketType)
    BY <1>1, <1>4, AdvanceFacts DEF Lose
  <2>2. lostInGop' \in BOOLEAN /\ UNCHANGED <<u, status, preFrame, failed, idrSeen, simple>>
    BY <1>4 DEF Lose
  <2>3. QED
    BY <2>1, <2>2 DEF TypeInv
<1>5. CASE Replay
  <2>1. sent[Len(sent) + 1 - Lap] \in PacketType
    BY <1>1, <1>5, ReplayedWasSent DEF Replay, ReplayFacts
  <2>2. lostInGop' \in BOOLEAN /\ simple' \in BOOLEAN
    BY <1>5 DEF Replay
  <2>3. QED
    BY <1>5, <2>1, <2>2, TypeReceived DEF Replay
<1>6. CASE Unsupported
  <2>1. sent' \in Seq(PacketType) /\ todo' \in Seq(PacketType)
    BY <1>1, <1>6, AdvanceFacts DEF Unsupported
  <2>2. u' = pjmedia_unpack_reset_frame(u) /\ UNCHANGED <<preFrame, idrSeen, simple>>
        /\ lostInGop' \in BOOLEAN /\ failed' \in BOOLEAN /\ status' = ERROR
    BY <1>6 DEF Unsupported
  <2>3. u' \in Unpackers /\ Cleared(u') /\ u'.nCodecID = u.nCodecID
    BY <1>1, <2>2, ResetFacts
  <2>4. u'.usRtpCnt <= Len(u'.buf)
    BY <2>3 DEF Cleared
  <2>5. QED
    BY <2>1, <2>2, <2>3, <2>4 DEF TypeInv
<1>7. CASE UNCHANGED vars
  BY <1>7 DEF vars, TypeInv
<1>8. QED
  BY <1>2, <1>3, <1>4, <1>5, <1>6, <1>7 DEF Next

LEMMA StreamStep ==
  ASSUME TypeInv, StreamInv, [Next]_vars
  PROVE  /\ StreamInv'
         /\ ~NextFrame => Stream' = Stream /\ Total' = Total
<1>1. StreamType
  BY DEF TypeInv, StreamType, Unpackers
<1>2. ASSUME ~NextFrame PROVE Stream' = Stream /\ Total' = Total
  <2>1. CASE Advance
    BY <1>1, <2>1, AdvanceFacts
  <2>2. CASE UNCHANGED vars
    BY <2>2 DEF vars, Stream, Total
  <2>3. QED
    BY <1>2, <2>1, <2>2 DEF Next, Arrive, Lose, Replay, Unsupported
<1>3. CASE NextFrame
  BY <1>1, <1>3, StreamGrows
<1>4. CASE ~NextFrame
  <2>1. Stream' = Stream /\ Total' = Total
    BY <1>2, <1>4
  <2>2. ParamSets' = ParamSets
    BY TypeStep DEF ParamSets
  <2>3. QED
    BY <2>1, <2>2 DEF StreamInv, Numbered, Parameters, Sliced, Followed, Grouped, Placed
<1>5. QED
  BY <1>2, <1>3, <1>4

LEMMA InitTypes ==
  ASSUME Init
  PROVE  TypeInv /\ StreamInv
<1>1. PICK codec \in Codecs, bSPS \in BOOLEAN :
        u = [nCodecID |-> codec, iFrameType |-> 0, buf |-> <<>>, usRtpCnt |-> 0, usRtpSSeq |-> -1,
             usRtpESeq |-> -1, bVPS |-> FALSE, bSPS |-> bSPS, bPPS |-> FALSE,
             bIDR |-> FALSE, bLenom |-> FALSE, uTimeStamp |-> 0]
  BY DEF Init
<1>2. /\ -1 \in -1..(SeqMod - 1) /\ 0 \in 0..NumPackets /\ 0 \in Nat /\ NumPackets \in Nat
      /\ <<>> \in Seq(PacketType) /\ 0 \in {0, I, P} /\ FALSE \in BOOLEAN
  BY Assumption
<1>3. u \in Unpackers
  BY <1>1, <1>2, Zenon DEF Unpackers
<1>4. u.usRtpCnt <= Len(u.buf)
  BY <1>1
<1>5. TypeInv
  BY <1>2, <1>3, <1>4 DEF Init, TypeInv
<1>6. Total = 0
  BY DEF Init, Total
<1>7. StreamInv
  BY <1>2, <1>6 DEF StreamInv
<1>8. QED
  BY <1>5, <1>7

LEMMA TypesAndStream == Spec => [](TypeInv /\ StreamInv)
<1>1. TypeInv /\ StreamInv /\ [Next]_vars => TypeInv' /\ StreamInv'
  BY TypeStep, StreamStep
<1>2. QED
  BY <1>1, InitTypes, PTL DEF Spec

LEMMA TypeInvTells ==
  ASSUME TypeInv
  PROVE  TypeOK
<1>1. u \in Unpackers /\ u.usRtpCnt \in 0..Len(u.buf)
  BY DEF TypeInv, Unpackers
<1>2. u \in [nCodecID : Codecs, iFrameType : {0, I, P}, buf : Seq(PacketType),
              usRtpCnt : 0..Len(u.buf),
              usRtpSSeq : -1..(SeqMod - 1), usRtpESeq : -1..(SeqMod - 1),
              bVPS : BOOLEAN, bSPS : BOOLEAN, bPPS : BOOLEAN, bIDR : BOOLEAN,
              bLenom : BOOLEAN, uTimeStamp : 0..NumPackets]
  BY <1>1 DEF Unpackers
<1>3. {lostInGop, failed, idrSeen, simple} \subseteq BOOLEAN
  BY DEF TypeInv
<1>4. QED
  BY <1>2, <1>3 DEF TypeInv, TypeOK

-----------------------------------------------------------------------------
(***************************************************************************)
(* A P frame needs its I frame.                                            *)
(***************************************************************************)

\* H.264: while bIDR is set, and when a P frame has just been finished, the group's I
\* frame was finished and nothing given up since.
IdrInv ==
  u.nCodecID = "H264" => (u.bIDR \/ FinishedP => idrSeen /\ ~failed)

LEMMA IdrReceived ==
  ASSUME TypeInv, StreamInv, IdrInv, NEW n \in 0..(Total - 1),
         pjmedia_unpack_rtp_h264(Stream[n])
  PROVE  IdrInv'
<1> DEFINE p == Stream[n]
<1>1. p \in PacketType /\ Parameters(n) /\ p.index <= p.size
  BY DEF StreamInv, Numbered
<1>2. u \in Unpackers /\ u'.nCodecID = u.nCodecID
  BY <1>1, ReceivedFacts DEF TypeInv
<1>3. SUFFICES ASSUME u.nCodecID = "H264", u'.bIDR \/ FinishedP'
               PROVE  idrSeen' /\ ~failed'
  BY <1>2 DEF IdrInv
<1>4. /\ failed' <=> status' = FAILURE \/ (failed /\ ~(status' = FINISH /\ p.type = I))
      /\ idrSeen' <=> (status' = FINISH /\ p.type = I)
                      \/ (idrSeen /\ ~(IsParam(p) /\ p.index = 1 /\ p.type = 0))
  BY DEF pjmedia_unpack_rtp_h264
<1>5. IsParam(p) /\ p.index = 1 /\ p.type = 0 => Forgets(p)
  <2>1. ParamSets = <<"SPS", "PPS">>
    BY <1>3 DEF ParamSets
  <2>2. p.type = 0 /\ p.index = 1 => p.kind = "SPS"
    BY <1>1, <2>1 DEF Parameters
  <2>3. QED
    BY <1>3, <2>2 DEF Forgets
<1> HIDE DEF p
<1>6. Holding(p).bIDR => idrSeen /\ ~failed /\ ~Forgets(p)
  BY <1>1, <1>2, <1>3, HoldingFacts DEF IdrInv
<1>7. FinishedP' => status' = FINISH /\ Last(preFrame').type = P
  BY DEF FinishedP
<1>8. FAILURE # FINISH /\ FINISH \notin {START, MIDDLE, ERROR} /\ FAILURE \notin {START, MIDDLE, ERROR}
      /\ I # P /\ I # 0 /\ P # 0
  BY DEF FAILURE, FINISH, START, MIDDLE, ERROR, I, P
<1>9. CASE ~Ends(p)
  <2>1. u' = Holding(p) /\ status' \in {START, MIDDLE, ERROR}
    BY <1>1, <1>2, <1>9, ReceivedFacts DEF p
  <2>2. Holding(p).bIDR
    BY <1>3, <1>7, <1>8, <2>1
  <2>3. QED
    BY <1>4, <1>5, <1>6, <1>8, <2>1, <2>2
<1>10. CASE Ends(p) /\ Passes(p)
  <2>1. status' = FINISH /\ ucMarker(p) /\ Holding(p).iFrameType # 0
    BY <1>1, <1>2, <1>10, ReceivedFacts DEF p, Ends
  <2>2. ~IsParam(p)
    BY <1>3, <2>1 DEF ucMarker
  <2>3. Holding(p).iFrameType = p.type
    <3>1. ~Forgets(p)
      BY <2>2 DEF IsParam, Forgets
    <3>2. QED
      BY <1>1, <1>2, <2>2, <3>1, HoldingFacts
  <2>4. CASE p.type = I
    BY <1>4, <1>8, <2>1, <2>4
  <2>5. CASE p.type # I
    <3>1. Holding(p).bIDR
      BY <1>10, <2>3, <2>5 DEF Passes
    <3>2. QED
      BY <1>4, <1>6, <1>8, <2>1, <2>2, <2>5, <3>1
  <2>6. QED
    BY <2>4, <2>5
<1>11. CASE Ends(p) /\ ~Passes(p)
  <2>1. status' = FAILURE /\ ~u'.bIDR
    BY <1>1, <1>2, <1>11, ReceivedFacts DEF p
  <2>2. QED
    BY <1>3, <1>7, <1>8, <2>1
<1>12. QED
  BY <1>9, <1>10, <1>11

LEMMA IdrStep ==
  ASSUME TypeInv, StreamInv, IdrInv, [Next]_vars
  PROVE  IdrInv'
<1>1. StreamType
  BY DEF TypeInv, StreamType, Unpackers
<1>2. CASE Arrive
  <2>1. /\ Len(sent) \in 0..(Total - 1) /\ Head(todo) = Stream[Len(sent)]
        /\ pjmedia_unpack_rtp_h264(Head(todo))
    BY <1>1, <1>2, AdvanceFacts DEF Arrive
  <2>2. QED
    BY <2>1, IdrReceived
<1>3. CASE Replay
  <2>1. /\ Len(sent) - Lap \in 0..(Len(sent) - 1)
        /\ sent[Len(sent) + 1 - Lap] = Stream[Len(sent) - Lap]
        /\ pjmedia_unpack_rtp_h264(sent[Len(sent) + 1 - Lap])
    BY <1>1, <1>3, ReplayedWasSent DEF Replay, ReplayFacts
  <2>2. Len(sent) - Lap \in 0..(Total - 1)
    BY <1>1, <2>1, StreamFacts DEF Total
  <2>3. QED
    BY <2>1, <2>2, IdrReceived
<1>4. CASE Unsupported
  <2>1. u' = pjmedia_unpack_reset_frame(u) /\ status' = ERROR /\ u \in Unpackers
    BY <1>4 DEF Unsupported, TypeInv
  <2>2. ~u'.bIDR
    BY <2>1, ResetFacts
  <2>3. QED
    BY <2>1, <2>2 DEF IdrInv, FinishedP, ERROR, FINISH
<1>5. CASE UNCHANGED <<u, status, preFrame, failed, idrSeen>>
  BY <1>5 DEF IdrInv, FinishedP
<1>6. QED
  BY <1>2, <1>3, <1>4, <1>5 DEF Next, NextFrame, Lose, vars

\* For every stream and whatever is lost or replayed: with H.264, a P frame is handed to the
\* decoder only if its group's I frame was, and nothing was given up since (the check of
\* bIDR in pjmedia_unpack_rtp_h264, and what resets it).
THEOREM NoOrphans == Spec => []PFollowsIdr
<1>1. Init => IdrInv
  BY DEF Init, IdrInv, FinishedP, START, FINISH
<1>2. TypeInv /\ StreamInv /\ IdrInv /\ [Next]_vars => IdrInv'
  BY IdrStep
<1>3. IdrInv => PFollowsIdr
  BY DEF IdrInv, PFollowsIdr
<1>4. QED
  BY <1>1, <1>2, <1>3, TypesAndStream, PTL DEF Spec

-----------------------------------------------------------------------------
(***************************************************************************)
(* What the unpacker holds.                                                *)
(***************************************************************************)

\* The packet x was sent.
WasSent(x) == x.no \in 0..(Len(sent) - 1) /\ x = Stream[x.no]

WillBeSent(x) == x.no \in 0..(Len(sent') - 1) /\ x = Stream'[x.no]

\* What it has appended or handed over are packets that were sent.
BufInv ==
  /\ \A i \in 1..Len(u.buf) : WasSent(u.buf[i])
  /\ \A i \in 1..Len(preFrame) : WasSent(preFrame[i])
  /\ status = FINISH => preFrame # <<>>

\* What was sent stays.
LEMMA SentStays ==
  ASSUME TypeInv, StreamInv, [Next]_vars
  PROVE  /\ Len(sent) \in Nat /\ Len(sent') \in Nat /\ Len(sent) <= Len(sent')
         /\ Total \in Nat /\ Total' \in Nat /\ Len(sent) <= Total /\ Total <= Total' /\ Len(sent') <= Total'
         /\ \A n \in 0..(Len(sent) - 1) : Stream'[n] = Stream[n]
         /\ \A x : WasSent(x) => WillBeSent(x)
<1>1. StreamType /\ StreamType'
  BY TypeStep DEF TypeInv, StreamType, Unpackers
<1>2. /\ Len(sent) \in Nat /\ Len(sent') \in Nat /\ Len(todo) \in Nat /\ Len(todo') \in Nat
      /\ Total = Len(sent) + Len(todo) /\ Total' = Len(sent') + Len(todo')
  BY <1>1 DEF StreamType, Total
<1>3. /\ Len(sent) <= Len(sent') /\ Total <= Total'
      /\ \A n \in 0..(Len(sent) - 1) : Stream'[n] = Stream[n]
  <2>1. CASE NextFrame
    <3>1. PICK t \in {0, I, P}, shape \in Seq({"VPS", "SPS", "PPS"} \cup Kinds) :
            Len(shape) > 0 /\ Submit(shape, t)
      BY <1>1, <2>1, NextFrameFacts
    <3>2. todo = <<>> /\ sent' = sent
      BY <2>1 DEF NextFrame
    <3>3. \A n \in 0..(Len(sent) - 1) : Stream'[n] = Stream[n]
      BY <1>1, <3>1, <3>2, SubmitFacts
    <3>4. QED
      BY <1>2, <3>2, <3>3
  <2>2. CASE Advance
    <3>1. Stream' = Stream /\ Total' = Total /\ Len(sent') = Len(sent) + 1
      BY <1>1, <2>2, AdvanceFacts
    <3>2. QED
      BY <1>2, <3>1
  <2>3. CASE UNCHANGED vars
    <3>1. Stream' = Stream /\ sent' = sent /\ Total' = Total
      BY <2>3 DEF vars, Stream, Total
    <3>2. QED
      BY <1>2, <3>1
  <2>4. QED
    BY <2>1, <2>2, <2>3 DEF Next, Arrive, Lose, Replay, Unsupported
<1>4. ASSUME NEW x, WasSent(x) PROVE WillBeSent(x)
  <2>1. x.no \in 0..(Len(sent) - 1) /\ x = Stream[x.no]
    BY <1>4 DEF WasSent
  <2>2. x.no \in 0..(Len(sent') - 1)
    BY <1>2, <1>3, <2>1
  <2>3. QED
    BY <1>3, <2>1, <2>2 DEF WillBeSent
<1>5. QED
  BY <1>2, <1>3, <1>4

LEMMA BufReceived ==
  ASSUME TypeInv, StreamInv, BufInv, [Next]_vars, NEW n \in 0..(Total - 1),
         n <= Len(sent), Advance, pjmedia_unpack_rtp_h264(Stream[n])
  PROVE  /\ BufInv'
         /\ \A i \in 1..Len(Holding(Stream[n]).buf) : WillBeSent(Holding(Stream[n]).buf[i])
<1> DEFINE p == Stream[n]
           b == Holding(p).buf
<1>1. p \in PacketType /\ p.no = n
  BY DEF StreamInv, Numbered
<1>2. StreamType /\ u \in Unpackers
  BY DEF TypeInv, StreamType, Unpackers
<1>3. Stream' = Stream /\ Len(sent') = Len(sent) + 1 /\ Len(sent) \in Nat /\ n \in Nat
  BY <1>2, AdvanceFacts, StreamFacts
<1>4. WillBeSent(p)
  <2>1. n \in 0..(Len(sent') - 1)
    BY <1>3
  <2>2. QED
    BY <1>1, <1>3, <2>1 DEF WillBeSent
<1>5. /\ \A i \in 1..Len(u.buf) : WillBeSent(u.buf[i])
      /\ \A i \in 1..Len(preFrame) : WillBeSent(preFrame[i])
  BY SentStays DEF BufInv
<1>6. /\ Len(b) \in Nat \ {0} /\ b[Len(b)] = p /\ b # <<>>
      /\ \A i \in 1..(Len(b) - 1) : i \in 1..Len(u.buf) /\ b[i] = u.buf[i]
  <2>1. b \in Seq(PacketType) /\ Len(b) = IF Forgets(p) \/ Anew(p) THEN 1 ELSE Len(u.buf) + 1
    BY <1>1, HeldFacts
  <2>2. Len(u.buf) \in Nat
    BY <1>1, HeldFacts
  <2>3. Len(b) \in Nat \ {0}
    BY <2>1, <2>2
  <2>4. b # <<>>
    BY <2>1, <2>3
  <2>5. QED
    BY <1>1, <2>3, <2>4, HeldFacts
<1>7. \/ u'.buf = b /\ preFrame' = preFrame /\ status' # FINISH
      \/ u'.buf = <<>> /\ preFrame' = b
      \/ u'.buf = <<>> /\ preFrame' = preFrame /\ status' # FINISH
  <2>1. FINISH \notin {START, MIDDLE, ERROR} /\ FAILURE # FINISH
    BY DEF START, MIDDLE, ERROR, FINISH, FAILURE
  <2>2. /\ ~Ends(p) => u' = Holding(p) /\ status' \in {START, MIDDLE, ERROR} /\ preFrame' = preFrame
        /\ Ends(p) => Cleared(u')
        /\ Ends(p) /\ Passes(p) => status' = FINISH /\ preFrame' = Holding(p).buf
        /\ Ends(p) /\ ~Passes(p) => status' = FAILURE /\ preFrame' = preFrame
    BY <1>1, <1>2, ReceivedFacts
  <2>3. Cleared(u') => u'.buf = <<>>
    BY DEF Cleared
  <2> HIDE DEF p
  <2>4. QED
    BY <2>1, <2>2, <2>3
<1> HIDE DEF p
<1>8. ASSUME NEW i \in 1..Len(b) PROVE WillBeSent(b[i])
  <2>1. CASE i = Len(b)
    BY <1>4, <1>6, <2>1
  <2>2. CASE i # Len(b)
    <3>1. i \in 1..(Len(b) - 1)
      BY <1>6, <2>2
    <3>2. QED
      BY <1>5, <1>6, <3>1
  <2>3. QED
    BY <2>1, <2>2
<1>9. /\ \A i \in 1..Len(u'.buf) : WillBeSent(u'.buf[i])
      /\ \A i \in 1..Len(preFrame') : WillBeSent(preFrame'[i])
      /\ status' = FINISH => preFrame' # <<>>
  BY <1>5, <1>6, <1>7, <1>8
<1>10. QED
  BY <1>8, <1>9 DEF BufInv, p, WasSent, WillBeSent

LEMMA BufStep ==
  ASSUME TypeInv, StreamInv, BufInv, [Next]_vars
  PROVE  BufInv'
<1>1. StreamType
  BY DEF TypeInv, StreamType, Unpackers
<1>2. CASE Arrive
  <2>1. /\ Len(sent) \in 0..(Total - 1) /\ Head(todo) = Stream[Len(sent)] /\ Len(sent) <= Len(sent)
        /\ pjmedia_unpack_rtp_h264(Head(todo)) /\ Advance
    BY <1>1, <1>2, AdvanceFacts DEF Arrive
  <2>2. QED
    BY <2>1, BufReceived
<1>3. CASE Replay
  <2>1. /\ Len(sent) - Lap \in 0..(Len(sent) - 1)
        /\ sent[Len(sent) + 1 - Lap] = Stream[Len(sent) - Lap]
        /\ pjmedia_unpack_rtp_h264(sent[Len(sent) + 1 - Lap]) /\ Advance
    BY <1>1, <1>3, ReplayedWasSent DEF Replay, ReplayFacts
  <2>2. Len(sent) - Lap \in 0..(Total - 1) /\ Len(sent) - Lap <= Len(sent)
    BY <1>1, <2>1, StreamFacts DEF Total
  <2>3. QED
    BY <2>1, <2>2, BufReceived
<1>4. CASE Unsupported
  <2>1. u' = pjmedia_unpack_reset_frame(u) /\ status' = ERROR /\ u \in Unpackers /\ preFrame' = preFrame
    BY <1>4 DEF Unsupported, TypeInv
  <2>2. u'.buf = <<>>
    BY <2>1, ResetFacts DEF Cleared
  <2>3. \A i \in 1..Len(u'.buf) : FALSE
    BY <2>2
  <2>4. \A i \in 1..Len(preFrame) : WillBeSent(preFrame[i])
    BY SentStays DEF BufInv
  <2>5. QED
    BY <2>1, <2>3, <2>4 DEF BufInv, ERROR, FINISH, WasSent, WillBeSent
<1>5. CASE UNCHANGED <<u, status, preFrame>>
  <2>1. /\ \A i \in 1..Len(u.buf) : WillBeSent(u.buf[i])
        /\ \A i \in 1..Len(preFrame) : WillBeSent(preFrame[i])
    BY SentStays DEF BufInv
  <2>2. QED
    BY <1>5, <2>1 DEF BufInv, WasSent, WillBeSent
<1>6. QED
  BY <1>2, <1>3, <1>4, <1>5 DEF Next, NextFrame, Lose, vars

LEMMA HoldsSent == Spec => []BufInv
<1>1. Init => BufInv
  <2>1. Init => u.buf = <<>> /\ preFrame = <<>> /\ status = START
    BY DEF Init
  <2>2. QED
    BY <2>1 DEF BufInv, START, FINISH
<1>2. TypeInv /\ StreamInv /\ BufInv /\ [Next]_vars => BufInv'
  BY BufStep
<1>3. QED
  BY <1>1, <1>2, TypesAndStream, PTL DEF Spec

-----------------------------------------------------------------------------
(***************************************************************************)
(* The count of packets.                                                   *)
(***************************************************************************)

\* Frames of the stream have one slice.
OneSlice ==
  \A m, n \in 0..(Total - 1) :
    Stream[m].frame = Stream[n].frame /\ BeginsSlice(Stream[m]) /\ BeginsSlice(Stream[n]) => m = n

\* The packets in v's buffer are in their order, none but parameter sets and SEIs if
\* nothing is counted; the first packet of a P frame is there only if it started the
\* buffer anew.
InOrder(v) ==
  /\ v.usRtpCnt = 0 => \A i \in 1..Len(v.buf) : IsParam(v.buf[i])
  /\ ~v.bLenom
  /\ \A i, j \in 1..Len(v.buf) : i < j => v.buf[j].no - v.buf[i].no >= j - i
  /\ \A i \in 2..Len(v.buf) :
       v.buf[i].kind = "start" /\ v.buf[i].type = P => v.buf[i].index # 1

\* The timestamp is one of a packet sent.
Stamped == u.uTimeStamp = 0 \/ \E m \in 0..(Len(sent) - 1) : u.uTimeStamp = Stream[m].frame

\* The slice's beginning, if it is there, is the first packet counted, and not all
\* are counted if there are parameter sets or SEIs behind it.
CountedFrom(v, k) ==
  /\ BeginsSlice(v.buf[k]) /\ v.buf[k].usSeq = v.usRtpSSeq
  /\ \A i \in 1..(k - 1) : IsParam(v.buf[i])
  /\ v.usRtpCnt <= Len(v.buf) - k + 1
  /\ (\E i \in (k + 1)..Len(v.buf) : IsParam(v.buf[i])) => v.usRtpCnt <= Len(v.buf) - k

Counted(v) == v.usRtpSSeq # -1 => \E k \in 1..Len(v.buf) : CountedFrom(v, k)

\* The k-th packet of f begins the one slice of a frame that f ends with.
SliceAt(f, k) ==
  /\ \A i \in 1..(k - 1) : IsParam(f[i])
  /\ \A i \in k..Len(f) :
       /\ ~IsParam(f[i]) /\ f[i].frame = f[Len(f)].frame
       /\ f[i].no = f[Len(f)].no - Len(f) + i
  /\ f[k].kind \in {"first", "start"}
  /\ f[k].index = 1 \/ (f[k].index = 2 /\ Stream[f[k].no - 1].kind = "SEI")

WholeIn(f) ==
  Len(f) > 0 /\ f[Len(f)].index = f[Len(f)].size /\ \E k \in 1..Len(f) : SliceAt(f, k)

CountInv ==
  simple => /\ OneSlice /\ InOrder(u) /\ Stamped /\ Counted(u)
            /\ FinishedP => WholeIn(preFrame)

\* Parameter sets are kinds of their own.
LEMMA KindFacts ==
  ASSUME StreamType, StreamInv, NEW n \in 0..(Total - 1)
  PROVE  /\ Stream[n] \in PacketType
         /\ Stream[n].type = 0 => Stream[n].kind \in {"VPS", "SPS", "PPS"} /\ IsParam(Stream[n])
         /\ Stream[n].type # 0 => /\ Stream[n].kind \in Kinds
                                  /\ IsParam(Stream[n]) <=> Stream[n].kind = "SEI"
         /\ Stream[n].type # 0 /\ Stream[n].index = Stream[n].size => ~IsParam(Stream[n])
         /\ Stream[n].ucMarker <=> Stream[n].index = Stream[n].size
<1>1. Numbered(n) /\ Parameters(n) /\ Sliced(n)
  BY DEF StreamInv
<1>2. Stream[n].index \in Nat \ {0} /\ Stream[n].index <= Stream[n].size /\ Stream[n].size \in Nat
  BY WholeStream
<1>3. ASSUME Stream[n].type = 0
      PROVE  Stream[n].kind \in {"VPS", "SPS", "PPS"} /\ IsParam(Stream[n])
  <2>1. Stream[n].kind = ParamSets[Stream[n].index] /\ Stream[n].index \in 1..Len(ParamSets)
    BY <1>1, <1>2, <1>3 DEF Parameters
  <2>2. CASE u.nCodecID = "H264"
    <3>1. ParamSets = <<"SPS", "PPS">>
      BY <2>2 DEF ParamSets
    <3>2. QED
      BY <2>1, <3>1 DEF IsParam
  <2>3. CASE u.nCodecID # "H264"
    <3>1. ParamSets = <<"VPS", "SPS", "PPS">>
      BY <2>3 DEF ParamSets
    <3>2. QED
      BY <2>1, <3>1 DEF IsParam
  <2>4. QED
    BY <2>2, <2>3
<1>4. ASSUME Stream[n].type # 0
      PROVE  /\ Stream[n].kind \in Kinds
             /\ IsParam(Stream[n]) <=> Stream[n].kind = "SEI"
             /\ Stream[n].index = Stream[n].size => ~IsParam(Stream[n])
  BY <1>1, <1>4 DEF Sliced, Kinds, IsParam
<1>5. QED
  BY <1>1, <1>3, <1>4 DEF Numbered

\* With one slice, an end is a frame's end, and its slice's start is the frame's first
\* packet or comes after a SEI that is.
LEMMA OneSliceFacts ==
  ASSUME StreamType, StreamInv, OneSlice, NEW n \in 0..(Total - 1), Stream[n].type # 0
  PROVE  /\ Stream[n].kind # "next"
         /\ Stream[n].kind \in {"first", "end"} => Stream[n].index = Stream[n].size
         /\ BeginsSlice(Stream[n]) /\ Stream[n].index # 1 =>
              /\ Stream[n].index = 2 /\ n - 1 \in 0..(Total - 1)
              /\ Stream[n - 1].kind = "SEI" /\ Stream[n - 1].frame = Stream[n].frame
         /\ Stream[n].kind = "end" =>
              \E m \in 0..(n - 1) : /\ Stream[m].frame = Stream[n].frame
                                    /\ Stream[m].kind = "start" /\ Stream[m].type = Stream[n].type
<1>1. /\ Sliced(n) /\ Followed(n) /\ n \in Nat /\ Total \in Nat
      /\ Stream[n].index \in Nat \ {0} /\ Stream[n].size \in Nat
      /\ Stream[n].index <= Stream[n].size /\ Stream[n].index <= n + 1
      /\ n - Stream[n].index + Stream[n].size < Total
  BY WholeStream, StreamFacts DEF StreamInv
<1>2. ASSUME Stream[n].kind \in {"next", "middle", "end"}
      PROVE  \E m \in 0..(n - 1) : /\ m \in 0..(Total - 1) /\ Stream[m].frame = Stream[n].frame
                                   /\ BeginsSlice(Stream[m]) /\ m # n
                                   /\ Stream[m].type = Stream[n].type
                                   /\ Stream[m].index < Stream[m].size
  <2>1. PICK m \in 0..(n - 1) : Stream[m].frame = Stream[n].frame /\ BeginsSlice(Stream[m])
    BY <1>1, <1>2 DEF Sliced
  <2>2. m \in 0..(Total - 1) /\ m # n /\ m < n
    BY <1>1, <2>1
  <2>3. Placed(m, n)
    BY <2>2 DEF StreamInv
  <2>4. Stream[m].index \in Nat
    BY <2>2, WholeStream
  <2>5. /\ Stream[m].type = Stream[n].type /\ Stream[m].size = Stream[n].size
        /\ Stream[m].index - Stream[n].index = m - n
    BY <2>1, <2>3 DEF Placed
  <2>6. Stream[m].index < Stream[m].size
    BY <1>1, <2>2, <2>4, <2>5
  <2>7. QED
    BY <2>1, <2>2, <2>5, <2>6
<1>3. ASSUME NEW m \in 0..(Total - 1), Stream[m].type # 0, Stream[m].index < Stream[m].size,
             Stream[m].kind \in {"first", "next", "end"}
      PROVE  /\ m + 1 \in 0..(Total - 1) /\ BeginsSlice(Stream[m + 1])
             /\ Stream[m + 1].frame = Stream[m].frame
  <2>1. /\ m \in Nat /\ Stream[m].index \in Nat \ {0} /\ Stream[m].size \in Nat
        /\ m - Stream[m].index + Stream[m].size < Total /\ Followed(m)
    BY WholeStream DEF StreamInv
  <2>2. m + 1 \in 0..(Total - 1)
    BY <1>1, <1>3, <2>1
  <2>3. BeginsSlice(Stream[m + 1])
    BY <1>3, <2>1 DEF Followed, BeginsSlice
  <2>4. Placed(m + 1, m)
    BY <2>2 DEF StreamInv
  <2>5. (m + 1) - m \in (1 - Stream[m].index)..(Stream[m].size - Stream[m].index)
    BY <1>3, <2>1
  <2>6. QED
    BY <2>2, <2>3, <2>4, <2>5 DEF Placed
<1>4. Stream[n].kind # "next"
  <2>1. SUFFICES ASSUME Stream[n].kind = "next" PROVE FALSE
    OBVIOUS
  <2>2. BeginsSlice(Stream[n])
    BY <2>1 DEF BeginsSlice
  <2>3. QED
    BY <1>2, <2>1, <2>2 DEF OneSlice
<1>5. Stream[n].kind = "first" => Stream[n].index = Stream[n].size
  <2>1. SUFFICES ASSUME Stream[n].kind = "first", Stream[n].index < Stream[n].size PROVE FALSE
    BY <1>1
  <2>2. BeginsSlice(Stream[n])
    BY <2>1 DEF BeginsSlice
  <2>3. n + 1 \in 0..(Total - 1) /\ BeginsSlice(Stream[n + 1]) /\ Stream[n + 1].frame = Stream[n].frame
    BY <1>3, <2>1
  <2>4. n + 1 = n
    BY <2>2, <2>3 DEF OneSlice
  <2>5. QED
    BY <1>1, <2>4
<1>6. Stream[n].kind = "end" => Stream[n].index = Stream[n].size
  <2>1. SUFFICES ASSUME Stream[n].kind = "end", Stream[n].index < Stream[n].size PROVE FALSE
    BY <1>1
  <2>2. PICK m \in 0..(n - 1) : m \in 0..(Total - 1) /\ Stream[m].frame = Stream[n].frame
                               /\ BeginsSlice(Stream[m])
    BY <1>2, <2>1
  <2>3. n + 1 \in 0..(Total - 1) /\ BeginsSlice(Stream[n + 1]) /\ Stream[n + 1].frame = Stream[n].frame
    BY <1>3, <2>1
  <2>4. n + 1 = m
    BY <2>2, <2>3 DEF OneSlice
  <2>5. QED
    BY <1>1, <2>2, <2>4
<1>7. ASSUME Stream[n].kind = "end"
      PROVE  \E m \in 0..(n - 1) : /\ Stream[m].frame = Stream[n].frame
                                   /\ Stream[m].kind = "start" /\ Stream[m].type = Stream[n].type
  <2>1. PICK m \in 0..(n - 1) : /\ m \in 0..(Total - 1) /\ Stream[m].frame = Stream[n].frame
                               /\ BeginsSlice(Stream[m]) /\ m # n
                               /\ Stream[m].type = Stream[n].type
                               /\ Stream[m].index < Stream[m].size
    BY <1>2, <1>7
  <2>2. SUFFICES ASSUME Stream[m].kind # "start" PROVE FALSE
    BY <2>1
  <2>3. Stream[m].kind \in {"first", "next"}
    BY <2>1, <2>2 DEF BeginsSlice
  <2>4. m + 1 \in 0..(Total - 1) /\ BeginsSlice(Stream[m + 1]) /\ Stream[m + 1].frame = Stream[m].frame
    BY <1>3, <2>1, <2>3
  <2>5. m + 1 = m
    BY <2>1, <2>4 DEF OneSlice
  <2>6. QED
    BY <2>1, <2>5
<1>8. ASSUME BeginsSlice(Stream[n]), Stream[n].index # 1
      PROVE  /\ Stream[n].index = 2 /\ n - 1 \in 0..(Total - 1)
             /\ Stream[n - 1].kind = "SEI" /\ Stream[n - 1].frame = Stream[n].frame
  <2> DEFINE m == n - Stream[n].index + 1
  <2>1. m \in 0..(Total - 1) /\ m < n /\ m \in Nat
    BY <1>1, <1>8
  <2>2. Placed(m, n) /\ m - n \in (1 - Stream[n].index)..(Stream[n].size - Stream[n].index)
    <3>1. Placed(m, n)
      BY <2>1 DEF StreamInv
    <3>2. m - n = 1 - Stream[n].index
      BY <1>1
    <3>3. QED
      BY <1>1, <3>1, <3>2
  <2>3. Stream[m].index \in Nat
    BY <2>1, WholeStream
  <2> DEFINE d == m - n
  <2>4. Stream[m].frame = Stream[n].frame /\ Stream[m].index - Stream[n].index = m - n
        /\ Stream[m].type = Stream[n].type /\ Stream[m].size = Stream[n].size
    BY <2>2 DEF Placed
  <2>5. Stream[m].index = 1
    <3>1. m - n = 1 - Stream[n].index
      BY <1>1
    <3> HIDE DEF m
    <3>2. QED
      BY <1>1, <2>1, <2>3, <2>4, <3>1
  <2>6. Stream[m].kind \in {"SEI", "first", "start"} /\ Followed(m)
    BY <2>1, <2>4, <2>5 DEF StreamInv, Sliced
  <2>7. Stream[m].kind = "SEI"
    <3>1. ~BeginsSlice(Stream[m])
      <4> HIDE DEF m
      <4>1. SUFFICES ASSUME BeginsSlice(Stream[m]) PROVE FALSE
        OBVIOUS
      <4>2. m = n
        BY <1>8, <2>1, <2>4, <4>1 DEF OneSlice
      <4>3. QED
        BY <1>1, <2>1, <4>2
    <3>2. QED
      BY <2>6, <3>1 DEF BeginsSlice
  <2>8. m + 1 \in 0..(Total - 1) /\ Placed(m + 1, n)
    <3>1. m + 1 \in 0..(Total - 1)
      BY <1>1, <2>1
    <3>2. QED
      BY <3>1 DEF StreamInv
  <2>9. Stream[m + 1].frame = Stream[n].frame
    <3>1. (m + 1) - n \in (1 - Stream[n].index)..(Stream[n].size - Stream[n].index)
      BY <1>1, <1>8
    <3> HIDE DEF m
    <3>2. QED
      BY <2>8, <3>1 DEF Placed
  <2>10. BeginsSlice(Stream[m + 1])
    <3>1. Stream[m].index < Stream[m].size
      <4> HIDE DEF m
      <4>1. QED
        BY <1>1, <1>8, <2>4, <2>5
    <3>2. QED
      BY <2>4, <2>6, <2>7, <3>1 DEF Followed, BeginsSlice
  <2>11. m + 1 = n
    <3> HIDE DEF m
    <3>1. QED
      BY <1>8, <2>8, <2>9, <2>10 DEF OneSlice
  <2>12. Stream[n].index = 2 /\ n - 1 = m
    BY <1>1, <2>11
  <2>13. QED
    BY <2>1, <2>4, <2>7, <2>12
<1>9. QED
  BY <1>4, <1>5, <1>6, <1>7, <1>8

\* The next packet put behind those held: they stay in order.
LEMMA HeldInOrder ==
  ASSUME TypeInv, StreamInv, BufInv, OneSlice, InOrder(u), Stamped, todo # <<>>
  PROVE  InOrder(Holding(Stream[Len(sent)]))
<1> DEFINE n == Len(sent)
           p == Stream[n]
           v == Holding(p)
           b == Len(u.buf)
<1>1. StreamType /\ u \in Unpackers
  BY DEF TypeInv, StreamType, Unpackers
<1>2. n \in 0..(Total - 1) /\ n \in Nat /\ Total \in Nat
  BY <1>1, EdgeFacts, StreamFacts
<1>3. /\ p \in PacketType /\ p.no = n /\ p.uTimeStamp = p.frame
      /\ p.index \in Nat \ {0} /\ p.frame \in Nat
  BY <1>1, <1>2, WholeStream, KindFacts
<1>4. /\ Len(v.buf) = (IF Forgets(p) \/ Anew(p) THEN 1 ELSE b + 1)
      /\ Len(v.buf) \in Nat \ {0} /\ v.buf[Len(v.buf)] = p /\ b \in Nat
      /\ \A i \in 1..(Len(v.buf) - 1) :
           ~Forgets(p) /\ ~Anew(p) /\ i \in 1..b /\ v.buf[i] = u.buf[i]
  <2>1. Len(u.buf) \in Nat
    BY <1>3, HeldFacts
  <2>2. QED
    BY <1>3, <2>1, HeldFacts
<1>5. \A i \in 1..b : u.buf[i].no \in 0..(n - 1) /\ u.buf[i] = Stream[u.buf[i].no]
  BY DEF BufInv, WasSent
<1>6. \A i, j \in 1..b : i < j => u.buf[j].no - u.buf[i].no >= j - i
  BY DEF InOrder
<1>7. v.usRtpCnt = 0 => \A i \in 1..Len(v.buf) : IsParam(v.buf[i])
  <2>1. /\ v.usRtpCnt = (IF Forgets(p) \/ Anew(p) THEN 0 ELSE u.usRtpCnt) + (IF IsParam(p) THEN 0 ELSE 1)
        /\ u.usRtpCnt \in Nat
    BY <1>1, <1>3, HoldingFacts DEF Unpackers
  <2>2. SUFFICES ASSUME v.usRtpCnt = 0, NEW i \in 1..Len(v.buf) PROVE IsParam(v.buf[i])
    OBVIOUS
  <2> HIDE DEF v, p
  <2>3. IsParam(p) /\ (~Forgets(p) /\ ~Anew(p) => u.usRtpCnt = 0)
    BY <2>1, <2>2
  <2>4. CASE i = Len(v.buf)
    BY <1>4, <2>3, <2>4
  <2>5. CASE i # Len(v.buf)
    <3>1. i \in 1..(Len(v.buf) - 1)
      BY <1>4, <2>5
    <3>2. /\ i \in 1..Len(u.buf) /\ v.buf[i] = u.buf[i] /\ u.usRtpCnt = 0
      BY <1>4, <2>3, <3>1
    <3>3. QED
      BY <3>2 DEF InOrder
  <2>6. QED
    BY <2>4, <2>5
<1>8. ~v.bLenom
  <2>1. v.bLenom <=> IF p.kind = "end" THEN ~ucMarker(p) ELSE u.bLenom /\ ~Forgets(p) /\ ~Anew(p)
    BY <1>1, <1>3, HoldingFacts
  <2>2. p.kind = "end" => ucMarker(p)
    <3>1. SUFFICES ASSUME p.kind = "end" PROVE ucMarker(p)
      OBVIOUS
    <3>2. p.type # 0
      BY <1>1, <1>2, <3>1, KindFacts
    <3>3. p.index = p.size
      BY <1>1, <1>2, <3>1, <3>2, OneSliceFacts
    <3>4. p.ucMarker /\ ~IsParam(p)
      BY <1>1, <1>2, <3>2, <3>3, KindFacts
    <3>5. QED
      BY <3>4 DEF ucMarker
  <2>3. ~u.bLenom
    BY DEF InOrder
  <2> HIDE DEF v, p
  <2>4. QED
    BY <2>1, <2>2, <2>3
<1>9. ASSUME NEW i \in 1..Len(v.buf), NEW j \in 1..Len(v.buf), i < j
      PROVE  v.buf[j].no - v.buf[i].no >= j - i
  <2> HIDE DEF v, p
  <2>1. i \in 1..(Len(v.buf) - 1) /\ Len(v.buf) = b + 1
    BY <1>4, <1>9
  <2>2. i \in 1..b /\ v.buf[i] = u.buf[i] /\ u.buf[i].no \in 0..(n - 1)
    BY <1>4, <1>5, <2>1
  <2>3. CASE j < Len(v.buf)
    <3>1. j \in 1..(Len(v.buf) - 1)
      BY <1>4, <2>3
    <3>2. j \in 1..b /\ v.buf[j] = u.buf[j]
      BY <1>4, <3>1
    <3>3. u.buf[j].no - u.buf[i].no >= j - i
      BY <1>6, <1>9, <2>2, <3>2
    <3>4. QED
      BY ONLY <2>2, <3>2, <3>3
  <2>4. CASE j = Len(v.buf)
    <3>1. v.buf[j].no = n /\ j = b + 1
      BY <1>3, <1>4, <2>1, <2>4
    <3>2. CASE i = b
      BY <1>2, <1>4, <2>2, <3>1, <3>2
    <3>3. CASE i < b
      <4>1. b \in 1..b /\ i \in Nat
        BY <1>4, <2>2, <3>3
      <4>2. u.buf[b].no - u.buf[i].no >= b - i /\ u.buf[b].no \in 0..(n - 1)
        BY <1>5, <1>6, <2>2, <3>3, <4>1
      <4> DEFINE x == u.buf[i].no
                 y == u.buf[b].no
      <4>3. y - x >= b - i /\ y \in 0..(n - 1) /\ x \in Nat /\ n \in Nat /\ b \in Nat /\ i \in Nat
        BY <1>2, <1>4, <2>2, <4>1, <4>2
      <4>4. v.buf[j].no = n /\ v.buf[i].no = x /\ j = b + 1
        BY <2>2, <3>1
      <4> HIDE DEF x, y, n, b
      <4>5. n - x >= (b + 1) - i
        BY ONLY <4>3
      <4>6. QED
        BY ONLY <4>4, <4>5
    <3>4. QED
      BY <1>4, <2>2, <3>2, <3>3
  <2>5. QED
    BY <1>4, <2>3, <2>4
<1>10. ASSUME NEW i \in 2..Len(v.buf), v.buf[i].kind = "start", v.buf[i].type = P
       PROVE  v.buf[i].index # 1
  <2>1. CASE i = Len(v.buf)
    <3>1. SUFFICES ASSUME p.index = 1 PROVE FALSE
      BY <1>4, <2>1
    <3>2. ~Anew(p) /\ p.kind = "start" /\ p.type = P
      <4> HIDE DEF v, p
      <4>1. Len(v.buf) # 1
        BY <1>4, <2>1
      <4>2. 1 \in 1..(Len(v.buf) - 1)
        BY <1>4, <4>1
      <4>3. QED
        BY <1>4, <1>10, <2>1, <4>2
    <3>3. u.uTimeStamp = p.frame
      <4>1. ~u.bLenom
        BY DEF InOrder
      <4> HIDE DEF v, p
      <4>2. QED
        BY <1>3, <3>2, <4>1 DEF Anew
    <3>4. p.frame >= 1
      <4> HIDE DEF v, p
      <4>1. p.frame \in 1..NumPackets
        BY <1>3 DEF PacketType
      <4>2. QED
        BY <4>1, Assumption
    <3>5. PICK m \in 0..(n - 1) : p.frame = Stream[m].frame
      BY <3>3, <3>4 DEF Stamped
    <3>6. m \in 0..(Total - 1) /\ m < n /\ m \in Nat
      BY <1>2, <3>5
    <3>7. Placed(m, n)
      BY <1>2, <3>6 DEF StreamInv
    <3>8. Stream[m].index - p.index = m - n /\ Stream[m].index \in Nat \ {0}
      BY <1>1, <3>5, <3>6, <3>7, WholeStream DEF Placed
    <3> HIDE DEF p
    <3>9. QED
      BY <1>2, <3>1, <3>6, <3>8
  <2>2. CASE i # Len(v.buf)
    <3> HIDE DEF v, p
    <3>1. i \in 1..(Len(v.buf) - 1) /\ i >= 2
      BY <1>4, <2>2
    <3>2. i \in 2..Len(u.buf) /\ v.buf[i] = u.buf[i]
      BY <1>4, <3>1
    <3>3. QED
      BY <1>10, <3>2 DEF InOrder
  <2>3. QED
    BY <2>1, <2>2
<1>11. QED
  BY <1>7, <1>8, <1>9, <1>10 DEF InOrder

\* The count still begins where the slice does.
LEMMA HeldCounted ==
  ASSUME TypeInv, StreamInv, BufInv, OneSlice, InOrder(u), Counted(u), todo # <<>>,
         ~BehindRemnant(Stream[Len(sent)], u),
         Stream[Len(sent)].kind = "first" => Stream[Len(sent)].type = P
  PROVE  Counted(Holding(Stream[Len(sent)]))
<1> DEFINE n == Len(sent)
           p == Stream[n]
           v == Holding(p)
           b == Len(u.buf)
<1>1. StreamType /\ u \in Unpackers /\ n \in 0..(Total - 1)
  BY EdgeFacts DEF TypeInv, StreamType, Unpackers
<1>2. p \in PacketType /\ (p.kind = "first" => Anew(p)) /\ p.usSeq # -1
  <2>1. p \in PacketType
    BY <1>1, KindFacts
  <2>2. p.usSeq \in 0..(SeqMod - 1)
    BY <2>1 DEF PacketType
  <2>3. QED
    BY <2>1, <2>2, Assumption DEF Anew
<1>3. /\ v.usRtpCnt = (IF Forgets(p) \/ Anew(p) THEN 0 ELSE u.usRtpCnt) + (IF IsParam(p) THEN 0 ELSE 1)
      /\ v.usRtpSSeq =
              IF Forgets(p) THEN -1
              ELSE IF p.kind = "first" \/ Anew(p) \/ (p.kind = "start" /\ u.usRtpSSeq = -1)
              THEN p.usSeq ELSE u.usRtpSSeq
      /\ u.usRtpCnt \in Nat
      /\ CheckNal(p, u).usRtpCnt = IF Forgets(p) \/ Anew(p) THEN 0 ELSE u.usRtpCnt
  BY <1>1, <1>2, HoldingFacts DEF Unpackers
<1>4. /\ Len(v.buf) = (IF Forgets(p) \/ Anew(p) THEN 1 ELSE b + 1)
      /\ Len(v.buf) \in Nat \ {0} /\ v.buf[Len(v.buf)] = p /\ b \in Nat
      /\ \A i \in 1..(Len(v.buf) - 1) :
           ~Forgets(p) /\ ~Anew(p) /\ i \in 1..b /\ v.buf[i] = u.buf[i]
  <2>1. Len(u.buf) \in Nat
    BY <1>2, HeldFacts
  <2>2. QED
    BY <1>2, <2>1, HeldFacts
<1>5. p.kind = "start" => /\ ~IsParam(p) /\ BeginsSlice(p)
                          /\ u.usRtpSSeq = -1 /\ ~Forgets(p) /\ ~Anew(p) => u.usRtpCnt = 0
  BY <1>3 DEF BehindRemnant, IsParam, BeginsSlice
<1>6. Anew(p) => ~Forgets(p) /\ ~IsParam(p) /\ BeginsSlice(p)
  BY DEF Anew, Forgets, IsParam, BeginsSlice
<1>7. u.usRtpCnt = 0 => \A i \in 1..b : IsParam(u.buf[i])
  BY DEF InOrder
<1>8. u.usRtpSSeq # -1 =>
        \E k \in 1..b :
          /\ BeginsSlice(u.buf[k]) /\ u.buf[k].usSeq = u.usRtpSSeq
          /\ \A i \in 1..(k - 1) : IsParam(u.buf[i])
          /\ u.usRtpCnt <= b - k + 1
          /\ (\E i \in (k + 1)..b : IsParam(u.buf[i])) => u.usRtpCnt <= b - k
  BY DEF Counted, CountedFrom
<1> HIDE DEF v, p, b
<1>9. SUFFICES ASSUME v.usRtpSSeq # -1 PROVE \E k \in 1..Len(v.buf) : CountedFrom(v, k)
  BY DEF Counted, v, p
<1>10. ~Forgets(p)
  BY <1>3, <1>9
<1>11. CASE Anew(p)
  <2>1. v.usRtpCnt = 1 /\ v.usRtpSSeq = p.usSeq /\ Len(v.buf) = 1 /\ v.buf[1] = p
    BY <1>3, <1>4, <1>6, <1>11
  <2>2. CountedFrom(v, 1)
    BY <1>6, <1>11, <2>1 DEF CountedFrom
  <2>3. QED
    BY <2>1, <2>2
<1>12. CASE ~Anew(p) /\ p.kind = "start" /\ u.usRtpSSeq = -1
  <2>1. v.usRtpCnt = 1 /\ v.usRtpSSeq = p.usSeq /\ Len(v.buf) = b + 1 /\ BeginsSlice(p)
        /\ \A i \in 1..b : IsParam(u.buf[i])
    BY <1>3, <1>4, <1>5, <1>7, <1>10, <1>12
  <2>2. v.buf[b + 1] = p /\ \A i \in 1..b : v.buf[i] = u.buf[i]
    BY <1>4, <2>1
  <2>3. CountedFrom(v, b + 1)
    <3>1. \A i \in 1..((b + 1) - 1) : IsParam(v.buf[i])
      BY <1>4, <2>1, <2>2
    <3>2. Len(v.buf) - (b + 1) + 1 = 1 /\ ~\E i \in ((b + 1) + 1)..Len(v.buf) : IsParam(v.buf[i])
      BY <1>4, <2>1
    <3>3. QED
      BY <2>1, <2>2, <3>1, <3>2 DEF CountedFrom
  <2>4. b + 1 \in 1..Len(v.buf)
    BY <1>4, <2>1
  <2>5. QED
    BY <2>3, <2>4
<1>13. CASE ~Anew(p) /\ ~(p.kind = "start" /\ u.usRtpSSeq = -1)
  <2>1. v.usRtpSSeq = u.usRtpSSeq /\ u.usRtpSSeq # -1 /\ Len(v.buf) = b + 1
        /\ v.usRtpCnt = u.usRtpCnt + (IF IsParam(p) THEN 0 ELSE 1)
    BY <1>2, <1>3, <1>4, <1>9, <1>10, <1>13
  <2>2. v.buf[b + 1] = p /\ \A i \in 1..b : v.buf[i] = u.buf[i]
    BY <1>4, <2>1
  <2>3. PICK k \in 1..b :
          /\ BeginsSlice(u.buf[k]) /\ u.buf[k].usSeq = u.usRtpSSeq
          /\ \A i \in 1..(k - 1) : IsParam(u.buf[i])
          /\ u.usRtpCnt <= b - k + 1
          /\ (\E i \in (k + 1)..b : IsParam(u.buf[i])) => u.usRtpCnt <= b - k
    BY <1>8, <2>1
  <2>4. k \in Nat /\ k \in 1..Len(v.buf) /\ v.buf[k] = u.buf[k]
    BY <1>4, <2>1, <2>2
  <2>5. \A i \in 1..(k - 1) : IsParam(v.buf[i])
    BY <1>4, <2>2, <2>3, <2>4
  <2>6. v.usRtpCnt <= Len(v.buf) - k + 1
    BY <1>3, <1>4, <2>1, <2>3, <2>4
  <2>7. ASSUME NEW i \in (k + 1)..Len(v.buf), IsParam(v.buf[i])
        PROVE  v.usRtpCnt <= Len(v.buf) - k
    <3>1. CASE i = b + 1
      <4>1. v.usRtpCnt = u.usRtpCnt
        BY <1>3, <2>1, <2>2, <2>7, <3>1
      <4>2. QED
        BY <1>3, <1>4, <2>1, <2>3, <2>4, <4>1
    <3>2. CASE i # b + 1
      <4>1. i \in (k + 1)..b /\ i \in 1..b
        BY <1>4, <2>1, <2>4, <3>2
      <4>2. u.usRtpCnt <= b - k
        BY <2>2, <2>3, <2>7, <4>1
      <4>3. QED
        BY <1>3, <1>4, <2>1, <2>4, <4>2
    <3>3. QED
      BY <3>1, <3>2
  <2>8. CountedFrom(v, k)
    BY <2>1, <2>3, <2>4, <2>5, <2>6, <2>7 DEF CountedFrom
  <2>9. QED
    BY <2>4, <2>8
<1>14. QED
  BY <1>11, <1>12, <1>13

\* A sequence of packets held in order ends with the packets of a slice if their number
\* is the distance of the sequence numbers of its beginning and its end.
LEMMA CountIsWhole ==
  ASSUME TypeInv, StreamInv, OneSlice, NumPackets < SeqMod,
         NEW v \in Unpackers, InOrder(v), Counted(v),
         NEW n \in 0..(Total - 1), Stream[n].type = P, Stream[n].index = Stream[n].size,
         Stream[n].kind = "first" => Len(v.buf) = 1,
         Len(v.buf) > 0, v.buf[Len(v.buf)] = Stream[n],
         \A i \in 1..Len(v.buf) : v.buf[i].no \in 0..n /\ v.buf[i] = Stream[v.buf[i].no],
         v.usRtpCnt \in 1..Len(v.buf),
         (Stream[n].usSeq + 1 + SeqMod - v.usRtpSSeq) % SeqMod = v.usRtpCnt
  PROVE  WholeIn(v.buf)
<1> DEFINE p == Stream[n]
           b == Len(v.buf)
           c == v.usRtpCnt
           M == SeqMod
<1>1. /\ StreamType /\ n \in Nat /\ Total \in Nat /\ Total <= NumPackets
      /\ M \in Nat \ {0} /\ NumPackets \in Nat /\ v.buf \in Seq(PacketType)
      /\ b \in Nat \ {0} /\ c \in 1..b /\ c \in Nat
  <2>1. StreamType
    BY DEF TypeInv, StreamType, Unpackers
  <2>2. v.buf \in Seq(PacketType)
    BY DEF Unpackers
  <2>3. QED
    BY <2>1, <2>2, StreamFacts, Assumption DEF StreamInv
<1>2. n < NumPackets /\ n + 1 < M
  BY <1>1
<1>3. /\ p \in PacketType /\ p.no = n /\ p.usSeq = n % M /\ ~IsParam(p) /\ p.kind \in Kinds
      /\ p.index \in Nat \ {0} /\ p.index <= n + 1 /\ p.size \in Nat
  <2>1. p.type # 0
    BY DEF P
  <2>2. Numbered(n)
    BY DEF StreamInv
  <2>3. QED
    BY <1>1, <2>1, <2>2, KindFacts, WholeStream DEF Numbered
<1>4. n % M = n /\ p.usSeq = n
  <2>1. n \in 0..(M - 1)
    BY <1>1, <1>2
  <2>2. QED
    BY <1>1, <1>3, <2>1, ModOfSmall
<1>5. /\ \A i, j \in 1..b : i < j => v.buf[j].no - v.buf[i].no >= j - i
      /\ \A i \in 1..b : v.buf[i].no \in 0..n /\ v.buf[i] = Stream[v.buf[i].no]
      /\ v.buf[b].no = n
  BY <1>3 DEF InOrder
<1>6. b <= n + 1
  <2>1. 1 \in 1..b /\ b \in 1..b
    BY <1>1
  <2>2. CASE b = 1
    BY <1>1, <2>2
  <2>3. CASE b > 1
    <3>1. v.buf[b].no - v.buf[1].no >= b - 1 /\ v.buf[1].no \in 0..n
      BY <1>5, <2>1, <2>3
    <3>2. QED
      BY <1>1, <1>5, <3>1
  <2>4. QED
    BY <1>1, <2>2, <2>3
<1>7. (n + 1 + M - v.usRtpSSeq) % M = c
  BY <1>4
<1> HIDE DEF p, b, c, M
<1>8. v.usRtpSSeq # -1
  <2>1. SUFFICES ASSUME v.usRtpSSeq = -1 PROVE FALSE
    OBVIOUS
  <2> DEFINE a == M + (n + 2)
  <2>2. n + 1 + M - v.usRtpSSeq = a /\ a \in Int
    BY <1>1, <2>1
  <2>3. a \in Int /\ a % M = c
    <3> HIDE DEF a
    <3>1. QED
      BY <1>7, <2>2
  <2>4. CASE n + 2 < M
    <3>1. Splits(a, M, 1, n + 2)
      BY <1>1, <2>4 DEF Splits
    <3>2. a % M = n + 2
      BY <1>1, <2>3, <3>1, DivModUnique
    <3>3. QED
      BY <1>1, <1>6, <2>3, <3>2
  <2>5. CASE n + 2 = M
    <3>1. Splits(a, M, 2, 0)
      BY <1>1, <2>5 DEF Splits
    <3>2. a % M = 0
      BY <1>1, <2>3, <3>1, DivModUnique
    <3>3. QED
      BY <1>1, <2>3, <3>2
  <2>6. QED
    BY <1>1, <1>2, <2>4, <2>5
<1>9. PICK k \in 1..b : CountedFrom(v, k)
  BY <1>8 DEF Counted, b
<1> DEFINE s == v.buf[k].no
<1>10. /\ BeginsSlice(v.buf[k]) /\ v.buf[k].usSeq = v.usRtpSSeq
       /\ \A i \in 1..(k - 1) : IsParam(v.buf[i])
       /\ c <= b - k + 1
       /\ (\E i \in (k + 1)..b : IsParam(v.buf[i])) => c <= b - k
  BY <1>9 DEF CountedFrom, b, c
<1>11. /\ s \in 0..n /\ s \in Nat /\ s \in 0..(Total - 1) /\ v.buf[k] = Stream[s]
       /\ k \in Nat /\ k >= 1 /\ k <= b
  BY SMTT(30), <1>1, <1>5
<1> HIDE DEF s
<1>12. v.usRtpSSeq = s
  <2>1. Numbered(s)
    BY <1>11 DEF StreamInv
  <2>2. s \in 0..(M - 1)
    BY <1>1, <1>2, <1>11
  <2>3. s % M = s
    BY <1>1, <2>2, ModOfSmall
  <2>4. QED
    BY <1>10, <1>11, <2>1, <2>3 DEF Numbered, M
<1>13. c = n + 1 - s
  <2> DEFINE a == n + 1 + M - s
  <2>1. Splits(a, M, 1, n + 1 - s) /\ a \in Int
    BY <1>1, <1>2, <1>11 DEF Splits
  <2>2. a % M = n + 1 - s
    BY <1>1, <2>1, DivModUnique
  <2>3. a % M = c
    BY <1>7, <1>12
  <2>4. QED
    BY <2>2, <2>3
<1>14. n - s >= b - k
  <2>1. CASE k = b
    BY <1>1, <1>5, <1>11, <2>1
  <2>2. CASE k < b
    <3>1. b \in 1..b
      BY <1>1
    <3>2. v.buf[b].no - v.buf[k].no >= b - k
      BY <1>5, <2>2, <3>1
    <3>3. QED
      BY <1>5, <3>2 DEF s
  <2>3. QED
    BY <1>1, <1>11, <2>1, <2>2
<1>15. n - s = b - k /\ \A i \in (k + 1)..b : ~IsParam(v.buf[i])
  <2>1. n - s = b - k /\ ~(c <= b - k)
    BY <1>1, <1>10, <1>11, <1>13, <1>14
  <2>2. QED
    BY <1>10, <2>1
<1>16. ASSUME NEW i \in k..b
       PROVE  i \in 1..b /\ v.buf[i].no = n - b + i /\ v.buf[i] = Stream[n - b + i] /\ ~IsParam(v.buf[i])
  <2>1. i \in 1..b /\ i \in Nat
    BY <1>1, <1>11
  <2>2. i = k \/ v.buf[i].no - s >= i - k
    BY <1>5, <1>11, <2>1 DEF s
  <2>3. i = b \/ n - v.buf[i].no >= b - i
    <3>1. b \in 1..b
      BY <1>1
    <3>2. i < b => v.buf[b].no - v.buf[i].no >= b - i
      BY <1>5, <2>1, <3>1
    <3>3. QED
      BY <1>1, <1>5, <2>1, <3>2
  <2>4. v.buf[i].no \in 0..n /\ v.buf[i] = Stream[v.buf[i].no]
    BY <1>5, <2>1
  <2>5. v.buf[i].no = n - b + i
    <3> DEFINE t == v.buf[i].no
    <3>1. t \in 0..n /\ (i = k => t = s) /\ (i = b => t = n)
      BY <1>5, <2>4 DEF s
    <3>2. (i = k \/ t - s >= i - k) /\ (i = b \/ n - t >= b - i)
      BY <2>2, <2>3
    <3> HIDE DEF t
    <3>3. t = n - b + i
      BY <1>1, <1>11, <1>15, <2>1, <3>1, <3>2
    <3>4. QED
      BY <3>3 DEF t
  <2>6. ~IsParam(v.buf[i])
    <3>1. CASE i = k
      BY <1>10, <3>1 DEF BeginsSlice, IsParam
    <3>2. CASE i # k
      <4>1. i \in (k + 1)..b
        BY <1>1, <1>11, <2>1, <3>2
      <4>2. QED
        BY <1>15, <4>1
    <3>3. QED
      BY <3>1, <3>2
  <2>7. QED
    BY <2>1, <2>4, <2>5, <2>6
<1>17. ASSUME NEW m \in s..n
       PROVE  /\ m \in 0..(Total - 1) /\ m \in Nat /\ ~IsParam(Stream[m])
              /\ m > s => Stream[m] = v.buf[m - n + b] /\ m - n + b \in 2..b
  <2> DEFINE i == m - n + b
  <2>1. i \in k..b /\ n - b + i = m /\ (m > s => i \in 2..b) /\ m \in 0..(Total - 1) /\ m \in Nat
    BY <1>1, <1>11, <1>15
  <2>2. v.buf[i] = Stream[m] /\ ~IsParam(v.buf[i])
    BY <1>16, <2>1
  <2>3. QED
    BY <2>1, <2>2
<1>18. p.type # 0 /\ p.kind \in {"first", "end"}
  <2>1. p.type # 0
    BY DEF p, P
  <2>2. Sliced(n) /\ p.kind # "next"
    BY <1>1, <2>1, OneSliceFacts DEF StreamInv, p
  <2>3. QED
    BY <2>1, <2>2 DEF Sliced, p
<1>19. \E m \in 0..n : /\ Stream[m].frame = p.frame /\ BeginsSlice(Stream[m])
                       /\ Stream[m].type = P /\ (m < n => Stream[m].kind = "start")
  <2>1. CASE p.kind = "first"
    <3>1. n \in 0..n /\ BeginsSlice(p) /\ p.type = P
      BY <1>1, <2>1 DEF BeginsSlice, p
    <3>2. QED
      BY <1>1, <3>1 DEF p
  <2>2. CASE p.kind = "end"
    <3>1. PICK m \in 0..(n - 1) : /\ Stream[m].frame = Stream[n].frame
                                 /\ Stream[m].kind = "start" /\ Stream[m].type = Stream[n].type
      BY <1>1, <1>18, <2>2, OneSliceFacts DEF p
    <3>2. m \in 0..n /\ BeginsSlice(Stream[m])
      BY <1>1, <3>1 DEF BeginsSlice
    <3>3. QED
      BY <3>1, <3>2 DEF p
  <2>3. QED
    BY <1>18, <2>1, <2>2
<1>20. PICK m \in 0..n : /\ Stream[m].frame = p.frame /\ BeginsSlice(Stream[m])
                        /\ Stream[m].type = P /\ (m < n => Stream[m].kind = "start")
  BY <1>19
<1>21. m \in 0..(Total - 1) /\ m \in Nat /\ m <= n
  BY <1>1
<1>22. /\ Stream[m].index # 1 => /\ Stream[m].index = 2 /\ m - 1 \in 0..(Total - 1)
                                 /\ Stream[m - 1].kind = "SEI"
       /\ Stream[m].kind \in {"first", "start"}
  <2>1. Stream[m].type # 0
    BY <1>20 DEF P
  <2>2. QED
    BY <1>1, <1>20, <1>21, <2>1, OneSliceFacts DEF BeginsSlice
<1>23. s >= m
  <2>1. SUFFICES ASSUME s < m PROVE FALSE
    BY <1>11, <1>21
  <2>2. m \in s..n /\ m > s
    BY <1>1, <1>11, <1>21, <2>1
  <2>3. Stream[m] = v.buf[m - n + b] /\ m - n + b \in 2..b
    BY <1>17, <2>2
  <2>4. CASE Stream[m].index # 1
    <3>1. m - 1 \in s..n /\ Stream[m - 1].kind = "SEI"
      BY <1>1, <1>11, <1>21, <1>22, <2>1, <2>4
    <3>2. ~IsParam(Stream[m - 1])
      BY <1>17, <3>1
    <3>3. QED
      BY <3>1, <3>2 DEF IsParam
  <2>5. CASE Stream[m].index = 1 /\ m < n
    <3>1. Stream[m].kind = "start" /\ Stream[m].type = P
      BY <1>20, <2>5
    <3>2. \A i \in 2..b : v.buf[i].kind = "start" /\ v.buf[i].type = P => v.buf[i].index # 1
      BY DEF InOrder, b
    <3>3. QED
      BY <2>3, <2>5, <3>1, <3>2
  <2>6. CASE m = n
    <3>1. p.kind = "first"
      BY <1>18, <1>20, <2>6 DEF BeginsSlice, p
    <3>2. b = 1
      BY <3>1 DEF b, p
    <3>3. QED
      BY <1>1, <1>11, <1>15, <2>1, <2>6, <3>2
  <2>7. QED
    BY <1>21, <2>4, <2>5, <2>6
<1>24. ASSUME NEW t \in s..n PROVE Stream[t].frame = p.frame
  <2>1. t \in 0..(Total - 1) /\ t \in Nat
    BY <1>17
  <2>2. Placed(t, n) /\ Placed(m, n)
    BY <1>21, <2>1 DEF StreamInv
  <2>3. Stream[m].index - p.index = m - n /\ Stream[m].index \in Nat \ {0}
    BY <1>1, <1>20, <1>21, <2>2, WholeStream DEF Placed, p
  <2>4. t - n \in (1 - p.index)..(p.size - p.index)
    <3>1. p.size - p.index = 0
      BY <1>3 DEF p
    <3>2. t - n >= m - n /\ t - n <= 0 /\ t - n \in Int
      BY <1>1, <1>11, <1>21, <1>23, <2>1
    <3> DEFINE d == t - n
               e == Stream[m].index
    <3> HIDE DEF d, e
    <3>3. d \in Int /\ d <= 0 /\ d >= e - p.index /\ e >= 1 /\ e \in Nat
      BY <2>3, <3>2 DEF d, e
    <3>4. d >= 1 - p.index
      BY <1>3, <3>3
    <3>5. d \in (1 - p.index)..(p.size - p.index)
      BY <1>3, <3>1, <3>3, <3>4
    <3>6. QED
      BY <3>5 DEF d
  <2>5. QED
    BY <2>2, <2>4 DEF Placed, p
<1>25. s = m
  <2>1. s \in s..n
    BY <1>1, <1>11
  <2>2. Stream[s].frame = Stream[m].frame /\ BeginsSlice(Stream[s])
    BY <1>10, <1>11, <1>20, <1>24, <2>1
  <2>3. QED
    BY <1>11, <1>20, <1>21, <2>2 DEF OneSlice
<1>26. SliceAt(v.buf, k)
  <2>1. ASSUME NEW i \in k..b
        PROVE  /\ ~IsParam(v.buf[i]) /\ v.buf[i].frame = v.buf[b].frame
               /\ v.buf[i].no = v.buf[b].no - b + i
    <3>1. v.buf[i].no = n - b + i /\ v.buf[i] = Stream[n - b + i] /\ ~IsParam(v.buf[i])
      BY <1>16
    <3>2. n - b + i \in s..n
      BY <1>1, <1>11, <1>15
    <3>3. v.buf[b] = p
      BY DEF b, p
    <3>4. QED
      BY <1>3, <1>24, <3>1, <3>2, <3>3
  <2>2. v.buf[k].index = 1 \/ (v.buf[k].index = 2 /\ Stream[s - 1].kind = "SEI")
    BY <1>11, <1>22, <1>25
  <2>3. v.buf[k].kind \in {"first", "start"}
    BY <1>11, <1>22, <1>25
  <2>4. QED
    BY <1>10, <2>1, <2>2, <2>3 DEF SliceAt, b, s
<1>27. QED
  BY <1>1, <1>26 DEF WholeIn, b, p

\* In a group of one-slice frames, what is handed over as a P frame is one.
LEMMA CountReceived ==
  ASSUME TypeInv, StreamInv, BufInv, CountInv, NumPackets < SeqMod, Arrive, simple'
  PROVE  CountInv'
<1> DEFINE n == Len(sent)
           p == Stream[n]
           v == Holding(p)
<1>1. /\ StreamType /\ u \in Unpackers /\ todo # <<>> /\ Advance /\ Head(todo) = p
      /\ n \in 0..(Total - 1) /\ n \in Nat /\ Len(sent') = n + 1
      /\ Stream' = Stream /\ Total' = Total
  <2>1. StreamType /\ u \in Unpackers /\ todo # <<>> /\ Advance
    BY DEF TypeInv, StreamType, Unpackers, Arrive, Advance
  <2>2. QED
    BY <2>1, AdvanceFacts
<1>2. simple /\ ~BehindRemnant(p, u) /\ pjmedia_unpack_rtp_h264(p)
  BY <1>1 DEF Arrive
<1>3. OneSlice /\ InOrder(u) /\ Stamped /\ Counted(u) /\ (FinishedP => WholeIn(preFrame))
  BY <1>2 DEF CountInv
<1>4. /\ p \in PacketType /\ p.no = n /\ p.frame = p.uTimeStamp
      /\ p.ucMarker <=> p.index = p.size
      /\ p.type # 0 => (IsParam(p) <=> p.kind = "SEI")
      /\ p.type # 0 /\ p.index = p.size => ~IsParam(p)
  BY <1>1, WholeStream, KindFacts
<1>h. /\ v \in Unpackers /\ v.uTimeStamp = p.uTimeStamp
      /\ v.usRtpCnt = (IF Forgets(p) \/ Anew(p) THEN 0 ELSE u.usRtpCnt) + (IF IsParam(p) THEN 0 ELSE 1)
      /\ v.iFrameType = IF Forgets(p) THEN I ELSE IF IsParam(p) THEN u.iFrameType ELSE p.type
      /\ u.usRtpCnt \in Nat
  BY <1>1, <1>4, HoldingFacts DEF Unpackers
<1>5. InOrder(v)
  BY <1>1, <1>3, HeldInOrder
<1>6. OneSlice'
  BY <1>1, <1>3 DEF OneSlice
<1>7. ~Ends(p) => u' = v /\ status' # FINISH
  <2>1. ~Ends(p) => u' = v /\ status' \in {START, MIDDLE, ERROR}
    BY <1>1, <1>2, <1>4, ReceivedFacts
  <2>2. FINISH \notin {START, MIDDLE, ERROR}
    BY DEF START, MIDDLE, ERROR, FINISH
  <2>3. QED
    BY <2>1, <2>2
<1>8. Ends(p) => Cleared(u')
  BY <1>1, <1>2, <1>4, ReceivedFacts
<1>9. p.kind = "first" /\ p.type # P => Ends(p)
  <2>1. SUFFICES ASSUME p.kind = "first", p.type # P PROVE Ends(p)
    OBVIOUS
  <2>2. p.type # 0 /\ p.type = I
    <3>1. p.type # 0
      BY <1>1, <2>1, KindFacts
    <3>2. p.type \in {0, I, P}
      BY <1>4 DEF PacketType
    <3>3. QED
      BY <2>1, <3>1, <3>2
  <2>3. p.index = p.size
    BY <1>1, <1>3, <2>1, <2>2, OneSliceFacts
  <2>4. ucMarker(p) /\ ~IsParam(p)
    BY <1>4, <2>2, <2>3 DEF ucMarker
  <2>5. ~Forgets(p)
    BY <2>1 DEF Forgets
  <2>6. v.iFrameType = p.type
    BY <1>1, <1>4, <2>4, <2>5, HoldingFacts
  <2>7. QED
    BY <2>2, <2>4, <2>6 DEF Ends, I
<1>10. ~(p.kind = "first" /\ p.type # P) => Counted(v)
  BY <1>1, <1>2, <1>3, HeldCounted
<1>11. InOrder(u')
  <2>1. CASE Ends(p)
    <3>1. u'.buf = <<>> /\ ~u'.bLenom
      BY <1>8, <2>1 DEF Cleared
    <3>2. QED
      BY <3>1 DEF InOrder
  <2>2. CASE ~Ends(p)
    BY <1>5, <1>7, <2>2
  <2>3. QED
    BY <2>1, <2>2
<1>12. Counted(u')
  <2>1. CASE Ends(p)
    BY <1>8, <2>1 DEF Cleared, Counted
  <2>2. CASE ~Ends(p)
    BY <1>7, <1>9, <1>10, <2>2
  <2>3. QED
    BY <2>1, <2>2
<1>13. Stamped'
  <2>1. CASE Ends(p)
    BY <1>8, <2>1 DEF Cleared, Stamped
  <2>2. CASE ~Ends(p)
    <3>1. u'.uTimeStamp = p.frame
      BY <1>4, <1>h, <1>7, <2>2
    <3>2. n \in 0..(Len(sent') - 1) /\ Stream'[n] = p
      BY <1>1
    <3>3. QED
      BY <3>1, <3>2 DEF Stamped
  <2>3. QED
    BY <2>1, <2>2
<1>14. FinishedP' => WholeIn(v.buf) /\ preFrame' = v.buf
  <2>1. SUFFICES ASSUME FinishedP' PROVE WholeIn(v.buf) /\ preFrame' = v.buf
    OBVIOUS
  <2>2. status' = FINISH /\ Last(preFrame').type = P /\ Ends(p)
    BY <1>7, <2>1 DEF FinishedP
  <2>3. Passes(p) /\ preFrame' = v.buf
    BY <1>1, <1>2, <1>4, <2>2, ReceivedFacts DEF FAILURE, FINISH
  <2>4. /\ v.buf \in Seq(PacketType) /\ Len(v.buf) \in Nat \ {0}
        /\ v.buf[Len(v.buf)] = p /\ v.usRtpCnt \in 0..Len(v.buf)
        /\ Anew(p) => Len(v.buf) = 1
    <3>1. /\ v.buf \in Seq(PacketType) /\ v.usRtpCnt \in 0..Len(v.buf) /\ Len(u.buf) \in Nat
          /\ Len(v.buf) = IF Forgets(p) \/ Anew(p) THEN 1 ELSE Len(u.buf) + 1
          /\ v.buf[Len(v.buf)] = p
      BY <1>4, HeldFacts
    <3> HIDE DEF v, p
    <3>2. QED
      BY <3>1
  <2>5. p.type = P
    BY <2>2, <2>3, <2>4 DEF Last
  <2>6. p.ucMarker /\ p.index = p.size /\ ~IsParam(p) /\ ~Forgets(p)
    <3>1. p.index = p.size
      BY <1>4, <2>2 DEF Ends, ucMarker
    <3>2. ~IsParam(p)
      BY <1>4, <2>5, <3>1 DEF P
    <3>3. QED
      BY <1>4, <3>1, <3>2 DEF IsParam, Forgets
  <2>7. v.iFrameType = P /\ v.usRtpCnt = (IF Anew(p) THEN 0 ELSE u.usRtpCnt) + 1 /\ u.usRtpCnt \in Nat
    <3> HIDE DEF v, p
    <3>1. QED
      BY <1>h, <2>5, <2>6
  <2>8. (p.usSeq + 1 + SeqMod - v.usRtpSSeq) % SeqMod = v.usRtpCnt
    BY <2>3, <2>7 DEF Passes, P, I
  <2>9. v.usRtpCnt \in 1..Len(v.buf)
    BY <2>4, <2>7
  <2>10. \A i \in 1..Len(v.buf) : v.buf[i].no \in 0..n /\ v.buf[i] = Stream[v.buf[i].no]
    <3>1. \A i \in 1..Len(v.buf) : WillBeSent(v.buf[i])
      BY <1>1, <1>2, BufReceived DEF Next
    <3>2. Len(sent') - 1 = n
      BY <1>1
    <3>3. QED
      BY <1>1, <3>1, <3>2 DEF WillBeSent
  <2>11. p.kind = "first" => Len(v.buf) = 1
    BY <2>4, <2>5 DEF Anew
  <2>12. Counted(v)
    BY <1>10, <2>5
  <2>13. WholeIn(v.buf)
    BY <1>1, <1>3, <1>5, <1>h, <2>4, <2>5, <2>6, <2>8, <2>9, <2>10, <2>11, <2>12, CountIsWhole
  <2>14. QED
    BY <2>3, <2>13
<1>15. FinishedP' => WholeIn(preFrame)'
  <2>1. SUFFICES ASSUME FinishedP' PROVE WholeIn(preFrame)'
    OBVIOUS
  <2>2. PICK f : f = v.buf
    OBVIOUS
  <2>3. WholeIn(f) /\ preFrame' = f
    BY <1>14, <2>1, <2>2
  <2>4. QED
    BY ONLY <1>1, <2>3 DEF WholeIn, SliceAt
<1>16. InOrder(u)' /\ Counted(u)'
  BY <1>11, <1>12 DEF InOrder, Counted, CountedFrom
<1>17. QED
  BY <1>6, <1>13, <1>15, <1>16 DEF CountInv

\* What was handed over stays whole as the stream goes on.
LEMMA WholeStays ==
  ASSUME TypeInv, StreamInv, BufInv, [Next]_vars, UNCHANGED preFrame, WholeIn(preFrame)
  PROVE  WholeIn(preFrame)'
<1>1. Len(preFrame) \in Nat /\ StreamType
  BY DEF TypeInv, StreamType, Unpackers
<1>2. PICK k \in 1..Len(preFrame) : SliceAt(preFrame, k)
  BY DEF WholeIn
<1>3. k \in k..Len(preFrame)
  BY <1>1
<1>4. preFrame[k].no \in 0..(Len(sent) - 1) /\ preFrame[k] = Stream[preFrame[k].no]
  BY DEF BufInv, WasSent
<1>5. Len(sent) \in Nat /\ Total \in Nat /\ Len(sent) <= Total
      /\ \A n \in 0..(Len(sent) - 1) : Stream'[n] = Stream[n]
  BY SentStays
<1>6. preFrame[k].index <= preFrame[k].no + 1
  <2>1. preFrame[k].no \in 0..(Total - 1)
    BY <1>4, <1>5
  <2>2. QED
    BY <1>1, <1>4, <2>1, WholeStream
<1>7. preFrame[k].index = 2 => Stream'[preFrame[k].no - 1] = Stream[preFrame[k].no - 1]
  <2>1. preFrame[k].index = 2 => preFrame[k].no - 1 \in 0..(Len(sent) - 1)
    BY <1>4, <1>5, <1>6
  <2>2. QED
    BY <1>5, <2>1
<1>8. SliceAt(preFrame, k)'
  BY <1>2, <1>7 DEF SliceAt
<1>9. QED
  BY <1>8 DEF WholeIn

LEMMA CountStep ==
  ASSUME TypeInv, StreamInv, BufInv, CountInv, NumPackets < SeqMod, [Next]_vars
  PROVE  CountInv'
<1>1. StreamType
  BY DEF TypeInv, StreamType, Unpackers
<1>2. SUFFICES ASSUME simple' PROVE CountInv'
  BY DEF CountInv
<1>3. simple
  BY <1>2 DEF Next, NextFrame, Arrive, Lose, Replay, Unsupported, vars
<1>4. OneSlice /\ InOrder(u) /\ Stamped /\ Counted(u) /\ (FinishedP => WholeIn(preFrame))
  BY <1>3 DEF CountInv
<1>5. /\ Len(sent) \in Nat /\ Len(sent') \in Nat /\ Len(sent) <= Len(sent')
      /\ \A n \in 0..(Len(sent) - 1) : Stream'[n] = Stream[n]
  BY SentStays
<1>6. \A m \in 0..(Len(sent) - 1) : m \in 0..(Len(sent') - 1) /\ Stream'[m].frame = Stream[m].frame
  BY <1>5
<1>7. OneSlice'
  <2>1. CASE ~NextFrame
    <3>1. Stream' = Stream /\ Total' = Total
      BY <2>1, StreamStep
    <3>2. QED
      BY <1>4, <3>1 DEF OneSlice
  <2>2. CASE NextFrame
    <3>1. PICK t \in {0, I, P}, shape \in Seq({"VPS", "SPS", "PPS"} \cup Kinds) :
            Len(shape) > 0 /\ Submit(shape, t)
      BY <1>1, <2>2, NextFrameFacts
    <3>2. todo = <<>> /\ sent' = sent
          /\ \A i, j \in DOMAIN todo' :
               BeginsSlice(todo'[i]) /\ BeginsSlice(todo'[j]) => i = j
      BY <1>2, <2>2 DEF NextFrame
    <3> DEFINE a == Len(sent)
               b == Len(shape)
    <3>3. /\ Total = a /\ Total' = a + b /\ a \in Nat /\ b \in Nat
          /\ todo' \in Seq(PacketType) /\ Len(todo') = b
          /\ \A n \in 0..(a - 1) : Stream'[n] = Stream[n]
          /\ \A i \in 1..b : todo'[i] = Stream'[a + i - 1]
      BY <1>1, <1>5, <3>1, <3>2, SubmitFacts
    <3>4. \A n \in a..(Total' - 1) : Stream'[n].index = n - a + 1
      BY <1>1, <3>1, <3>2, SubmitFacts
    <3>5. StreamInv' /\ StreamType'
      BY StreamStep, TypeStep DEF TypeInv, StreamType, Unpackers
    <3> HIDE DEF a, b
    <3>6. ASSUME NEW m \in 0..(Total' - 1), NEW n \in 0..(Total' - 1),
                 Stream'[m].frame = Stream'[n].frame,
                 BeginsSlice(Stream'[m]), BeginsSlice(Stream'[n]), m <= n
          PROVE  m = n
      <4>1. m \in Nat /\ n \in Nat /\ m < a + b /\ n < a + b
        BY <3>3
      <4>2. CASE n < a
        <5>1. m \in 0..(a - 1) /\ n \in 0..(a - 1)
          BY <3>3, <3>6, <4>1, <4>2
        <5>2. Stream'[m] = Stream[m] /\ Stream'[n] = Stream[n]
          BY <3>3, <5>1
        <5>3. QED
          BY <1>4, <3>3, <3>6, <5>1, <5>2 DEF OneSlice
      <4>3. CASE m < a /\ n >= a
        <5>1. Placed(m, n)'
          BY <3>5 DEF StreamInv
        <5>2. Stream'[m].index - Stream'[n].index = m - n
          BY <3>6, <5>1 DEF Placed
        <5>3. Stream'[n].index = n - a + 1
          BY <3>3, <3>4, <4>1, <4>3
        <5>4. m \in 0..(a - 1)
          BY <3>3, <4>1, <4>3
        <5>5. Stream'[m].index \in Nat \ {0}
          <6>1. Stream'[m] = Stream[m] /\ m \in 0..(Total - 1)
            BY <3>3, <5>4
          <6>2. QED
            BY <1>1, <6>1, WholeStream
        <5>6. QED
          BY <3>3, <4>1, <4>3, <5>2, <5>3, <5>5
      <4>4. CASE m >= a /\ n >= a
        <5>1. /\ m - a + 1 \in 1..b /\ n - a + 1 \in 1..b
              /\ a + (m - a + 1) - 1 = m /\ a + (n - a + 1) - 1 = n
          BY <3>3, <4>1, <4>4
        <5>2. todo'[m - a + 1] = Stream'[m] /\ todo'[n - a + 1] = Stream'[n]
          BY <3>3, <5>1
        <5>3. m - a + 1 \in DOMAIN todo' /\ n - a + 1 \in DOMAIN todo'
          BY <3>3, <5>1
        <5>4. m - a + 1 = n - a + 1
          BY <3>2, <3>6, <5>2, <5>3
        <5>5. QED
          BY <3>3, <4>1, <5>4
      <4>5. QED
        BY <3>3, <3>6, <4>1, <4>2, <4>3, <4>4
    <3>7. \A m, n \in 0..(Total' - 1) : m <= n \/ n <= m
      BY <3>3
    <3>8. QED
      BY <3>6, <3>7 DEF OneSlice
  <2>3. QED
    BY <2>1, <2>2
<1>8. CASE Arrive
  BY <1>2, <1>8, CountReceived
<1>9. CASE Unsupported
  <2>1. u' = pjmedia_unpack_reset_frame(u) /\ status' = ERROR /\ u \in Unpackers
    BY <1>9 DEF Unsupported, TypeInv
  <2>2. Cleared(u')
    BY <2>1, ResetFacts
  <2>3. u'.buf = <<>> /\ ~u'.bLenom /\ u'.usRtpSSeq = -1 /\ u'.uTimeStamp = 0
    BY <2>2 DEF Cleared
  <2>4. InOrder(u)' /\ Counted(u)' /\ Stamped'
    BY <2>3 DEF InOrder, Counted, Stamped
  <2>5. ~FinishedP'
    BY <2>1 DEF FinishedP, ERROR, FINISH
  <2>6. QED
    BY <1>7, <2>4, <2>5 DEF CountInv
<1>10. CASE UNCHANGED <<u, status, preFrame>>
  <2>1. InOrder(u)' /\ Counted(u)'
    BY <1>4, <1>10 DEF InOrder, Counted, CountedFrom
  <2>2. Stamped'
    BY <1>4, <1>6, <1>10 DEF Stamped
  <2>3. FinishedP' => WholeIn(preFrame)'
    <3>1. FinishedP' => FinishedP
      BY <1>10 DEF FinishedP
    <3>2. QED
      BY <1>4, <1>10, <3>1, WholeStays
  <2>4. QED
    BY <1>7, <2>1, <2>2, <2>3 DEF CountInv
<1>11. QED
  BY <1>2, <1>8, <1>9, <1>10 DEF Next, NextFrame, Lose, Replay, vars

\* The stream's packets are those sent.
LEMMA WholeTells ==
  ASSUME TypeInv, StreamInv, BufInv, WholeIn(preFrame)
  PROVE  IsWhole(preFrame)
<1>1. Len(preFrame) \in Nat /\ StreamType
  BY DEF TypeInv, StreamType, Unpackers
<1>2. PICK k \in 1..Len(preFrame) : SliceAt(preFrame, k)
  BY DEF WholeIn
<1>3. preFrame[k].no \in 0..(Len(sent) - 1) /\ preFrame[k] = Stream[preFrame[k].no]
  BY DEF BufInv, WasSent
<1>4. Len(sent) \in Nat /\ Total \in Nat /\ Len(sent) <= Total
      /\ \A n \in 0..(Len(sent) - 1) : Stream[n] = sent[n + 1]
  BY <1>1, StreamFacts DEF Total
<1>5. preFrame[k].index <= preFrame[k].no + 1
  <2>1. preFrame[k].no \in 0..(Total - 1)
    BY <1>3, <1>4
  <2>2. QED
    BY <1>1, <1>3, <2>1, WholeStream
<1>6. preFrame[k].index = 2 => Stream[preFrame[k].no - 1] = sent[preFrame[k].no]
  <2>1. preFrame[k].index = 2 => preFrame[k].no - 1 \in 0..(Len(sent) - 1)
    BY <1>3, <1>4, <1>5
  <2>2. preFrame[k].index = 2 => Stream[preFrame[k].no - 1] = sent[(preFrame[k].no - 1) + 1]
    BY <1>4, <2>1
  <2>3. (preFrame[k].no - 1) + 1 = preFrame[k].no
    BY <1>3
  <2>4. QED
    BY <2>2, <2>3
<1>7. QED
  BY <1>1, <1>2, <1>6 DEF WholeIn, SliceAt, IsWhole

\* For every stream whose sequence numbers do not wrap, and whatever is lost: while every
\* frame is one slice, nothing old takes a lost packet's place and nothing is put behind a
\* remnant, a P frame that is handed to the decoder is whole (usSeqGap against usRtpCnt in
\* pjmedia_unpack_check_frame, and where the count starts).
THEOREM NothingMissing ==
  ASSUME NumPackets < SeqMod
  PROVE  Spec => []WholeP
<1>1. Init => CountInv
  <2>1. Init => /\ u.buf = <<>> /\ ~u.bLenom /\ u.usRtpSSeq = -1 /\ u.uTimeStamp = 0
                /\ status = START /\ sent = <<>> /\ todo = <<>>
    BY DEF Init
  <2>2. Init => Total = 0
    BY <2>1 DEF Total
  <2>3. Init => OneSlice
    BY <2>2 DEF OneSlice
  <2>4. QED
    BY <2>1, <2>3 DEF CountInv, InOrder, Counted, Stamped, FinishedP, START, FINISH
<1>2. TypeInv /\ StreamInv /\ BufInv /\ CountInv /\ [Next]_vars => CountInv'
  BY CountStep
<1>3. TypeInv /\ StreamInv /\ BufInv /\ CountInv => WholeP
  BY TypeInvTells, WholeTells DEF CountInv, WholeP
<1>4. QED
  BY <1>1, <1>2, <1>3, TypesAndStream, HoldsSent, PTL DEF Spec

-----------------------------------------------------------------------------
(***************************************************************************)
(* Groups of which nothing was lost.                                       *)
(***************************************************************************)

\* v has the parameter sets up to the q-th.
SetsThere(v, q) ==
  /\ v.nCodecID = "H264" => v.bSPS /\ (q >= 2 => v.bPPS)
  /\ v.nCodecID = "H265" => v.bVPS /\ (q >= 2 => v.bSPS) /\ (q >= 3 => v.bPPS)

\* No slice was begun.
NoSlice(v) ==
  /\ v.usRtpCnt = 0 /\ v.usRtpSSeq = -1
  /\ \A i \in 1..Len(v.buf) : IsParam(v.buf[i])

\* x begins the first slice of its frame.
BeginsFrame(x) ==
  /\ x.kind \in {"first", "start"}
  /\ x.index = 1 \/ (x.index = 2 /\ Stream[x.no - 1].kind = "SEI")

\* Of the n packets that v holds, the last ones, those counted, are all slices of q's frame
\* up to q; in front of them are only parameter sets and SEIs.
SlicesUpTo(v, q) ==
  LET n == Len(v.buf)
      k == n + 1 - v.usRtpCnt
  IN  /\ v.usRtpCnt \in 1..n
      /\ \A i \in 1..(k - 1) : IsParam(v.buf[i])
      /\ \A i \in k..n : /\ ~IsParam(v.buf[i]) /\ v.buf[i].frame = q.frame
                         /\ v.buf[i].no = q.no - n + i
      /\ BeginsFrame(v.buf[k]) /\ v.buf[k].usSeq = v.usRtpSSeq
      /\ v.uTimeStamp = q.frame

\* What has become of the packets up to q, the last one sent.
CameWhole(q) ==
  /\ q.type = 0 => /\ SetsThere(u, q.index) /\ NoSlice(u)
                   /\ q.index < q.size => u.iFrameType = I
  /\ q.type # 0 => /\ SetsThere(u, 3)
                   /\ q.type = P \/ q.index = q.size => u.bIDR
  /\ q.type # 0 /\ q.index = q.size =>
       NoSlice(u) /\ status = FINISH /\ Last(preFrame) = q /\ WholeIn(preFrame)
  /\ q.type # 0 /\ q.index < q.size => IF IsParam(q) THEN NoSlice(u) ELSE SlicesUpTo(u, q)

\* A new group is about to begin.
AtGroupStart == todo # <<>> /\ todo[1].type = 0 /\ todo[1].index = 1

\* Nothing of the group was lost so far, and some of it has come.
GroupInv == ~lostInGop /\ sent # <<>> /\ ~AtGroupStart => CameWhole(Last(sent))

\* The distance of the last number to the one in front of the first is the count.
LEMMA GapCounts ==
  ASSUME NEW a \in Nat, NEW b \in Nat, a <= b, b - a + 1 < SeqMod
  PROVE  ((b % SeqMod) + 1 + SeqMod - (a % SeqMod)) % SeqMod = b - a + 1
<1> DEFINE r == a % SeqMod
           s == b % SeqMod
           d == b - a
<1>1. SeqMod \in Nat \ {0} /\ a \in Int /\ b \in Int /\ d \in Nat /\ b < a + SeqMod
      /\ d + 1 \in 0..(SeqMod - 1)
  BY Assumption
<1>2. (s + SeqMod - r) % SeqMod = d
  BY <1>1, ModDistance
<1>3. s \in Int /\ r \in Int
  BY <1>1, DivMod DEF Splits
<1> HIDE DEF r, s, d
<1> DEFINE x == s + SeqMod - r
<1>4. x \in Int /\ x + 1 = s + 1 + SeqMod - r
  BY <1>1, <1>3
<1>5. (x % SeqMod) = d
  BY <1>2
<1> HIDE DEF x
<1>6. ((x % SeqMod) + 1) % SeqMod = (x + 1) % SeqMod
  BY <1>1, <1>4, ModPlusOne
<1>7. (d + 1) % SeqMod = d + 1
  BY <1>1, ModOfSmall
<1>8. (x + 1) % SeqMod = d + 1
  BY <1>5, <1>6, <1>7
<1>9. QED
  BY <1>4, <1>8 DEF r, s, d

\* The first packet of a frame's slices, put behind what is no slice.
LEMMA GroupBegins ==
  ASSUME TypeInv, StreamInv, NEW n \in 0..(Total - 1), NoSlice(u),
         Stream[n].type # 0, BeginsFrame(Stream[n])
  PROVE  SlicesUpTo(Holding(Stream[n]), Stream[n])
<1> DEFINE p == Stream[n]
           v == Holding(p)
           b == Len(v.buf)
<1>1. StreamType /\ u \in Unpackers
  BY DEF TypeInv, StreamType, Unpackers
<1>2. p \in PacketType /\ p.no = n /\ n \in Nat /\ p.uTimeStamp = p.frame
  BY <1>1, WholeStream, KindFacts
<1>3. ~IsParam(p) /\ ~Forgets(p) /\ p.kind \in {"first", "start"}
  BY DEF BeginsFrame, IsParam, Forgets
<1>4. v.usRtpCnt = 1 /\ v.usRtpSSeq = p.usSeq /\ v.uTimeStamp = p.frame
  <2>1. /\ v.usRtpCnt = (IF Forgets(p) \/ Anew(p) THEN 0 ELSE u.usRtpCnt)
                         + (IF IsParam(p) THEN 0 ELSE 1)
        /\ v.usRtpSSeq =
             IF Forgets(p) THEN -1
             ELSE IF p.kind = "first" \/ Anew(p) \/ (p.kind = "start" /\ u.usRtpSSeq = -1)
             THEN p.usSeq ELSE u.usRtpSSeq
        /\ v.uTimeStamp = p.uTimeStamp
    BY <1>1, <1>2, HoldingFacts
  <2>2. u.usRtpCnt = 0 /\ u.usRtpSSeq = -1
    BY DEF NoSlice
  <2> HIDE DEF v, p
  <2>3. QED
    BY <1>2, <1>3, <2>1, <2>2
<1>5. b \in Nat /\ b >= 1 /\ v.buf[b] = p /\ \A i \in 1..(b - 1) : i \in 1..Len(u.buf) /\ v.buf[i] = u.buf[i]
  <2>1. /\ v.buf \in Seq(PacketType) /\ b = (IF Forgets(p) \/ Anew(p) THEN 1 ELSE Len(u.buf) + 1)
        /\ v.buf[b] = p
        /\ \A i \in 1..(b - 1) :
              ~Forgets(p) /\ ~Anew(p) /\ i \in 1..Len(u.buf) /\ v.buf[i] = u.buf[i]
        /\ Len(u.buf) \in Nat
    BY ONLY TypeInv, <1>2, HeldFacts
  <2> HIDE DEF v, b, p
  <2>2. QED
    BY <2>1
<1> HIDE DEF v, b
<1>6. \A i \in 1..(b - 1) : IsParam(v.buf[i])
  BY <1>5 DEF NoSlice
<1>7. \A i \in b..b : ~IsParam(v.buf[i]) /\ v.buf[i].frame = p.frame /\ v.buf[i].no = p.no - b + i
  BY <1>2, <1>3, <1>5
<1>8. b + 1 - v.usRtpCnt = b /\ v.usRtpCnt \in 1..b
  BY <1>4, <1>5
<1>9. QED
  BY <1>4, <1>5, <1>6, <1>7, <1>8 DEF SlicesUpTo, p, v, b

\* A packet of the slices, put behind those in front of it.
LEMMA GroupGoesOn ==
  ASSUME TypeInv, StreamInv, NEW n \in 0..(Total - 1), n - 1 \in 0..(Total - 1),
         Stream[n].frame = Stream[n - 1].frame, Stream[n].type # 0,
         Stream[n].kind \in {"next", "start", "middle", "end"},
         SlicesUpTo(u, Stream[n - 1])
  PROVE  SlicesUpTo(Holding(Stream[n]), Stream[n])
<1> DEFINE p == Stream[n]
           q == Stream[n - 1]
           v == Holding(p)
           a == Len(u.buf)
           b == Len(v.buf)
           k == a + 1 - u.usRtpCnt
<1>1. StreamType /\ u \in Unpackers
  BY DEF TypeInv, StreamType, Unpackers
<1>2. p \in PacketType /\ p.no = n /\ n \in Nat /\ p.uTimeStamp = p.frame /\ q.no = n - 1
  BY <1>1, WholeStream, KindFacts
<1>3. a \in Nat /\ u.usRtpCnt \in Nat /\ u.buf \in Seq(PacketType)
  BY DEF TypeInv, Unpackers
<1>4. /\ u.usRtpCnt \in 1..a /\ \A i \in 1..(k - 1) : IsParam(u.buf[i])
      /\ \A i \in k..a : ~IsParam(u.buf[i]) /\ u.buf[i].frame = q.frame /\ u.buf[i].no = q.no - a + i
      /\ BeginsFrame(u.buf[k]) /\ u.buf[k].usSeq = u.usRtpSSeq
      /\ u.uTimeStamp = q.frame
  BY DEF SlicesUpTo
<1>5. ~IsParam(p) /\ ~Forgets(p) /\ ~Anew(p) /\ p.kind # "first"
  BY <1>2, <1>4 DEF IsParam, Forgets, Anew
<1>6. u.usRtpSSeq # -1
  <2>1. k \in 1..a
    BY <1>3, <1>4
  <2>2. u.buf[k] \in PacketType
    <3> HIDE DEF k
    <3>1. QED
      BY <1>3, <2>1
  <2>3. u.buf[k].usSeq \in 0..(SeqMod - 1)
    BY <2>2 DEF PacketType
  <2>4. QED
    BY <1>4, <2>3, Assumption
<1>7. v.usRtpCnt = u.usRtpCnt + 1 /\ v.usRtpSSeq = u.usRtpSSeq /\ v.uTimeStamp = p.frame
  BY <1>1, <1>2, <1>3, <1>5, <1>6, HoldingFacts
<1>8. b = a + 1 /\ v.buf[a + 1] = p /\ \A i \in 1..a : v.buf[i] = u.buf[i]
  <2>1. /\ b = IF Forgets(p) \/ Anew(p) THEN 1 ELSE a + 1
        /\ v.buf[b] = p
        /\ \A i \in 1..(b - 1) : v.buf[i] = u.buf[i]
    BY <1>2, HeldFacts
  <2> HIDE DEF b, v, a, p
  <2>2. QED
    BY <1>3, <1>5, <2>1
<1>9. p.frame = q.frame
  OBVIOUS
<1> HIDE DEF v, a, b, k, p, q
<1>10. b + 1 - v.usRtpCnt = k /\ v.usRtpCnt \in 1..b /\ k \in 1..a
  <2>1. b = a + 1 /\ v.usRtpCnt = u.usRtpCnt + 1 /\ u.usRtpCnt \in 1..a /\ a \in Nat
    BY <1>3, <1>4, <1>7, <1>8
  <2>2. QED
    BY ONLY <2>1 DEF k
<1>11. \A i \in 1..(k - 1) : IsParam(v.buf[i])
  <2>1. \A i \in 1..(k - 1) : i \in 1..a /\ IsParam(u.buf[i])
    BY <1>3, <1>4, <1>10
  <2>2. QED
    BY <1>8, <2>1
<1>12. ASSUME NEW i \in k..b
       PROVE  ~IsParam(v.buf[i]) /\ v.buf[i].frame = p.frame /\ v.buf[i].no = p.no - b + i
  <2>1. CASE i = a + 1
    BY <1>2, <1>3, <1>5, <1>8, <2>1
  <2>2. CASE i # a + 1
    <3>1. i \in k..a /\ i \in 1..a
      BY <1>3, <1>8, <1>10, <2>2
    <3>2. q.no - a + i = p.no - b + i
      BY <1>2, <1>3, <1>8, <3>1
    <3>3. QED
      BY <1>4, <1>8, <1>9, <3>1, <3>2
  <2>3. QED
    BY <2>1, <2>2
<1>13. BeginsFrame(v.buf[k]) /\ v.buf[k].usSeq = v.usRtpSSeq
  BY <1>4, <1>7, <1>8, <1>10
<1>14. QED
  BY <1>7, <1>10, <1>11, <1>12, <1>13 DEF SlicesUpTo, p, v, b

\* The last packet of a frame all of whose slices are there finishes it.
LEMMA GroupEnds ==
  ASSUME TypeInv, StreamInv, BufInv, NEW n \in 0..(Total - 1),
         Stream[n].type # 0, Stream[n].index = Stream[n].size,
         SlicesUpTo(Holding(Stream[n]), Stream[n]), SetsThere(Holding(Stream[n]), 3),
         Stream[n].type = P => Holding(Stream[n]).bIDR
  PROVE  Ends(Stream[n]) /\ Passes(Stream[n]) /\ WholeIn(Holding(Stream[n]).buf)
<1> DEFINE p == Stream[n]
           v == Holding(p)
           b == Len(v.buf)
           c == v.usRtpCnt
           k == b + 1 - c
           x == v.buf[k]
<1>1. StreamType /\ u \in Unpackers
  BY DEF TypeInv, StreamType, Unpackers
<1>2. /\ p \in PacketType /\ p.no = n /\ n \in Nat /\ p.index \in Nat \ {0} /\ p.size \in Nat
      /\ p.usSeq = n % SeqMod /\ p.type \in {0, I, P} /\ p.size <= Longest /\ ~IsParam(p)
      /\ p.ucMarker
  <2>1. Numbered(n) /\ Sliced(n)
    BY DEF StreamInv
  <2>2. QED
    BY <1>1, <2>1, WholeStream, KindFacts DEF Numbered, Sliced
<1>3. /\ v.iFrameType = p.type /\ v.nCodecID = u.nCodecID /\ v \in Unpackers
      /\ v.nCodecID \in {"H264", "H265"}
  <2>1. ~Forgets(p)
    BY <1>2 DEF Forgets, IsParam
  <2>2. v.nCodecID = u.nCodecID /\ v \in Unpackers /\ v.iFrameType = p.type
    BY <1>1, <1>2, <2>1, HoldingFacts
  <2>3. QED
    BY <1>1, <2>2, Assumption DEF Unpackers
<1>4. Ends(p)
  BY <1>2, <1>3 DEF Ends, ucMarker
<1>5. /\ c \in 1..b /\ \A i \in 1..(k - 1) : IsParam(v.buf[i])
      /\ \A i \in k..b : ~IsParam(v.buf[i]) /\ v.buf[i].frame = p.frame /\ v.buf[i].no = p.no - b + i
      /\ BeginsFrame(x) /\ x.usSeq = v.usRtpSSeq
  BY DEF SlicesUpTo
<1>6. /\ b \in Nat /\ v.buf[b] = p
      /\ \A i \in 1..(b - 1) : i \in 1..Len(u.buf) /\ v.buf[i] = u.buf[i]
  BY <1>1, <1>2, HeldFacts
<1>7. \A i \in 1..b : v.buf[i].no \in 0..(Total - 1) /\ v.buf[i] = Stream[v.buf[i].no]
  <2>1. \A i \in 1..(b - 1) : WasSent(v.buf[i])
    BY <1>6 DEF BufInv
  <2>2. Len(sent) \in Nat /\ Total \in Nat /\ Len(sent) <= Total
    BY <1>1, StreamFacts DEF Total
  <2> HIDE DEF b, v
  <2>3. QED
    BY <1>2, <1>6, <2>1, <2>2 DEF WasSent
<1>8. SetsThere(v, 3) /\ (p.type = P => v.bIDR) /\ p.type # 0 /\ p.index = p.size
  OBVIOUS
<1>9. Passes(p) <=>
        /\ v.nCodecID = "H265" => v.bVPS
        /\ v.bSPS /\ v.bPPS
        /\ \/ v.iFrameType = I
           \/ (p.usSeq + 1 + SeqMod - v.usRtpSSeq) % SeqMod = c /\ v.bIDR
  BY DEF Passes
<1> HIDE DEF v, p, b, c
<1>10. c \in Nat /\ c <= b /\ c >= 1 /\ k \in 1..b /\ k \in Nat /\ k <= b /\ b - k + 1 = c
  BY <1>5, <1>6
<1> HIDE DEF k
<1>11. x.no = n - b + k /\ x.frame = p.frame /\ x.no \in 0..(Total - 1) /\ x = Stream[x.no]
  BY <1>2, <1>5, <1>7, <1>10
<1>12. x.no \in Nat /\ x.no <= n /\ n - x.no + 1 = c
  BY <1>2, <1>6, <1>10, <1>11
<1> HIDE DEF x
<1>13. x.index - p.index = x.no - n /\ x.index \in Nat \ {0} /\ x.usSeq = x.no % SeqMod
  <2>1. Placed(x.no, n) /\ Numbered(x.no)
    BY <1>11 DEF StreamInv
  <2>2. x.index - p.index = x.no - n
    BY <1>11, <2>1 DEF Placed, p
  <2>3. x.index \in Nat \ {0}
    BY <1>1, <1>11, WholeStream
  <2>4. QED
    BY <1>11, <2>1, <2>2, <2>3 DEF Numbered
<1>14. n - x.no + 1 < SeqMod
  <2>1. n - x.no + 1 <= p.size
    BY <1>2, <1>8, <1>12, <1>13
  <2>2. QED
    BY <1>2, <1>12, <2>1, Assumption
<1>15. ((n % SeqMod) + 1 + SeqMod - (x.no % SeqMod)) % SeqMod = c
  BY <1>2, <1>12, <1>14, GapCounts
<1>16. (p.usSeq + 1 + SeqMod - v.usRtpSSeq) % SeqMod = c
  BY <1>2, <1>5, <1>13, <1>15
<1>17. Passes(p)
  BY <1>2, <1>3, <1>8, <1>9, <1>16 DEF SetsThere
<1>18. SliceAt(v.buf, k)
  BY <1>2, <1>5, <1>6, <1>10 DEF SliceAt, BeginsFrame, b, x
<1>19. WholeIn(v.buf)
  BY <1>6, <1>8, <1>10, <1>18 DEF WholeIn, b
<1>20. QED
  BY <1>4, <1>17, <1>19 DEF p, v

\* A packet and the one before it.
LEMMA BeforeFacts ==
  ASSUME StreamType, StreamInv, NEW n \in 0..(Total - 1)
  PROVE  /\ Stream[n].index = 1 /\ Stream[n].type # 0 => n - 1 \in 0..(Total - 1)
         /\ Stream[n].index # 1 =>
              /\ n - 1 \in 0..(Total - 1) /\ Stream[n - 1].frame = Stream[n].frame
              /\ Stream[n - 1].type = Stream[n].type /\ Stream[n - 1].size = Stream[n].size
              /\ Stream[n - 1].index = Stream[n].index - 1
              /\ Stream[n - 1].index < Stream[n - 1].size
         /\ Stream[n].index = 1 /\ n - 1 \in 0..(Total - 1) => Stream[n - 1].index = Stream[n - 1].size
<1> DEFINE p == Stream[n]
           q == Stream[n - 1]
<1>1. /\ p.index \in Nat \ {0} /\ p.size \in Nat /\ p.index <= p.size /\ p.index <= n + 1
      /\ Grouped(n) /\ n \in Nat /\ Total \in Nat
  BY WholeStream, StreamFacts DEF StreamInv
<1>2. p.index = 1 /\ p.type # 0 => n - 1 \in 0..(Total - 1)
  BY <1>1 DEF Grouped
<1>3. ASSUME p.index # 1
      PROVE  /\ n - 1 \in 0..(Total - 1) /\ q.frame = p.frame
             /\ q.type = p.type /\ q.size = p.size
             /\ q.index = p.index - 1 /\ q.index < q.size
  <2>1. n - 1 \in 0..(Total - 1)
    BY <1>1, <1>3
  <2>2. Placed(n - 1, n) /\ q.index \in Nat
    BY <2>1, WholeStream DEF StreamInv
  <2>3. (n - 1) - n \in (1 - p.index)..(p.size - p.index)
    BY <1>1, <1>3
  <2>4. /\ q.frame = p.frame /\ q.type = p.type /\ q.size = p.size
        /\ q.index - p.index = (n - 1) - n
    BY <2>2, <2>3 DEF Placed
  <2> HIDE DEF p, q
  <2>5. QED
    BY <1>1, <2>1, <2>2, <2>4
<1>4. ASSUME p.index = 1, n - 1 \in 0..(Total - 1), q.index # q.size
      PROVE  FALSE
  <2>1. q.index \in Nat \ {0} /\ q.size \in Nat /\ q.index <= q.size
    BY <1>4, WholeStream
  <2>2. Placed(n, n - 1)
    BY <1>4 DEF StreamInv
  <2>3. n - (n - 1) \in (1 - q.index)..(q.size - q.index)
    BY <1>1, <1>4, <2>1
  <2>4. p.index - q.index = n - (n - 1)
    BY <2>2, <2>3 DEF Placed
  <2> HIDE DEF p, q
  <2>5. QED
    BY <1>1, <1>4, <2>1, <2>4
<1>5. QED
  BY <1>2, <1>3, <1>4

\* What is known of the unpacker and the packet handed over when p, the last packet of a
\* group of which nothing was lost, has come.
Received(p) ==
  /\ p.type = 0 => /\ SetsThere(u', p.index) /\ NoSlice(u')
                   /\ p.index < p.size => u'.iFrameType = I
  /\ p.type # 0 => /\ SetsThere(u', 3)
                   /\ p.type = P \/ p.index = p.size => u'.bIDR
  /\ p.type # 0 /\ p.index = p.size =>
       NoSlice(u') /\ status' = FINISH /\ Last(preFrame') = p /\ WholeIn(preFrame')
  /\ p.type # 0 /\ p.index < p.size => IF IsParam(p) THEN NoSlice(u') ELSE SlicesUpTo(u', p)

\* An empty buffer holds no slice.
LEMMA ClearedFacts ==
  ASSUME NEW v, Cleared(v)
  PROVE  NoSlice(v)
BY DEF Cleared, NoSlice

\* The parameter sets of a group, the first of which forgets what was there.
LEMMA SetsArrive ==
  ASSUME TypeInv, StreamInv, NEW n \in 0..(Total - 1), Stream[n].type = 0,
         pjmedia_unpack_rtp_h264(Stream[n]),
         Stream[n].index # 1 =>
           SetsThere(u, Stream[n].index - 1) /\ NoSlice(u) /\ u.iFrameType = I
  PROVE  Received(Stream[n])
<1> DEFINE p == Stream[n]
           v == Holding(p)
<1>1. StreamType /\ u \in Unpackers
  BY DEF TypeInv, StreamType, Unpackers
<1>2. /\ p \in PacketType /\ p.index \in Nat \ {0} /\ p.index <= p.size
      /\ p.ucMarker <=> p.index = p.size
      /\ p.size = Len(ParamSets) /\ p.kind = ParamSets[p.index] /\ IsParam(p) /\ p.type = 0
  <2>1. Parameters(n)
    BY DEF StreamInv
  <2>2. QED
    BY <1>1, <2>1, WholeStream, KindFacts DEF Parameters
<1>3. u.nCodecID \in {"H264", "H265"}
  BY <1>1, Assumption DEF Unpackers
<1>4. /\ u.nCodecID = "H264" =>
           /\ p.size = 2 /\ p.index \in 1..2
           /\ p.kind = IF p.index = 1 THEN "SPS" ELSE "PPS"
      /\ u.nCodecID = "H265" =>
           /\ p.size = 3 /\ p.index \in 1..3
           /\ p.kind = IF p.index = 1 THEN "VPS" ELSE IF p.index = 2 THEN "SPS" ELSE "PPS"
  <2>1. CASE u.nCodecID = "H264"
    <3>1. ParamSets = <<"SPS", "PPS">>
      BY <2>1 DEF ParamSets
    <3>2. p.index = 1 \/ p.index = 2
      BY <1>2, <3>1
    <3>3. QED
      BY <1>2, <2>1, <3>1, <3>2
  <2>2. CASE u.nCodecID = "H265"
    <3>1. ParamSets = <<"VPS", "SPS", "PPS">>
      BY <2>2 DEF ParamSets
    <3>2. p.index = 1 \/ p.index = 2 \/ p.index = 3
      BY <1>2, <3>1
    <3>3. QED
      BY <1>2, <2>2, <3>1, <3>2
  <2>3. QED
    BY <1>3, <2>1, <2>2
<1>5. (Forgets(p) <=> p.index = 1) /\ ~Anew(p)
  <2>1. p.kind # "first" /\ p.kind # "start"
    BY <1>3, <1>4
  <2>2. Forgets(p) <=> p.index = 1
    BY <1>3, <1>4 DEF Forgets
  <2>3. QED
    BY <2>1, <2>2 DEF Anew
<1>6. /\ v \in Unpackers /\ v.nCodecID = u.nCodecID
      /\ v.usRtpCnt = IF Forgets(p) THEN 0 ELSE u.usRtpCnt
      /\ v.iFrameType = IF Forgets(p) THEN I ELSE u.iFrameType
      /\ v.usRtpSSeq = IF Forgets(p) THEN -1 ELSE u.usRtpSSeq
      /\ v.bSPS <=> u.bSPS \/ p.kind = "SPS"
      /\ v.bVPS <=> (u.bVPS /\ ~Forgets(p)) \/ p.kind = "VPS"
      /\ v.bPPS <=> (u.bPPS /\ ~Forgets(p)) \/ p.kind = "PPS"
  <2>1. v \in Unpackers /\ v.nCodecID = u.nCodecID
    BY <1>1, <1>2, HoldingFacts
  <2>2. /\ v.usRtpCnt = (IF Forgets(p) \/ Anew(p) THEN 0 ELSE u.usRtpCnt)
                         + (IF IsParam(p) THEN 0 ELSE 1)
        /\ u.usRtpCnt \in Nat
    BY <1>1, <1>2, HoldingFacts DEF Unpackers
  <2>3. v.iFrameType = IF Forgets(p) THEN I
                       ELSE IF IsParam(p) THEN u.iFrameType ELSE p.type
    BY <1>1, <1>2, HoldingFacts
  <2>4. v.usRtpSSeq =
          IF Forgets(p) THEN -1
          ELSE IF p.kind = "first" \/ Anew(p) \/ (p.kind = "start" /\ u.usRtpSSeq = -1)
          THEN p.usSeq ELSE u.usRtpSSeq
    BY <1>1, <1>2, HoldingFacts
  <2>5. /\ v.bSPS <=> u.bSPS \/ p.kind = "SPS"
        /\ v.bVPS <=> (u.bVPS /\ ~Forgets(p)) \/ p.kind = "VPS"
        /\ v.bPPS <=> (u.bPPS /\ ~Forgets(p)) \/ p.kind = "PPS"
    BY <1>1, <1>2, HoldingFacts
  <2>6. p.kind # "first" /\ p.kind # "start"
    BY <1>3, <1>4
  <2> HIDE DEF v, p
  <2>7. QED
    BY <1>2, <1>5, <2>1, <2>2, <2>3, <2>4, <2>5, <2>6
<1>7. p.index # 1 => SetsThere(u, p.index - 1) /\ NoSlice(u) /\ u.iFrameType = I
  OBVIOUS
<1>8. \A i \in 1..Len(v.buf) : IsParam(v.buf[i])
  <2>1. /\ Len(v.buf) \in Nat /\ v.buf[Len(v.buf)] = p
        /\ \A i \in 1..(Len(v.buf) - 1) : ~Forgets(p) /\ i \in 1..Len(u.buf) /\ v.buf[i] = u.buf[i]
    BY <1>2, HeldFacts
  <2> HIDE DEF v, p
  <2>2. ASSUME NEW i \in 1..Len(v.buf) PROVE IsParam(v.buf[i])
    <3>1. CASE i = Len(v.buf)
      BY <1>2, <2>1, <3>1
    <3>2. CASE i # Len(v.buf)
      <4>1. i \in 1..(Len(v.buf) - 1)
        BY <2>1, <3>2
      <4>2. QED
        BY <1>5, <1>7, <2>1, <4>1 DEF NoSlice
    <3>3. QED
      BY <3>1, <3>2
  <2>3. QED
    BY <2>2
<1>9. Ends(p) <=> v.iFrameType # 0 /\ ucMarker(p)
  BY DEF Ends
<1>10. Passes(p) <=>
         /\ v.nCodecID = "H265" => v.bVPS
         /\ v.bSPS /\ v.bPPS
         /\ \/ v.iFrameType = I
            \/ (p.usSeq + 1 + SeqMod - v.usRtpSSeq) % SeqMod = v.usRtpCnt /\ v.bIDR
  BY DEF Passes
<1>11. ucMarker(p) <=> u.nCodecID = "H265" /\ p.index = 3
  BY <1>2, <1>3, <1>4 DEF ucMarker
<1>12. /\ u' \in Unpackers /\ u'.nCodecID = u.nCodecID
       /\ ~Ends(p) => u' = v
       /\ Ends(p) => Cleared(u') /\ (u'.bSPS <=> v.bSPS)
       /\ Ends(p) /\ Passes(p) =>
            /\ u'.bPPS <=> v.bPPS
            /\ u'.bVPS <=> v.bVPS
  BY <1>1, <1>2, ReceivedFacts
<1> HIDE DEF v, p
<1>13. v.iFrameType = I /\ NoSlice(v)
  BY <1>5, <1>6, <1>7, <1>8 DEF NoSlice
<1>14. SetsThere(v, p.index)
  BY <1>3, <1>4, <1>5, <1>6, <1>7 DEF SetsThere
<1>15. CASE ~Ends(p)
  BY <1>2, <1>12, <1>13, <1>14, <1>15 DEF Received, p
<1>16. CASE Ends(p)
  <2>1. u.nCodecID = "H265" /\ p.index = 3 /\ p.size = 3
    BY <1>4, <1>9, <1>11, <1>16
  <2>2. v.bVPS /\ v.bSPS /\ v.bPPS
    BY <1>6, <1>14, <2>1 DEF SetsThere
  <2>3. Passes(p)
    BY <1>10, <1>13, <2>2
  <2>4. SetsThere(u', p.index)
    BY <1>12, <1>16, <2>1, <2>2, <2>3 DEF SetsThere
  <2>5. NoSlice(u')
    BY <1>12, <1>16, ClearedFacts
  <2>6. QED
    BY <1>2, <2>1, <2>4, <2>5 DEF Received, p
<1>17. QED
  BY <1>15, <1>16

\* A SEI is put behind what is no slice.
LEMMA SetHeld ==
  ASSUME TypeInv, NEW p \in PacketType, IsParam(p), ~Forgets(p), NoSlice(u)
  PROVE  NoSlice(Holding(p))
<1> DEFINE v == Holding(p)
<1>1. u \in Unpackers
  BY DEF TypeInv
<1>2. p.kind # "first" /\ p.kind # "start" /\ ~Anew(p)
  BY DEF IsParam, Anew
<1>3. /\ v.usRtpCnt = (IF Forgets(p) \/ Anew(p) THEN 0 ELSE u.usRtpCnt)
                       + (IF IsParam(p) THEN 0 ELSE 1)
      /\ v.usRtpSSeq =
           IF Forgets(p) THEN -1
           ELSE IF p.kind = "first" \/ Anew(p) \/ (p.kind = "start" /\ u.usRtpSSeq = -1)
           THEN p.usSeq ELSE u.usRtpSSeq
  BY <1>1, HoldingFacts
<1>4. /\ Len(v.buf) \in Nat /\ v.buf[Len(v.buf)] = p
      /\ \A i \in 1..(Len(v.buf) - 1) : i \in 1..Len(u.buf) /\ v.buf[i] = u.buf[i]
  BY HeldFacts
<1> HIDE DEF v
<1>5. v.usRtpCnt = 0 /\ v.usRtpSSeq = -1
  BY <1>2, <1>3 DEF NoSlice
<1>6. ASSUME NEW i \in 1..Len(v.buf) PROVE IsParam(v.buf[i])
  <2>1. CASE i = Len(v.buf)
    BY <1>4, <2>1
  <2>2. CASE i # Len(v.buf)
    <3>1. i \in 1..(Len(v.buf) - 1)
      BY <1>4, <2>2
    <3>2. QED
      BY <1>4, <3>1 DEF NoSlice
  <2>3. QED
    BY <2>1, <2>2
<1>7. QED
  BY <1>5, <1>6 DEF NoSlice, v

\* What a packet of a frame of slices finds: all of the group in front of it.
Awaited(p, q) ==
  /\ SetsThere(u, 3)
  /\ p.type = P => u.bIDR
  /\ IF p.index = 1 \/ IsParam(q) THEN NoSlice(u) ELSE SlicesUpTo(u, q)

LEMMA FinishedBefore ==
  ASSUME TypeInv, StreamInv, NEW n \in 0..(Total - 1), n - 1 \in 0..(Total - 1),
         Stream[n].type # 0, CameWhole(Stream[n - 1])
  PROVE  Awaited(Stream[n], Stream[n - 1])
<1> DEFINE p == Stream[n]
           q == Stream[n - 1]
<1>1. StreamType /\ u \in Unpackers
  BY DEF TypeInv, StreamType, Unpackers
<1>2. /\ p.index \in Nat \ {0} /\ p.size \in Nat /\ p.type \in {0, I, P} /\ p.type # 0
      /\ q.index \in Nat \ {0} /\ q.size \in Nat /\ q.index <= q.size /\ q.type \in {0, I, P}
      /\ Grouped(n) /\ Parameters(n - 1) /\ n \in Nat /\ n > 0 /\ I # P /\ I # 0 /\ P # 0
  <2>1. n \in Nat /\ n > 0 /\ I # P /\ I # 0 /\ P # 0
    BY <1>1, StreamFacts DEF I, P
  <2>2. Grouped(n) /\ Parameters(n - 1)
    BY DEF StreamInv
  <2>3. p.index \in Nat \ {0} /\ p.size \in Nat /\ p.type \in {0, I, P}
    BY <1>1, WholeStream
  <2>4. /\ q.index \in Nat \ {0} /\ q.size \in Nat /\ q.index <= q.size /\ q.type \in {0, I, P}
    BY <1>1, WholeStream
  <2>5. QED
    BY <2>1, <2>2, <2>3, <2>4
<1>3. CASE p.index = 1
  <2>1. q.index = q.size
    BY <1>1, <1>3, BeforeFacts
  <2>2. p.type = I <=> q.type = 0
    BY <1>2, <1>3 DEF Grouped
  <2>3. CASE q.type = 0
    <3>1. SetsThere(u, q.index) /\ NoSlice(u)
      BY <2>3 DEF CameWhole
    <3>2. q.index = Len(ParamSets)
      BY <1>2, <2>1, <2>3 DEF Parameters
    <3>3. /\ u.nCodecID = "H264" => Len(ParamSets) = 2
          /\ u.nCodecID = "H265" => Len(ParamSets) = 3
      BY DEF ParamSets
    <3> HIDE DEF p, q
    <3>4. SetsThere(u, 3)
      <4>1. ASSUME u.nCodecID = "H264" PROVE u.bSPS /\ u.bPPS
        <5>1. SetsThere(u, 2)
          BY <3>1, <3>2, <3>3, <4>1
        <5>2. QED
          BY <4>1, <5>1 DEF SetsThere
      <4>2. ASSUME u.nCodecID = "H265" PROVE u.bVPS /\ u.bSPS /\ u.bPPS
        <5>1. SetsThere(u, 3)
          BY <3>1, <3>2, <3>3, <4>2
        <5>2. QED
          BY <4>2, <5>1 DEF SetsThere
      <4>3. QED
        BY <4>1, <4>2 DEF SetsThere
    <3>5. QED
      BY <1>2, <1>3, <2>2, <2>3, <3>1, <3>4 DEF Awaited, p, q
  <2>4. CASE q.type # 0
    <3>1. SetsThere(u, 3) /\ u.bIDR /\ NoSlice(u)
      BY <2>1, <2>4 DEF CameWhole
    <3>2. QED
      BY <1>3, <3>1 DEF Awaited
  <2>5. QED
    BY <2>3, <2>4
<1>4. CASE p.index # 1
  <2>1. q.type = p.type /\ q.index < q.size
    BY <1>1, <1>4, BeforeFacts
  <2>2. /\ SetsThere(u, 3)
        /\ q.type = P => u.bIDR
        /\ IF IsParam(q) THEN NoSlice(u) ELSE SlicesUpTo(u, q)
    BY <1>2, <2>1 DEF CameWhole
  <2>3. QED
    BY <1>4, <2>1, <2>2 DEF Awaited
<1>5. QED
  BY <1>3, <1>4

\* A packet of a frame of slices is put behind them, and finishes the frame if it is the last.
LEMMA SlicesArrive ==
  ASSUME TypeInv, StreamInv, BufInv, NEW n \in 0..(Total - 1), n - 1 \in 0..(Total - 1),
         Stream[n].type # 0, Awaited(Stream[n], Stream[n - 1]),
         pjmedia_unpack_rtp_h264(Stream[n])
  PROVE  Received(Stream[n])
<1> DEFINE p == Stream[n]
           q == Stream[n - 1]
           v == Holding(p)
<1>1. StreamType /\ u \in Unpackers
  BY DEF TypeInv, StreamType, Unpackers
<1>2. /\ p \in PacketType /\ p.index \in Nat \ {0} /\ p.size \in Nat /\ p.index <= p.size
      /\ p.kind \in Kinds /\ p.type # 0 /\ p.type \in {0, I, P}
      /\ IsParam(p) <=> p.kind = "SEI"
      /\ p.index = p.size => ~IsParam(p)
      /\ p.ucMarker <=> p.index = p.size
      /\ Sliced(n) /\ Sliced(n - 1) /\ Followed(n - 1)
  <2>1. Sliced(n) /\ Sliced(n - 1) /\ Followed(n - 1)
    BY DEF StreamInv
  <2>2. p \in PacketType /\ p.index \in Nat \ {0} /\ p.size \in Nat /\ p.index <= p.size /\ p.type \in {0, I, P}
    BY <1>1, WholeStream, KindFacts
  <2>3. /\ p.kind \in Kinds
        /\ IsParam(p) <=> p.kind = "SEI"
        /\ p.index = p.size => ~IsParam(p)
        /\ p.ucMarker <=> p.index = p.size
    BY <1>1, KindFacts
  <2>4. QED
    BY <2>1, <2>2, <2>3
<1>3. ~Forgets(p) /\ p.kind \notin {"VPS", "SPS", "PPS"}
  BY <1>2 DEF Forgets, Kinds
<1>4. SetsThere(v, 3) /\ (p.type = P => v.bIDR)
  <2>1. /\ v.nCodecID = u.nCodecID
        /\ v.bSPS <=> u.bSPS \/ p.kind = "SPS"
        /\ v.bVPS <=> (u.bVPS /\ ~Forgets(p)) \/ p.kind = "VPS"
        /\ v.bPPS <=> (u.bPPS /\ ~Forgets(p)) \/ p.kind = "PPS"
        /\ v.bIDR <=> u.bIDR /\ ~Forgets(p)
    BY <1>1, <1>2, HoldingFacts
  <2>2. SetsThere(u, 3) /\ (p.type = P => u.bIDR)
    BY DEF Awaited
  <2> HIDE DEF v, p
  <2>3. QED
    BY <1>3, <2>1, <2>2 DEF SetsThere
<1>5. IF IsParam(p) THEN NoSlice(v) ELSE SlicesUpTo(v, p)
  <2>1. CASE p.index = 1
    <3>1. NoSlice(u)
      BY <2>1 DEF Awaited
    <3>2. CASE IsParam(p)
      BY <1>1, <1>2, <1>3, <3>1, <3>2, SetHeld
    <3>3. CASE ~IsParam(p)
      <4>1. p.kind \in {"first", "start"}
        BY <1>2, <2>1, <3>3 DEF Sliced
      <4>2. BeginsFrame(p)
        BY <2>1, <4>1 DEF BeginsFrame
      <4>3. QED
        BY <1>2, <3>1, <3>3, <4>2, GroupBegins
    <3>4. QED
      BY <3>2, <3>3
  <2>2. CASE p.index # 1
    <3>1. /\ q.frame = p.frame /\ q.type = p.type /\ q.size = p.size /\ q.index = p.index - 1
          /\ q.index < q.size
      BY <1>1, <2>2, BeforeFacts
    <3>2. ~IsParam(p)
      BY <1>2, <2>2 DEF Sliced
    <3>3. q.kind \in Kinds /\ (IsParam(q) <=> q.kind = "SEI")
      BY <1>1, <1>2, <3>1, KindFacts
    <3>4. CASE IsParam(q)
      <4>1. NoSlice(u)
        BY <2>2, <3>4 DEF Awaited
      <4>2. q.index = 1
        BY <1>2, <3>1, <3>3, <3>4 DEF Sliced
      <4>3. p.index = 2
        BY <1>2, <3>1, <4>2
      <4>4. Stream[(n - 1) + 1].kind \in {"first", "start"}
        BY <1>2, <3>1, <3>3, <3>4 DEF Followed
      <4>5. (n - 1) + 1 = n /\ p.no = n
        BY <1>1, WholeStream
      <4>6. BeginsFrame(p)
        BY <3>3, <3>4, <4>3, <4>4, <4>5 DEF BeginsFrame
      <4>7. QED
        BY <1>2, <3>2, <4>1, <4>6, GroupBegins
    <3>5. CASE ~IsParam(q)
      <4>1. SlicesUpTo(u, q)
        BY <2>2, <3>5 DEF Awaited
      <4>2. (n - 1) + 1 = n
        OBVIOUS
      <4>3. Stream[(n - 1) + 1].kind \in {"next", "start", "middle", "end"}
        BY <1>2, <3>1, <3>3, <3>5 DEF Followed, Kinds
      <4>4. QED
        BY <1>2, <3>1, <3>2, <4>1, <4>2, <4>3, GroupGoesOn
    <3>6. QED
      BY <3>4, <3>5
  <2>3. QED
    BY <2>1, <2>2
<1>6. Ends(p) => p.index = p.size
  BY <1>2 DEF Ends, ucMarker
<1>7. ~Ends(p) => u' = v
  BY <1>1, <1>2, ReceivedFacts
<1>8. CASE p.index < p.size
  <2>1. ~Ends(p) /\ u' = v /\ p.index # p.size
    BY <1>2, <1>6, <1>7, <1>8
  <2>2. QED
    BY <1>2, <1>4, <1>5, <1>8, <2>1 DEF Received
<1>9. CASE p.index = p.size
  <2>1. SlicesUpTo(v, p)
    BY <1>2, <1>5, <1>9
  <2>2. Ends(p) /\ Passes(p) /\ WholeIn(v.buf)
    BY <1>2, <1>4, <1>9, <2>1, GroupEnds
  <2>3. /\ Cleared(u') /\ (u'.bSPS <=> v.bSPS)
        /\ status' = FINISH /\ preFrame' = v.buf /\ u'.bIDR
        /\ u'.bPPS <=> v.bPPS
        /\ u'.bVPS <=> v.bVPS
        /\ u'.nCodecID = u.nCodecID
    BY <1>1, <1>2, <2>2, ReceivedFacts
  <2>4. v.nCodecID = u.nCodecID
    BY <1>1, <1>2, HoldingFacts
  <2>5. Last(v.buf) = p
    BY <1>2, HeldFacts DEF Last
  <2> HIDE DEF v, p
  <2>6. SetsThere(u', 3)
    BY <1>4, <2>3, <2>4 DEF SetsThere
  <2>7. NoSlice(u')
    BY <2>3, ClearedFacts
  <2>8. QED
    BY <1>2, <1>9, <2>2, <2>3, <2>5, <2>6, <2>7 DEF Received, p
<1>10. QED
  BY <1>2, <1>8, <1>9

LEMMA GroupArrives ==
  ASSUME TypeInv, StreamInv, BufInv, GroupInv, Arrive, ~lostInGop
  PROVE  GroupInv'
<1> DEFINE n == Len(sent)
           p == Stream[n]
<1>1. StreamType
  BY DEF TypeInv, StreamType, Unpackers
<1>2. /\ n \in 0..(Total - 1) /\ Head(todo) = p /\ Last(sent') = p /\ Stream' = Stream
      /\ pjmedia_unpack_rtp_h264(p) /\ todo # <<>>
  BY <1>1, AdvanceFacts DEF Arrive, Advance
<1>3. todo[1] = p
  BY <1>1, <1>2, EdgeFacts
<1>4. p.index \in Nat /\ p.type \in {0, I, P} /\ n \in Nat /\ Total \in Nat
  BY <1>1, <1>2, WholeStream, StreamFacts
<1>5. ~(p.type = 0 /\ p.index = 1) =>
        /\ n - 1 \in 0..(Total - 1) /\ sent # <<>> /\ Last(sent) = Stream[n - 1]
        /\ CameWhole(Stream[n - 1])
  <2>1. ~(p.type = 0 /\ p.index = 1) => n - 1 \in 0..(Total - 1)
    BY <1>1, <1>2, BeforeFacts
  <2>2. n - 1 \in 0..(Total - 1) => sent # <<>> /\ Last(sent) = Stream[n - 1]
    <3>1. n - 1 \in 0..(Total - 1) => n > 0
      BY <1>4
    <3>2. n > 0 => sent # <<>>
      BY <1>1, StreamFacts
    <3>3. sent # <<>> => Last(sent) = Stream[n - 1]
      BY <1>1, EdgeFacts
    <3>4. QED
      BY <3>1, <3>2, <3>3
  <2>3. ~(p.type = 0 /\ p.index = 1) => ~AtGroupStart
    BY <1>3 DEF AtGroupStart
  <2> HIDE DEF n, p
  <2>4. QED
    BY <2>1, <2>2, <2>3 DEF GroupInv
<1>6. Received(p)
  <2>1. CASE p.type = 0
    <3>1. p.index # 1 => SetsThere(u, p.index - 1) /\ NoSlice(u) /\ u.iFrameType = I
      <4>1. p.index # 1 =>
              /\ Stream[n - 1].type = 0 /\ Stream[n - 1].index = p.index - 1
              /\ Stream[n - 1].index < Stream[n - 1].size
        BY <1>1, <1>2, <2>1, BeforeFacts
      <4>2. p.index # 1 => CameWhole(Stream[n - 1])
        BY <1>5
      <4> HIDE DEF n, p
      <4>3. QED
        BY <4>1, <4>2 DEF CameWhole
    <3>2. QED
      BY <1>2, <2>1, <3>1, SetsArrive
  <2>2. CASE p.type # 0
    <3>1. n - 1 \in 0..(Total - 1) /\ CameWhole(Stream[n - 1])
      BY <1>5, <2>2
    <3>2. Awaited(p, Stream[n - 1])
      BY <1>2, <2>2, <3>1, FinishedBefore
    <3>3. QED
      BY <1>2, <2>2, <3>1, <3>2, SlicesArrive
  <2>3. QED
    BY <2>1, <2>2
<1> HIDE DEF n, p
<1>7. CameWhole(Last(sent))'
  <2>1. PICK x : x = p
    OBVIOUS
  <2>2. Last(sent') = x /\ Received(x) /\ Stream' = Stream
    BY <1>2, <1>6, <2>1
  <2>3. WholeIn(preFrame') => WholeIn(preFrame)'
    BY <2>2 DEF WholeIn, SliceAt
  <2>4. SlicesUpTo(u', x) => SlicesUpTo(u, x)'
    BY <2>2 DEF SlicesUpTo, BeginsFrame
  <2>5. SUFFICES
          /\ x.type = 0 => /\ SetsThere(u', x.index) /\ NoSlice(u')
                           /\ x.index < x.size => u'.iFrameType = I
          /\ x.type # 0 => /\ SetsThere(u', 3)
                           /\ x.type = P \/ x.index = x.size => u'.bIDR
          /\ x.type # 0 /\ x.index = x.size =>
               NoSlice(u') /\ status' = FINISH /\ Last(preFrame') = x /\ WholeIn(preFrame)'
          /\ x.type # 0 /\ x.index < x.size => IF IsParam(x) THEN NoSlice(u') ELSE SlicesUpTo(u, x)'
    BY <2>2 DEF CameWhole
  <2>6. QED
    BY <2>2, <2>3, <2>4 DEF Received
<1>8. QED
  BY <1>7 DEF GroupInv

LEMMA GroupFollows ==
  ASSUME TypeInv, StreamInv, BufInv, GroupInv, NextFrame
  PROVE  GroupInv'
<1>1. StreamType
  BY DEF TypeInv, StreamType, Unpackers
<1>2. /\ todo = <<>> /\ sent' = sent
      /\ lostInGop' = (lostInGop /\ todo'[1].type # 0)
      /\ u' = u /\ status' = status /\ preFrame' = preFrame
  BY DEF NextFrame
<1>3. PICK t \in {0, I, P}, shape \in Seq({"VPS", "SPS", "PPS"} \cup Kinds) :
        Len(shape) > 0 /\ Submit(shape, t)
  BY <1>1, NextFrameFacts
<1>4. todo' # <<>> /\ todo'[1].index = 1
  <2>1. todo' = FramePackets(shape, t) /\ 1 \in DOMAIN shape
    BY <1>3 DEF Submit
  <2>2. todo'[1].index = 1 /\ 1 \in DOMAIN todo'
    BY <2>1 DEF FramePackets
  <2>3. QED
    BY <2>2
<1>5. SUFFICES ASSUME ~lostInGop', sent' # <<>>, ~AtGroupStart' PROVE CameWhole(Last(sent))'
  BY DEF GroupInv
<1>6. todo'[1].type # 0
  BY <1>4, <1>5 DEF AtGroupStart
<1>7. PICK q : q = Last(sent)
  OBVIOUS
<1>8. CameWhole(q)
  BY <1>2, <1>5, <1>6, <1>7 DEF GroupInv, AtGroupStart
<1>9. q.index = q.size /\ q.index \in Nat
  <2>1. Total = Len(sent) /\ Len(sent) \in Nat
    BY <1>1, <1>2, StreamFacts DEF Total
  <2>2. q = Stream[Total - 1] /\ Total - 1 \in 0..(Total - 1)
    BY <1>1, <1>2, <1>5, <1>7, <2>1, EdgeFacts
  <2>3. QED
    BY <1>1, <2>2, WholeStream
<1>10. WholeIn(preFrame) => WholeIn(preFrame)'
  <2>1. [Next]_vars
    BY DEF Next
  <2>2. UNCHANGED preFrame
    BY <1>2
  <2>3. QED
    BY <2>1, <2>2, WholeStays
<1>11. SUFFICES
         /\ q.type = 0 => /\ SetsThere(u', q.index) /\ NoSlice(u')
                          /\ q.index < q.size => u'.iFrameType = I
         /\ q.type # 0 => /\ SetsThere(u', 3)
                          /\ q.type = P \/ q.index = q.size => u'.bIDR
         /\ q.type # 0 /\ q.index = q.size =>
              NoSlice(u') /\ status' = FINISH /\ Last(preFrame') = q /\ WholeIn(preFrame)'
         /\ q.type # 0 /\ q.index < q.size => IF IsParam(q) THEN NoSlice(u') ELSE SlicesUpTo(u, q)'
  BY <1>2, <1>7 DEF CameWhole
<1>12. ~(q.index < q.size)
  BY <1>9
<1>13. QED
  BY <1>2, <1>8, <1>9, <1>10, <1>12 DEF CameWhole

LEMMA GroupStep ==
  ASSUME TypeInv, StreamInv, BufInv, GroupInv, [Next]_vars
  PROVE  GroupInv'
<1>1. CASE Arrive
  <2>1. lostInGop' = lostInGop
    BY <1>1 DEF Arrive
  <2>2. CASE lostInGop
    BY <2>1, <2>2 DEF GroupInv
  <2>3. CASE ~lostInGop
    BY <1>1, <2>3, GroupArrives
  <2>4. QED
    BY <2>2, <2>3
<1>2. CASE NextFrame
  BY <1>2, GroupFollows
<1>3. CASE Lose \/ Replay \/ Unsupported
  <2>1. lostInGop' = TRUE
    BY <1>3 DEF Lose, Replay, Unsupported
  <2>2. QED
    BY <2>1 DEF GroupInv
<1>4. CASE UNCHANGED vars
  <2>1. /\ u' = u /\ status' = status /\ preFrame' = preFrame
        /\ sent' = sent /\ todo' = todo /\ lostInGop' = lostInGop
    BY <1>4 DEF vars
  <2>2. Stream' = Stream
    BY <2>1 DEF Stream, Total
  <2>3. QED
    BY <2>1, <2>2 DEF GroupInv, AtGroupStart, CameWhole, WholeIn, SliceAt, SlicesUpTo, BeginsFrame
<1>5. QED
  BY <1>1, <1>2, <1>3, <1>4 DEF Next

\* For streams of any length, frames cut into any number of packets and slices, and whatever
\* was lost, replayed or refused before: in a group of pictures that came as it was sent,
\* every I and P frame is handed over, whole, when its last packet is there.  The first
\* packet of the group forgets the rest (pjmedia_unpack_check_nal), and the count fits the
\* distance of the numbers, which may wrap.
THEOREM HealsEveryGop == Spec => []HealsAtGop
<1>1. Init => GroupInv
  BY DEF Init, GroupInv
<1>2. TypeInv /\ StreamInv /\ BufInv /\ GroupInv /\ [Next]_vars => GroupInv'
  BY GroupStep
<1>3. TypeInv /\ StreamInv /\ BufInv /\ GroupInv => HealsAtGop
  <2> SUFFICES ASSUME TypeInv, StreamInv, BufInv, GroupInv,
                      sent # <<>>, todo = <<>>, Last(sent).type # 0, ~lostInGop
               PROVE  status = FINISH /\ Last(preFrame) = Last(sent) /\ IsWhole(preFrame)
    BY DEF HealsAtGop
  <2>1. StreamType
    BY DEF TypeInv, StreamType, Unpackers
  <2>2. CameWhole(Last(sent))
    BY DEF GroupInv, AtGroupStart
  <2>3. Last(sent).index = Last(sent).size
    <3>1. Total = Len(sent) /\ Len(sent) \in Nat
      BY <2>1, StreamFacts DEF Total
    <3>2. Last(sent) = Stream[Total - 1] /\ Total - 1 \in 0..(Total - 1)
      BY <2>1, <3>1, EdgeFacts
    <3>3. QED
      BY <2>1, <3>2, WholeStream
  <2>4. status = FINISH /\ Last(preFrame) = Last(sent) /\ WholeIn(preFrame)
    BY <2>2, <2>3 DEF CameWhole
  <2>5. QED
    BY <2>4, WholeTells
<1>4. QED
  BY <1>1, <1>2, <1>3, TypesAndStream, HoldsSent, PTL DEF Spec

=============================================================================

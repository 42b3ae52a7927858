------------------------------ MODULE CodecProofs ------------------------------
(***************************************************************************)
(* Proofs about VideoEncoder, for any sizes and rates, and any number of   *)
(* input buffers, frames and starts; about SampleSender, which sends what  *)
(* an encoder puts out, for any number of parameter sets; and about        *)
(* VideoDecoder, for any even sizes, margins and padding.                  *)
(***************************************************************************)
EXTENDS VideoEncoder, SampleSender, VideoDecoder, NumberLemmas, SequenceTheorems,
        FiniteSetTheorems, TLAPS

\* An encoder that is not open has no codec, and a codec that does not run no output.
\* The parameter sets go with the codec.
CodecInv ==
  /\ app \in {"none", "allocated", "closed"} => codec = "null"
  /\ codec = "null" => sps = NULL
  /\ codec = "running" => set \in [size : Sizes, rate : Rates]
  /\ codec # "running" \/ fresh => pipe = <<>>
  /\ encMutex = "encode" => app = "open"

\* What is inside is counted, all but one buffer: that of the parameter sets.
CountInv == frameIndex >= 0 /\ (style = "async" => Len(pipe) <= frameIndex + 1)

\* The buffers inside are for the size the codec was configured with.
OneSize == \A i \in 1..Len(pipe) : pipe[i].size = set.size

\* They are in the order the codec makes them.
QueueOrder ==
  /\ \A i \in 1..Len(pipe) :
       /\ IF i = 1 THEN pipe[i].slice = "none" => pipe[i].config /\ Len(pipe) > 1 /\ pipe[2].slice = "I"
          ELSE ~pipe[i].config /\ pipe[i].slice # "none"
       /\ pipe[i].slice = "P" => ~pipe[i].config /\ (i > 1 => pipe[i].idr = pipe[i - 1].idr)
  /\ pipe # <<>> => pipe[Len(pipe)].idr = idrs

\* The parameter sets of this start are still inside, or not even made.
SetsToCome == fresh \/ (pipe # <<>> /\ pipe[1].config)

\* Once they are out, the key frames that follow find them, and the frame in front is
\* a key frame or one for the key frame the receiver has.
ReceiverReady ==
  SetsToCome \/
    /\ codeType = "HEVC" => dec.sps = width
    /\ codeType = "AVC" => sps = width
    /\ codeType = "HEVC" \/ firstI =>
         IF pipe = <<>> THEN dec.idr = idrs ELSE pipe[1].slice = "I" \/ pipe[1].idr = dec.idr

\* A buffer that was dropped may have held the parameter sets or a key frame.
StreamInv ==
  app = "open" /\ ~failed =>
    /\ sps \in {NULL, width}
    /\ codec = "running" => OneSize /\ (~dropped => QueueOrder /\ ReceiverReady)

EncoderInv == TypeOK /\ CodecInv /\ CountInv /\ RunsAsTold /\ StreamInv /\ ~broken
-----------------------------------------------------------------------------
(***************************************************************************)
(* What the steps do to the queue.                                         *)
(***************************************************************************)

\* The buffers the codec makes: parameter sets, key frames without and with them, and
\* P frames.
SetsBuffer(n) == [config |-> TRUE, slice |-> "none", idr |-> n, size |-> set.size]
KeyBuffer(n) == [config |-> FALSE, slice |-> "I", idr |-> n, size |-> set.size]
SetsKeyBuffer(n) == [config |-> TRUE, slice |-> "I", idr |-> n, size |-> set.size]
InterBuffer(n) == [config |-> FALSE, slice |-> "P", idr |-> n, size |-> set.size]

LEMMA ConcatOne ==
  ASSUME NEW S, NEW s \in Seq(S), NEW e \in S
  PROVE  s \o <<e>> = Append(s, e)
<1>1. <<e>> \in Seq(S) /\ Len(<<e>>) = 1 /\ <<e>>[1] = e
  OBVIOUS
<1>2. /\ s \o <<e>> \in Seq(S) /\ Len(s \o <<e>>) = Len(s) + 1
      /\ \A i \in 1..(Len(s) + 1) :
           (s \o <<e>>)[i] = IF i <= Len(s) THEN s[i] ELSE <<e>>[i - Len(s)]
  BY <1>1, ConcatProperties
<1>3. /\ Append(s, e) \in Seq(S) /\ Len(Append(s, e)) = Len(s) + 1
      /\ \A i \in 1..(Len(s) + 1) :
           Append(s, e)[i] = IF i <= Len(s) THEN s[i] ELSE e
  OBVIOUS
<1>4. Len(s) \in Nat
  BY LenProperties
<1>5. \A i \in 1..(Len(s) + 1) : (s \o <<e>>)[i] = Append(s, e)[i]
  BY <1>1, <1>2, <1>3, <1>4
<1>6. QED
  BY <1>2, <1>3, <1>5, SeqEqual

LEMMA BufferTypes ==
  ASSUME CodecInv, codec = "running", NEW n \in Nat
  PROVE  /\ SetsBuffer(n) \in Buffer /\ KeyBuffer(n) \in Buffer
         /\ SetsKeyBuffer(n) \in Buffer /\ InterBuffer(n) \in Buffer
BY DEF CodecInv, SetsBuffer, KeyBuffer, SetsKeyBuffer, InterBuffer, Buffer

\* A frame put in adds one buffer at the end, the first one after a start two or one.
LEMMA WhatIsPutIn ==
  ASSUME TypeOK, CodecInv, Queued
  PROVE  /\ codec = "running" /\ fresh' = FALSE /\ lent' = lent /\ lost' = lost /\ idrs \in Nat
         /\ \/ /\ fresh /\ idrs' = idrs + 1
               /\ \/ pipe' = <<SetsBuffer(idrs'), KeyBuffer(idrs')>>
                  \/ pipe' = <<SetsKeyBuffer(idrs')>>
            \/ /\ ~fresh /\ idrs' = idrs + 1
               /\ pipe' = Append(pipe, KeyBuffer(idrs'))
            \/ /\ ~fresh /\ idrs' = idrs
               /\ pipe' = Append(pipe, InterBuffer(idrs'))
<1>1. PICK out \in Encoded(idrs + 1) :
        /\ pipe' = pipe \o out
        /\ idrs' = IF out[Len(out)].slice = "I" THEN idrs + 1 ELSE idrs
  BY DEF Queued
<1>2. /\ codec = "running" /\ fresh' = FALSE /\ lent' = lent /\ lost' = lost
      /\ idrs \in Nat /\ pipe \in Seq(Buffer)
  BY DEF Queued, TypeOK
<1>3. idrs + 1 - 1 = idrs
  BY <1>2
<1>4. CASE fresh
  <2>1. pipe = <<>>
    BY <1>4 DEF CodecInv
  <2>2. \/ out = <<SetsBuffer(idrs + 1), KeyBuffer(idrs + 1)>>
        \/ out = <<SetsKeyBuffer(idrs + 1)>>
    BY <1>1, <1>4 DEF Encoded, SetsBuffer, KeyBuffer, SetsKeyBuffer, InterBuffer
  <2>3. pipe' = out
    <3>1. out \in Seq(Buffer)
      <4>1. /\ SetsBuffer(idrs + 1) \in Buffer
            /\ KeyBuffer(idrs + 1) \in Buffer
            /\ SetsKeyBuffer(idrs + 1) \in Buffer
        BY <1>2, BufferTypes
      <4>2. /\ <<SetsBuffer(idrs + 1), KeyBuffer(idrs + 1)>> \in Seq(Buffer)
            /\ <<SetsKeyBuffer(idrs + 1)>> \in Seq(Buffer)
        BY <4>1
      <4>3. QED
        BY <2>2, <4>2
    <3>2. QED
      BY <1>1, <2>1, <3>1, ConcatEmptySeq
  <2>4. out[Len(out)].slice = "I"
    <3>1. CASE out = <<SetsBuffer(idrs + 1), KeyBuffer(idrs + 1)>>
      <4>1. Len(out) = 2 /\ out[2] = KeyBuffer(idrs + 1)
        BY <3>1
      <4>2. QED
        BY <4>1 DEF KeyBuffer
    <3>2. CASE out = <<SetsKeyBuffer(idrs + 1)>>
      <4>1. Len(out) = 1 /\ out[1] = SetsKeyBuffer(idrs + 1)
        BY <3>2
      <4>2. QED
        BY <4>1 DEF SetsKeyBuffer
    <3>3. QED
      BY <2>2, <3>1, <3>2
  <2>5. idrs' = idrs + 1
    BY <1>1, <2>4
  <2>6. QED
    BY <1>2, <1>4, <2>2, <2>3, <2>5
<1>5. CASE ~fresh
  <2>1. \/ out = <<KeyBuffer(idrs + 1)>>
        \/ out = <<InterBuffer(idrs)>>
    <3>1. ASSUME NEW n \in Nat
          PROVE  Encoded(n) = {<<KeyBuffer(n)>>, <<InterBuffer(n - 1)>>}
      BY <1>5 DEF Encoded, KeyBuffer, InterBuffer
    <3>2. PICK n \in Nat : n = idrs + 1
      BY <1>2
    <3>3. out \in Encoded(n) /\ n - 1 = idrs
      BY <1>2, <3>2
    <3>4. QED
      BY <3>1, <3>2, <3>3
  <2>2. CASE out = <<KeyBuffer(idrs + 1)>>
    <3>1. out[Len(out)].slice = "I"
      BY <2>2 DEF SetsBuffer, KeyBuffer, SetsKeyBuffer, InterBuffer
    <3>2. idrs' = idrs + 1
      BY <1>1, <3>1
    <3>3. pipe' = Append(pipe, KeyBuffer(idrs'))
      <4>1. KeyBuffer(idrs + 1) \in Buffer
        BY <1>2, BufferTypes
      <4>2. QED
        BY <1>1, <1>2, <2>2, <3>2, <4>1, ConcatOne
    <3>4. QED
      BY <1>2, <1>5, <3>2, <3>3
  <2>3. CASE out = <<InterBuffer(idrs)>>
    <3>1. out[Len(out)].slice = "P"
      BY <2>3 DEF SetsBuffer, KeyBuffer, SetsKeyBuffer, InterBuffer
    <3>2. idrs' = idrs
      BY <1>1, <3>1
    <3>3. pipe' = Append(pipe, InterBuffer(idrs'))
      <4>1. InterBuffer(idrs) \in Buffer
        BY <1>2, BufferTypes
      <4>2. QED
        BY <1>1, <1>2, <2>3, <3>2, <4>1, ConcatOne
    <3>4. QED
      BY <1>2, <1>5, <3>2, <3>3
  <2>4. QED
    BY <2>1, <2>2, <2>3
<1>6. QED
  BY <1>4, <1>5 DEF TypeOK

\* Taking out a buffer, or dropping it, moves the others up.
LEMMA WhatIsTaken ==
  ASSUME TypeOK, TakeOut \/ DropOut
  PROVE  /\ codec = "running" /\ pipe # <<>> /\ Head(pipe) = pipe[1] /\ pipe[1] \in Buffer
         /\ pipe' \in Seq(Buffer) /\ Len(pipe') = Len(pipe) - 1 /\ Len(pipe) \in Nat \ {0}
         /\ \A i \in 1..Len(pipe') : pipe'[i] = pipe[i + 1]
         /\ UNCHANGED <<codec, set, fresh, lent, lost, starts>>
         /\ dropped' \in {dropped, TRUE}
<1>1. pipe \in Seq(Buffer) /\ pipe # <<>> /\ pipe' = Tail(pipe)
  BY DEF TypeOK, TakeOut, DropOut
<1>2. Len(pipe) \in Nat \ {0}
  BY <1>1, EmptySeq, LenProperties
<1>3. /\ pipe' \in Seq(Buffer) /\ Len(pipe') = Len(pipe) - 1
      /\ \A i \in 1..Len(pipe') : pipe'[i] = pipe[i + 1]
      /\ Head(pipe) = pipe[1] /\ pipe[1] \in Buffer
  BY <1>1, <1>2, HeadTailProperties
<1>4. QED
  BY <1>1, <1>2, <1>3 DEF TakeOut, DropOut
-----------------------------------------------------------------------------
(***************************************************************************)
(* Type correctness.                                                       *)
(***************************************************************************)

CodecTypes ==
  /\ codec \in {"null", "stopped", "running"}
  /\ set \in [size : Sizes, rate : Rates] \cup {NoParams}
  /\ pipe \in Seq(Buffer)
  /\ fresh \in BOOLEAN
  /\ lent \in Nat /\ lost \in Nat /\ dropped \in BOOLEAN
  /\ starts \in Nat

\* Starting and stopping the codec keeps its types and what CodecInv says of it.
LEMMA CodecSwitched ==
  ASSUME TypeOK, CodecInv,
         \/ \E params \in [size : Sizes, rate : Rates] : Runs(params)
         \/ Stands
         \/ UNCHANGED codecVars
  PROVE  /\ CodecTypes'
         /\ codec' = "running" => set' \in [size : Sizes, rate : Rates]
         /\ codec' # "running" \/ fresh' => pipe' = <<>>
         /\ codec' = "null" => codec = "null"
<1>1. CASE \E params \in [size : Sizes, rate : Rates] : Runs(params)
  <2>1. /\ codec' = "running" /\ set' \in [size : Sizes, rate : Rates]
        /\ pipe' = <<>> /\ lent' = 0 /\ lost' = 0 /\ starts' = starts + 1
    BY <1>1 DEF Runs
  <2>2. fresh' \in BOOLEAN /\ dropped' \in BOOLEAN
    BY <1>1, Zenon DEF Runs
  <2>3. <<>> \in Seq(Buffer)
    BY EmptySeq
  <2>4. QED
    BY <2>1, <2>2, <2>3 DEF TypeOK, CodecTypes
<1>2. CASE Stands
  BY <1>2, EmptySeq DEF Stands, TypeOK, CodecTypes
<1>3. CASE UNCHANGED codecVars
  <2>1. UNCHANGED <<codec, set, pipe, fresh, lent, lost, dropped, starts>>
    BY <1>3 DEF codecVars
  <2>2. QED
    BY <2>1 DEF TypeOK, CodecInv, CodecTypes
<1>4. QED
  BY <1>1, <1>2, <1>3

\* So does putting in a frame, or not.
LEMMA CodecFed ==
  ASSUME TypeOK, CodecInv, NotPutIn \/ PutIn, UNCHANGED <<codec, set, dropped, starts>>
  PROVE  /\ CodecTypes' /\ idrs' \in Nat
         /\ codec' = "running" => set' \in [size : Sizes, rate : Rates]
         /\ codec' # "running" \/ fresh' => pipe' = <<>>
<1>1. CASE NotPutIn \/ NotQueued
  <2>1. /\ UNCHANGED <<pipe, fresh, idrs>>
        /\ lent' \in {lent, lent + 1} /\ lost' \in {lost, lost + 1}
    BY <1>1 DEF NotPutIn, NotQueued, Lends
  <2>2. lent' \in Nat /\ lost' \in Nat
    BY <2>1 DEF TypeOK
  <2>3. QED
    BY <2>1, <2>2 DEF TypeOK, CodecInv, CodecTypes
<1>2. CASE Queued
  <2>1. codec = "running" /\ fresh' = FALSE /\ lent' = lent /\ lost' = lost /\ idrs' \in Nat
    BY <1>2, WhatIsPutIn
  <2>2. /\ SetsBuffer(idrs') \in Buffer /\ KeyBuffer(idrs') \in Buffer
        /\ SetsKeyBuffer(idrs') \in Buffer /\ InterBuffer(idrs') \in Buffer
    BY <2>1, BufferTypes
  <2>3. pipe' \in Seq(Buffer)
    <3>1. /\ <<SetsBuffer(idrs'), KeyBuffer(idrs')>> \in Seq(Buffer)
          /\ <<SetsKeyBuffer(idrs')>> \in Seq(Buffer)
          /\ Append(pipe, KeyBuffer(idrs')) \in Seq(Buffer)
          /\ Append(pipe, InterBuffer(idrs')) \in Seq(Buffer)
      BY <2>2 DEF TypeOK
    <3>2. \/ pipe' = <<SetsBuffer(idrs'), KeyBuffer(idrs')>>
          \/ pipe' = <<SetsKeyBuffer(idrs')>>
          \/ pipe' = Append(pipe, KeyBuffer(idrs'))
          \/ pipe' = Append(pipe, InterBuffer(idrs'))
      BY <1>2, WhatIsPutIn
    <3>3. QED
      BY <3>1, <3>2
  <2>4. QED
    BY <2>1, <2>3 DEF TypeOK, CodecInv, CodecTypes
<1>3. QED
  BY <1>1, <1>2 DEF PutIn

\* And taking out a buffer, or dropping it.
LEMMA CodecDrained ==
  ASSUME TypeOK, CodecInv, TakeOut \/ DropOut
  PROVE  /\ CodecTypes' /\ sps' \in Sizes \cup {NULL} /\ firstI' \in BOOLEAN
         /\ dec' \in [sps : Sizes \cup {NULL}, idr : Nat] /\ broken' \in BOOLEAN
         /\ codec' = "running" /\ set' \in [size : Sizes, rate : Rates] /\ ~fresh'
<1> DEFINE b == Head(pipe)
<1>1. /\ codec = "running" /\ b \in Buffer /\ pipe' \in Seq(Buffer) /\ pipe # <<>>
      /\ UNCHANGED <<codec, set, fresh, lent, lost, starts>>
      /\ dropped' \in {dropped, TRUE}
  BY WhatIsTaken
<1>2. CodecTypes' /\ codec' = "running" /\ set' \in [size : Sizes, rate : Rates] /\ ~fresh'
  BY <1>1 DEF TypeOK, CodecInv, CodecTypes
<1>a. CASE DropOut
  BY <1>2, <1>a DEF DropOut, farVars, TypeOK
<1>b. SUFFICES ASSUME TakeOut
               PROVE  /\ sps' \in Sizes \cup {NULL} /\ firstI' \in BOOLEAN
                      /\ dec' \in [sps : Sizes \cup {NULL}, idr : Nat] /\ broken' \in BOOLEAN
  BY <1>2, <1>a
<1> HIDE DEF b
<1>3. /\ IF codeType = "AVC" THEN sps' = SavedSets(b) /\ firstI' = SeesKeyFrame(b)
                             ELSE UNCHANGED <<sps, firstI>>
      /\ IF HandsOut(b) THEN Received(b) ELSE UNCHANGED farVars
  BY <1>b DEF TakeOut, b
<1>4. b.size \in Sizes /\ b.idr \in Nat
  BY <1>1 DEF Buffer
<1>5. sps' \in Sizes \cup {NULL}
  BY <1>3, <1>4 DEF SavedSets, TypeOK
<1>6. firstI' \in BOOLEAN
  <2>1. SeesKeyFrame(b) \in BOOLEAN
    BY DEF SeesKeyFrame
  <2>2. firstI \in BOOLEAN
    BY DEF TypeOK
  <2>3. CASE codeType = "AVC"
    <3>1. firstI' = SeesKeyFrame(b)
      BY <1>3, <2>3
    <3>2. QED
      BY <2>1, <3>1
  <2>4. CASE codeType # "AVC"
    BY <1>3, <2>2, <2>4
  <2>5. QED
    BY <2>3, <2>4
<1>7. dec' \in [sps : Sizes \cup {NULL}, idr : Nat]
  <2>1. SetsWith(b) \in Sizes \cup {NULL}
    BY <1>4 DEF SetsWith, TypeOK
  <2>2. dec \in [sps : Sizes \cup {NULL}, idr : Nat]
    BY DEF TypeOK
  <2>3. CASE HandsOut(b)
    <3>1. PICK has \in Sizes \cup {NULL}, idr \in Nat : dec' = [sps |-> has, idr |-> idr]
      BY <1>3, <1>4, <2>1, <2>2, <2>3 DEF Received
    <3>2. QED
      BY <3>1
  <2>4. CASE ~HandsOut(b)
    BY <1>3, <2>2, <2>4 DEF farVars
  <2>5. QED
    BY <2>3, <2>4
<1>8. broken' \in BOOLEAN
  <2>1. CASE HandsOut(b)
    BY <1>3, <2>1 DEF Received
  <2>2. CASE ~HandsOut(b)
    BY <1>3, <2>2 DEF farVars, TypeOK
  <2>3. QED
    BY <2>1, <2>2
<1>9. QED
  BY <1>5, <1>6, <1>7, <1>8

AppTypes ==
  /\ app \in {"none", "allocated", "open", "failed", "closing", "closed"}
  /\ encMutex \in {"free", "encode", "left"}
  /\ failed \in BOOLEAN

FieldTypes ==
  /\ codeType \in Codecs /\ width \in Sizes /\ bit_rate \in Rates
  /\ sps \in Sizes \cup {NULL} /\ firstI \in BOOLEAN
  /\ frameIndex \in Int /\ recent \in BOOLEAN

FarTypes ==
  /\ frames \in Nat /\ idrs \in Nat
  /\ dec \in [sps : Sizes \cup {NULL}, idr : Nat] /\ broken \in BOOLEAN

LEMMA TypeParts ==
  TypeOK <=> /\ style \in {"encode", "async"} /\ setsRate \in BOOLEAN
             /\ AppTypes /\ FieldTypes /\ FarTypes /\ CodecTypes
BY DEF TypeOK, AppTypes, FieldTypes, FarTypes, CodecTypes

LEMMA TypesOfLife ==
  ASSUME TypeOK, CodecInv, Life
  PROVE  AppTypes' /\ FieldTypes' /\ FarTypes' /\ CodecTypes' /\ CodecInv'
<1> USE DEF AppTypes, FieldTypes, FarTypes
<1>0. AppTypes /\ FieldTypes /\ FarTypes /\ CodecTypes
  BY TypeParts
<1>1. CASE \E type \in Codecs, size \in Sizes, rate \in Rates : mediacodec_encoder_alloc(type, size, rate)
  <2>1. PICK type \in Codecs, size \in Sizes, rate \in Rates : mediacodec_encoder_alloc(type, size, rate)
    BY <1>1
  <2>2. /\ app = "none" /\ app' = "allocated" /\ encMutex' = "free" /\ failed' = FALSE
        /\ codeType' = type /\ width' = size /\ bit_rate' = rate
        /\ sps' = NULL /\ firstI' = FALSE /\ frameIndex' = 0 /\ recent' = FALSE
        /\ dec' = [sps |-> NULL, idr |-> 0]
        /\ UNCHANGED <<codec, set, pipe, fresh, lent, lost, dropped, starts, frames, idrs, broken>>
    BY <2>1 DEF mediacodec_encoder_alloc, codecVars
  <2>3. failed' \in BOOLEAN /\ firstI' \in BOOLEAN /\ recent' \in BOOLEAN
    BY <2>2, Zenon
  <2>4. AppTypes' /\ FieldTypes'
    BY <2>2, <2>3
  <2>5. FarTypes'
    BY <1>0, <2>2
  <2>6. CodecTypes'
    BY <1>0, <2>2 DEF CodecTypes
  <2>7. CodecInv'
    BY <2>2 DEF CodecInv
  <2>8. QED
    BY <2>4, <2>5, <2>6, <2>7
<1>2. CASE mediacodec_encoder_open
  <2>1. /\ app' \in {"open", "failed"} /\ encMutex = "free"
        /\ UNCHANGED <<codeType, width, bit_rate, sps, firstI, frameIndex, recent, encMutex,
                       frames, idrs, dec, broken>>
        /\ \/ UNCHANGED <<codecVars, failed>>
           \/ Stands /\ UNCHANGED failed
           \/ Runs([size |-> width, rate |-> bit_rate]) /\ failed' = FALSE
    BY <1>2 DEF mediacodec_encoder_open, Refused, fieldVars, farVars
  <2>2. [size |-> width, rate |-> bit_rate] \in [size : Sizes, rate : Rates]
    BY <1>0
  <2>3. AppTypes' /\ FieldTypes' /\ FarTypes'
    BY <1>0, <2>1
  <2>4. /\ CodecTypes'
        /\ codec' = "running" => set' \in [size : Sizes, rate : Rates]
        /\ codec' # "running" \/ fresh' => pipe' = <<>>
        /\ codec' = "null" => codec = "null"
    BY <2>1, <2>2, CodecSwitched
  <2>5. CodecInv'
    BY <2>1, <2>4 DEF CodecInv
  <2>6. QED
    BY <2>3, <2>4, <2>5
<1>3. CASE mediacodec_encoder_close
  <2>1. /\ app' \in {"closing", "closed"} /\ encMutex' \in {"free", "left"}
        /\ sps' \in {sps, NULL}
        /\ UNCHANGED <<codeType, width, bit_rate, firstI, frameIndex, recent, frames, idrs, dec, broken,
                       failed>>
    BY <1>3 DEF mediacodec_encoder_close, farVars
  <2>2. AppTypes' /\ FieldTypes' /\ FarTypes'
    BY <1>0, <2>1
  <2>3. CASE codec = "null"
    <3>1. /\ UNCHANGED <<sps, codec, set, pipe, fresh, lent, lost, dropped, starts>>
          /\ app' = "closed" /\ encMutex' = "left"
      BY <1>3, <2>3 DEF mediacodec_encoder_close, codecVars
    <3>2. CodecTypes' /\ CodecInv'
      BY <1>0, <2>3, <3>1 DEF CodecTypes, CodecInv
    <3>3. QED
      BY <2>2, <3>2
  <2>4. CASE codec # "null"
    <3>1. /\ sps' = NULL /\ encMutex' = encMutex /\ encMutex = "free"
          /\ \/ app' = "closing" /\ (UNCHANGED codecVars \/ Stands)
             \/ /\ app' = "closed" /\ codec' = "null" /\ pipe' = <<>> /\ lent' = 0 /\ lost' = 0
                /\ UNCHANGED <<set, fresh, dropped, starts>>
      BY <1>3, <2>4 DEF mediacodec_encoder_close
    <3>2. CASE app' = "closing" /\ (UNCHANGED codecVars \/ Stands)
      <4>1. /\ CodecTypes'
            /\ codec' = "running" => set' \in [size : Sizes, rate : Rates]
            /\ codec' # "running" \/ fresh' => pipe' = <<>>
        BY <3>2, CodecSwitched
      <4>2. QED
        BY <2>2, <3>1, <3>2, <4>1 DEF CodecInv
    <3>3. CASE /\ app' = "closed" /\ codec' = "null" /\ pipe' = <<>> /\ lent' = 0 /\ lost' = 0
               /\ UNCHANGED <<set, fresh, dropped, starts>>
      <4>1. <<>> \in Seq(Buffer)
        BY EmptySeq
      <4>2. CodecTypes' /\ CodecInv'
        BY <1>0, <3>1, <3>3, <4>1 DEF CodecTypes, CodecInv
      <4>3. QED
        BY <2>2, <4>2
    <3>4. QED
      BY <3>1, <3>2, <3>3
  <2>5. QED
    BY <2>3, <2>4
<1>4. CASE mediacodec_encoder_free
  <2>1. /\ app \in {"allocated", "closed"} /\ app' = "none"
        /\ UNCHANGED <<codeType, width, bit_rate, sps, firstI, frameIndex, recent, encMutex,
                       codec, set, pipe, fresh, lent, lost, dropped, starts, frames, idrs, dec,
                       broken, failed>>
    BY <1>4 DEF mediacodec_encoder_free, fieldVars, codecVars, farVars
  <2>2. AppTypes' /\ FieldTypes' /\ FarTypes' /\ CodecTypes'
    BY <1>0, <2>1 DEF CodecTypes
  <2>3. CodecInv'
    BY <2>1 DEF CodecInv
  <2>4. QED
    BY <2>2, <2>3
<1>5. QED
  BY <1>1, <1>2, <1>3, <1>4 DEF Life

LEMMA TypesOfUse ==
  ASSUME TypeOK, CodecInv, Use
  PROVE  AppTypes' /\ FieldTypes' /\ FarTypes' /\ CodecTypes' /\ CodecInv'
<1> USE DEF AppTypes, FieldTypes, FarTypes
<1>0. AppTypes /\ FieldTypes /\ FarTypes /\ CodecTypes
  BY TypeParts
<1>1. CASE mediacodec_encoder_input \/ EncodeInput
  <2>1. /\ app = "open" /\ app' = app /\ encMutex' \in {encMutex, "encode"}
        /\ frameIndex' \in {frameIndex, frameIndex + 1} /\ frames' = frames + 1
        /\ UNCHANGED <<codeType, width, bit_rate, sps, firstI, recent, dec, broken, failed>>
        /\ NotPutIn \/ PutIn
        /\ UNCHANGED <<codec, set, dropped, starts>>
    BY <1>1 DEF mediacodec_encoder_input, EncodeInput, Idle, farVars
  <2>2. /\ CodecTypes' /\ idrs' \in Nat
        /\ codec' = "running" => set' \in [size : Sizes, rate : Rates]
        /\ codec' # "running" \/ fresh' => pipe' = <<>>
    BY <2>1, CodecFed
  <2>3. AppTypes' /\ FarTypes'
    BY <1>0, <2>1, <2>2
  <2>4. frameIndex \in Int /\ frameIndex' \in Int
    BY <1>0, <2>1
  <2>5. FieldTypes'
    BY <1>0, <2>1, <2>4
  <2>6. CodecInv'
    BY <2>1, <2>2 DEF CodecInv
  <2>7. QED
    BY <2>2, <2>3, <2>5, <2>6
<1>2. CASE mediacodec_encoder_output \/ EncodeOutput
  <2>1. /\ TakeOut \/ DropOut
        /\ frameIndex' \in {frameIndex, frameIndex - 1}
        /\ UNCHANGED <<app, encMutex, codeType, width, bit_rate, recent, frames, idrs, failed>>
    BY <1>2 DEF mediacodec_encoder_output, EncodeOutput
  <2>2. /\ CodecTypes' /\ sps' \in Sizes \cup {NULL} /\ firstI' \in BOOLEAN
        /\ dec' \in [sps : Sizes \cup {NULL}, idr : Nat] /\ broken' \in BOOLEAN
        /\ codec' = "running" /\ set' \in [size : Sizes, rate : Rates] /\ ~fresh'
    BY <2>1, CodecDrained
  <2>3. AppTypes'
    BY <1>0, <2>1
  <2>4. FarTypes'
    BY <1>0, <2>1, <2>2
  <2>5. frameIndex \in Int /\ frameIndex' \in Int
    BY <1>0, <2>1
  <2>6. FieldTypes'
    BY <1>0, <2>1, <2>2, <2>5
  <2>7. codec = "running"
    BY <2>1 DEF TakeOut, DropOut
  <2>8. CodecInv'
    BY <2>1, <2>2, <2>7 DEF CodecInv
  <2>9. QED
    BY <2>2, <2>3, <2>4, <2>6, <2>8
<1>3. CASE EncodeReturn
  <2>1. /\ encMutex' = "free"
        /\ UNCHANGED <<app, codeType, width, bit_rate, sps, firstI, frameIndex, recent,
                       codec, set, pipe, fresh, lent, lost, dropped, starts, frames, idrs, dec,
                       broken, failed>>
    BY <1>3 DEF EncodeReturn, codecVars, farVars
  <2>2. AppTypes' /\ FieldTypes' /\ FarTypes' /\ CodecTypes'
    BY <1>0, <2>1 DEF CodecTypes
  <2>3. CodecInv'
    BY <2>1 DEF CodecInv
  <2>4. QED
    BY <2>2, <2>3
<1>4. QED
  BY <1>1, <1>2, <1>3 DEF Use

\* A change of the parameters is one of these: of the size, which may fail, or of the
\* rate, without or with a restart, or not.
Resized(size, rate) ==
  /\ Runs([size |-> size, rate |-> rate]) /\ failed' = FALSE
  /\ width' = size /\ bit_rate' = rate /\ sps' = NULL /\ firstI' = FALSE
  /\ UNCHANGED <<frameIndex, recent>>

ResizeFailed(size, rate) ==
  /\ UNCHANGED codecVars \/ Stands
  /\ failed' = TRUE
  /\ width' = size /\ bit_rate' = rate /\ sps' = NULL /\ firstI' = FALSE
  /\ UNCHANGED <<frameIndex, recent>>

RateSet(rate) ==
  /\ codec = "running" /\ set' = [set EXCEPT !.rate = rate] /\ bit_rate' = rate
  /\ UNCHANGED <<width, sps, firstI, frameIndex, recent, failed, codec, pipe, fresh, lent, lost,
                 dropped, starts>>

RateKept ==
  /\ UNCHANGED codecVars \/ Stands
  /\ recent' \in {recent, TRUE}
  /\ UNCHANGED <<width, bit_rate, sps, firstI, frameIndex, failed>>

RestartedWithRate(rate) ==
  /\ Runs([size |-> width, rate |-> rate])
  /\ frameIndex' = 0 /\ bit_rate' = rate /\ recent' = TRUE
  /\ UNCHANGED <<width, sps, firstI, failed>>

LEMMA WhatIsChanged ==
  ASSUME NEW size \in Sizes, NEW rate \in Rates, mediacodec_encoder_reset_param(size, rate)
  PROVE  /\ Idle /\ UNCHANGED <<app, codeType, encMutex, frames, idrs, dec, broken>>
         /\ \/ Resized(size, rate) \/ ResizeFailed(size, rate)
            \/ RateSet(rate) \/ RateKept \/ RestartedWithRate(rate)
<1> USE DEF Resized, ResizeFailed, RateSet, RateKept, RestartedWithRate
<1>1. CASE Resize(size, rate)
  BY <1>1 DEF mediacodec_encoder_reset_param, Resize, Restarts, RestartFails, farVars
<1>2. CASE mediacodec_encoder_modify_bitrate(rate)
  <2>1. Idle /\ UNCHANGED <<app, codeType, width, frames, idrs, dec, broken, failed>>
    BY <1>2 DEF mediacodec_encoder_reset_param, mediacodec_encoder_modify_bitrate, farVars
  <2>2. CASE SetRate(rate)
    BY <2>1, <2>2 DEF SetRate, codecVars
  <2>3. CASE RefuseRate(rate)
    BY <2>1, <2>3 DEF RefuseRate
  <2>4. CASE RestartWithRate(rate)
    BY <2>1, <2>4 DEF RestartWithRate, Restarts, RestartFails
  <2>5. QED
    BY <1>2, <2>2, <2>3, <2>4 DEF mediacodec_encoder_modify_bitrate
<1>3. QED
  BY <1>1, <1>2 DEF mediacodec_encoder_reset_param

LEMMA TypesOfControl ==
  ASSUME TypeOK, CodecInv, Control
  PROVE  AppTypes' /\ FieldTypes' /\ FarTypes' /\ CodecTypes' /\ CodecInv'
<1> USE DEF AppTypes, FieldTypes, FarTypes
<1>0. AppTypes /\ FieldTypes /\ FarTypes /\ CodecTypes
  BY TypeParts
<1>1. ASSUME NEW size \in Sizes, NEW rate \in Rates, mediacodec_encoder_reset_param(size, rate)
      PROVE  AppTypes' /\ FieldTypes' /\ FarTypes' /\ CodecTypes' /\ CodecInv'
  <2>1. Idle /\ UNCHANGED <<app, codeType, encMutex, frames, idrs, dec, broken>>
    BY <1>1, WhatIsChanged
  <2>2. /\ failed' \in {failed, TRUE, FALSE} /\ firstI' \in {firstI, FALSE}
        /\ recent' \in {recent, TRUE}
        /\ width' \in {width, size} /\ bit_rate' \in {bit_rate, rate} /\ sps' \in {sps, NULL}
        /\ frameIndex' \in {frameIndex, 0}
    BY <1>1, WhatIsChanged DEF Resized, ResizeFailed, RateSet, RateKept, RestartedWithRate
  <2>3. failed' \in BOOLEAN /\ firstI' \in BOOLEAN /\ recent' \in BOOLEAN
    BY <1>0, <2>2
  <2>4. AppTypes' /\ FarTypes'
    BY <1>0, <2>1, <2>3
  <2>5. FieldTypes'
    BY <1>0, <2>1, <2>2, <2>3
  <2>6. CASE \/ \E params \in [size : Sizes, rate : Rates] : Runs(params)
             \/ Stands
             \/ UNCHANGED codecVars
    <3>1. /\ CodecTypes'
          /\ codec' = "running" => set' \in [size : Sizes, rate : Rates]
          /\ codec' # "running" \/ fresh' => pipe' = <<>>
          /\ codec' = "null" => codec = "null"
      BY <2>6, CodecSwitched
    <3>2. CodecInv'
      BY <2>1, <2>2, <3>1 DEF CodecInv, Idle
    <3>3. QED
      BY <2>4, <2>5, <3>1, <3>2
  <2>7. CASE /\ codec = "running" /\ set' = [set EXCEPT !.rate = rate]
             /\ UNCHANGED <<codec, pipe, fresh, lent, lost, dropped, starts>>
    <3>1. set' \in [size : Sizes, rate : Rates]
      BY <2>7 DEF CodecInv
    <3>2. CodecTypes' /\ CodecInv'
      BY <1>0, <2>1, <2>2, <2>7, <3>1 DEF CodecTypes, CodecInv
    <3>3. QED
      BY <2>4, <2>5, <3>2
  <2>8. [size |-> size, rate |-> rate] \in [size : Sizes, rate : Rates]
        /\ [size |-> width, rate |-> rate] \in [size : Sizes, rate : Rates]
    BY <1>0
  <2>9. QED
    BY <1>1, <2>6, <2>7, <2>8, WhatIsChanged
       DEF Resized, ResizeFailed, RateSet, RateKept, RestartedWithRate
<1>2. CASE TimePasses
  <2>1. /\ recent' \in BOOLEAN
        /\ UNCHANGED <<app, codeType, width, bit_rate, sps, firstI, frameIndex, encMutex,
                       codec, set, pipe, fresh, lent, lost, dropped, starts, frames, idrs, dec,
                       broken, failed>>
    BY <1>2 DEF TimePasses, codecVars, farVars
  <2>2. AppTypes' /\ FieldTypes' /\ FarTypes' /\ CodecTypes'
    BY <1>0, <2>1 DEF CodecTypes
  <2>3. CodecInv'
    BY <2>1 DEF CodecInv
  <2>4. QED
    BY <2>2, <2>3
<1>3. QED
  BY <1>1, <1>2 DEF Control

LEMMA TypesStep ==
  ASSUME TypeOK, CodecInv, Next
  PROVE  TypeOK' /\ CodecInv'
<1>1. AppTypes' /\ FieldTypes' /\ FarTypes' /\ CodecTypes' /\ CodecInv'
  BY TypesOfLife, TypesOfUse, TypesOfControl DEF Next
<1>2. style' = style /\ setsRate' = setsRate
  BY DEF Next
<1>3. style' \in {"encode", "async"} /\ setsRate' \in BOOLEAN
  BY <1>2 DEF TypeOK
<1>4. TypeOK'
  BY <1>1, <1>3 DEF TypeOK, AppTypes, FieldTypes, FarTypes, CodecTypes
<1>5. QED
  BY <1>1, <1>4
-----------------------------------------------------------------------------
(***************************************************************************)
(* The count of frames inside.                                             *)
(***************************************************************************)

LEMMA CountStep ==
  ASSUME TypeOK, CodecInv, CountInv, Next
  PROVE  CountInv'
<1>0. /\ style' = style /\ frameIndex \in Int /\ Len(pipe) \in Nat /\ frameIndex >= 0
      /\ Len(<<>>) = 0 /\ (style = "async" => Len(pipe) <= frameIndex + 1)
  BY LenProperties, EmptySeq DEF Next, TypeOK, CountInv
<1>1. ASSUME pipe' \in {pipe, <<>>}, frameIndex' = frameIndex PROVE CountInv'
  BY <1>0, <1>1 DEF CountInv
<1>2. ASSUME pipe' = <<>>, frameIndex' = 0 PROVE CountInv'
  BY <1>0, <1>2 DEF CountInv
<1>3. CASE Life
  <2>1. ASSUME NEW type \in Codecs, NEW size \in Sizes, NEW rate \in Rates,
               mediacodec_encoder_alloc(type, size, rate)
        PROVE  CountInv'
    <3>1. pipe = <<>>
      BY <2>1 DEF mediacodec_encoder_alloc, CodecInv
    <3>2. pipe' = pipe /\ frameIndex' = 0
      BY <2>1 DEF mediacodec_encoder_alloc, codecVars
    <3>3. QED
      BY <1>2, <3>1, <3>2
  <2>2. CASE mediacodec_encoder_open \/ mediacodec_encoder_close \/ mediacodec_encoder_free
    <3>1. pipe' \in {pipe, <<>>} /\ frameIndex' = frameIndex
      BY <2>2 DEF mediacodec_encoder_open, mediacodec_encoder_close, mediacodec_encoder_free,
         Refused, Stands, Runs, fieldVars, codecVars
    <3>2. QED
      BY <1>1, <3>1
  <2>3. QED
    BY <1>3, <2>1, <2>2 DEF Life
<1>4. CASE mediacodec_encoder_input
  <2>1. CASE NotPutIn /\ UNCHANGED frameIndex
    BY <1>1, <2>1 DEF NotPutIn
  <2>a. CASE NotQueued /\ frameIndex' = frameIndex + 1
    <3>1. pipe' = pipe
      BY <2>a DEF NotQueued
    <3>2. QED
      BY <1>0, <2>a, <3>1 DEF CountInv
  <2>2. CASE Queued /\ frameIndex' = frameIndex + 1
    <3>1. fresh => Len(pipe) = 0
      BY <1>0 DEF CodecInv
    <3>2. \/ Len(pipe) = 0 /\ (Len(pipe') = 1 \/ Len(pipe') = 2)
          \/ Len(pipe') = Len(pipe) + 1
      <4>1. CASE fresh
        <5>1. \/ pipe' = <<SetsBuffer(idrs'), KeyBuffer(idrs')>>
              \/ pipe' = <<SetsKeyBuffer(idrs')>>
          BY <2>2, <4>1, WhatIsPutIn
        <5>2. Len(pipe') = 1 \/ Len(pipe') = 2
          BY <5>1
        <5>3. QED
          BY <3>1, <4>1, <5>2
      <4>2. CASE ~fresh
        <5>1. pipe \in Seq(Buffer)
          BY DEF TypeOK
        <5>2. \/ pipe' = Append(pipe, KeyBuffer(idrs'))
              \/ pipe' = Append(pipe, InterBuffer(idrs'))
          BY <2>2, <4>2, WhatIsPutIn
        <5>3. Len(pipe') = Len(pipe) + 1
          BY <5>1, <5>2
        <5>4. QED
          BY <5>3
      <4>3. QED
        BY <4>1, <4>2
    <3>3. frameIndex' = frameIndex + 1
      BY <2>2
    <3>4. style = "async" => Len(pipe') <= frameIndex' + 1
      <4>1. CASE Len(pipe) = 0 /\ (Len(pipe') = 1 \/ Len(pipe') = 2)
        <5>1. frameIndex \in Int /\ frameIndex >= 0
          BY <1>0
        <5>2. CASE Len(pipe') = 1
          BY <3>3, <5>1, <5>2
        <5>3. CASE Len(pipe') = 2
          BY <3>3, <5>1, <5>3
        <5>4. QED
          BY <4>1, <5>2, <5>3
      <4>2. CASE Len(pipe') = Len(pipe) + 1
        BY <1>0, <3>3, <4>2
      <4>3. QED
        BY <3>2, <4>1, <4>2
    <3>5. frameIndex' >= 0
      BY <1>0, <2>2
    <3>6. QED
      BY <1>0, <3>4, <3>5 DEF CountInv
  <2>3. QED
    BY <1>4, <2>1, <2>a, <2>2 DEF mediacodec_encoder_input, PutIn
<1>5. CASE EncodeInput
  BY <1>0, <1>5 DEF EncodeInput, CountInv
<1>6. CASE mediacodec_encoder_output
  <2>1. /\ Len(pipe') = Len(pipe) - 1 /\ frameIndex > 0
        /\ frameIndex' \in {frameIndex - 1, frameIndex}
    BY <1>6, WhatIsTaken DEF mediacodec_encoder_output
  <2>2. QED
    BY <1>0, <2>1 DEF CountInv
<1>7. CASE EncodeOutput
  <2>1. Len(pipe') = Len(pipe) - 1 /\ frameIndex' = frameIndex
    BY <1>7, WhatIsTaken DEF EncodeOutput
  <2>2. QED
    BY <1>0, <2>1 DEF CountInv
<1>8. CASE EncodeReturn \/ TimePasses
  <2>1. pipe' = pipe /\ frameIndex' = frameIndex
    BY <1>8 DEF EncodeReturn, TimePasses, codecVars
  <2>2. QED
    BY <1>1, <2>1
<1>9. ASSUME NEW size \in Sizes, NEW rate \in Rates, mediacodec_encoder_reset_param(size, rate)
      PROVE  CountInv'
  <2>1. \/ pipe' \in {pipe, <<>>} /\ frameIndex' = frameIndex
        \/ pipe' = <<>> /\ frameIndex' = 0
    BY <1>9, WhatIsChanged DEF Resized, ResizeFailed, RateSet, RateKept, RestartedWithRate,
       Runs, Stands, codecVars
  <2>2. QED
    BY <1>1, <1>2, <2>1
<1>10. QED
  BY <1>3, <1>4, <1>5, <1>6, <1>7, <1>8, <1>9 DEF Next, Use, Control

-----------------------------------------------------------------------------
(***************************************************************************)
(* The codec runs with the parameters of the fields.                       *)
(***************************************************************************)

LEMMA RunsStep ==
  ASSUME TypeOK, CodecInv, RunsAsTold, Next
  PROVE  RunsAsTold'
<1>0. width \in Nat
  BY Assumption DEF TypeOK
<1>1. CASE Life
  <2>1. ASSUME NEW type \in Codecs, NEW size \in Sizes, NEW rate \in Rates,
               mediacodec_encoder_alloc(type, size, rate)
        PROVE  RunsAsTold'
    BY <2>1 DEF mediacodec_encoder_alloc, RunsAsTold
  <2>2. CASE mediacodec_encoder_open
    <3>1. /\ app' = "failed" \/ Runs([size |-> width, rate |-> bit_rate])
          /\ width' = width /\ bit_rate' = bit_rate
      BY <2>2 DEF mediacodec_encoder_open, Refused, fieldVars
    <3>2. QED
      BY <3>1 DEF Runs, RunsAsTold
  <2>3. CASE mediacodec_encoder_close \/ mediacodec_encoder_free
    BY <2>3 DEF mediacodec_encoder_close, mediacodec_encoder_free, RunsAsTold
  <2>4. QED
    BY <1>1, <2>1, <2>2, <2>3 DEF Life
<1>2. CASE mediacodec_encoder_input \/ EncodeInput
  <2>1. /\ UNCHANGED <<app, width, bit_rate, codec, set, failed>>
        /\ NotPutIn \/ PutIn
    BY <1>2 DEF mediacodec_encoder_input, EncodeInput
  <2>2. CASE UNCHANGED <<lent, lost>>
    BY <2>1, <2>2 DEF RunsAsTold
  <2>3. CASE Lends /\ lost' = lost + 1
    BY <2>1, <2>3 DEF Lends, RunsAsTold
  <2>4. CASE Lends /\ ~Fits
    <3>1. codec = "running" /\ ~(set.size >= width)
      BY <2>4 DEF Lends, Fits, inputBufferSize
    <3>2. ~(app = "open" /\ ~failed)
      BY <1>0, <3>1 DEF RunsAsTold
    <3>3. QED
      BY <2>1, <3>2 DEF RunsAsTold
  <2>5. QED
    BY <2>1, <2>2, <2>3, <2>4 DEF NotPutIn, PutIn, Queued, NotQueued
<1>3. CASE mediacodec_encoder_output \/ EncodeOutput
  <2>1. UNCHANGED <<app, width, bit_rate, codec, set, failed, lent, lost>>
    BY <1>3, WhatIsTaken DEF mediacodec_encoder_output, EncodeOutput
  <2>2. QED
    BY <2>1 DEF RunsAsTold
<1>4. CASE EncodeReturn \/ TimePasses
  BY <1>4 DEF EncodeReturn, TimePasses, codecVars, RunsAsTold
<1>5. ASSUME NEW size \in Sizes, NEW rate \in Rates, mediacodec_encoder_reset_param(size, rate)
      PROVE  RunsAsTold'
  <2>1. app' = app /\ app = "open"
    BY <1>5, WhatIsChanged DEF Idle
  <2>2. CASE Resized(size, rate)
    BY <2>2 DEF Resized, Runs, RunsAsTold
  <2>3. CASE ResizeFailed(size, rate)
    BY <2>3 DEF ResizeFailed, RunsAsTold
  <2>4. CASE RateSet(rate)
    BY <2>1, <2>4 DEF RateSet, RunsAsTold
  <2>5. CASE RateKept
    BY <2>1, <2>5 DEF RateKept, codecVars, Stands, RunsAsTold
  <2>6. CASE RestartedWithRate(rate)
    BY <2>6 DEF RestartedWithRate, Runs, RunsAsTold
  <2>7. QED
    BY <1>5, <2>2, <2>3, <2>4, <2>5, <2>6, WhatIsChanged
<1>6. QED
  BY <1>1, <1>2, <1>3, <1>4, <1>5 DEF Next, Use, Control
-----------------------------------------------------------------------------
(***************************************************************************)
(* What the receiver needs is there.                                       *)
(***************************************************************************)

\* QueueOrder at one place of the queue.
InPlace(i) ==
  /\ i = 1 => (pipe[i].slice = "none" => pipe[i].config /\ Len(pipe) > 1 /\ pipe[2].slice = "I")
  /\ i # 1 => ~pipe[i].config /\ pipe[i].slice # "none"
  /\ pipe[i].slice = "P" => ~pipe[i].config /\ (i > 1 => pipe[i].idr = pipe[i - 1].idr)

LEMMA PlaceByPlace ==
  QueueOrder <=> /\ \A i \in 1..Len(pipe) : InPlace(i)
                 /\ pipe # <<>> => pipe[Len(pipe)].idr = idrs
BY DEF QueueOrder, InPlace

\* A codec that has just been started has nothing inside.
LEMMA EmptyQueue ==
  ASSUME pipe' = <<>>, fresh'
  PROVE  OneSize' /\ QueueOrder' /\ ReceiverReady'
<1>1. Len(pipe') = 0
  BY EmptySeq
<1>2. \A i \in 1..Len(pipe') : FALSE
  BY <1>1
<1>3. OneSize' /\ QueueOrder'
  BY <1>2 DEF OneSize, QueueOrder
<1>4. ReceiverReady'
  BY DEF ReceiverReady, SetsToCome
<1>5. QED
  BY <1>3, <1>4

\* A buffer that goes leaves the others as they are, and has the size of the fields.
LEMMA SizeOnceTaken ==
  ASSUME EncoderInv, TakeOut \/ DropOut, app = "open", ~failed
  PROVE  OneSize' /\ pipe[1].size = width
<1>1. TypeOK /\ RunsAsTold /\ StreamInv
  BY DEF EncoderInv
<1>2. /\ codec = "running" /\ Len(pipe) \in Nat \ {0}
      /\ pipe' \in Seq(Buffer) /\ Len(pipe') = Len(pipe) - 1
      /\ \A i \in 1..Len(pipe') : pipe'[i] = pipe[i + 1]
      /\ set' = set
  BY <1>1, WhatIsTaken
<1>3. OneSize /\ set.size = width
  BY <1>1, <1>2 DEF StreamInv, RunsAsTold
<1>4. pipe[1].size = width
  BY <1>2, <1>3 DEF OneSize
<1>5. ASSUME NEW i \in 1..Len(pipe') PROVE pipe'[i].size = set'.size
  BY <1>2, <1>3 DEF OneSize
<1>6. QED
  BY <1>4, <1>5 DEF OneSize

\* The buffer taken out of the queue of a codec that is open and did not fail.
LEMMA TakenBuffer ==
  ASSUME EncoderInv, TakeOut, app = "open", ~failed, ~dropped
  PROVE  /\ pipe[1] \in Buffer /\ pipe[1].size = width /\ width # NULL
         /\ codeType \in {"AVC", "HEVC"} /\ sps \in {NULL, width}
         /\ QueueOrder /\ ReceiverReady /\ ~fresh /\ InPlace(1)
         /\ Len(pipe) = 1 => pipe[1].idr = idrs
<1>1. TypeOK /\ CodecInv /\ RunsAsTold /\ StreamInv
  BY DEF EncoderInv
<1>2. /\ codec = "running" /\ pipe # <<>> /\ pipe[1] \in Buffer
      /\ Len(pipe) \in Nat \ {0}
  BY <1>1, WhatIsTaken
<1>3. QueueOrder /\ ReceiverReady /\ sps \in {NULL, width} /\ ~fresh
  BY <1>1, <1>2 DEF StreamInv, CodecInv
<1>4. pipe[1].size = width
  BY SizeOnceTaken
<1>5. InPlace(1)
  BY <1>2, <1>3, PlaceByPlace
<1>6. width # NULL /\ codeType \in {"AVC", "HEVC"}
  BY <1>1, Assumption DEF TypeOK, NULL
<1>7. Len(pipe) = 1 => pipe[1].idr = idrs
  BY <1>2, <1>3 DEF QueueOrder
<1>8. QED
  BY <1>2, <1>3, <1>4, <1>5, <1>6, <1>7

LEMMA OrderOnceTaken ==
  ASSUME EncoderInv, TakeOut, app = "open", ~failed, ~dropped, idrs' = idrs
  PROVE  QueueOrder'
<1>1. TypeOK
  BY DEF EncoderInv
<1>2. QueueOrder
  BY TakenBuffer
<1>3. /\ pipe' \in Seq(Buffer) /\ Len(pipe') = Len(pipe) - 1 /\ Len(pipe) \in Nat \ {0}
      /\ \A i \in 1..Len(pipe') : pipe'[i] = pipe[i + 1]
  BY <1>1, WhatIsTaken
<1>4. ASSUME NEW i \in 1..Len(pipe')
      PROVE  /\ IF i = 1
                THEN pipe'[i].slice = "none"
                       => pipe'[i].config /\ Len(pipe') > 1 /\ pipe'[2].slice = "I"
                ELSE ~pipe'[i].config /\ pipe'[i].slice # "none"
             /\ pipe'[i].slice = "P"
                  => ~pipe'[i].config /\ (i > 1 => pipe'[i].idr = pipe'[i - 1].idr)
  <2>1. i + 1 \in 1..Len(pipe) /\ i + 1 # 1 /\ i + 1 > 1 /\ i + 1 - 1 = i
    BY <1>3
  <2>2. InPlace(i + 1)
    BY <1>2, <2>1, PlaceByPlace
  <2>3. pipe'[i] = pipe[i + 1]
    BY <1>3
  <2>4. i > 1 => pipe'[i - 1] = pipe[i]
    <3>1. ASSUME i > 1 PROVE i - 1 \in 1..Len(pipe') /\ (i - 1) + 1 = i
      BY <1>3, <3>1
    <3>2. QED
      BY <1>3, <3>1
  <2>5. /\ ~pipe[i + 1].config /\ pipe[i + 1].slice # "none"
        /\ pipe[i + 1].slice = "P" => pipe[i + 1].idr = pipe[i].idr
    BY <2>1, <2>2 DEF InPlace
  <2>6. QED
    BY <1>3, <2>3, <2>4, <2>5
<1>5. ASSUME pipe' # <<>> PROVE pipe'[Len(pipe')].idr = idrs'
  <2>1. Len(pipe') \in 1..Len(pipe') /\ Len(pipe') + 1 = Len(pipe)
    BY <1>3, <1>5, EmptySeq
  <2>2. pipe'[Len(pipe')] = pipe[Len(pipe)]
    BY <1>3, <2>1
  <2>3. pipe # <<>>
    BY DEF TakeOut
  <2>4. QED
    BY <1>2, <2>2, <2>3 DEF QueueOrder
<1>6. QED
  BY <1>4, <1>5 DEF QueueOrder

\* The receiver is handed what it can decode, and is ready for what follows.
LEMMA ReadyOnceTaken ==
  ASSUME EncoderInv, TakeOut, app = "open", ~failed, ~dropped,
         UNCHANGED <<codeType, width, idrs>>
  PROVE  /\ ReceiverReady'
         /\ HandsOut(pipe[1]) => ~broken'
<1> DEFINE b == pipe[1]
<1>1. /\ b \in Buffer /\ b.size = width /\ width # NULL
      /\ codeType \in {"AVC", "HEVC"} /\ sps \in {NULL, width}
      /\ QueueOrder /\ ReceiverReady /\ ~fresh /\ InPlace(1)
      /\ Len(pipe) = 1 => b.idr = idrs
  BY TakenBuffer
<1>2. TypeOK /\ ~broken
  BY DEF EncoderInv
<1>3. /\ pipe' \in Seq(Buffer) /\ Len(pipe') = Len(pipe) - 1 /\ Len(pipe) \in Nat \ {0}
      /\ \A i \in 1..Len(pipe') : pipe'[i] = pipe[i + 1]
      /\ Head(pipe) = b /\ pipe # <<>> /\ fresh' = fresh
  BY <1>2, WhatIsTaken
<1>4. /\ b.slice \in {"none", "I", "P"}
      /\ b.slice = "none" => b.config /\ Len(pipe) > 1 /\ pipe[2].slice = "I"
      /\ b.slice = "P" => ~b.config
  BY <1>1 DEF InPlace, Buffer
<1>5. ASSUME Len(pipe) > 1
      PROVE  ~pipe[2].config /\ (pipe[2].slice = "I" \/ pipe[2].idr = b.idr)
  <2>1. 2 \in 1..Len(pipe) /\ 2 - 1 = 1
    BY <1>3, <1>5
  <2>2. InPlace(2) /\ pipe[2] \in Buffer
    BY <1>1, <1>2, <2>1, PlaceByPlace, ElementOfSeq DEF TypeOK
  <2>3. QED
    BY <1>5, <2>1, <2>2 DEF InPlace, Buffer
<1>6. ASSUME ~b.config
      PROVE  /\ codeType = "HEVC" => dec.sps = width
             /\ codeType = "AVC" => sps = width
             /\ codeType = "HEVC" \/ firstI => b.slice = "I" \/ b.idr = dec.idr
  BY <1>1, <1>3, <1>6 DEF ReceiverReady, SetsToCome
<1> HIDE DEF b
<1>7. /\ IF codeType = "AVC" THEN sps' = SavedSets(b) /\ firstI' = SeesKeyFrame(b)
                             ELSE UNCHANGED <<sps, firstI>>
      /\ IF HandsOut(b) THEN Received(b) ELSE UNCHANGED farVars
  BY <1>3 DEF TakeOut
<1>8. codeType = "AVC" => sps' = width
  BY <1>1, <1>6, <1>7 DEF SavedSets
<1>9. ASSUME HandsOut(b)
      PROVE  /\ dec'.idr = IF b.slice = "I" THEN b.idr ELSE dec.idr
             /\ codeType = "HEVC" => dec'.sps = width
             /\ ~broken'
  <2> DEFINE has == IF SetsWith(b) # NULL THEN SetsWith(b) ELSE dec.sps
  <2>1. /\ dec' = [sps |-> has, idr |-> IF b.slice = "I" THEN b.idr ELSE dec.idr]
        /\ broken' = (\/ broken
                      \/ ~failed /\ ~dropped /\ b.slice = "I" /\ has # b.size
                      \/ ~failed /\ ~dropped /\ b.slice = "P" /\ dec.idr # b.idr)
    BY <1>7, <1>9 DEF Received
  <2>2. codeType = "HEVC" => has = width
    BY <1>1, <1>6 DEF SetsWith
  <2>3. b.slice = "I" => has = width
    BY <1>1, <1>6 DEF SetsWith
  <2>4. b.slice = "P" => dec.idr = b.idr
    <3>1. SUFFICES ASSUME b.slice = "P" PROVE dec.idr = b.idr
      OBVIOUS
    <3>2. codeType = "HEVC" \/ firstI
      BY <1>9, <3>1 DEF HandsOut, SeesKeyFrame
    <3>3. QED
      BY <1>4, <1>6, <3>1, <3>2
  <2> HIDE DEF has
  <2>5. ~broken'
    BY <1>1, <1>2, <2>1, <2>3, <2>4
  <2>6. QED
    BY <2>1, <2>2, <2>5
<1>10. ASSUME codeType = "HEVC" \/ firstI', b.slice # "none"
       PROVE  dec'.idr = b.idr
  <2>1. HandsOut(b)
    BY <1>1, <1>7, <1>10 DEF HandsOut
  <2>2. CASE b.slice = "I"
    BY <1>9, <2>1, <2>2
  <2>3. CASE b.slice = "P"
    <3>1. codeType = "HEVC" \/ firstI
      BY <1>1, <1>7, <1>10, <2>3 DEF SeesKeyFrame
    <3>2. b.idr = dec.idr
      BY <1>4, <1>6, <2>3, <3>1
    <3>3. QED
      BY <1>9, <2>1, <2>3, <3>2
  <2>4. QED
    BY <1>4, <1>10, <2>2, <2>3
<1>11. codeType = "HEVC" => dec'.sps = width
  BY <1>9 DEF HandsOut
<1>12. ASSUME codeType = "HEVC" \/ firstI'
       PROVE  IF pipe' = <<>> THEN dec'.idr = idrs ELSE pipe'[1].slice = "I" \/ pipe'[1].idr = dec'.idr
  <2>1. CASE pipe' = <<>>
    <3>1. Len(pipe) = 1
      BY <1>3, <2>1, EmptySeq
    <3>2. b.slice # "none" /\ b.idr = idrs
      BY <1>1, <1>4, <3>1 DEF b
    <3>3. QED
      BY <1>10, <1>12, <2>1, <3>2
  <2>2. CASE pipe' # <<>>
    <3>1. 1 \in 1..Len(pipe') /\ Len(pipe) > 1
      BY <1>3, <2>2, EmptySeq
    <3>2. pipe'[1] = pipe[2]
      BY <1>3, <3>1
    <3>3. pipe[2].slice = "I" \/ pipe[2].idr = b.idr
      BY <1>5, <3>1
    <3>4. b.slice = "none" => pipe[2].slice = "I"
      BY <1>4
    <3>5. QED
      BY <1>10, <1>12, <2>2, <3>2, <3>3, <3>4
  <2>3. QED
    BY <2>1, <2>2
<1>13. ReceiverReady'
  <2>1. UNCHANGED <<codeType, width, idrs>>
    OBVIOUS
  <2>2. QED
    BY <1>8, <1>11, <1>12, <2>1 DEF ReceiverReady
<1>14. QED
  BY <1>8, <1>9, <1>13 DEF b

\* A frame is put in behind the others, as a key frame or one for the last.
LEMMA OrderOncePutIn ==
  ASSUME TypeOK, CodecInv, QueueOrder, ReceiverReady, Queued,
         UNCHANGED <<set, codeType, width, sps, firstI, dec>>
  PROVE  QueueOrder' /\ ReceiverReady'
<1> USE DEF SetsBuffer, KeyBuffer, SetsKeyBuffer, InterBuffer
<1>0. idrs \in Nat /\ fresh' = FALSE
  BY WhatIsPutIn
<1>1. CASE fresh
  <2>1. CASE pipe' = <<SetsBuffer(idrs'), KeyBuffer(idrs')>>
    <3>1. /\ Len(pipe') = 2
          /\ pipe'[1] = SetsBuffer(idrs') /\ pipe'[2] = KeyBuffer(idrs')
      BY <2>1
    <3>2. QueueOrder'
      <4>1. \A i \in 1..Len(pipe') : i = 1 \/ i = 2
        BY <3>1
      <4>2. QED
        BY <3>1, <4>1 DEF QueueOrder
    <3>3. ReceiverReady'
      BY <2>1, <3>1 DEF ReceiverReady, SetsToCome
    <3>4. QED
      BY <3>2, <3>3
  <2>2. CASE pipe' = <<SetsKeyBuffer(idrs')>>
    <3>1. Len(pipe') = 1 /\ pipe'[1] = SetsKeyBuffer(idrs')
      BY <2>2
    <3>2. QueueOrder'
      <4>1. \A i \in 1..Len(pipe') : i = 1
        BY <3>1
      <4>2. QED
        BY <3>1, <4>1 DEF QueueOrder
    <3>3. ReceiverReady'
      BY <2>2, <3>1 DEF ReceiverReady, SetsToCome
    <3>4. QED
      BY <3>2, <3>3
  <2>3. QED
    BY <1>1, <2>1, <2>2, WhatIsPutIn
<1>2. CASE ~fresh
  <2>1. PICK e : /\ pipe' = Append(pipe, e)
                 /\ ~e.config /\ e.idr = idrs'
                 /\ \/ e.slice = "I"
                    \/ e.slice = "P" /\ idrs' = idrs
    <3>1. CASE pipe' = Append(pipe, KeyBuffer(idrs'))
      BY <3>1
    <3>2. CASE pipe' = Append(pipe, InterBuffer(idrs')) /\ idrs' = idrs
      BY <3>2
    <3>3. QED
      BY <1>2, <3>1, <3>2, WhatIsPutIn
  <2>2. /\ Len(pipe) \in Nat /\ Len(pipe') = Len(pipe) + 1
        /\ \A i \in 1..Len(pipe) : pipe'[i] = pipe[i]
        /\ pipe'[Len(pipe) + 1] = e
        /\ pipe' # <<>>
    <3>1. pipe \in Seq(Buffer)
      BY DEF TypeOK
    <3>2. Len(pipe) \in Nat
      BY <3>1, LenProperties
    <3>3. /\ Len(pipe') = Len(pipe) + 1
          /\ \A i \in 1..Len(pipe) : pipe'[i] = pipe[i]
          /\ pipe'[Len(pipe) + 1] = e
      BY <2>1, <3>1, <3>2
    <3>4. pipe' # <<>>
      BY <3>2, <3>3, EmptySeq
    <3>5. QED
      BY <3>2, <3>3, <3>4
  <2>3. pipe # <<>> => Len(pipe) \in 1..Len(pipe) /\ pipe[Len(pipe)].idr = idrs
    BY <2>2, EmptySeq DEF TypeOK, QueueOrder
  <2>4. ASSUME NEW i \in 1..Len(pipe')
        PROVE  /\ IF i = 1
                  THEN pipe'[i].slice = "none"
                         => pipe'[i].config /\ Len(pipe') > 1 /\ pipe'[2].slice = "I"
                  ELSE ~pipe'[i].config /\ pipe'[i].slice # "none"
               /\ pipe'[i].slice = "P"
                    => ~pipe'[i].config /\ (i > 1 => pipe'[i].idr = pipe'[i - 1].idr)
    <3>1. CASE i = Len(pipe) + 1
      <4>1. pipe'[i] = e
        BY <2>2, <3>1
      <4>2. ASSUME i > 1, e.slice = "P" PROVE e.idr = pipe'[i - 1].idr
        <5>1. i - 1 = Len(pipe) /\ i - 1 \in 1..Len(pipe)
          BY <2>2, <3>1, <4>2
        <5>2. pipe # <<>>
          BY <5>1, EmptySeq
        <5>3. pipe'[i - 1].idr = idrs
          BY <2>2, <2>3, <5>1, <5>2
        <5>4. QED
          BY <2>1, <4>2, <5>3
      <4>3. e.slice # "none" /\ ~e.config
        BY <2>1
      <4>4. QED
        BY <4>1, <4>2, <4>3
    <3>2. CASE i # Len(pipe) + 1
      <4>1. i \in 1..Len(pipe) /\ (i > 1 => i - 1 \in 1..Len(pipe))
        BY <2>2, <3>2
      <4>2. InPlace(i)
        BY <4>1, PlaceByPlace
      <4>3. pipe'[i] = pipe[i] /\ (i > 1 => pipe'[i - 1] = pipe[i - 1])
        BY <2>2, <4>1
      <4>4. Len(pipe) > 1 => pipe'[2] = pipe[2] /\ Len(pipe') > 1
        BY <2>2
      <4>5. QED
        BY <4>2, <4>3, <4>4 DEF InPlace
    <3>3. QED
      BY <3>1, <3>2
  <2>5. QueueOrder'
    <3>1. pipe'[Len(pipe')].idr = idrs'
      BY <2>1, <2>2
    <3>2. QED
      BY <2>4, <3>1 DEF QueueOrder
  <2>6. ReceiverReady'
    <3>1. CASE pipe = <<>>
      <4>1. pipe'[1] = e
        BY <2>2, <3>1, EmptySeq
      <4>2. QED
        BY <1>2, <2>1, <2>2, <3>1, <4>1 DEF ReceiverReady, SetsToCome
    <3>2. CASE pipe # <<>>
      <4>1. 1 \in 1..Len(pipe)
        BY <2>2, <2>3, <3>2
      <4>2. pipe'[1] = pipe[1]
        BY <2>2, <4>1
      <4>3. QED
        BY <1>2, <2>2, <3>2, <4>2 DEF ReceiverReady, SetsToCome
    <3>3. QED
      BY <3>1, <3>2
  <2>7. QED
    BY <2>5, <2>6
<1>3. QED
  BY <1>1, <1>2

\* It is for the size the codec was configured with.
LEMMA SizeOncePutIn ==
  ASSUME TypeOK, CodecInv, OneSize, Queued, set' = set
  PROVE  OneSize'
<1> USE DEF SetsBuffer, KeyBuffer, SetsKeyBuffer, InterBuffer, OneSize
<1>1. CASE pipe' = <<SetsBuffer(idrs'), KeyBuffer(idrs')>>
  BY <1>1
<1>2. CASE pipe' = <<SetsKeyBuffer(idrs')>>
  BY <1>2
<1>3. CASE pipe' = Append(pipe, KeyBuffer(idrs')) \/ pipe' = Append(pipe, InterBuffer(idrs'))
  <2>1. PICK e : pipe' = Append(pipe, e) /\ e.size = set.size
    BY <1>3
  <2>2. pipe \in Seq(Buffer) /\ Len(pipe) \in Nat
    BY LenProperties DEF TypeOK
  <2>3. /\ Len(pipe') = Len(pipe) + 1
        /\ \A i \in 1..Len(pipe) : pipe'[i] = pipe[i]
        /\ pipe'[Len(pipe) + 1] = e
    BY <2>1, <2>2
  <2>4. ASSUME NEW i \in 1..Len(pipe') PROVE pipe'[i].size = set'.size
    BY <2>1, <2>2, <2>3
  <2>5. QED
    BY <2>4
<1>4. QED
  BY <1>1, <1>2, <1>3, WhatIsPutIn

LEMMA StreamStep ==
  ASSUME EncoderInv, Next
  PROVE  StreamInv' /\ ~broken'
<1>0. TypeOK /\ CodecInv /\ RunsAsTold /\ StreamInv /\ ~broken
  BY DEF EncoderInv
<1>1. CASE Life
  <2>1. ASSUME NEW type \in Codecs, NEW size \in Sizes, NEW rate \in Rates,
               mediacodec_encoder_alloc(type, size, rate)
        PROVE  StreamInv' /\ ~broken'
    BY <1>0, <2>1 DEF mediacodec_encoder_alloc, StreamInv
  <2>2. CASE mediacodec_encoder_open
    <3>1. /\ app \in {"allocated", "closed"} /\ sps' = sps /\ broken' = broken
          /\ app' = "failed" \/ (pipe' = <<>> /\ fresh')
      BY <2>2 DEF mediacodec_encoder_open, Refused, Runs, fieldVars, farVars
    <3>2. sps = NULL
      BY <1>0, <3>1 DEF CodecInv
    <3>3. QED
      BY <1>0, <3>1, <3>2, EmptyQueue DEF StreamInv
  <2>3. CASE mediacodec_encoder_close \/ mediacodec_encoder_free
    BY <1>0, <2>3 DEF mediacodec_encoder_close, mediacodec_encoder_free, farVars, StreamInv
  <2>4. QED
    BY <1>1, <2>1, <2>2, <2>3 DEF Life
<1>2. CASE mediacodec_encoder_input \/ EncodeInput
  <2>1. /\ UNCHANGED <<app, codec, set, dropped, codeType, width, sps, firstI, dec, broken, failed>>
        /\ NotPutIn \/ PutIn
    BY <1>2 DEF mediacodec_encoder_input, EncodeInput, farVars
  <2>2. CASE NotPutIn \/ NotQueued
    <3>1. UNCHANGED <<pipe, fresh, idrs>>
      BY <2>2 DEF NotPutIn, NotQueued
    <3>2. QED
      BY <1>0, <2>1, <3>1 DEF StreamInv, OneSize, QueueOrder, ReceiverReady, SetsToCome
  <2>3. CASE Queued
    <3>1. ASSUME app = "open", ~failed, codec = "running"
          PROVE  OneSize' /\ (~dropped => QueueOrder' /\ ReceiverReady')
      BY <1>0, <2>1, <2>3, <3>1, SizeOncePutIn, OrderOncePutIn DEF StreamInv
    <3>2. QED
      BY <1>0, <2>1, <3>1 DEF StreamInv
  <2>4. QED
    BY <2>1, <2>2, <2>3 DEF PutIn
<1>3. CASE mediacodec_encoder_output \/ EncodeOutput
  <2>1. /\ TakeOut \/ DropOut
        /\ app = "open" /\ UNCHANGED <<app, codeType, width, idrs, failed>>
    BY <1>0, <1>3 DEF mediacodec_encoder_output, EncodeOutput, Idle, CodecInv
  <2>2. ~failed => OneSize' /\ sps' \in {NULL, width}
    <3>1. ASSUME ~failed PROVE OneSize' /\ pipe[1].size = width /\ sps \in {NULL, width}
      BY <1>0, <2>1, <3>1, SizeOnceTaken DEF StreamInv
    <3>2. Head(pipe) = pipe[1]
      BY <1>0, <2>1, WhatIsTaken
    <3>3. sps' \in {sps, SavedSets(pipe[1])}
      BY <2>1, <3>2 DEF TakeOut, DropOut
    <3>4. SavedSets(pipe[1]) \in {sps, pipe[1].size}
      BY DEF SavedSets
    <3>5. QED
      BY <3>1, <3>3, <3>4
  <2>3. CASE DropOut
    <3>1. dropped' /\ broken' = broken
      BY <2>3 DEF DropOut, farVars
    <3>2. QED
      BY <1>0, <2>1, <2>2, <3>1 DEF StreamInv
  <2>4. CASE TakeOut /\ (failed \/ dropped)
    <3>1. dropped' = dropped
      BY <2>4 DEF TakeOut
    <3>2. ~broken'
      <4>1. CASE HandsOut(Head(pipe))
        <5>1. Received(Head(pipe))
          BY <2>4, <4>1 DEF TakeOut
        <5>2. QED
          BY <1>0, <2>4, <5>1 DEF Received
      <4>2. CASE ~HandsOut(Head(pipe))
        BY <1>0, <2>4, <4>2 DEF TakeOut, farVars
      <4>3. QED
        BY <4>1, <4>2
    <3>3. QED
      BY <2>1, <2>2, <2>4, <3>1, <3>2 DEF StreamInv
  <2>5. CASE TakeOut /\ ~failed /\ ~dropped
    <3>1. QueueOrder' /\ ReceiverReady' /\ (HandsOut(pipe[1]) => ~broken')
      BY <2>1, <2>5, OrderOnceTaken, ReadyOnceTaken
    <3>2. ~broken'
      <4>1. Head(pipe) = pipe[1]
        BY <1>0, <2>5, WhatIsTaken
      <4>2. ~HandsOut(pipe[1]) => broken' = broken
        BY <2>5, <4>1 DEF TakeOut, farVars
      <4>3. QED
        BY <1>0, <3>1, <4>2
    <3>3. QED
      BY <2>1, <2>2, <3>1, <3>2 DEF StreamInv
  <2>6. QED
    BY <2>1, <2>3, <2>4, <2>5
<1>4. CASE EncodeReturn \/ TimePasses
  <2>1. UNCHANGED <<app, codec, set, dropped, codeType, width, sps, firstI, dec, broken, failed,
                    pipe, fresh, idrs>>
    BY <1>4 DEF EncodeReturn, TimePasses, codecVars, farVars
  <2>2. QED
    BY <1>0, <2>1 DEF StreamInv, OneSize, QueueOrder, ReceiverReady, SetsToCome
<1>5. ASSUME NEW size \in Sizes, NEW rate \in Rates, mediacodec_encoder_reset_param(size, rate)
      PROVE  StreamInv' /\ ~broken'
  <2>1. app = "open" /\ UNCHANGED <<app, codeType, idrs, dec, broken>>
    BY <1>0, <1>5, WhatIsChanged DEF Idle
  <2>2. CASE Resized(size, rate)
    BY <1>0, <2>1, <2>2, EmptyQueue DEF Resized, Runs, StreamInv
  <2>3. CASE ResizeFailed(size, rate)
    BY <1>0, <2>1, <2>3 DEF ResizeFailed, StreamInv
  <2>4. CASE RateSet(rate)
    <3>1. set'.size = set.size
      BY <1>0, <2>4 DEF RateSet, CodecInv
    <3>2. (OneSize => OneSize') /\ (QueueOrder => QueueOrder')
      BY <2>1, <2>4, <3>1 DEF RateSet, OneSize, QueueOrder
    <3>3. ReceiverReady => ReceiverReady'
      BY <2>1, <2>4 DEF RateSet, ReceiverReady, SetsToCome
    <3>4. QED
      BY <1>0, <2>1, <2>4, <3>2, <3>3 DEF RateSet, StreamInv
  <2>5. CASE RateKept
    <3>1. CASE UNCHANGED codecVars
      <4>1. UNCHANGED <<codec, set, dropped, pipe, fresh, width, sps, firstI, failed>>
        BY <2>5, <3>1 DEF RateKept, codecVars
      <4>2. QED
        BY <1>0, <2>1, <4>1 DEF StreamInv, OneSize, QueueOrder, ReceiverReady, SetsToCome
    <3>2. CASE Stands
      BY <1>0, <2>1, <2>5, <3>2 DEF RateKept, Stands, StreamInv
    <3>3. QED
      BY <2>5, <3>1, <3>2 DEF RateKept
  <2>6. CASE RestartedWithRate(rate)
    BY <1>0, <2>1, <2>6, EmptyQueue DEF RestartedWithRate, Runs, StreamInv
  <2>7. QED
    BY <1>5, <2>2, <2>3, <2>4, <2>5, <2>6, WhatIsChanged
<1>6. QED
  BY <1>1, <1>2, <1>3, <1>4, <1>5 DEF Next, Use, Control

-----------------------------------------------------------------------------
(***************************************************************************)
(* The theorems.                                                           *)
(***************************************************************************)

LEMMA EncoderInit == Init => EncoderInv
<1> SUFFICES ASSUME Init PROVE EncoderInv
  OBVIOUS
<1>1. /\ app = "none" /\ codeType \in Codecs /\ width \in Sizes /\ bit_rate \in Rates
      /\ sps = NULL /\ frameIndex = 0 /\ encMutex = "free" /\ codec = "null" /\ set = NoParams
      /\ pipe = <<>> /\ lent = 0 /\ lost = 0 /\ frames = 0 /\ starts = 0 /\ idrs = 0
      /\ dec = [sps |-> NULL, idr |-> 0]
      /\ setsRate \in BOOLEAN /\ style \in {"encode", "async"}
      /\ ~broken
  BY Assumption DEF Init
<1>2. /\ firstI \in BOOLEAN /\ recent \in BOOLEAN /\ fresh \in BOOLEAN /\ dropped \in BOOLEAN
      /\ broken \in BOOLEAN /\ failed \in BOOLEAN
  BY Zenon DEF Init
<1>3. pipe \in Seq(Buffer) /\ Len(pipe) = 0
  BY <1>1, EmptySeq
<1>4. dec \in [sps : Sizes \cup {NULL}, idr : Nat]
  BY <1>1
<1>5. TypeOK
  BY <1>1, <1>2, <1>3, <1>4 DEF TypeOK
<1>6. CodecInv /\ RunsAsTold /\ StreamInv
  BY <1>1 DEF CodecInv, RunsAsTold, StreamInv
<1>7. CountInv
  BY <1>1, <1>3 DEF CountInv
<1>8. QED
  BY <1>1, <1>5, <1>6, <1>7 DEF EncoderInv

LEMMA EncoderStep == EncoderInv /\ [Next]_vars => EncoderInv'
<1> SUFFICES ASSUME EncoderInv, [Next]_vars PROVE EncoderInv'
  OBVIOUS
<1>1. CASE Next
  <2>1. TypeOK' /\ CodecInv' /\ CountInv' /\ RunsAsTold'
    BY <1>1, TypesStep, CountStep, RunsStep DEF EncoderInv
  <2>2. QED
    BY <1>1, <2>1, StreamStep DEF EncoderInv
<1>2. CASE UNCHANGED vars
  <2>1. UNCHANGED <<style, setsRate, app, codeType, width, bit_rate, sps, firstI, frameIndex,
                    recent, encMutex, codec, set, pipe, fresh, lent, lost, dropped, starts,
                    frames, idrs, dec, broken, failed>>
    BY <1>2 DEF vars, fieldVars, codecVars, farVars
  <2>2. TypeOK'
    BY <2>1 DEF EncoderInv, TypeOK
  <2>3. CodecInv' /\ CountInv' /\ RunsAsTold'
    BY <2>1 DEF EncoderInv, CodecInv, CountInv, RunsAsTold
  <2>4. StreamInv' /\ ~broken'
    BY <2>1 DEF EncoderInv, StreamInv, OneSize, QueueOrder, ReceiverReady, SetsToCome
  <2>5. QED
    BY <2>2, <2>3, <2>4 DEF EncoderInv
<1>3. QED
  BY <1>1, <1>2

\* Whatever is changed while frames are inside, and however often the encoder is
\* restarted, closed and opened: all it hands out can be decoded by a receiver that
\* has got everything, unless the last change of size failed or the codec has given out
\* a buffer without memory since its start.
THEOREM AllDecodable == Spec => []Decodable
<1>1. EncoderInv => Decodable
  BY DEF EncoderInv, Decodable
<1>2. QED
  BY <1>1, EncoderInit, EncoderStep, PTL DEF Spec

\* mediacodec_encoder_output leaves at most one encoded frame inside when its count
\* says there is none.
THEOREM OneHeldBack == Spec => []AtMostOneHeldBack
<1>1. EncoderInv => AtMostOneHeldBack
  <2> SUFFICES ASSUME EncoderInv PROVE AtMostOneHeldBack
    OBVIOUS
  <2>1. /\ TypeOK /\ frameIndex >= 0 /\ frameIndex \in Int
        /\ style = "async" => Len(pipe) <= frameIndex + 1
    BY DEF EncoderInv, CountInv, TypeOK
  <2>2. Len(pipe) \in Nat /\ DOMAIN pipe = 1..Len(pipe)
    BY <2>1, LenProperties DEF TypeOK
  <2>3. IsFiniteSet(1..Len(pipe)) /\ Cardinality(1..Len(pipe)) = Len(pipe)
    <3>1. Cardinality(1..Len(pipe)) = IF 1 > Len(pipe) THEN 0 ELSE Len(pipe) - 1 + 1
      BY SMTT(30), <2>2, FS_Interval
    <3>2. QED
      BY SMTT(30), <2>2, <3>1, FS_Interval
  <2>4. Slices \in SUBSET (1..Len(pipe))
    BY <2>2 DEF Slices
  <2>5. Cardinality(Slices) \in Nat /\ Cardinality(Slices) <= Len(pipe)
    BY <2>3, <2>4, FS_Subset, FS_CardinalityType
  <2>6. style = "async" => Cardinality(Slices) <= frameIndex + 1
    BY <2>1, <2>2, <2>5
  <2>7. QED
    BY <2>1, <2>6 DEF AtMostOneHeldBack
<1>2. QED
  BY <1>1, EncoderInit, EncoderStep, PTL DEF Spec

\* A codec that runs does so with the size and the rate of the fields, unless the last
\* change of size failed, and the input buffers it has not got back are those that had no
\* memory or whose frame it refused.
THEOREM CodecRunsAsTold == Spec => []RunsAsTold
<1>1. EncoderInv => RunsAsTold
  BY DEF EncoderInv
<1>2. QED
  BY <1>1, EncoderInit, EncoderStep, PTL DEF Spec
-----------------------------------------------------------------------------
(***************************************************************************)
(* The parameter sets on their way to a receiver: SampleSender.            *)
(***************************************************************************)

\* What the two globals of RtcNative.cpp say of the encoder.  Once its sets went
\* through sendSampleData in this stream they are the ones kept; and while a stream
\* lasts gProfile is never left with older ones, unless the new are still to come.
ProfileInv ==
  /\ handed => gProfile = encoder.sets
  /\ started /\ ~encoder.pending => gProfile \in {None, encoder.sets}

SampleInv == KeyHeals /\ ProfileInv

\* At most one thing is sent in front of a buffer, and it is the sets kept.
LEMMA SentType ==
  ASSUME NEW flags \in 0..2
  PROVE  LET sent == IF flags = 2 THEN <<encoder.sets>> ELSE InFront(flags)
         IN  \/ sent = <<Profile(flags)>> /\ DOMAIN sent = {1}
             \/ sent = <<>> /\ DOMAIN sent = {} /\ (flags = 1 => gProfile = None)
BY DEF InFront, Profile, None

\* A receiver keeps the sets it has unless what was sent came.
LEMMA HeldAfterOne ==
  ASSUME NEW x, NEW got
  PROVE  HeldAfter(<<x>>, got) = IF 1 \in got THEN x ELSE held
<1> DEFINE came == {i \in DOMAIN <<x>> : i \in got}
<1>1. came = IF 1 \in got THEN {1} ELSE {}
  OBVIOUS
<1>2. ASSUME 1 \in got
      PROVE  (CHOOSE i \in came : \A j \in came : j <= i) = 1
  BY <1>1, <1>2
<1>3. QED
  BY <1>1, <1>2 DEF HeldAfter

LEMMA HeldAfterNone ==
  ASSUME NEW got
  PROVE  HeldAfter(<<>>, got) = held
BY DEF HeldAfter

LEMMA SampleInvInit ==
  ASSUME SampleInit
  PROVE  SampleInv
<1>1. 1 \in Sets
  BY SampleAssumption DEF Sets
<1>2. SampleTypeOK
  BY <1>1 DEF SampleInit, SampleTypeOK
<1>3. QED
  BY <1>2 DEF SampleInit, SampleInv, KeyHeals, ProfileInv

\* The one call in which a receiver gets anything.
LEMMA SendKeeps ==
  ASSUME SampleInv,
         NEW flags \in 0..2, NEW got \in SUBSET (0..1), sendSampleData(flags, got)
  PROVE  SampleInv'
<1> DEFINE sent == IF flags = 2 THEN <<encoder.sets>> ELSE InFront(flags)
<1>1. /\ started /\ (flags = 2) = encoder.pending
      /\ gProfile' = Profile(flags)
      /\ encoder' = [encoder EXCEPT !.pending = FALSE]
      /\ handed' = (handed \/ flags = 2)
      /\ held' = HeldAfter(sent, got)
      /\ shown' = IF flags # 1 THEN shown
                  ELSE [handed |-> handed, sets |-> encoder.sets,
                        whole |-> DOMAIN sent \cup {0} \subseteq got,
                        before |-> held, after |-> held']
      /\ started' = started
  BY DEF sendSampleData
<1>2. /\ handed \in BOOLEAN /\ gProfile \in Sets \cup {None}
      /\ held \in Sets \cup {None}
      /\ encoder \in [sets : Sets, pending : BOOLEAN]
      /\ shown \in [handed : BOOLEAN, whole : BOOLEAN, sets : Sets,
                    before : Sets \cup {None}, after : Sets \cup {None}]
      /\ started \in BOOLEAN
  BY DEF SampleInv, KeyHeals, SampleTypeOK
<1>3. Profile(flags) \in Sets \cup {None}
  BY <1>2 DEF Profile
<1>4. /\ sent = <<Profile(flags)>> => held' = IF 1 \in got THEN Profile(flags) ELSE held
      /\ sent = <<>> => held' = held
  BY <1>1, HeldAfterOne, HeldAfterNone
<1>5. held' \in Sets \cup {None}
  BY <1>2, <1>3, <1>4, SentType
<1>6. ProfileInv'
  BY <1>1, <1>2 DEF SampleInv, ProfileInv, Profile
<1>7. SampleTypeOK'
  <2>1. (DOMAIN sent \cup {0} \subseteq got) \in BOOLEAN
    OBVIOUS
  <2>2. shown' \in [handed : BOOLEAN, whole : BOOLEAN, sets : Sets,
                    before : Sets \cup {None}, after : Sets \cup {None}]
    BY <1>1, <1>2, <1>5, <2>1
  <2>3. QED
    BY <1>1, <1>2, <1>3, <1>5, <2>2 DEF SampleTypeOK
<1>8. KeyHeals'
  <2>1. CASE flags # 1
    BY <1>1, <1>7, <2>1 DEF SampleInv, KeyHeals
  <2>2. CASE flags = 1
    <3>1. gProfile \in {None, encoder.sets} /\ Profile(flags) = gProfile
      <4>1. ~encoder.pending /\ started
        BY <1>1, <1>2, <2>2
      <4>2. QED
        BY <2>2, <4>1 DEF SampleInv, ProfileInv, Profile
    <3>2. handed => gProfile = encoder.sets /\ gProfile # None
      BY <1>2 DEF SampleInv, ProfileInv, Sets, None
    <3>3. /\ shown'.handed = handed /\ shown'.sets = encoder.sets
          /\ shown'.whole = (DOMAIN sent \cup {0} \subseteq got)
          /\ shown'.before = held /\ shown'.after = held'
      BY <1>1, <2>2
    <3>4. CASE sent = <<Profile(flags)>> /\ DOMAIN sent = {1}
      <4>1. sent = <<Profile(flags)>> => Profile(flags) = encoder.sets
        BY <2>2, <3>1 DEF InFront, None
      <4>2. QED
        BY <1>4, <1>7, <3>3, <3>4, <4>1 DEF KeyHeals
    <3>5. CASE sent = <<>> /\ gProfile = None
      BY <1>4, <1>7, <3>2, <3>3, <3>5 DEF KeyHeals
    <3>6. QED
      BY <2>2, <3>4, <3>5, SentType
  <2>3. QED
    BY <2>1, <2>2
<1>9. QED
  BY <1>6, <1>8 DEF SampleInv

LEMMA SampleInvStep ==
  ASSUME SampleInv, [SampleNext]_sampleVars
  PROVE  SampleInv'
<1> USE DEF SampleInv, KeyHeals, SampleTypeOK, ProfileInv
<1>1. CASE startSendVideo
  BY <1>1 DEF startSendVideo
<1>2. CASE stopSendVideo
  BY <1>2 DEF stopSendVideo
<1>3. CASE \E flags \in 0..2, got \in SUBSET (0..1) : sendSampleData(flags, got)
  BY <1>3, SendKeeps
<1>4. CASE EncoderChanges
  <2>1. encoder.sets + 1 \in Sets
    BY <1>4, SampleAssumption DEF EncoderChanges, Sets
  <2>2. encoder' \in [sets : Sets, pending : BOOLEAN] /\ encoder'.pending = TRUE
    BY <1>4, <2>1 DEF EncoderChanges
  <2>3. QED
    BY <1>4, <2>2 DEF EncoderChanges
<1>5. CASE ThrownAway
  <2>1. encoder'.sets = encoder.sets /\ encoder' \in [sets : Sets, pending : BOOLEAN]
    BY <1>5 DEF ThrownAway
  <2>2. QED
    BY <1>5, <2>1 DEF ThrownAway
<1>6. CASE Join
  BY <1>6 DEF Join
<1>7. CASE UNCHANGED sampleVars
  BY <1>7 DEF sampleVars
<1>8. QED
  BY <1>1, <1>2, <1>3, <1>4, <1>5, <1>6, <1>7 DEF SampleNext

\* A key frame none of whose call is lost brings the receiver that frame's own sets
\* whenever the encoder handed them out in this stream, and never another's.
THEOREM KeyFrameHeals == SampleSpec => []KeyHeals
<1>1. SampleInv => KeyHeals
  BY DEF SampleInv
<1>2. SampleInit => SampleInv
  BY SampleInvInit
<1>3. SampleInv /\ [SampleNext]_sampleVars => SampleInv'
  BY SampleInvStep
<1>4. QED
  BY <1>1, <1>2, <1>3, PTL DEF SampleSpec

-----------------------------------------------------------------------------
(***************************************************************************)
(* Pictures.  One of even size has 2 * a columns and 2 * c rows; its       *)
(* chroma samples are those of a columns and c rows, twice.                *)
(***************************************************************************)

\* A product of larger factors is larger.
LEMMA LargerProduct ==
  ASSUME NEW a \in Nat, NEW c \in Nat, NEW u \in Nat, NEW v \in Nat, a <= u, c <= v
  PROVE  a * c \in Nat /\ u * v \in Nat /\ a * c <= u * v
<1>1. PICK d \in Nat : u = a + d
  <2>1. u - a \in Nat /\ u = a + (u - a)
    OBVIOUS
  <2>2. QED
    BY <2>1
<1>2. PICK e \in Nat : v = c + e
  <2>1. v - c \in Nat /\ v = c + (v - c)
    OBVIOUS
  <2>2. QED
    BY <2>1
<1>3. /\ a * c \in Nat /\ d * c \in Nat /\ u * e \in Nat
      /\ u * v = u * c + u * e /\ u * c = a * c + d * c
  BY <1>1, <1>2
<1>4. QED
  BY <1>3

\* The place of column x and row y among rows of a.
LEMMA RowMajor ==
  ASSUME NEW a \in Nat \ {0}, NEW x \in 0..(a - 1), NEW y \in Int
  PROVE  (y * a + x) % a = x /\ (y * a + x) \div a = y
<1>1. y * a + x \in Int /\ y * a + x = a * y + x
  OBVIOUS
<1>2. Splits(y * a + x, a, y, x)
  BY <1>1 DEF Splits
<1>3. QED
  BY <1>1, <1>2, DivModUnique

\* It is one of a * c places.
LEMMA RowInside ==
  ASSUME NEW a \in Nat \ {0}, NEW c \in Nat, NEW x \in 0..(a - 1), NEW y \in 0..(c - 1)
  PROVE  a * c \in Nat /\ y * a + x \in Nat /\ y * a + x < a * c
<1>1. y \in Nat /\ y + 1 \in Nat /\ y + 1 <= c
  OBVIOUS
<1>2. a * (y + 1) \in Nat /\ a * c \in Nat /\ a * (y + 1) <= a * c
  BY <1>1, LargerProduct
<1>3. a * (y + 1) = y * a + a /\ y * a \in Nat
  BY <1>1
<1>4. QED
  BY <1>2, <1>3

\* Each of a * c places is one of a column and a row.
LEMMA RowsCover ==
  ASSUME NEW a \in Nat \ {0}, NEW c \in Nat, NEW k \in Nat, k < a * c
  PROVE  \E x \in 0..(a - 1), y \in 0..(c - 1) : k = y * a + x
<1> DEFINE x == k % a
           y == k \div a
<1>1. y \in Int /\ x \in 0..(a - 1) /\ k = a * y + x
  BY DivMod DEF Splits
<1> HIDE DEF x, y
<1>2. a * y = y * a
  BY <1>1
<1>3. y >= 0
  <2> SUFFICES ASSUME y <= -1 PROVE FALSE
    BY <1>1
  <2>1. a * y <= -a
    BY <1>1
  <2>2. QED
    BY <1>1, <2>1
<1>4. y <= c - 1
  <2> SUFFICES ASSUME c <= y PROVE FALSE
    BY <1>1
  <2>1. a * c <= a * y
    BY <1>1, <1>3, LargerProduct
  <2>2. a * c \in Int /\ a * y \in Int
    BY <1>1
  <2>3. QED
    BY <1>1, <2>1, <2>2
<1>5. x \in 0..(a - 1) /\ y \in 0..(c - 1) /\ k = y * a + x
  BY <1>1, <1>2, <1>3, <1>4
<1>6. QED
  BY <1>5

\* The numbers in which a picture of even size is counted.
LEMMA Quarters ==
  ASSUME NEW a \in Nat \ {0}, NEW c \in Nat
  PROVE  /\ (2 * a) * (2 * c) = 4 * (a * c) /\ a * c \in Nat
         /\ ((2 * a) * (2 * c)) \div 4 = a * c
         /\ ((2 * a) * (2 * c) * 3) \div 2 = 6 * (a * c)
         /\ (2 * a) \div 2 = a
<1>1. (2 * a) * (2 * c) = 4 * (a * c) /\ a * c \in Nat
  OBVIOUS
<1>2. PICK m \in Nat : m = a * c
  BY <1>1
<1>3. (4 * m) \div 4 = m /\ ((4 * m) * 3) \div 2 = 6 * m /\ (2 * a) \div 2 = a
  OBVIOUS
<1>4. QED
  BY <1>1, <1>2, <1>3

\* The chroma sample of plane v (0 for U, 1 for V), column x and row y lies here.
Plane(v) == IF v = 0 THEN "U" ELSE "V"
ChromaPlace(kind, a, c, v, x, y) ==
  4 * (a * c) + (IF kind = "I420" THEN v * (a * c) + (y * a + x)
                 ELSE 2 * (y * a + x) + (IF kind = "NV12" THEN v ELSE 1 - v))
LumaPlace(a, x, y) == y * (2 * a) + x

\* The picture has its place in a buffer.
HasRoom(a, c) == 6 * (a * c) <= 2 * Room

LEMMA RoomType == Room \in Nat
<1>1. Long * Short \in Nat
  BY DecoderAssumption
<1>2. \A n \in Nat : (n * 3) \div 2 \in Nat
  OBVIOUS
<1>3. QED
  BY <1>1, <1>2 DEF Room

LEMMA LumaInside ==
  ASSUME NEW a \in Nat \ {0}, NEW c \in Nat, NEW x \in 0..(2 * a - 1), NEW y \in 0..(2 * c - 1)
  PROVE  LumaPlace(a, x, y) \in 0..(4 * (a * c) - 1)
<1>1. 2 * a \in Nat \ {0} /\ 2 * c \in Nat
  OBVIOUS
<1>2. y * (2 * a) + x \in Nat /\ y * (2 * a) + x < (2 * a) * (2 * c)
  BY <1>1, RowInside
<1>3. (2 * a) * (2 * c) = 4 * (a * c) /\ a * c \in Nat
  BY Quarters
<1>4. QED
  BY <1>2, <1>3 DEF LumaPlace

LEMMA ChromaInside ==
  ASSUME NEW a \in Nat \ {0}, NEW c \in Nat, NEW kind,
         NEW v \in {0, 1}, NEW x \in 0..(a - 1), NEW y \in 0..(c - 1)
  PROVE  ChromaPlace(kind, a, c, v, x, y) \in (4 * (a * c)) .. (6 * (a * c) - 1)
<1>1. a * c \in Nat /\ y * a + x \in Nat /\ y * a + x < a * c
  BY RowInside
<1>2. PICK m \in Nat, p \in Nat : m = a * c /\ p = y * a + x /\ p < m
  BY <1>1
<1>3. v * m + p \in Nat /\ v * m + p < 2 * m
  <2>1. CASE v = 0
    BY <1>2, <2>1
  <2>2. CASE v = 1
    BY <1>2, <2>2
  <2>3. QED
    BY <2>1, <2>2
<1>4. 2 * p + v \in Nat /\ 2 * p + v < 2 * m /\ 2 * p + (1 - v) \in Nat /\ 2 * p + (1 - v) < 2 * m
  BY <1>2
<1>5. ChromaPlace(kind, a, c, v, x, y) =
        4 * m + (IF kind = "I420" THEN v * m + p
                 ELSE 2 * p + (IF kind = "NV12" THEN v ELSE 1 - v))
  BY <1>2 DEF ChromaPlace
<1>6. CASE kind = "I420"
  BY <1>2, <1>3, <1>5, <1>6
<1>7. CASE kind # "I420" /\ kind = "NV12"
  BY <1>2, <1>4, <1>5, <1>7
<1>8. CASE kind # "I420" /\ kind # "NV12"
  BY <1>2, <1>4, <1>5, <1>8
<1>9. QED
  BY <1>6, <1>7, <1>8

\* What a buffer holds at these places.
LumaIs(buffer, a, l, x, y) == buffer[LumaPlace(a, x, y)] = <<"Y", x + l, y>>
ChromaIs(buffer, kind, a, c, l, v, x, y) ==
  buffer[ChromaPlace(kind, a, c, v, x, y)] = <<Plane(v), x + l \div 2, y>>

LEMMA LumaOfLayout ==
  ASSUME NEW a \in Nat \ {0}, NEW c \in Nat, HasRoom(a, c), NEW kind, NEW l \in Int,
         NEW x \in 0..(2 * a - 1), NEW y \in 0..(2 * c - 1)
  PROVE  LumaIs(Layout(kind, 2 * a, 2 * c, l, 0), a, l, x, y)
<1> DEFINE k == LumaPlace(a, x, y)
<1>2. k \in 0..(4 * (a * c) - 1) /\ a * c \in Nat /\ (2 * a) * (2 * c) = 4 * (a * c)
  BY LumaInside, Quarters
<1>3. k \in Places /\ k < (2 * a) * (2 * c)
  BY <1>2, RoomType DEF HasRoom, Places
<1>4. k % (2 * a) = x /\ k \div (2 * a) = y
  <2>1. 2 * a \in Nat \ {0} /\ y \in Int
    OBVIOUS
  <2>2. QED
    BY <2>1, RowMajor DEF LumaPlace
<1> HIDE DEF k
<1>5. Layout(kind, 2 * a, 2 * c, l, 0)[k] = <<"Y", (k % (2 * a)) + l, k \div (2 * a) + 0>>
  BY <1>3 DEF Layout
<1>6. QED
  BY <1>4, <1>5 DEF k, LumaIs

LEMMA ChromaOfLayout ==
  ASSUME NEW a \in Nat \ {0}, NEW c \in Nat, HasRoom(a, c), NEW kind, NEW l \in Int,
         NEW v \in {0, 1}, NEW x \in 0..(a - 1), NEW y \in 0..(c - 1)
  PROVE  ChromaIs(Layout(kind, 2 * a, 2 * c, l, 0), kind, a, c, l, v, x, y)
<1> DEFINE w == 2 * a
           n == w * (2 * c)
           m == a * c
           p == y * a + x
           k == ChromaPlace(kind, a, c, v, x, y)
           j == k - n
<1> SUFFICES Layout(kind, w, 2 * c, l, 0)[k] = <<Plane(v), x + l \div 2, y>>
  BY DEF ChromaIs
<1>1. n = 4 * m /\ m \in Nat /\ n \div 4 = m /\ w \div 2 = a
  BY Quarters
<1>2. k \in (4 * m) .. (6 * m - 1)
  BY ChromaInside
<1>3. k \in Places /\ k >= n /\ ~(k < n) /\ k \in Int
  BY <1>1, <1>2, RoomType DEF HasRoom, Places
<1>4. p \in Nat /\ p < m /\ p % a = x /\ p \div a = y /\ y \in Int
  BY RowInside, RowMajor
<1>5. j = IF kind = "I420" THEN v * m + p ELSE 2 * p + (IF kind = "NV12" THEN v ELSE 1 - v)
  BY <1>1, <1>4 DEF ChromaPlace
<1>6. l \div 2 \in Int /\ y + 0 \div 2 = y
  OBVIOUS
<1>7. CASE kind = "I420"
  <2>1. Layout(kind, w, 2 * c, l, 0)[k] =
          <<IF j < n \div 4 THEN "U" ELSE "V",
            ((j % (n \div 4)) % (w \div 2)) + l \div 2,
            (j % (n \div 4)) \div (w \div 2) + 0 \div 2>>
    BY <1>3, <1>7 DEF Layout
  <2>2. m \in Nat \ {0} /\ p \in 0..(m - 1)
    BY <1>1, <1>4
  <2>3. j = v * m + p
    BY <1>5, <1>7
  <2>4. j % m = p
    BY <2>2, <2>3, RowMajor
  <2>5. (j < m) <=> v = 0
    <3> HIDE DEF m, p, j
    <3>1. CASE v = 0
      BY <2>2, <2>3, <3>1
    <3>2. CASE v = 1
      BY <2>2, <2>3, <3>2
    <3>3. QED
      BY <3>1, <3>2
  <2>6. QED
    BY <1>1, <1>4, <1>6, <2>1, <2>4, <2>5 DEF Plane
<1>8. CASE kind # "I420"
  <2> DEFINE s == IF kind = "NV12" THEN v ELSE 1 - v
  <2>1. Layout(kind, w, 2 * c, l, 0)[k] =
          <<IF (j % 2 = 0) <=> (kind = "NV12") THEN "U" ELSE "V",
            (j % w) \div 2 + l \div 2, j \div w + 0 \div 2>>
    BY <1>3, <1>8 DEF Layout
  <2>2. s \in {0, 1} /\ (s = 0 <=> (v = 0 <=> kind = "NV12"))
    OBVIOUS
  <2>3. j = 2 * p + s
    BY <1>5, <1>8
  <2> HIDE DEF s
  <2>4. j % 2 = s
    BY <1>4, <2>2, <2>3
  <2>5. w \in Nat \ {0} /\ 2 * x + s \in 0..(w - 1) /\ j = y * w + (2 * x + s)
    <3>1. w \in Nat \ {0} /\ 2 * x + s \in 0..(w - 1)
      BY <2>2
    <3>2. 2 * (y * a + x) = y * (2 * a) + 2 * x
      OBVIOUS
    <3>3. y * (2 * a) \in Int
      OBVIOUS
    <3>4. QED
      BY <2>2, <2>3, <3>1, <3>2, <3>3
  <2>6. j % w = 2 * x + s /\ j \div w = y
    BY <1>4, <2>5, RowMajor
  <2>7. (2 * x + s) \div 2 = x
    BY <2>2
  <2>8. QED
    BY <1>1, <1>6, <2>1, <2>2, <2>4, <2>6, <2>7 DEF Plane
<1>9. QED
  BY <1>7, <1>8

\* The samples of a picture have all the first places of a buffer.
IsPlace(kind, a, c, k) ==
  \/ \E x \in 0..(2 * a - 1), y \in 0..(2 * c - 1) : k = LumaPlace(a, x, y)
  \/ \E v \in {0, 1}, x \in 0..(a - 1), y \in 0..(c - 1) :
       k = ChromaPlace(kind, a, c, v, x, y)

LEMMA PlacesCovered ==
  ASSUME NEW a \in Nat \ {0}, NEW c \in Nat, NEW kind, NEW k \in 0..(6 * (a * c) - 1)
  PROVE  IsPlace(kind, a, c, k)
<1> DEFINE m == a * c
<1>1. m \in Nat /\ (2 * a) * (2 * c) = 4 * m
  BY Quarters
<1>2. CASE k < 4 * m
  <2>1. 2 * a \in Nat \ {0} /\ 2 * c \in Nat /\ k \in Nat /\ k < (2 * a) * (2 * c)
    BY <1>1, <1>2
  <2>2. QED
    BY <2>1, RowsCover DEF LumaPlace, IsPlace
<1>3. CASE ~(k < 4 * m)
  <2>1. k - 4 * m \in 0..(2 * m - 1)
    BY <1>1, <1>3
  <2>2. CASE kind = "I420"
    <3> DEFINE v == IF k - 4 * m < m THEN 0 ELSE 1
               p == k - 4 * m - v * m
    <3>1. v \in {0, 1} /\ p \in Nat /\ p < m /\ k = 4 * m + (v * m + p)
      <4> HIDE DEF m
      <4>1. CASE k - 4 * m < m
        BY <1>1, <2>1, <4>1
      <4>2. CASE ~(k - 4 * m < m)
        BY <1>1, <2>1, <4>2
      <4>3. QED
        BY <4>1, <4>2
    <3> HIDE DEF v, p
    <3>2. PICK x \in 0..(a - 1), y \in 0..(c - 1) : p = y * a + x
      BY <3>1, RowsCover
    <3>3. k = ChromaPlace(kind, a, c, v, x, y)
      BY <2>2, <3>1, <3>2 DEF ChromaPlace
    <3>4. QED
      BY <3>1, <3>3 DEF IsPlace
  <2>3. CASE kind # "I420"
    <3> DEFINE p == (k - 4 * m) \div 2
               s == (k - 4 * m) % 2
               v == IF kind = "NV12" THEN s ELSE 1 - s
    <3>1. p \in Nat /\ p < m /\ s \in {0, 1} /\ k = 4 * m + (2 * p + s)
      BY <1>1, <2>1
    <3> HIDE DEF p, s
    <3>2. v \in {0, 1} /\ s = IF kind = "NV12" THEN v ELSE 1 - v
      BY <3>1
    <3> HIDE DEF v
    <3>3. PICK x \in 0..(a - 1), y \in 0..(c - 1) : p = y * a + x
      BY <3>1, RowsCover
    <3>4. k = ChromaPlace(kind, a, c, v, x, y)
      BY <2>3, <3>1, <3>2, <3>3 DEF ChromaPlace
    <3>5. QED
      BY <3>2, <3>4 DEF IsPlace
  <2>4. QED
    BY <2>2, <2>3
<1>4. QED
  BY <1>2, <1>3

\* Each conversion leaves luma samples where they are and takes a chroma sample from
\* where it is in the one layout to where it belongs in the other.
Converts(new, in, to, from, a, c) ==
  /\ \A x \in 0..(2 * a - 1), y \in 0..(2 * c - 1) :
       new[LumaPlace(a, x, y)] = in[LumaPlace(a, x, y)]
  /\ \A v \in {0, 1}, x \in 0..(a - 1), y \in 0..(c - 1) :
       new[ChromaPlace(to, a, c, v, x, y)] = At(in, ChromaPlace(from, a, c, v, x, y))

LEMMA NV12toYUV420PlanarConverts ==
  ASSUME NEW a \in Nat \ {0}, NEW c \in Nat, HasRoom(a, c), NEW in, NEW old
  PROVE  Converts(NV12toYUV420Planar(in, old, 2 * a, 2 * c), in, "I420", "NV12", a, c)
<1> DEFINE n == (2 * a) * (2 * c)
           Place(q, i) == IF i < q THEN 2 * i ELSE 2 * (i - q) + 1
           new == NV12toYUV420Planar(in, old, 2 * a, 2 * c)
<1>1. PICK m \in Nat : m = a * c
  BY Quarters
<1>2. n = 4 * m /\ n \div 4 = m
  BY <1>1, Quarters
<1>3. ASSUME NEW k \in 0..(6 * m - 1)
      PROVE  new[k] = IF k < 4 * m THEN in[k]
                      ELSE At(in, 4 * m + Place(m, k - 4 * m))
  <2>1. k \in Places /\ k < 4 * m + 2 * m
    BY <1>1, RoomType DEF HasRoom, Places
  <2>2. new[k] = IF k < n THEN in[k]
                 ELSE IF k < n + 2 * (n \div 4)
                 THEN At(in, n + Place(n \div 4, k - n))
                 ELSE old[k]
    BY <2>1 DEF NV12toYUV420Planar, Recoloured
  <2> HIDE DEF n, new
  <2>3. QED
    BY <1>2, <2>1, <2>2
<1> HIDE DEF n, new
<1>4. ASSUME NEW x \in 0..(2 * a - 1), NEW y \in 0..(2 * c - 1)
      PROVE  new[LumaPlace(a, x, y)] = in[LumaPlace(a, x, y)]
  <2>1. LumaPlace(a, x, y) \in 0..(4 * m - 1)
    BY <1>1, LumaInside
  <2>2. QED
    BY <1>3, <2>1
<1>5. ASSUME NEW v \in {0, 1}, NEW x \in 0..(a - 1), NEW y \in 0..(c - 1)
      PROVE  new[ChromaPlace("I420", a, c, v, x, y)] =
               At(in, ChromaPlace("NV12", a, c, v, x, y))
  <2>1. PICK p \in Nat : p = y * a + x /\ p < m
    BY <1>1, RowInside
  <2> DEFINE k == ChromaPlace("I420", a, c, v, x, y)
             d == ChromaPlace("NV12", a, c, v, x, y)
  <2>2. k \in (4 * m)..(6 * m - 1)
    BY <1>1, ChromaInside
  <2>3. new[k] = At(in, 4 * m + Place(m, k - 4 * m))
    BY <1>3, <2>2
  <2>4. k - 4 * m = v * m + p /\ d = 4 * m + (2 * p + v)
    BY <1>1, <2>1 DEF ChromaPlace
  <2> HIDE DEF k, d
  <2>5. 4 * m + Place(m, k - 4 * m) = d
    <3>1. CASE v = 0
      BY <2>1, <2>4, <3>1
    <3>2. CASE v = 1
      BY <2>1, <2>4, <3>2
    <3>3. QED
      BY <3>1, <3>2
  <2>6. QED
    BY <2>3, <2>5 DEF k, d
<1>6. QED
  BY <1>4, <1>5 DEF Converts, new

LEMMA I420toYUV420SemiPlanarConverts ==
  ASSUME NEW a \in Nat \ {0}, NEW c \in Nat, HasRoom(a, c), NEW in, NEW old
  PROVE  Converts(I420toYUV420SemiPlanar(in, old, 2 * a, 2 * c), in, "NV12", "I420", a, c)
<1> DEFINE n == (2 * a) * (2 * c)
           Place(q, i) == IF i % 2 = 0 THEN i \div 2 ELSE q + i \div 2
           new == I420toYUV420SemiPlanar(in, old, 2 * a, 2 * c)
<1>1. PICK m \in Nat : m = a * c
  BY Quarters
<1>2. n = 4 * m /\ n \div 4 = m
  BY <1>1, Quarters
<1>3. ASSUME NEW k \in 0..(6 * m - 1)
      PROVE  new[k] = IF k < 4 * m THEN in[k]
                      ELSE At(in, 4 * m + Place(m, k - 4 * m))
  <2>1. k \in Places /\ k < 4 * m + 2 * m
    BY <1>1, RoomType DEF HasRoom, Places
  <2>2. new[k] = IF k < n THEN in[k]
                 ELSE IF k < n + 2 * (n \div 4)
                 THEN At(in, n + Place(n \div 4, k - n))
                 ELSE old[k]
    BY <2>1 DEF I420toYUV420SemiPlanar, Recoloured
  <2> HIDE DEF n, new
  <2>3. QED
    BY <1>2, <2>1, <2>2
<1> HIDE DEF n, new
<1>4. ASSUME NEW x \in 0..(2 * a - 1), NEW y \in 0..(2 * c - 1)
      PROVE  new[LumaPlace(a, x, y)] = in[LumaPlace(a, x, y)]
  <2>1. LumaPlace(a, x, y) \in 0..(4 * m - 1)
    BY <1>1, LumaInside
  <2>2. QED
    BY <1>3, <2>1
<1>5. ASSUME NEW v \in {0, 1}, NEW x \in 0..(a - 1), NEW y \in 0..(c - 1)
      PROVE  new[ChromaPlace("NV12", a, c, v, x, y)] =
               At(in, ChromaPlace("I420", a, c, v, x, y))
  <2>1. PICK p \in Nat : p = y * a + x /\ p < m
    BY <1>1, RowInside
  <2> DEFINE k == ChromaPlace("NV12", a, c, v, x, y)
             d == ChromaPlace("I420", a, c, v, x, y)
  <2>2. k \in (4 * m)..(6 * m - 1)
    BY <1>1, ChromaInside
  <2>3. new[k] = At(in, 4 * m + Place(m, k - 4 * m))
    BY <1>3, <2>2
  <2>4. k - 4 * m = 2 * p + v /\ d = 4 * m + (v * m + p)
    BY <1>1, <2>1 DEF ChromaPlace
  <2> HIDE DEF k, d
  <2>5. 4 * m + Place(m, k - 4 * m) = d
    <3>1. CASE v = 0
      BY <2>1, <2>4, <3>1
    <3>2. CASE v = 1
      BY <2>1, <2>4, <3>2
    <3>3. QED
      BY <3>1, <3>2
  <2>6. QED
    BY <2>3, <2>5 DEF k, d
<1>6. QED
  BY <1>4, <1>5 DEF Converts, new

LEMMA I420toNV21Converts ==
  ASSUME NEW a \in Nat \ {0}, NEW c \in Nat, HasRoom(a, c), NEW in, NEW old
  PROVE  Converts(I420toNV21(in, old, 2 * a, 2 * c), in, "NV21", "I420", a, c)
<1> DEFINE n == (2 * a) * (2 * c)
           Place(q, i) == IF i % 2 = 1 THEN i \div 2 ELSE q + i \div 2
           new == I420toNV21(in, old, 2 * a, 2 * c)
<1>1. PICK m \in Nat : m = a * c
  BY Quarters
<1>2. n = 4 * m /\ n \div 4 = m
  BY <1>1, Quarters
<1>3. ASSUME NEW k \in 0..(6 * m - 1)
      PROVE  new[k] = IF k < 4 * m THEN in[k]
                      ELSE At(in, 4 * m + Place(m, k - 4 * m))
  <2>1. k \in Places /\ k < 4 * m + 2 * m
    BY <1>1, RoomType DEF HasRoom, Places
  <2>2. new[k] = IF k < n THEN in[k]
                 ELSE IF k < n + 2 * (n \div 4)
                 THEN At(in, n + Place(n \div 4, k - n))
                 ELSE old[k]
    BY <2>1 DEF I420toNV21, Recoloured
  <2> HIDE DEF n, new
  <2>3. QED
    BY <1>2, <2>1, <2>2
<1> HIDE DEF n, new
<1>4. ASSUME NEW x \in 0..(2 * a - 1), NEW y \in 0..(2 * c - 1)
      PROVE  new[LumaPlace(a, x, y)] = in[LumaPlace(a, x, y)]
  <2>1. LumaPlace(a, x, y) \in 0..(4 * m - 1)
    BY <1>1, LumaInside
  <2>2. QED
    BY <1>3, <2>1
<1>5. ASSUME NEW v \in {0, 1}, NEW x \in 0..(a - 1), NEW y \in 0..(c - 1)
      PROVE  new[ChromaPlace("NV21", a, c, v, x, y)] =
               At(in, ChromaPlace("I420", a, c, v, x, y))
  <2>1. PICK p \in Nat : p = y * a + x /\ p < m
    BY <1>1, RowInside
  <2> DEFINE k == ChromaPlace("NV21", a, c, v, x, y)
             d == ChromaPlace("I420", a, c, v, x, y)
  <2>2. k \in (4 * m)..(6 * m - 1)
    BY <1>1, ChromaInside
  <2>3. new[k] = At(in, 4 * m + Place(m, k - 4 * m))
    BY <1>3, <2>2
  <2>4. k - 4 * m = 2 * p + (1 - v) /\ d = 4 * m + (v * m + p)
    BY <1>1, <2>1 DEF ChromaPlace
  <2> HIDE DEF k, d
  <2>5. 4 * m + Place(m, k - 4 * m) = d
    <3>1. CASE v = 0
      BY <2>1, <2>4, <3>1
    <3>2. CASE v = 1
      BY <2>1, <2>4, <3>2
    <3>3. QED
      BY <3>1, <3>2
  <2>6. QED
    BY <2>3, <2>5 DEF k, d
<1>6. QED
  BY <1>4, <1>5 DEF Converts, new

LEMMA swapNV12toNV21Converts ==
  ASSUME NEW a \in Nat \ {0}, NEW c \in Nat, HasRoom(a, c), NEW in, NEW old
  PROVE  Converts(swapNV12toNV21(in, old, 2 * a, 2 * c), in, "NV21", "NV12", a, c)
<1> DEFINE n == (2 * a) * (2 * c)
           Place(q, i) == IF i % 2 = 0 THEN i + 1 ELSE i - 1
           new == swapNV12toNV21(in, old, 2 * a, 2 * c)
<1>1. PICK m \in Nat : m = a * c
  BY Quarters
<1>2. n = 4 * m /\ n \div 4 = m
  BY <1>1, Quarters
<1>3. ASSUME NEW k \in 0..(6 * m - 1)
      PROVE  new[k] = IF k < 4 * m THEN in[k]
                      ELSE At(in, 4 * m + Place(m, k - 4 * m))
  <2>1. k \in Places /\ k < 4 * m + 2 * m
    BY <1>1, RoomType DEF HasRoom, Places
  <2>2. new[k] = IF k < n THEN in[k]
                 ELSE IF k < n + 2 * (n \div 4)
                 THEN At(in, n + Place(n \div 4, k - n))
                 ELSE old[k]
    BY <2>1 DEF swapNV12toNV21, Recoloured
  <2> HIDE DEF n, new
  <2>3. QED
    BY <1>2, <2>1, <2>2
<1> HIDE DEF n, new
<1>4. ASSUME NEW x \in 0..(2 * a - 1), NEW y \in 0..(2 * c - 1)
      PROVE  new[LumaPlace(a, x, y)] = in[LumaPlace(a, x, y)]
  <2>1. LumaPlace(a, x, y) \in 0..(4 * m - 1)
    BY <1>1, LumaInside
  <2>2. QED
    BY <1>3, <2>1
<1>5. ASSUME NEW v \in {0, 1}, NEW x \in 0..(a - 1), NEW y \in 0..(c - 1)
      PROVE  new[ChromaPlace("NV21", a, c, v, x, y)] =
               At(in, ChromaPlace("NV12", a, c, v, x, y))
  <2>1. PICK p \in Nat : p = y * a + x /\ p < m
    BY <1>1, RowInside
  <2> DEFINE k == ChromaPlace("NV21", a, c, v, x, y)
             d == ChromaPlace("NV12", a, c, v, x, y)
  <2>2. k \in (4 * m)..(6 * m - 1)
    BY <1>1, ChromaInside
  <2>3. new[k] = At(in, 4 * m + Place(m, k - 4 * m))
    BY <1>3, <2>2
  <2>4. k - 4 * m = 2 * p + (1 - v) /\ d = 4 * m + (2 * p + v)
    BY <1>1, <2>1 DEF ChromaPlace
  <2> HIDE DEF k, d
  <2>5. 4 * m + Place(m, k - 4 * m) = d
    <3>1. CASE v = 0
      BY <2>1, <2>4, <3>1
    <3>2. CASE v = 1
      BY <2>1, <2>4, <3>2
    <3>3. QED
      BY <3>1, <3>2
  <2>6. QED
    BY <2>3, <2>5 DEF k, d
<1>6. QED
  BY <1>4, <1>5 DEF Converts, new

\* Cropping takes the sample of a column and a row from where it is in the larger
\* picture, of 2 * u by 2 * e samples.
CropsFrom(new, in, kind, a, c, l, u, e) ==
  /\ \A x \in 0..(2 * a - 1), y \in 0..(2 * c - 1) :
       new[LumaPlace(a, x, y)] = At(in, LumaPlace(u, x + l, y))
  /\ \A v \in {0, 1}, x \in 0..(a - 1), y \in 0..(c - 1) :
       new[ChromaPlace(kind, a, c, v, x, y)] = At(in, ChromaPlace(kind, u, e, v, x + l \div 2, y))

LEMMA CropOfNV12 ==
  ASSUME NEW a \in Nat \ {0}, NEW c \in Nat, NEW u \in Nat \ {0}, NEW e \in Nat,
         HasRoom(a, c), NEW in, NEW old, NEW l \in Nat, NEW r \in Int, NEW b \in Int,
         r - l + 1 = 2 * a, b - 0 + 1 = 2 * c, l % 2 = 0
  PROVE  CropsFrom(CropYUV420SemiPlanar(in, old, 2 * u, 2 * e, l, r, 0, b), in, "NV12",
                   a, c, l, u, e)
<1> DEFINE wide == r - l + 1
           n == wide * (b - 0 + 1)
           new == CropYUV420SemiPlanar(in, old, 2 * u, 2 * e, l, r, 0, b)
<1>1. PICK m \in Nat : m = a * c
  BY Quarters
<1>2. /\ wide = 2 * a /\ n = 4 * m /\ (2 * u) * (2 * e) = 4 * (u * e)
      /\ b \div 2 = c - 1 /\ b = 2 * c - 1
  <2>1. wide = 2 * a /\ n = (2 * a) * (2 * c)
    OBVIOUS
  <2>2. n = 4 * m /\ (2 * u) * (2 * e) = 4 * (u * e)
    BY <1>1, <2>1, Quarters
  <2>3. b \div 2 = c - 1 /\ b = 2 * c - 1
    OBVIOUS
  <2>4. QED
    BY <2>1, <2>2, <2>3
<1>3. ASSUME NEW k \in 0..(6 * m - 1)
      PROVE  new[k] = IF k >= 4 * m /\ (k - 4 * m) \div (2 * a) \in 0..(c - 1)
                      THEN At(in, 4 * (u * e) + ((k - 4 * m) \div (2 * a)) * (2 * u) + l
                                  + ((k - 4 * m) % (2 * a)))
                      ELSE IF k \div (2 * a) \in 0..(2 * c - 1)
                      THEN At(in, (k \div (2 * a)) * (2 * u) + l + (k % (2 * a)))
                      ELSE old[k]
  <2>1. k \in Places
    BY <1>1, RoomType DEF HasRoom, Places
  <2>2. new[k] = IF k >= n /\ (k - n) \div wide \in 0..(b \div 2)
                 THEN At(in, (2 * u) * (2 * e) + ((k - n) \div wide) * (2 * u) + l
                             + ((k - n) % wide))
                 ELSE IF k \div wide \in 0..b
                 THEN At(in, (k \div wide) * (2 * u) + l + (k % wide))
                 ELSE old[k]
    BY <2>1 DEF CropYUV420SemiPlanar
  <2> HIDE DEF n, wide, new
  <2>3. QED
    BY <1>2, <2>2
<1> HIDE DEF n, wide, new
<1>4. ASSUME NEW x \in 0..(2 * a - 1), NEW y \in 0..(2 * c - 1)
      PROVE  new[LumaPlace(a, x, y)] = At(in, LumaPlace(u, x + l, y))
  <2> DEFINE k == LumaPlace(a, x, y)
  <2>1. k \in 0..(4 * m - 1)
    BY <1>1, LumaInside
  <2>2. k % (2 * a) = x /\ k \div (2 * a) = y
    <3>1. 2 * a \in Nat \ {0} /\ y \in Int
      OBVIOUS
    <3>2. QED
      BY <3>1, RowMajor DEF LumaPlace
  <2> HIDE DEF k
  <2>3. k \in 0..(6 * m - 1) /\ ~(k >= 4 * m)
    BY <2>1
  <2>4. new[k] = At(in, y * (2 * u) + l + x)
    BY <1>3, <2>2, <2>3
  <2>5. y * (2 * u) + l + x = y * (2 * u) + (x + l)
    <3>1. y * (2 * u) \in Int
      OBVIOUS
    <3>2. QED
      BY <3>1
  <2>6. QED
    BY <2>4, <2>5 DEF k, LumaPlace
<1>5. ASSUME NEW v \in {0, 1}, NEW x \in 0..(a - 1), NEW y \in 0..(c - 1)
      PROVE  new[ChromaPlace("NV12", a, c, v, x, y)] =
               At(in, ChromaPlace("NV12", u, e, v, x + l \div 2, y))
  <2> DEFINE k == ChromaPlace("NV12", a, c, v, x, y)
  <2>1. k \in (4 * m)..(6 * m - 1)
    BY <1>1, ChromaInside
  <2>2. k - 4 * m = y * (2 * a) + (2 * x + v)
    <3>1. k = 4 * m + (2 * (y * a + x) + v)
      BY <1>1 DEF ChromaPlace
    <3>2. 2 * (y * a + x) = y * (2 * a) + 2 * x /\ y * (2 * a) \in Int
      OBVIOUS
    <3> HIDE DEF k
    <3>3. QED
      BY <3>1, <3>2
  <2> HIDE DEF k
  <2>3. (k - 4 * m) % (2 * a) = 2 * x + v /\ (k - 4 * m) \div (2 * a) = y
    <3>1. 2 * a \in Nat \ {0} /\ y \in Int /\ 2 * x + v \in 0..(2 * a - 1)
      OBVIOUS
    <3>2. /\ (y * (2 * a) + (2 * x + v)) % (2 * a) = 2 * x + v
          /\ (y * (2 * a) + (2 * x + v)) \div (2 * a) = y
      BY <3>1, RowMajor
    <3>3. QED
      BY <2>2, <3>2
  <2>4. k \in 0..(6 * m - 1) /\ k >= 4 * m
    BY <2>1
  <2>5. new[k] = At(in, 4 * (u * e) + y * (2 * u) + l + (2 * x + v))
    BY <1>3, <2>3, <2>4
  <2>6. 4 * (u * e) + y * (2 * u) + l + (2 * x + v) =
          4 * (u * e) + (2 * (y * u + (x + l \div 2)) + v)
    <3>1. PICK h \in Int : h = l \div 2 /\ l = 2 * h
      OBVIOUS
    <3>2. PICK q \in Int, g \in Int : q = u * e /\ g = y * u
      OBVIOUS
    <3>3. y * (2 * u) = 2 * g
      BY <3>2
    <3>4. 4 * q + 2 * g + l + (2 * x + v) = 4 * q + (2 * (g + (x + h)) + v)
      BY <3>1, <3>2
    <3>5. QED
      BY <3>1, <3>2, <3>3, <3>4
  <2>7. QED
    BY <2>5, <2>6 DEF k, ChromaPlace
<1>6. QED
  BY <1>4, <1>5 DEF CropsFrom, new

LEMMA CropOfI420 ==
  ASSUME NEW a \in Nat \ {0}, NEW c \in Nat, NEW u \in Nat \ {0}, NEW e \in Nat,
         HasRoom(a, c), NEW in, NEW old, NEW r \in Int, NEW b \in Int,
         r - 0 + 1 = 2 * a, b - 0 + 1 = 2 * c
  PROVE  CropsFrom(CropYUV420Planar(in, old, 2 * u, 2 * e, 0, r, 0, b), in, "I420",
                   a, c, 0, u, e)
<1> DEFINE wide == r - 0 + 1
           n == wide * (b - 0 + 1)
           new == CropYUV420Planar(in, old, 2 * u, 2 * e, 0, r, 0, b)
<1>1. PICK m \in Nat, g \in Nat : m = a * c /\ g = u * e
  BY Quarters
<1>2. /\ wide = 2 * a /\ wide \div 2 = a /\ n = 4 * m /\ (n \div 4) * 5 = 5 * m
      /\ (2 * u) * (2 * e) = 4 * g /\ (((2 * u) * (2 * e)) \div 4) * 5 = 5 * g
      /\ b \div 2 = c - 1 /\ b = 2 * c - 1
  <2>1. wide = 2 * a /\ n = (2 * a) * (2 * c) /\ wide \div 2 = a
    OBVIOUS
  <2>2. n = 4 * m /\ (2 * u) * (2 * e) = 4 * g
    BY <1>1, <2>1, Quarters
  <2>3. b \div 2 = c - 1 /\ b = 2 * c - 1
    OBVIOUS
  <2>4. (n \div 4) * 5 = 5 * m /\ (((2 * u) * (2 * e)) \div 4) * 5 = 5 * g
    BY <2>2
  <2>5. QED
    BY <2>1, <2>2, <2>3, <2>4
<1> DEFINE Row(k, base) == (k - base) \div a
           Inside(k, base) == k >= base /\ Row(k, base) \in 0..(c - 1)
           From(k, base, plane) ==
             At(in, plane + (Row(k, base) * (2 * u)) \div 2 + 0 + ((k - base) % a))
<1>3. ASSUME NEW k \in 0..(6 * m - 1)
      PROVE  new[k] = IF Inside(k, 5 * m) THEN From(k, 5 * m, 5 * g)
                      ELSE IF Inside(k, 4 * m) THEN From(k, 4 * m, 4 * g)
                      ELSE IF k \div (2 * a) \in 0..(2 * c - 1)
                      THEN At(in, (k \div (2 * a)) * (2 * u) + 0 + (k % (2 * a)))
                      ELSE old[k]
  <2>1. k \in Places
    BY <1>1, RoomType DEF HasRoom, Places
  <2> DEFINE half == wide \div 2
             row(base) == (k - base) \div half
             inside(base) == k >= base /\ row(base) \in 0..(b \div 2)
             from(base, plane) ==
               At(in, plane + (row(base) * (2 * u)) \div 2 + 0 + ((k - base) % half))
             w == (n \div 4) * 5
  <2>2. new[k] = IF inside(w) THEN from(w, (((2 * u) * (2 * e)) \div 4) * 5)
                 ELSE IF inside(n) THEN from(n, (2 * u) * (2 * e))
                 ELSE IF k \div wide \in 0..b
                 THEN At(in, (k \div wide) * (2 * u) + 0 + (k % wide))
                 ELSE old[k]
    BY <2>1 DEF CropYUV420Planar
  <2>3. half = a /\ w = 5 * m /\ n = 4 * m
    BY <1>2
  <2> HIDE DEF n, wide, new, half, w
  <2>4. QED
    BY <1>2, <2>2, <2>3
<1> HIDE DEF n, wide, new
<1>4. ASSUME NEW x \in 0..(2 * a - 1), NEW y \in 0..(2 * c - 1)
      PROVE  new[LumaPlace(a, x, y)] = At(in, LumaPlace(u, x + 0, y))
  <2> DEFINE k == LumaPlace(a, x, y)
  <2>1. k \in 0..(4 * m - 1)
    BY <1>1, LumaInside
  <2>2. k % (2 * a) = x /\ k \div (2 * a) = y
    <3>1. 2 * a \in Nat \ {0} /\ y \in Int
      OBVIOUS
    <3>2. QED
      BY <3>1, RowMajor DEF LumaPlace
  <2> HIDE DEF k
  <2>3. k \in 0..(6 * m - 1) /\ ~Inside(k, 5 * m) /\ ~Inside(k, 4 * m)
    BY <2>1
  <2> HIDE DEF Inside
  <2>4. new[k] = At(in, y * (2 * u) + 0 + x)
    BY <1>3, <2>2, <2>3
  <2>5. y * (2 * u) + 0 + x = y * (2 * u) + (x + 0)
    <3>1. y * (2 * u) \in Int
      OBVIOUS
    <3>2. QED
      BY <3>1
  <2>6. QED
    BY <2>4, <2>5 DEF k, LumaPlace
<1>5. ASSUME NEW v \in {0, 1}, NEW x \in 0..(a - 1), NEW y \in 0..(c - 1)
      PROVE  new[ChromaPlace("I420", a, c, v, x, y)] =
               At(in, ChromaPlace("I420", u, e, v, x + 0 \div 2, y))
  <2> DEFINE k == ChromaPlace("I420", a, c, v, x, y)
             p == y * a + x
  <2>1. k \in (4 * m)..(6 * m - 1) /\ k = 4 * m + (v * m + p)
    BY <1>1, ChromaInside DEF ChromaPlace
  <2>2. p \in 0..(m - 1) /\ p % a = x /\ p \div a = y
    <3>1. p \in Nat /\ p < m
      BY <1>1, RowInside
    <3>2. p % a = x /\ p \div a = y
      BY RowMajor
    <3>3. QED
      BY <3>1, <3>2
  <2>3. ChromaPlace("I420", u, e, v, x + 0 \div 2, y) = 4 * g + (v * g + (y * u + x))
    <3>1. x + 0 \div 2 = x
      OBVIOUS
    <3>2. QED
      BY <1>1, <3>1 DEF ChromaPlace
  <2>4. PICK z \in Int : z = y * u /\ (y * (2 * u)) \div 2 = z
    <3>1. y * u \in Int /\ y * (2 * u) = 2 * (y * u)
      OBVIOUS
    <3>2. \A z \in Int : (2 * z) \div 2 = z
      OBVIOUS
    <3>3. QED
      BY <3>1, <3>2
  <2> HIDE DEF k, p
  <2>5. k \in 0..(6 * m - 1)
    BY <2>1
  <2>6. CASE v = 0
    <3>1. k - 4 * m = p /\ k < 5 * m
      BY <2>1, <2>2, <2>6
    <3>2. ~Inside(k, 5 * m)
      BY <2>5, <3>1
    <3>3. Row(k, 4 * m) = y /\ Inside(k, 4 * m)
      BY <2>1, <2>2, <3>1
    <3>4. From(k, 4 * m, 4 * g) = At(in, 4 * g + z + 0 + x)
      BY <2>2, <2>4, <3>1, <3>3
    <3>5. 4 * g + z + 0 + x = 4 * g + (v * g + (y * u + x))
      BY <2>4, <2>6
    <3> HIDE DEF Inside, From
    <3>6. new[k] = From(k, 4 * m, 4 * g)
      BY <1>3, <2>5, <3>2, <3>3
    <3>7. QED
      BY <2>3, <3>4, <3>5, <3>6 DEF k
  <2>7. CASE v = 1
    <3>1. k - 5 * m = p /\ k >= 5 * m
      BY <2>1, <2>2, <2>7
    <3>2. Row(k, 5 * m) = y /\ Inside(k, 5 * m)
      BY <2>1, <2>2, <3>1
    <3>3. From(k, 5 * m, 5 * g) = At(in, 5 * g + z + 0 + x)
      BY <2>2, <2>4, <3>1, <3>2
    <3>4. 5 * g + z + 0 + x = 4 * g + (v * g + (y * u + x))
      BY <2>4, <2>7
    <3> HIDE DEF Inside, From
    <3>5. new[k] = From(k, 5 * m, 5 * g)
      BY <1>3, <2>5, <3>2
    <3>6. QED
      BY <2>3, <3>3, <3>4, <3>5 DEF k
  <2>8. QED
    BY <2>6, <2>7
<1>6. QED
  BY <1>4, <1>5 DEF CropsFrom, new

\* A buffer holds, in a layout, the picture that starts in column l and the first row.
HoldsPicture(buffer, kind, a, c, l) ==
  /\ \A x \in 0..(2 * a - 1), y \in 0..(2 * c - 1) : LumaIs(buffer, a, l, x, y)
  /\ \A v \in {0, 1}, x \in 0..(a - 1), y \in 0..(c - 1) :
       ChromaIs(buffer, kind, a, c, l, v, x, y)

LEMMA LayoutHolds ==
  ASSUME NEW a \in Nat \ {0}, NEW c \in Nat, HasRoom(a, c), NEW kind, NEW l \in Int
  PROVE  HoldsPicture(Layout(kind, 2 * a, 2 * c, l, 0), kind, a, c, l)
BY LumaOfLayout, ChromaOfLayout DEF HoldsPicture

\* Two buffers that hold the same picture in the same layout are the same up to its end.
LEMMA SameWhereHeld ==
  ASSUME NEW a \in Nat \ {0}, NEW c \in Nat, NEW kind, NEW l, NEW p, NEW q,
         HoldsPicture(p, kind, a, c, l), HoldsPicture(q, kind, a, c, l),
         NEW k \in 0..(6 * (a * c) - 1)
  PROVE  p[k] = q[k]
<1>1. CASE \E x \in 0..(2 * a - 1), y \in 0..(2 * c - 1) : k = LumaPlace(a, x, y)
  <2>1. PICK x \in 0..(2 * a - 1), y \in 0..(2 * c - 1) : k = LumaPlace(a, x, y)
    BY <1>1
  <2>2. p[k] = <<"Y", x + l, y>> /\ q[k] = <<"Y", x + l, y>>
    BY <2>1 DEF HoldsPicture, LumaIs, ChromaIs
  <2>3. QED
    BY <2>2
<1>2. CASE \E v \in {0, 1}, x \in 0..(a - 1), y \in 0..(c - 1) :
             k = ChromaPlace(kind, a, c, v, x, y)
  <2>1. PICK v \in {0, 1}, x \in 0..(a - 1), y \in 0..(c - 1) :
               k = ChromaPlace(kind, a, c, v, x, y)
    BY <1>2
  <2>2. /\ p[k] = <<Plane(v), x + l \div 2, y>>
        /\ q[k] = <<Plane(v), x + l \div 2, y>>
    BY <2>1 DEF HoldsPicture, LumaIs, ChromaIs
  <2>3. QED
    BY <2>2
<1>3. IsPlace(kind, a, c, k)
  BY PlacesCovered
<1>4. QED
  BY <1>1, <1>2, <1>3 DEF IsPlace

\* A place in the picture is one of the buffer.
LEMMA PlacesHold ==
  ASSUME NEW a \in Nat \ {0}, NEW c \in Nat, HasRoom(a, c)
  PROVE  /\ \A x \in 0..(2 * a - 1), y \in 0..(2 * c - 1) : LumaPlace(a, x, y) \in Places
         /\ \A kind : \A v \in {0, 1}, x \in 0..(a - 1), y \in 0..(c - 1) :
              ChromaPlace(kind, a, c, v, x, y) \in Places
<1>1. PICK m \in Nat : m = a * c
  BY Quarters
<1>2. 0..(4 * m - 1) \subseteq Places /\ (4 * m)..(6 * m - 1) \subseteq Places
  BY <1>1, RoomType DEF HasRoom, Places
<1>3. QED
  BY <1>1, <1>2, LumaInside, ChromaInside

\* What a conversion makes of a picture it is given.
LEMMA ConvertedHolds ==
  ASSUME NEW a \in Nat \ {0}, NEW c \in Nat, HasRoom(a, c), NEW l, NEW new, NEW in,
         NEW to, NEW from, Converts(new, in, to, from, a, c), HoldsPicture(in, from, a, c, l)
  PROVE  HoldsPicture(new, to, a, c, l)
<1>1. ASSUME NEW x \in 0..(2 * a - 1), NEW y \in 0..(2 * c - 1)
      PROVE  new[LumaPlace(a, x, y)] = <<"Y", x + l, y>>
  BY DEF Converts, HoldsPicture, LumaIs
<1>2. ASSUME NEW v \in {0, 1}, NEW x \in 0..(a - 1), NEW y \in 0..(c - 1)
      PROVE  new[ChromaPlace(to, a, c, v, x, y)] = <<Plane(v), x + l \div 2, y>>
  <2>1. ChromaPlace(from, a, c, v, x, y) \in Places
    BY PlacesHold
  <2>2. new[ChromaPlace(to, a, c, v, x, y)] = in[ChromaPlace(from, a, c, v, x, y)]
    BY <2>1 DEF Converts, At
  <2>3. in[ChromaPlace(from, a, c, v, x, y)] = <<Plane(v), x + l \div 2, y>>
    BY DEF HoldsPicture, LumaIs, ChromaIs
  <2>4. QED
    BY <2>2, <2>3
<1>3. QED
  BY <1>1, <1>2 DEF HoldsPicture, LumaIs, ChromaIs

\* What cropping makes of a picture that lies in a larger one.
LEMMA CroppedHolds ==
  ASSUME NEW a \in Nat \ {0}, NEW c \in Nat, NEW u \in Nat \ {0}, NEW e \in Nat, HasRoom(u, e),
         NEW l \in Nat, l % 2 = 0, l + 2 * a <= 2 * u, c <= e,
         NEW new, NEW in, NEW kind, CropsFrom(new, in, kind, a, c, l, u, e),
         HoldsPicture(in, kind, u, e, 0)
  PROVE  HoldsPicture(new, kind, a, c, l)
<1>1. ASSUME NEW x \in 0..(2 * a - 1), NEW y \in 0..(2 * c - 1)
      PROVE  new[LumaPlace(a, x, y)] = <<"Y", x + l, y>>
  <2>1. x + l \in 0..(2 * u - 1) /\ y \in 0..(2 * e - 1) /\ (x + l) + 0 = x + l
    OBVIOUS
  <2>2. LumaPlace(u, x + l, y) \in Places
    BY <2>1, PlacesHold
  <2>3. new[LumaPlace(a, x, y)] = in[LumaPlace(u, x + l, y)]
    BY <2>2 DEF CropsFrom, At
  <2>4. in[LumaPlace(u, x + l, y)] = <<"Y", (x + l) + 0, y>>
    BY <2>1 DEF HoldsPicture, LumaIs, ChromaIs
  <2>5. QED
    BY <2>1, <2>3, <2>4
<1>2. ASSUME NEW v \in {0, 1}, NEW x \in 0..(a - 1), NEW y \in 0..(c - 1)
      PROVE  new[ChromaPlace(kind, a, c, v, x, y)] = <<Plane(v), x + l \div 2, y>>
  <2> DEFINE z == x + l \div 2
  <2>1. z \in 0..(u - 1) /\ y \in 0..(e - 1) /\ z + 0 \div 2 = z
    OBVIOUS
  <2>2. new[ChromaPlace(kind, a, c, v, x, y)] = At(in, ChromaPlace(kind, u, e, v, z, y))
    BY DEF CropsFrom
  <2> HIDE DEF z
  <2>3. ChromaPlace(kind, u, e, v, z, y) \in Places
    BY <2>1, PlacesHold
  <2>4. in[ChromaPlace(kind, u, e, v, z, y)] = <<Plane(v), z + 0 \div 2, y>>
    BY <2>1 DEF HoldsPicture, LumaIs, ChromaIs
  <2>5. QED
    BY <2>1, <2>2, <2>3, <2>4 DEF At, z
<1>3. QED
  BY <1>1, <1>2 DEF HoldsPicture, LumaIs, ChromaIs

-----------------------------------------------------------------------------
(***************************************************************************)
(* A picture comes out as it should.                                       *)
(***************************************************************************)

\* The fields hold a rectangle, and are those of a format.
RectOK(f) ==
  /\ f.crop_left \in Nat /\ f.crop_top \in Nat
  /\ Width(f) \in Nat /\ Height(f) \in Nat
  /\ f.crop_left % 2 = 0 => Width(f) % 2 = 0
  /\ f.crop_top % 2 = 0 => Height(f) % 2 = 0
Formed(f) == <<f.width, f.height>> \in Pictures /\ RectOK(f)

\* Nothing is padded, and the rectangle is one that is moved to where it belongs.
Plain(f) ==
  /\ f.stride = f.width /\ f.sliceHeight = f.height
  /\ f.crop_top = 0 /\ f.crop_left % 2 = 0 /\ (mt => f.crop_left = 0)
  /\ f.crop_right < f.width /\ f.crop_bottom < f.height

\* The fields hold the rectangle r.
Reads(f, r) ==
  /\ f.crop_left = r.left /\ f.crop_right = r.right
  /\ f.crop_top = r.top /\ f.crop_bottom = r.bottom

\* Every picture a codec may tell of is even and fits.
LEMMA PicturesFit ==
  ASSUME NEW w, NEW h, <<w, h>> \in Pictures
  PROVE  /\ w \in Nat /\ h \in Nat
         /\ \E u \in Nat \ {0}, e \in Nat \ {0} : w = 2 * u /\ h = 2 * e /\ HasRoom(u, e)
<1>1. /\ Long \in Nat \ {0} /\ Short \in Nat \ {0} /\ Short <= Long
      /\ Long % 2 = 0 /\ Short % 2 = 0
  BY DecoderAssumption
<1>2. PICK g \in Nat \ {0} : Long = 2 * g
  <2>1. Long \div 2 \in Nat \ {0} /\ Long = 2 * (Long \div 2)
    BY <1>1
  <2>2. QED
    BY <2>1
<1>3. PICK s \in Nat \ {0} : Short = 2 * s
  <2>1. Short \div 2 \in Nat \ {0} /\ Short = 2 * (Short \div 2)
    BY <1>1
  <2>2. QED
    BY <2>1
<1>4. Room = 6 * (g * s) /\ g * s \in Nat
  BY <1>2, <1>3, Quarters DEF Room
<1>5. HasRoom(g, s)
  BY <1>4 DEF HasRoom
<1>6. HasRoom(s, g)
  <2>1. s * g = g * s
    OBVIOUS
  <2>2. QED
    BY <1>4, <2>1 DEF HasRoom
<1>7. HasRoom(s, s)
  <2>1. s <= g /\ s <= s
    BY <1>1, <1>2, <1>3
  <2>2. s * s \in Nat /\ s * s <= g * s
    BY <2>1, LargerProduct
  <2>3. QED
    BY <1>4, <2>2 DEF HasRoom
<1>8. \/ w = 2 * g /\ h = 2 * s
      \/ w = 2 * s /\ h = 2 * g
      \/ w = 2 * s /\ h = 2 * s
  BY <1>2, <1>3 DEF Pictures
<1>9. w \in Nat /\ h \in Nat
  BY <1>8
<1>10. QED
  BY <1>5, <1>6, <1>7, <1>8, <1>9

\* What mediacodec_decoder_decode puts into the caller's buffer if the fields are plain
\* and say how the codec stores its pictures.
LEMMA PictureShows ==
  ASSUME DecoderTypeOK, Formed(fields), Plain(fields), NEW r, Reads(fields, r),
         StrideOf(told) = fields.stride, SliceHeightOf(told) = fields.sliceHeight,
         PictureOut, pictureSize' > 0
  PROVE  Shows(r)'
<1> DEFINE f == fields
           l == f.crop_left
           w == Width(f)
           h == Height(f)
           kind == IF mt THEN "I420" ELSE "NV12"
           given == Layout(kind, f.stride, f.sliceHeight, 0, 0)
           target == yuv_pixel_format
<1>1. PICK u \in Nat \ {0}, e \in Nat \ {0} : f.width = 2 * u /\ f.height = 2 * e /\ HasRoom(u, e)
  BY PicturesFit DEF Formed
<1>2. /\ f.stride = f.width /\ f.sliceHeight = f.height /\ f.crop_top = 0
      /\ l \in Nat /\ l % 2 = 0 /\ (mt => l = 0)
      /\ f.crop_right < f.width /\ f.crop_bottom < f.height
      /\ w \in Nat /\ h \in Nat /\ w % 2 = 0 /\ h % 2 = 0
  BY DEF Formed, RectOK, Plain
<1>3. /\ f.crop_right \in Int /\ f.crop_bottom \in Int
      /\ f.crop_right - l + 1 = w /\ f.crop_bottom - 0 + 1 = h
  BY <1>2 DEF DecoderTypeOK, Zero, Width, Height
<1>4. PICK a \in Nat, c \in Nat : w = 2 * a /\ h = 2 * c
  <2>1. \A n \in Nat : n % 2 = 0 => n \div 2 \in Nat /\ n = 2 * (n \div 2)
    OBVIOUS
  <2>2. QED
    BY <1>2, <2>1
<1>5. l + 2 * a <= 2 * u /\ 2 * c <= 2 * e /\ a <= u /\ c <= e
  BY <1>1, <1>2, <1>3, <1>4
<1>6. /\ pictureSize' = SizeOf(f) /\ UNCHANGED yuv_pixel_format
      /\ picture' = Wanted(given, given, f)
  BY <1>2 DEF PictureOut
<1>7. Crops(f) <=> (a < u \/ c < e)
  BY <1>1, <1>4 DEF Crops
<1>8. SizeOf(f) = IF a < u \/ c < e THEN ((2 * a) * (2 * c) * 3) \div 2
                  ELSE ((2 * u) * (2 * e) * 3) \div 2
  BY <1>1, <1>4, <1>7 DEF SizeOf
<1>9. a # 0
  <2> SUFFICES ASSUME a = 0 PROVE FALSE
    OBVIOUS
  <2>1. a < u /\ (2 * a) * (2 * c) * 3 = 0
    BY <1>1
  <2>2. pictureSize' = 0 \div 2
    BY <1>6, <1>8, <2>1
  <2>3. QED
    BY <2>2
<1>10. a \in Nat \ {0} /\ HasRoom(a, c)
  <2>1. a * c \in Nat /\ u * e \in Nat /\ a * c <= u * e
    BY <1>5, LargerProduct
  <2>2. QED
    BY <1>1, <1>9, <2>1, RoomType DEF HasRoom
<1>11. ~(a < u \/ c < e) => a = u /\ c = e /\ l = 0
  BY <1>2, <1>5
<1>12. pictureSize' = 6 * (a * c) /\ ((2 * a) * (2 * c) * 3) \div 2 = 6 * (a * c)
  <2>1. ((2 * a) * (2 * c) * 3) \div 2 = 6 * (a * c)
    BY <1>10, Quarters
  <2>2. SizeOf(f) = ((2 * a) * (2 * c) * 3) \div 2
    BY <1>8, <1>11
  <2>3. QED
    BY <1>6, <2>1, <2>2
<1>13. HoldsPicture(given, kind, u, e, 0)
  <2>1. given = Layout(kind, 2 * u, 2 * e, 0, 0)
    BY <1>1, <1>2
  <2>2. HoldsPicture(Layout(kind, 2 * u, 2 * e, 0, 0), kind, u, e, 0)
    BY <1>1, LayoutHolds
  <2>3. QED
    BY <2>1, <2>2
<1> DEFINE planar == CropYUV420Planar(given, given, f.width, f.height,
                                      l, f.crop_right, f.crop_top, f.crop_bottom)
           semi == CropYUV420SemiPlanar(given, given, f.width, f.height,
                                        l, f.crop_right, f.crop_top, f.crop_bottom)
           from == IF Crops(f) THEN IF mt THEN planar ELSE semi ELSE given
<1>14. HoldsPicture(from, kind, a, c, l)
  <2>1. CASE ~Crops(f)
    <3>1. from = given /\ a = u /\ c = e /\ l = 0
      BY <1>7, <1>11, <2>1
    <3> HIDE DEF from, given
    <3>2. QED
      BY <1>13, <3>1
  <2>2. CASE Crops(f) /\ mt
    <3>1. from = planar /\ kind = "I420" /\ l = 0
      BY <1>2, <2>2
    <3>2. planar = CropYUV420Planar(given, given, 2 * u, 2 * e, 0, f.crop_right, 0, f.crop_bottom)
      BY <1>1, <1>2, <3>1
    <3>3. f.crop_right - 0 + 1 = 2 * a /\ f.crop_bottom - 0 + 1 = 2 * c
      BY <1>3, <1>4, <3>1
    <3>4. CropsFrom(CropYUV420Planar(given, given, 2 * u, 2 * e, 0, f.crop_right, 0, f.crop_bottom),
                    given, "I420", a, c, 0, u, e)
      <4> HIDE DEF given
      <4>1. QED
        BY <1>3, <1>10, <3>3, CropOfI420
    <3>5. CropsFrom(planar, given, "I420", a, c, 0, u, e)
      BY <3>2, <3>4
    <3> HIDE DEF planar, given
    <3>6. HoldsPicture(planar, "I420", a, c, 0)
      <4>1. 0 % 2 = 0 /\ 0 + 2 * a <= 2 * u /\ HoldsPicture(given, "I420", u, e, 0)
        BY <1>5, <1>13, <3>1
      <4>2. QED
        BY <1>1, <1>5, <1>10, <3>5, <4>1, CroppedHolds
    <3>7. QED
      BY <3>1, <3>6
  <2>3. CASE Crops(f) /\ ~mt
    <3>1. from = semi /\ kind = "NV12"
      BY <2>3
    <3>2. semi = CropYUV420SemiPlanar(given, given, 2 * u, 2 * e, l, f.crop_right, 0, f.crop_bottom)
      BY <1>1, <1>2
    <3>3. f.crop_right - l + 1 = 2 * a /\ f.crop_bottom - 0 + 1 = 2 * c
      BY <1>3, <1>4
    <3>4. CropsFrom(CropYUV420SemiPlanar(given, given, 2 * u, 2 * e,
                                         l, f.crop_right, 0, f.crop_bottom),
                    given, "NV12", a, c, l, u, e)
      <4> HIDE DEF given, l
      <4>1. QED
        BY <1>2, <1>3, <1>10, <3>3, CropOfNV12
    <3>5. CropsFrom(semi, given, "NV12", a, c, l, u, e)
      BY <3>2, <3>4
    <3> HIDE DEF semi, given, l
    <3>6. HoldsPicture(semi, "NV12", a, c, l)
      <4>1. HoldsPicture(given, "NV12", u, e, 0)
        BY <1>13, <3>1
      <4>2. QED
        BY <1>1, <1>2, <1>5, <1>10, <3>5, <4>1, CroppedHolds
    <3>7. QED
      BY <3>1, <3>6
  <2>4. QED
    BY <2>1, <2>2, <2>3
<1>15. picture' = IF mt
              THEN IF target = "NV12" THEN I420toYUV420SemiPlanar(from, given, w, h)
                   ELSE IF target = "NV21" THEN I420toNV21(from, given, w, h)
                   ELSE from
              ELSE IF target = "I420" THEN NV12toYUV420Planar(from, given, w, h)
                   ELSE IF target = "NV21" THEN swapNV12toNV21(from, given, w, h)
                   ELSE from
  BY <1>6 DEF Wanted
<1>16. target \in {"I420", "NV12", "NV21"}
  BY DecoderAssumption DEF DecoderTypeOK
<1> HIDE DEF from, given
<1>17. HoldsPicture(picture', target, a, c, l)
  <2>1. CASE kind = target
    <3>1. picture' = from
      BY <1>15, <1>16, <2>1
    <3>2. QED
      BY <1>14, <2>1, <3>1
  <2>2. CASE mt /\ target = "NV12"
    <3>1. Converts(I420toYUV420SemiPlanar(from, given, 2 * a, 2 * c), from, "NV12", "I420", a, c)
      BY <1>10, I420toYUV420SemiPlanarConverts
    <3>2. picture' = I420toYUV420SemiPlanar(from, given, 2 * a, 2 * c) /\ kind = "I420"
      BY <1>4, <1>15, <2>2
    <3>3. QED
      BY <1>10, <1>14, <2>2, <3>1, <3>2, ConvertedHolds
  <2>3. CASE mt /\ target = "NV21"
    <3>1. Converts(I420toNV21(from, given, 2 * a, 2 * c), from, "NV21", "I420", a, c)
      BY <1>10, I420toNV21Converts
    <3>2. picture' = I420toNV21(from, given, 2 * a, 2 * c) /\ kind = "I420"
      BY <1>4, <1>15, <2>3
    <3>3. QED
      BY <1>10, <1>14, <2>3, <3>1, <3>2, ConvertedHolds
  <2>4. CASE ~mt /\ target = "I420"
    <3>1. Converts(NV12toYUV420Planar(from, given, 2 * a, 2 * c), from, "I420", "NV12", a, c)
      BY <1>10, NV12toYUV420PlanarConverts
    <3>2. picture' = NV12toYUV420Planar(from, given, 2 * a, 2 * c) /\ kind = "NV12"
      BY <1>4, <1>15, <2>4
    <3>3. QED
      BY <1>10, <1>14, <2>4, <3>1, <3>2, ConvertedHolds
  <2>5. CASE ~mt /\ target = "NV21"
    <3>1. Converts(swapNV12toNV21(from, given, 2 * a, 2 * c), from, "NV21", "NV12", a, c)
      BY <1>10, swapNV12toNV21Converts
    <3>2. picture' = swapNV12toNV21(from, given, 2 * a, 2 * c) /\ kind = "NV12"
      BY <1>4, <1>15, <2>5
    <3>3. QED
      BY <1>10, <1>14, <2>5, <3>1, <3>2, ConvertedHolds
  <2>6. QED
    BY <1>16, <2>1, <2>2, <2>3, <2>4, <2>5
<1>18. Columns(r) = 2 * a /\ Rows(r) = 2 * c /\ r.left = l /\ r.top = 0
  BY <1>2, <1>4 DEF Columns, Rows, Width, Height, Reads
<1> DEFINE right == Layout(target, 2 * a, 2 * c, l, 0)
<1>19. HoldsPicture(right, target, a, c, l)
  <2>1. l \in Int
    BY <1>2
  <2> HIDE DEF l, target
  <2>2. QED
    BY <1>10, <2>1, LayoutHolds
<1> HIDE DEF right, l, target
<1>20. \A k \in 0 .. (6 * (a * c) - 1) : picture'[k] = right[k]
  BY <1>10, <1>17, <1>19, SameWhereHeld
<1>21. /\ pictureSize' = ((2 * a) * (2 * c) * 3) \div 2
       /\ \A k \in 0 .. pictureSize' - 1 : picture'[k] = right[k]
  BY <1>12, <1>20
<1>22. right = Layout(yuv_pixel_format', Columns(r), Rows(r), r.left, r.top)
  BY <1>6, <1>18 DEF right, target
<1>23. QED
  BY <1>18, <1>21, <1>22 DEF Shows

-----------------------------------------------------------------------------
(***************************************************************************)
(* The fields after a change of format.                                    *)
(***************************************************************************)

Fields == [width : Int, height : Int, stride : Int, sliceHeight : Int,
           crop_left : Int, crop_right : Int, crop_top : Int, crop_bottom : Int]

LEMMA FieldsAre == [DOMAIN Zero -> Int] = Fields /\ Zero \in Fields
<1>1. DOMAIN Zero = {"width", "height", "stride", "sliceHeight",
                     "crop_left", "crop_right", "crop_top", "crop_bottom"}
  BY DEF Zero
<1>2. Zero \in Fields
  BY DEF Zero, Fields
<1>3. ASSUME NEW f \in Fields PROVE f \in [DOMAIN Zero -> Int]
  BY <1>1 DEF Fields
<1>4. ASSUME NEW f \in [DOMAIN Zero -> Int] PROVE f \in Fields
  BY <1>1 DEF Fields
<1>5. QED
  BY <1>2, <1>3, <1>4

\* A rectangle that starts in the first column is replaced by the whole picture.
LEMMA FixCropIs ==
  ASSUME NEW f \in Fields
  PROVE  LET g == FixCrop(f)
             whole == Whole([width |-> f.width, height |-> f.height])
         IN  /\ g \in Fields
             /\ g.width = f.width /\ g.height = f.height /\ g.crop_left = f.crop_left
             /\ g.stride = f.stride /\ g.sliceHeight = f.sliceHeight
             /\ f.crop_left # 0 => g = f
             /\ f.crop_left = 0 => Reads(g, whole)
<1> DEFINE right == IF f.width = Short /\ f.height = Long THEN Shown - 1 ELSE f.width - 1
           bottom == IF f.width = Long /\ f.height = Short THEN Shown - 1 ELSE f.height - 1
           whole == Whole([width |-> f.width, height |-> f.height])
           g == FixCrop(f)
<1>1. right \in Int /\ bottom \in Int
  BY DecoderAssumption DEF Fields
<1>2. whole.left = 0 /\ whole.right = right /\ whole.top = 0 /\ whole.bottom = bottom
  BY DEF Whole
<1> HIDE DEF whole
<1>3. CASE f.crop_left # 0
  <2>1. FixCrop(f) = f
    BY <1>3 DEF FixCrop
  <2>2. QED
    BY <1>3, <2>1
<1>4. CASE f.crop_left = 0
  <2>1. g = [f EXCEPT !.crop_right = right, !.crop_top = 0, !.crop_bottom = bottom]
    BY <1>4 DEF FixCrop
  <2> HIDE DEF g, right, bottom
  <2> DEFINE f1 == [f EXCEPT !.crop_right = right]
             f2 == [f1 EXCEPT !.crop_top = 0]
             f3 == [f2 EXCEPT !.crop_bottom = bottom]
  <2>2. g \in Fields
    <3>1. f1 \in Fields
      BY <1>1 DEF Fields
    <3> HIDE DEF f1
    <3>2. f2 \in Fields
      BY <3>1 DEF Fields
    <3> HIDE DEF f2
    <3>3. f3 \in Fields
      BY <1>1, <3>2 DEF Fields
    <3>4. g = f3
      BY <2>1 DEF f1, f2
    <3>5. QED
      BY <3>3, <3>4
  <2>3. /\ g.width = f.width /\ g.height = f.height /\ g.crop_left = f.crop_left
        /\ g.stride = f.stride /\ g.sliceHeight = f.sliceHeight
        /\ g.crop_top = 0 /\ g.crop_right = right /\ g.crop_bottom = bottom
    BY <2>1 DEF Fields
  <2>4. Reads(g, whole)
    BY <1>2, <1>4, <2>3 DEF Reads
  <2>5. QED
    BY <1>4, <2>2, <2>3, <2>4 DEF g, whole
<1>5. QED
  BY <1>3, <1>4

\* A picture has at least the columns and rows it shows.
LEMMA FixPaddingIs ==
  ASSUME NEW f \in Fields
  PROVE  LET g == FixPadding(f)
         IN  /\ g \in Fields
             /\ g.width = f.width /\ g.height = f.height
             /\ g.crop_left = f.crop_left /\ g.crop_right = f.crop_right
             /\ g.crop_top = f.crop_top /\ g.crop_bottom = f.crop_bottom
             /\ f.stride <= f.width => g.stride = f.width
             /\ f.sliceHeight <= f.height => g.sliceHeight = f.height
<1> DEFINE s == IF f.stride < f.width THEN f.width ELSE f.stride
           z == IF f.sliceHeight < f.height THEN f.height ELSE f.sliceHeight
           g == FixPadding(f)
<1>1. s \in Int /\ z \in Int
  BY DEF Fields
<1>2. g = [f EXCEPT !.stride = s, !.sliceHeight = z]
  BY DEF FixPadding
<1>3. (f.stride <= f.width => s = f.width) /\ (f.sliceHeight <= f.height => z = f.height)
  BY DEF Fields
<1> HIDE DEF g, s, z
<1>4. g \in Fields
  BY <1>1, <1>2 DEF Fields
<1>5. /\ g.width = f.width /\ g.height = f.height
      /\ g.crop_left = f.crop_left /\ g.crop_right = f.crop_right
      /\ g.crop_top = f.crop_top /\ g.crop_bottom = f.crop_bottom
      /\ g.stride = s /\ g.sliceHeight = z
  BY <1>2 DEF Fields
<1>6. QED
  BY <1>3, <1>4, <1>5 DEF g

\* What a codec tells.
LEMMA FormatIs ==
  ASSUME NEW t \in Formats
  PROVE  /\ <<t.width, t.height>> \in Pictures
         /\ t.padded[1] \in Int /\ t.padded[2] \in Int
         /\ \/ t.crop = NoCrop
            \/ \E l \in Margins, m \in Margins, x \in {0, 2}, y \in {0, 2} :
                 t.crop = [left |-> l, right |-> t.width - 1 - x,
                           top |-> m, bottom |-> t.height - 1 - y]
<1>1. PICK p \in Pictures : t \in FormatsOf(p[1], p[2])
  BY DEF Formats
<1>2. /\ t.width = p[1] /\ t.height = p[2]
      /\ t.crop \in CropsOf(p[1], p[2]) /\ t.padded \in PaddingsOf(p[1], p[2])
  BY <1>1 DEF FormatsOf
<1>3. p = <<p[1], p[2]>> /\ p[1] \in Nat /\ p[2] \in Nat
  BY <1>1, DecoderAssumption DEF Pictures
<1>4. t.padded[1] \in Int /\ t.padded[2] \in Int
  BY <1>2, <1>3, DecoderAssumption DEF PaddingsOf, Missing
<1>5. \/ t.crop = NoCrop
      \/ \E l \in Margins, m \in Margins, x \in {0, 2}, y \in {0, 2} :
           t.crop = [left |-> l, right |-> t.width - 1 - x,
                     top |-> m, bottom |-> t.height - 1 - y]
  BY <1>2 DEF CropsOf
<1>6. QED
  BY <1>1, <1>2, <1>3, <1>4, <1>5

\* Its pictures are even, and not smaller than the smallest.
LEMMA PictureSizes ==
  ASSUME NEW t \in Formats
  PROVE  /\ t.width \in Nat /\ t.height \in Nat
         /\ t.width % 2 = 0 /\ t.height % 2 = 0
         /\ t.width >= Short /\ t.height >= Short
<1>1. <<t.width, t.height>> \in Pictures
  BY FormatIs
<1>2. /\ t.width = Long \/ t.width = Short
      /\ t.height = Long \/ t.height = Short
  BY <1>1 DEF Pictures
<1>3. QED
  BY <1>2, DecoderAssumption

\* A rectangle that is told lies in the picture.
LEMMA CropIs ==
  ASSUME NEW t \in Formats, t.crop # NoCrop
  PROVE  LET c == t.crop
         IN  /\ c.left \in Nat /\ c.right \in Nat /\ c.top \in Nat /\ c.bottom \in Nat
             /\ c.right >= c.left /\ c.right < t.width
             /\ c.bottom >= c.top /\ c.bottom < t.height
             /\ (c.right + 1) % 2 = 0 /\ (c.bottom + 1) % 2 = 0
<1>1. PICK l \in Margins, m \in Margins, x \in {0, 2}, y \in {0, 2} :
        t.crop = [left |-> l, right |-> t.width - 1 - x,
                  top |-> m, bottom |-> t.height - 1 - y]
  BY FormatIs
<1>2. l \in Nat /\ m \in Nat /\ l + 2 < Short /\ m + 2 < Short /\ Short \in Nat
  BY DecoderAssumption
<1>3. /\ t.crop.left = l /\ t.crop.right = t.width - 1 - x
      /\ t.crop.top = m /\ t.crop.bottom = t.height - 1 - y
  BY <1>1
<1>4. /\ t.width \in Nat /\ t.width % 2 = 0 /\ t.width >= Short
      /\ t.height \in Nat /\ t.height % 2 = 0 /\ t.height >= Short
  BY PictureSizes
<1>5. ASSUME NEW n \in Nat, n % 2 = 0, n >= Short, NEW o \in Margins, NEW z \in {0, 2}
      PROVE  /\ o \in Nat /\ n - 1 - z \in Nat /\ n - 1 - z >= o /\ n - 1 - z < n
             /\ (n - 1 - z + 1) % 2 = 0
  <2>1. o \in Nat /\ Short \in Nat /\ o + 2 < Short
    BY DecoderAssumption
  <2>2. CASE z = 0
    BY <1>5, <2>1, <2>2
  <2>3. CASE z = 2
    BY <1>5, <2>1, <2>3
  <2>4. QED
    BY <2>2, <2>3
<1>6. /\ l \in Nat /\ t.width - 1 - x \in Nat /\ t.width - 1 - x >= l
      /\ t.width - 1 - x < t.width /\ (t.width - 1 - x + 1) % 2 = 0
  BY <1>4, <1>5
<1>7. /\ m \in Nat /\ t.height - 1 - y \in Nat /\ t.height - 1 - y >= m
      /\ t.height - 1 - y < t.height /\ (t.height - 1 - y + 1) % 2 = 0
  BY <1>4, <1>5
<1>8. QED
  BY <1>3, <1>6, <1>7

\* So does the whole picture, or what is shown of it.
LEMMA WholeIs ==
  ASSUME NEW t \in Formats
  PROVE  LET c == Whole(t)
         IN  /\ c.left = 0 /\ c.top = 0 /\ c.right \in Int /\ c.bottom \in Int
             /\ c.right + 1 \in Nat /\ c.right < t.width /\ (c.right + 1) % 2 = 0
             /\ c.bottom + 1 \in Nat /\ c.bottom < t.height /\ (c.bottom + 1) % 2 = 0
BY PictureSizes, DecoderAssumption DEF Whole

\* The fields before they are put right.
Asked(t, f) ==
  [width |-> t.width, height |-> t.height,
   stride |-> IF modern THEN getInt32(t.padded[1], f.stride) ELSE t.width,
   sliceHeight |-> IF modern THEN getInt32(t.padded[2], f.sliceHeight) ELSE t.height,
   crop_left |-> getInt32(t.crop.left, f.crop_left),
   crop_right |-> getInt32(t.crop.right, f.crop_right),
   crop_top |-> getInt32(t.crop.top, f.crop_top),
   crop_bottom |-> getInt32(t.crop.bottom, f.crop_bottom)]

LEMMA AskedIs ==
  ASSUME NEW f \in Fields, NEW t \in Formats
  PROVE  LET r == Asked(t, f)
         IN  /\ r \in Fields
             /\ r.width = t.width /\ r.height = t.height
             /\ t.crop = NoCrop => /\ r.crop_left = f.crop_left /\ r.crop_right = f.crop_right
                                   /\ r.crop_top = f.crop_top /\ r.crop_bottom = f.crop_bottom
             /\ t.crop # NoCrop => Reads(r, t.crop)
<1> DEFINE r == Asked(t, f)
           i == IF modern THEN getInt32(t.padded[1], f.stride) ELSE t.width
           j == IF modern THEN getInt32(t.padded[2], f.sliceHeight) ELSE t.height
<1>1. /\ f.stride \in Int /\ f.sliceHeight \in Int /\ f.crop_left \in Int
      /\ f.crop_right \in Int /\ f.crop_top \in Int /\ f.crop_bottom \in Int
  BY DEF Fields
<1>2. /\ t.padded[1] \in Int /\ t.padded[2] \in Int
      /\ t.width \in Int /\ t.height \in Int
  <2>1. t.padded[1] \in Int /\ t.padded[2] \in Int
    BY FormatIs
  <2>2. t.width \in Int /\ t.height \in Int
    BY PictureSizes
  <2>3. QED
    BY <2>1, <2>2
<1>3. i \in Int /\ j \in Int
  BY <1>1, <1>2 DEF getInt32
<1>4. /\ r.width = t.width /\ r.height = t.height /\ r.stride = i /\ r.sliceHeight = j
      /\ r.crop_left = getInt32(t.crop.left, f.crop_left)
      /\ r.crop_right = getInt32(t.crop.right, f.crop_right)
      /\ r.crop_top = getInt32(t.crop.top, f.crop_top)
      /\ r.crop_bottom = getInt32(t.crop.bottom, f.crop_bottom)
  BY DEF Asked
<1>5. r = [width |-> t.width, height |-> t.height, stride |-> i, sliceHeight |-> j,
           crop_left |-> r.crop_left, crop_right |-> r.crop_right,
           crop_top |-> r.crop_top, crop_bottom |-> r.crop_bottom]
  BY DEF Asked
<1> HIDE DEF r, i, j
<1>6. CASE t.crop = NoCrop
  <2>1. /\ r.crop_left = f.crop_left /\ r.crop_right = f.crop_right
        /\ r.crop_top = f.crop_top /\ r.crop_bottom = f.crop_bottom
    BY <1>4, <1>6 DEF NoCrop, getInt32
  <2>2. r \in Fields
    BY <1>1, <1>2, <1>3, <1>5, <2>1 DEF Fields
  <2>3. QED
    BY <1>4, <1>6, <2>1, <2>2 DEF r
<1>7. CASE t.crop # NoCrop
  <2>1. /\ t.crop.left \in Nat /\ t.crop.right \in Nat
        /\ t.crop.top \in Nat /\ t.crop.bottom \in Nat
    BY <1>7, CropIs
  <2>2. Reads(r, t.crop)
    BY <1>4, <2>1 DEF getInt32, Missing, Reads
  <2>3. r \in Fields
    BY <1>2, <1>3, <1>5, <2>1, <2>2 DEF Fields, Reads
  <2>4. QED
    BY <1>4, <1>7, <2>2, <2>3 DEF r
<1>8. QED
  BY <1>6, <1>7

\* What getInt32, FixCrop and FixPadding make of the fields together.
LEMMA FieldsOfIs ==
  ASSUME NEW f \in Fields, NEW t \in Formats
  PROVE  LET r == Asked(t, f)
             g == FieldsOf(t, f)
         IN  /\ g \in Fields /\ g.width = t.width /\ g.height = t.height
             /\ r.crop_left # 0 => /\ g.crop_left = r.crop_left /\ g.crop_right = r.crop_right
                                   /\ g.crop_top = r.crop_top /\ g.crop_bottom = r.crop_bottom
             /\ r.crop_left = 0 => Reads(g, Whole(t))
             /\ r.stride <= t.width => g.stride = t.width
             /\ r.sliceHeight <= t.height => g.sliceHeight = t.height
<1> DEFINE r == Asked(t, f)
           q == FixCrop(r)
           g == FixPadding(q)
<1>1. r \in Fields /\ r.width = t.width /\ r.height = t.height
  BY AskedIs
<1>2. g = FieldsOf(t, f)
  BY DEF FieldsOf, Asked
<1>3. Whole([width |-> t.width, height |-> t.height]) = Whole(t)
  BY DEF Whole
<1> HIDE DEF r
<1>4. /\ q \in Fields /\ q.width = t.width /\ q.height = t.height
      /\ q.stride = r.stride /\ q.sliceHeight = r.sliceHeight
      /\ r.crop_left # 0 => q = r
      /\ r.crop_left = 0 => Reads(q, Whole(t))
  BY <1>1, <1>3, FixCropIs
<1> HIDE DEF q
<1>5. /\ g \in Fields /\ g.width = q.width /\ g.height = q.height
      /\ g.crop_left = q.crop_left /\ g.crop_right = q.crop_right
      /\ g.crop_top = q.crop_top /\ g.crop_bottom = q.crop_bottom
      /\ q.stride <= q.width => g.stride = q.width
      /\ q.sliceHeight <= q.height => g.sliceHeight = q.height
  BY <1>4, FixPaddingIs
<1> HIDE DEF g
<1>6. r.crop_left = 0 => Reads(g, Whole(t))
  BY <1>4, <1>5 DEF Reads
<1>7. QED
  BY <1>2, <1>4, <1>5, <1>6 DEF r

\* A change of format leaves fields of a format, whatever they were before.
LEMMA FieldsFormed ==
  ASSUME NEW f \in Fields, f.crop_left # 0 => RectOK(f), NEW t \in Formats
  PROVE  LET g == FieldsOf(t, f) IN g \in Fields /\ Formed(g)
<1> DEFINE r == Asked(t, f)
           g == FieldsOf(t, f)
<1>1. /\ g \in Fields /\ g.width = t.width /\ g.height = t.height
      /\ r.crop_left # 0 => /\ g.crop_left = r.crop_left /\ g.crop_right = r.crop_right
                            /\ g.crop_top = r.crop_top /\ g.crop_bottom = r.crop_bottom
      /\ r.crop_left = 0 => Reads(g, Whole(t))
  BY FieldsOfIs
<1>2. /\ t.crop = NoCrop => /\ r.crop_left = f.crop_left /\ r.crop_right = f.crop_right
                            /\ r.crop_top = f.crop_top /\ r.crop_bottom = f.crop_bottom
      /\ t.crop # NoCrop => Reads(r, t.crop)
  BY AskedIs
<1>3. <<t.width, t.height>> \in Pictures
  BY FormatIs
<1> HIDE DEF r, g
<1>4. RectOK(g)
  <2>1. CASE r.crop_left = 0
    <3>1. /\ g.crop_left = 0 /\ g.crop_top = 0
          /\ g.crop_right = Whole(t).right /\ g.crop_bottom = Whole(t).bottom
      BY <1>1, <2>1, WholeIs DEF Reads
    <3>2. Width(g) = Whole(t).right + 1 /\ Height(g) = Whole(t).bottom + 1
      BY <3>1, WholeIs DEF Width, Height
    <3>3. QED
      BY <3>1, <3>2, WholeIs DEF RectOK
  <2>2. CASE r.crop_left # 0 /\ t.crop = NoCrop
    <3>1. RectOK(f)
      BY <1>2, <2>2
    <3>2. QED
      BY <1>1, <1>2, <2>2, <3>1 DEF RectOK, Width, Height
  <2>3. CASE r.crop_left # 0 /\ t.crop # NoCrop
    <3>1. Reads(g, t.crop)
      BY <1>1, <1>2, <2>3 DEF Reads
    <3>2. /\ Width(g) = t.crop.right - t.crop.left + 1
          /\ Height(g) = t.crop.bottom - t.crop.top + 1
      BY <3>1 DEF Reads, Width, Height
    <3>3. /\ g.crop_left \in Nat /\ g.crop_top \in Nat
          /\ Width(g) \in Nat /\ Height(g) \in Nat
      BY <2>3, <3>1, <3>2, CropIs DEF Reads
    <3>4. ASSUME NEW n \in Nat, NEW m \in Nat, n >= m, (n + 1) % 2 = 0, m % 2 = 0
          PROVE  (n - m + 1) % 2 = 0
      BY <3>4
    <3>5. /\ g.crop_left % 2 = 0 => Width(g) % 2 = 0
          /\ g.crop_top % 2 = 0 => Height(g) % 2 = 0
      <4>1. g.crop_left = t.crop.left /\ g.crop_top = t.crop.top
        BY <3>1 DEF Reads
      <4>2. QED
        BY <2>3, <3>2, <3>4, <4>1, CropIs
    <3>6. QED
      BY <3>3, <3>5 DEF RectOK
  <2>4. QED
    BY <2>1, <2>2, <2>3
<1>5. QED
  BY <1>1, <1>3, <1>4 DEF Formed, g

\* The rectangle that is read lies in the picture.
LEMMA GivenIs ==
  ASSUME NEW t \in Formats
  PROVE  LET c == Given(t)
         IN  /\ c.left \in Nat /\ c.right \in Int /\ c.top \in Nat /\ c.bottom \in Int
             /\ c.right < t.width /\ c.bottom < t.height
<1>1. Given(t) \in {Whole(t), t.crop} /\ (Given(t) = t.crop => t.crop # NoCrop \/ Given(t) = Whole(t))
  BY DEF Given, Rectangle
<1>2. CASE Given(t) = Whole(t)
  BY <1>2, WholeIs
<1>3. CASE Given(t) = t.crop /\ t.crop # NoCrop
  BY <1>3, CropIs
<1>4. QED
  BY <1>1, <1>2, <1>3

\* The fields say what the format t tells, told first or after others.
Follows(f, t) ==
  /\ Reads(f, Given(t))
  /\ StrideOf(t) = t.width => f.stride = t.width
  /\ SliceHeightOf(t) = t.height => f.sliceHeight = t.height

LEMMA FieldsFollow ==
  ASSUME NEW f \in Fields, NEW t \in Formats, NEW before \in BOOLEAN,
         before \/ f = Zero, ~KeepsKeys(t, before)
  PROVE  Follows(FieldsOf(t, f), t)
<1> DEFINE r == Asked(t, f)
           g == FieldsOf(t, f)
<1>1. /\ g \in Fields /\ g.width = t.width /\ g.height = t.height
      /\ r.crop_left # 0 => /\ g.crop_left = r.crop_left /\ g.crop_right = r.crop_right
                            /\ g.crop_top = r.crop_top /\ g.crop_bottom = r.crop_bottom
      /\ r.crop_left = 0 => Reads(g, Whole(t))
      /\ r.stride <= t.width => g.stride = t.width
      /\ r.sliceHeight <= t.height => g.sliceHeight = t.height
  BY FieldsOfIs
<1>2. /\ t.crop = NoCrop => r.crop_left = f.crop_left
      /\ t.crop # NoCrop => Reads(r, t.crop)
  BY AskedIs
<1>3. /\ r.stride = IF modern THEN getInt32(t.padded[1], f.stride) ELSE t.width
      /\ r.sliceHeight = IF modern THEN getInt32(t.padded[2], f.sliceHeight) ELSE t.height
  BY DEF Asked
<1>4. t.width \in Nat /\ t.height \in Nat
  BY PictureSizes
<1> HIDE DEF r, g
<1>5. ~before => f.crop_left = 0 /\ f.stride = 0 /\ f.sliceHeight = 0
  BY DEF Zero
<1>6. Reads(g, Given(t))
  <2>1. CASE t.crop = NoCrop
    <3>1. r.crop_left = 0
      BY <1>2, <1>5, <2>1 DEF KeepsKeys
    <3>2. Given(t) = Whole(t)
      BY <2>1 DEF Given, IgnoresCrop, Rectangle
    <3>3. QED
      BY <1>1, <3>1, <3>2
  <2>2. CASE t.crop # NoCrop /\ t.crop.left = 0
    <3>1. r.crop_left = 0
      BY <1>2, <2>2 DEF Reads
    <3>2. Given(t) = Whole(t)
      BY <2>2 DEF Given, IgnoresCrop, Rectangle
    <3>3. QED
      BY <1>1, <3>1, <3>2
  <2>3. CASE t.crop # NoCrop /\ t.crop.left # 0
    <3>1. Given(t) = t.crop
      BY <2>3 DEF Given, IgnoresCrop, Rectangle
    <3>2. QED
      BY <1>1, <1>2, <2>3, <3>1 DEF Reads
  <2>4. QED
    BY <2>1, <2>2, <2>3
<1>7. StrideOf(t) = t.width => r.stride <= t.width
  BY <1>3, <1>4, <1>5 DEF StrideOf, getInt32, KeepsKeys
<1>8. SliceHeightOf(t) = t.height => r.sliceHeight <= t.height
  BY <1>3, <1>4, <1>5 DEF SliceHeightOf, getInt32, KeepsKeys
<1>9. QED
  BY <1>1, <1>6, <1>7, <1>8 DEF Follows, g

\* Fields that follow a format are plain, if nothing is misplaced.
LEMMA FollowsPlain ==
  ASSUME NEW f \in Fields, NEW t \in Formats, f.width = t.width, f.height = t.height,
         Follows(f, t), ~Misplaced(t)
  PROVE  Plain(f) /\ StrideOf(t) = f.stride /\ SliceHeightOf(t) = f.sliceHeight
<1>1. f.stride = t.width /\ f.sliceHeight = t.height
  BY DEF Follows, Misplaced
<1>2. Reads(f, Given(t))
  BY DEF Follows
<1>3. QED
  BY <1>1, <1>2, GivenIs DEF Misplaced, Plain, Reads

\* getConfig tells the size of the rectangle.
LEMMA ConfigTold ==
  ASSUME NEW f \in Fields, NEW t \in Formats, f.width = t.width, f.height = t.height,
         Reads(f, Given(t))
  PROVE  /\ getConfig_width(f) = Columns(Given(t)) /\ getConfig_height(f) = Rows(Given(t))
         /\ Given(t) = [left |-> f.crop_left, right |-> f.crop_right,
                        top |-> f.crop_top, bottom |-> f.crop_bottom]
<1> DEFINE c == Given(t)
<1>1. /\ c.left \in Nat /\ c.right \in Int /\ c.top \in Nat /\ c.bottom \in Int
      /\ c.right < t.width /\ c.bottom < t.height
  BY GivenIs
<1>2. t.width \in Nat /\ t.height \in Nat
  BY PictureSizes
<1>3. c = [left |-> c.left, right |-> c.right, top |-> c.top, bottom |-> c.bottom]
  <2>1. Whole(t) = [left |-> Whole(t).left, right |-> Whole(t).right,
                    top |-> Whole(t).top, bottom |-> Whole(t).bottom]
    BY DEF Whole
  <2>2. t.crop = [left |-> t.crop.left, right |-> t.crop.right,
                  top |-> t.crop.top, bottom |-> t.crop.bottom]
    <3>1. CASE t.crop = NoCrop
      BY <3>1 DEF NoCrop
    <3>2. CASE t.crop # NoCrop
      <4>1. PICK l \in Margins, m \in Margins, x \in {0, 2}, y \in {0, 2} :
              t.crop = [left |-> l, right |-> t.width - 1 - x,
                        top |-> m, bottom |-> t.height - 1 - y]
        BY <3>2, FormatIs
      <4>2. QED
        BY <4>1
    <3>3. QED
      BY <3>1, <3>2
  <2>3. c = Whole(t) \/ c = t.crop
    BY DEF Given, Rectangle
  <2> HIDE DEF c
  <2>4. QED
    BY <2>1, <2>2, <2>3
<1>4. /\ f.crop_left = c.left /\ f.crop_right = c.right
      /\ f.crop_top = c.top /\ f.crop_bottom = c.bottom
  BY DEF Reads
<1>5. Width(f) = Columns(c) /\ Height(f) = Rows(c) /\ Width(f) <= f.width /\ Height(f) <= f.height
      /\ Width(f) \in Int /\ Height(f) \in Int
  <2> HIDE DEF c
  <2>1. QED
    BY <1>1, <1>2, <1>4 DEF Width, Height, Columns, Rows
<1>6. getConfig_width(f) = Columns(c) /\ getConfig_height(f) = Rows(c)
  <2> HIDE DEF c
  <2>1. QED
    BY <1>2, <1>5 DEF getConfig_width, getConfig_height
<1> HIDE DEF c
<1>7. QED
  BY <1>3, <1>4, <1>6 DEF c

-----------------------------------------------------------------------------
(***************************************************************************)
(* The decoder's invariant.                                                *)
(***************************************************************************)

\* What getInt32 leaves in the fields, now or after a later format, is a rectangle; and a
\* decoder that was never told a format has its fields cleared.
RectInv ==
  /\ fields.crop_left # 0 => RectOK(fields)
  /\ told = Untold /\ ~earlier => fields = Zero

\* Once a codec that was opened has told a format, the fields are of it, and say what it
\* says unless they keep keys of an earlier one.
ToldInv ==
  decoder \in {"open", "decoding"} /\ told # Untold =>
    /\ Formed(fields) /\ fields.width = told.width /\ fields.height = told.height
    /\ ~KeepsKeys(told, earlier) => Follows(fields, told)

\* There is a picture only during a call, and it was right but for the departures.
ShownInv ==
  /\ decoder # "decoding" => pictureSize = 0
  /\ pictureSize > 0 /\ ~KeepsKeys(seen.format, seen.earlier) /\ ~Misplaced(seen.format) =>
       Shows(Given(seen.format))

DecoderInv == DecoderTypeOK /\ RectInv /\ ToldInv /\ ShownInv

\* Nothing that ToldInv and ShownInv say changes if these do not.
LEMMA ToldStays ==
  ASSUME ToldInv, UNCHANGED <<modern, fields, told, earlier>>,
         decoder' \in {"open", "decoding"} => decoder \in {"open", "decoding"}
  PROVE  ToldInv'
BY DEF ToldInv, KeepsKeys, Follows, Reads, Formed, RectOK, Width, Height

LEMMA ShownStays ==
  ASSUME ShownInv, UNCHANGED <<modern, mt, yuv_pixel_format, picture, pictureSize, seen>>,
         decoder = "decoding" => decoder' = "decoding"
  PROVE  ShownInv'
BY DEF ShownInv, KeepsKeys, Misplaced, Shows

LEMMA UnseenType == Unseen \in [format : Formats \cup {Untold}, earlier : BOOLEAN]
BY DEF Unseen

LEMMA DecoderInvInit == DecoderInit => DecoderInv
<1> SUFFICES ASSUME DecoderInit PROVE DecoderInv
  OBVIOUS
<1>1. DecoderTypeOK
  <2>1. Zero \in [DOMAIN Zero -> Int]
    BY FieldsAre
  <2>2. DOMAIN picture = Places
    BY DEF DecoderInit, Unwritten
  <2>3. formats \in 0..NumFormats
    BY DecoderAssumption DEF DecoderInit
  <2>4. /\ seen \in [format : Formats \cup {Untold}, earlier : BOOLEAN]
        /\ earlier \in BOOLEAN /\ running \in BOOLEAN
    BY UnseenType, Zenon DEF DecoderInit
  <2>5. QED
    BY <2>1, <2>2, <2>3, <2>4 DEF DecoderInit, DecoderTypeOK
<1>2. /\ fields = Zero /\ fields.crop_left = 0 /\ decoder = "none" /\ pictureSize = 0
  BY DEF DecoderInit, Zero
<1>3. QED
  BY <1>1, <1>2 DEF DecoderInv, RectInv, ToldInv, ShownInv

\* The life of a decoder: a new one has its fields cleared, an open one no format yet.
LEMMA LifeKeepsInv ==
  ASSUME DecoderInv, DecoderLife
  PROVE  DecoderInv'
<1>1. /\ UNCHANGED <<mt, modern, picture, pictureSize, seen, formats>>
      /\ yuv_pixel_format' \in Targets
      /\ decoder' \in {"none", "allocated", "failed", "open", "closing"}
      /\ running' \in BOOLEAN
      /\ \/ /\ fields' = Zero /\ told' = Untold /\ earlier' = FALSE
         \/ /\ fields' = fields /\ told' = Untold /\ earlier' = (earlier \/ told # Untold)
         \/ UNCHANGED <<fields, told, earlier>>
      /\ decoder' = "open" => told' = Untold
      /\ decoder # "decoding"
  BY DEF DecoderInv, DecoderTypeOK, DecoderLife, mediacodec_decoder_alloc1,
         mediacodec_decoder_open, mediacodec_decoder_close, mediacodec_decoder_free,
         systemVars, historyVars
<1>2. DecoderTypeOK'
  <2>1. fields' \in [DOMAIN Zero -> Int]
    BY <1>1, FieldsAre DEF DecoderInv, DecoderTypeOK
  <2>2. earlier' \in BOOLEAN
    BY <1>1 DEF DecoderInv, DecoderTypeOK
  <2>3. /\ told' \in Formats \cup {Untold} /\ formats' \in 0..NumFormats
        /\ DOMAIN picture' = Places /\ pictureSize' \in Nat
        /\ decoder' \in {"none", "allocated", "failed", "open", "decoding", "closing"}
        /\ yuv_pixel_format' \in Targets
    BY <1>1 DEF DecoderInv, DecoderTypeOK
  <2>4. /\ mt' \in BOOLEAN /\ modern' \in BOOLEAN /\ running' \in BOOLEAN
        /\ seen' \in [format : Formats \cup {Untold}, earlier : BOOLEAN]
    BY <1>1, Zenon DEF DecoderInv, DecoderTypeOK
  <2>5. QED
    BY <2>1, <2>2, <2>3, <2>4, Zenon DEF DecoderTypeOK
<1>3. RectInv'
  <2>1. Zero.crop_left = 0
    BY DEF Zero
  <2>2. CASE fields' = Zero /\ told' = Untold /\ earlier' = FALSE
    BY <2>1, <2>2 DEF RectInv
  <2>3. CASE fields' = fields /\ told' = Untold /\ earlier' = (earlier \/ told # Untold)
    <3>1. ~earlier' => told = Untold /\ ~earlier
      BY <2>3
    <3>2. fields'.crop_left # 0 => RectOK(fields)'
      BY <2>3 DEF DecoderInv, RectInv, RectOK, Width, Height
    <3>3. QED
      BY <2>3, <3>1, <3>2 DEF DecoderInv, RectInv
  <2>4. CASE UNCHANGED <<fields, told, earlier>>
    BY <2>4 DEF DecoderInv, RectInv, RectOK, Width, Height
  <2>5. QED
    BY <1>1, <2>2, <2>3, <2>4
<1>4. ToldInv'
  BY <1>1 DEF ToldInv
<1>5. ShownInv'
  BY <1>1 DEF DecoderInv, ShownInv
<1>6. QED
  BY <1>2, <1>3, <1>4, <1>5 DEF DecoderInv

\* Every way to make a picture fills the buffer's places.
LEMMA PicturesFill ==
  \A in, old, w, h :
    /\ DOMAIN NV12toYUV420Planar(in, old, w, h) = Places
    /\ DOMAIN I420toYUV420SemiPlanar(in, old, w, h) = Places
    /\ DOMAIN I420toNV21(in, old, w, h) = Places
    /\ DOMAIN swapNV12toNV21(in, old, w, h) = Places
    /\ \A l, r, t, b : /\ DOMAIN CropYUV420SemiPlanar(in, old, w, h, l, r, t, b) = Places
                       /\ DOMAIN CropYUV420Planar(in, old, w, h, l, r, t, b) = Places
BY DEF NV12toYUV420Planar, I420toYUV420SemiPlanar, I420toNV21, swapNV12toNV21, Recoloured,
       CropYUV420SemiPlanar, CropYUV420Planar

LEMMA PictureType ==
  ASSUME DecoderInv, PictureOut
  PROVE  DecoderTypeOK'
<1> DEFINE f == fields
           given == Layout(IF mt THEN "I420" ELSE "NV12",
                           StrideOf(told), SliceHeightOf(told), 0, 0)
           plain == IF f.width = f.stride /\ f.height = f.sliceHeight THEN given
                    ELSE WithoutPadding(given, f)
<1>1. /\ picture' = Wanted(plain, given, f) /\ pictureSize' = SizeOf(f)
      /\ seen' = [format |-> told, earlier |-> earlier]
      /\ decoder = "decoding" /\ told # Untold
      /\ UNCHANGED <<decoder, mt, modern, yuv_pixel_format, running, fields, told, earlier,
                     formats>>
  BY DEF PictureOut, systemVars
<1>2. DOMAIN plain = Places
  BY DEF Layout, WithoutPadding
<1>3. DOMAIN picture' = Places
  <2> HIDE DEF plain, given
  <2> DEFINE from == IF Crops(f)
                     THEN IF mt
                          THEN CropYUV420Planar(plain, given, f.width, f.height, f.crop_left,
                                                f.crop_right, f.crop_top, f.crop_bottom)
                          ELSE CropYUV420SemiPlanar(plain, given, f.width, f.height, f.crop_left,
                                                    f.crop_right, f.crop_top, f.crop_bottom)
                     ELSE plain
             w == Width(f)
             h == Height(f)
  <2>1. DOMAIN from = Places
    BY <1>2, PicturesFill
  <2>2. picture' \in {I420toYUV420SemiPlanar(from, plain, w, h), I420toNV21(from, plain, w, h),
                 NV12toYUV420Planar(from, plain, w, h), swapNV12toNV21(from, plain, w, h), from}
    BY <1>1 DEF Wanted
  <2> HIDE DEF from, w, h
  <2>3. QED
    BY <2>1, <2>2, PicturesFill
<1>4. pictureSize' \in Nat
  <2>1. Formed(f)
    BY <1>1 DEF DecoderInv, ToldInv
  <2>2. f.width \in Nat /\ f.height \in Nat
    BY <2>1, PicturesFit DEF Formed
  <2>3. Width(f) \in Nat /\ Height(f) \in Nat
    BY <2>1 DEF Formed, RectOK
  <2>4. Width(f) * Height(f) \in Nat /\ f.width * f.height \in Nat
    BY <2>2, <2>3
  <2>5. \A n \in Nat : (n * 3) \div 2 \in Nat
    OBVIOUS
  <2>6. QED
    BY <1>1, <2>4, <2>5 DEF SizeOf
<1>5. seen' \in [format : Formats \cup {Untold}, earlier : BOOLEAN]
  BY <1>1 DEF DecoderInv, DecoderTypeOK
<1>6. QED
  BY <1>1, <1>3, <1>4, <1>5 DEF DecoderInv, DecoderTypeOK

LEMMA DecoderInvStep == DecoderInv /\ DecoderNext => DecoderInv'
<1> SUFFICES ASSUME DecoderInv, DecoderNext PROVE DecoderInv'
  OBVIOUS
<1>1. CASE DecoderLife
  BY <1>1, LifeKeepsInv
<1>2. CASE DecodeInput
  <2>1. /\ decoder = "open" /\ decoder' \in {"open", "decoding"}
        /\ UNCHANGED <<mt, modern, yuv_pixel_format, running, fields, picture, pictureSize,
                       told, earlier, seen, formats>>
    BY <1>2 DEF DecodeInput, systemVars, historyVars
  <2>2. DecoderTypeOK'
    BY <2>1 DEF DecoderInv, DecoderTypeOK
  <2>3. RectInv'
    BY <2>1 DEF DecoderInv, RectInv, RectOK, Width, Height
  <2>4. ToldInv' /\ ShownInv'
    BY <2>1, ToldStays, ShownStays DEF DecoderInv
  <2>5. QED
    BY <2>2, <2>3, <2>4 DEF DecoderInv
<1>3. CASE PictureOut
  <2>1. /\ decoder = "decoding" /\ told # Untold
        /\ seen' = [format |-> told, earlier |-> earlier]
        /\ UNCHANGED <<decoder, mt, modern, fields, told, earlier>>
    BY <1>3 DEF PictureOut, systemVars
  <2>2. DecoderTypeOK'
    BY <1>3, PictureType
  <2>3. RectInv' /\ ToldInv'
    BY <2>1, ToldStays DEF DecoderInv, RectInv, RectOK, Width, Height
  <2>4. ShownInv'
    <3>1. SUFFICES ASSUME pictureSize' > 0, ~KeepsKeys(seen.format, seen.earlier)',
                          ~Misplaced(seen.format)'
                   PROVE  Shows(Given(seen.format))'
      BY <2>1 DEF ShownInv
    <3>2. PICK t \in Formats : t = told
      BY <2>1 DEF DecoderInv, DecoderTypeOK
    <3>3. seen'.format = t /\ seen'.earlier = earlier /\ ~KeepsKeys(t, earlier) /\ ~Misplaced(t)
      BY <2>1, <3>1, <3>2 DEF KeepsKeys, Misplaced
    <3>4. /\ fields \in Fields /\ Formed(fields) /\ Follows(fields, t)
          /\ fields.width = t.width /\ fields.height = t.height
      BY <2>1, <3>2, <3>3, FieldsAre DEF DecoderInv, DecoderTypeOK, ToldInv
    <3>5. /\ Plain(fields) /\ Reads(fields, Given(t))
          /\ StrideOf(told) = fields.stride /\ SliceHeightOf(told) = fields.sliceHeight
      BY <3>2, <3>3, <3>4, FollowsPlain DEF Follows
    <3>6. PICK r : r = Given(t)
      OBVIOUS
    <3>7. Shows(r)'
      BY <1>3, <3>1, <3>4, <3>5, <3>6, PictureShows DEF DecoderInv
    <3>8. QED
      BY <3>3, <3>6, <3>7
  <2>5. QED
    BY <2>2, <2>3, <2>4 DEF DecoderInv
<1>4. CASE DecodeReturn
  <2>1. /\ decoder = "decoding" /\ decoder' = "open"
        /\ pictureSize' = 0 /\ picture' = Unwritten /\ seen' = Unseen
        /\ UNCHANGED <<mt, modern, yuv_pixel_format, running, fields, told, earlier, formats>>
    BY <1>4 DEF DecodeReturn, systemVars
  <2>2. DecoderTypeOK'
    BY <2>1, UnseenType DEF DecoderInv, DecoderTypeOK, Unwritten
  <2>3. RectInv' /\ ToldInv'
    BY <2>1, ToldStays DEF DecoderInv, RectInv, RectOK, Width, Height
  <2>4. ShownInv'
    BY <2>1 DEF ShownInv
  <2>5. QED
    BY <2>2, <2>3, <2>4 DEF DecoderInv
<1>5. CASE \E t \in Formats : FormatChanged(t)
  <2>1. PICK t \in Formats : FormatChanged(t)
    BY <1>5
  <2>2. /\ decoder = "decoding" /\ formats < NumFormats /\ formats' = formats + 1
        /\ told' = t /\ earlier' = (earlier \/ told # Untold)
        /\ fields' = FieldsOf(t, fields)
        /\ UNCHANGED <<decoder, mt, modern, yuv_pixel_format, running, picture, pictureSize,
                       seen>>
    BY <2>1 DEF FormatChanged, systemVars
  <2>3. /\ fields \in Fields /\ (fields.crop_left # 0 => RectOK(fields))
        /\ told = Untold /\ ~earlier => fields = Zero
    BY FieldsAre DEF DecoderInv, DecoderTypeOK, RectInv
  <2>4. fields' \in Fields /\ Formed(fields') /\ fields'.width = t.width /\ fields'.height = t.height
    BY <2>2, <2>3, FieldsFormed, FieldsOfIs
  <2>5. t # Untold
    BY PictureSizes, DecoderAssumption DEF Untold
  <2>6. DecoderTypeOK'
    <3>1. fields' \in [DOMAIN Zero -> Int]
      BY <2>4, FieldsAre
    <3>2. formats' \in 0..NumFormats
      BY <2>2, DecoderAssumption DEF DecoderInv, DecoderTypeOK
    <3>3. earlier' \in BOOLEAN
      BY <2>2
    <3>4. QED
      BY <2>2, <3>1, <3>2, <3>3 DEF DecoderInv, DecoderTypeOK
  <2>7. RectInv'
    BY <2>2, <2>4, <2>5 DEF RectInv, Formed
  <2>8. ToldInv'
    <3>1. PICK before \in BOOLEAN : before = (earlier \/ told # Untold)
      OBVIOUS
    <3>2. before \/ fields = Zero
      BY <2>3, <3>1
    <3>3. ~KeepsKeys(t, before) => Follows(fields', t)
      BY <2>2, <2>3, <3>2, FieldsFollow
    <3>4. KeepsKeys(told, earlier)' <=> KeepsKeys(t, before)
      BY <2>2, <3>1 DEF KeepsKeys
    <3>5. QED
      BY <2>2, <2>4, <3>3, <3>4 DEF ToldInv
  <2>9. ShownInv'
    BY <2>2, ShownStays DEF DecoderInv
  <2>10. QED
    BY <2>6, <2>7, <2>8, <2>9 DEF DecoderInv
<1>6. QED
  BY <1>1, <1>2, <1>3, <1>4, <1>5 DEF DecoderNext

\* What mediacodec_decoder_decode gives back is right, whatever formats came before, but for
\* the departures that PictureRight names: a rectangle in the first column gives way to the
\* whole picture, keys are kept of an earlier format, and padding and rectangles elsewhere
\* misplace the samples.
THEOREM PicturesRight == DecoderSpec => []PictureRight
<1>1. DecoderInv /\ [DecoderNext]_decoderVars => DecoderInv'
  <2>1. SUFFICES ASSUME DecoderInv, [DecoderNext]_decoderVars PROVE DecoderInv'
    OBVIOUS
  <2>2. CASE DecoderNext
    BY <2>1, <2>2, DecoderInvStep
  <2>3. CASE UNCHANGED decoderVars
    <3>1. UNCHANGED <<decoder, mt, modern, yuv_pixel_format, running, fields, picture,
                      pictureSize, told, earlier, seen, formats>>
      BY <2>3 DEF decoderVars, systemVars, historyVars
    <3>2. ToldInv' /\ ShownInv'
      BY <2>1, <3>1, ToldStays, ShownStays DEF DecoderInv
    <3>3. QED
      BY <2>1, <3>1, <3>2 DEF DecoderInv, DecoderTypeOK, RectInv, RectOK, Width, Height
  <2>4. QED
    BY <2>1, <2>2, <2>3
<1>2. DecoderInv => PictureRight
  <2>1. SUFFICES ASSUME DecoderInv PROVE PictureRight
    OBVIOUS
  <2>2. RectangleKept
    <3>1. SUFFICES ASSUME decoder = "decoding", told # Untold, ~KeepsKeys(told, earlier)
                   PROVE  /\ Given(told) = [left |-> fields.crop_left,
                                            right |-> fields.crop_right,
                                            top |-> fields.crop_top,
                                            bottom |-> fields.crop_bottom]
                          /\ <<getConfig_width(fields), getConfig_height(fields)>> =
                               <<Columns(Given(told)), Rows(Given(told))>>
      BY DEF RectangleKept
    <3>2. /\ fields \in Fields /\ told \in Formats /\ Reads(fields, Given(told))
          /\ fields.width = told.width /\ fields.height = told.height
      BY <2>1, <3>1, FieldsAre DEF DecoderInv, DecoderTypeOK, ToldInv, Follows
    <3>3. QED
      BY <3>2, ConfigTold
  <2>3. QED
    BY <2>1, <2>2 DEF DecoderInv, ShownInv, PictureRight
<1>3. QED
  BY <1>1, <1>2, DecoderInvInit, PTL DEF DecoderSpec
=============================================================================

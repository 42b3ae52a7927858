----------------------------- MODULE VideoEncoder -----------------------------
(***************************************************************************)
(* The wrapper of Android's hardware encoder, mediacodec/mediacodec_encoder.c: *)
(* a frame goes in, and an encoded one comes out some time later, either in *)
(* the same call (mediacodec_encoder_encode) or in a call of its own        *)
(* (_input and _output).  In between the application changes the bit rate   *)
(* or the size of the pictures.                                            *)
(*                                                                         *)
(* All calls but alloc and free hold encMutex from beginning to end, and so *)
(* each is a step, except that _encode takes out one buffer after another.  *)
(* AMediaCodec is external: what it holds is a queue of buffers, any of its *)
(* calls that tell a status may fail, also where the code does not look at  *)
(* it, a buffer may have no memory behind it (NULL), and it hands over when *)
(* it likes.  Output buffers are not counted.                               *)
(*                                                                         *)
(* The application reads the statuses: it uses an encoder that was opened,  *)
(* and closes it, again if need be, before it opens or frees it.            *)
(***************************************************************************)
EXTENDS Integers, Sequences, FiniteSets

CONSTANTS
  Codecs,      \* the values of codeType: "AVC", "HEVC"
  OldStyles,   \* "encode": an application calls _encode; "async": _input and _output;
  NewStyles,   \* on a system with SDK_INT < 26, and on one that sets rates without a restart
  Sizes,       \* width and height, as one number
  Rates,       \* bit rates, all 30000 apart
  NumBuffers,  \* input buffers of the codec
  NumFrames,   \* bound: frames put in
  NumStarts    \* bound: starts of the codec

ASSUME Assumption ==
  /\ Codecs \subseteq {"AVC", "HEVC"} /\ OldStyles \cup NewStyles \subseteq {"encode", "async"}
  /\ Sizes \subseteq Nat \ {0} /\ Rates \subseteq Nat
  /\ NumBuffers \in Nat /\ NumFrames \in Nat /\ NumStarts \in Nat

VARIABLES
  style,       \* which of the two the application uses
  setsRate,    \* the system sets bit rates without a restart
  app,         \* what the application knows of its encoder
  \* MediaCodecEncoder
  codeType,
  width,       \* width, height
  bit_rate,
  sps,         \* sps and pps: the size they are for, 0 for NULL
  firstI,
  frameIndex,
  recent,      \* paramModifyTime is less than MODIFY_TIMEOUT ago
  encMutex,    \* "free", "encode": held by that call, "left": by one that has returned
  \* the codec behind it
  codec,       \* "null", "stopped" or "running"
  set,         \* what it was configured with
  pipe,        \* its output: buffers
  fresh,       \* it has not been given a frame since it was started
  lent,        \* input buffers it has lent and not got back
  \* history, read by properties only
  lost,        \* how many of them had no memory, or came with a frame the codec refused
  dropped,     \* since its start an output buffer without memory went back unread
  frames, starts, idrs,  \* counts, the last of key frames made
  dec,         \* the receiver: the parameter sets and the key frame it has
  broken,      \* it has been given what it cannot decode, but not while "failed" or "dropped"
  failed       \* the last change of size did not restart the codec

fieldVars == <<codeType, width, bit_rate, sps, firstI, frameIndex, recent, encMutex>>
codecVars == <<codec, set, pipe, fresh, lent, lost, dropped, starts>>
farVars == <<dec, broken>>
vars == <<style, setsRate, app, fieldVars, codecVars, frames, idrs, farVars, failed>>

NULL == 0
NoParams == [size |-> 0, rate |-> 0]

\* An output buffer: the parameter sets, a slice or both.  P refers to key frame idr.
Buffer == [config : BOOLEAN, slice : {"none", "I", "P"}, idr : Nat, size : Sizes]

Idle == app = "open" /\ encMutex = "free"
-----------------------------------------------------------------------------
(***************************************************************************)
(* The life of an encoder.                                                 *)
(***************************************************************************)

mediacodec_encoder_alloc(type, size, rate) ==
  /\ app = "none"
  /\ app' = "allocated"
  /\ codeType' = type
  /\ width' = size /\ bit_rate' = rate
  /\ sps' = NULL /\ firstI' = FALSE /\ frameIndex' = 0
  /\ recent' = FALSE /\ encMutex' = "free"
  /\ dec' = [sps |-> NULL, idr |-> 0]
  /\ failed' = FALSE
  /\ UNCHANGED <<codecVars, frames, idrs, broken>>

\* The codec is configured, and runs on an empty queue.
Runs(params) ==
  /\ codec' = "running"
  /\ set' = params
  /\ pipe' = <<>> /\ fresh' = TRUE /\ lent' = 0 /\ lost' = 0 /\ dropped' = FALSE
  /\ starts' = starts + 1

\* It has been created, or stopped, but does not run.
Stands ==
  /\ codec' = "stopped"
  /\ pipe' = <<>> /\ lent' = 0 /\ lost' = 0
  /\ UNCHANGED <<set, fresh, dropped, starts>>

\* The system is too old.
Refused == app' = "failed" /\ UNCHANGED <<codecVars, failed>>

\* The codec is created and configured, started and flushed, as far as that works.
mediacodec_encoder_open ==
  /\ app \in {"allocated", "closed"} /\ encMutex = "free" /\ starts < NumStarts
  /\ \/ Refused
     \/ app' = "failed" /\ Stands /\ UNCHANGED failed
     \/ /\ app' \in {"open", "failed"}
        /\ Runs([size |-> width, rate |-> bit_rate])
        /\ failed' = FALSE
  /\ UNCHANGED <<fieldVars, frames, idrs, farVars>>

\* The parameter sets are freed before it is known whether the codec can be
\* stopped and deleted.  Without a codec the mutex is not released.
mediacodec_encoder_close ==
  /\ app \in {"allocated", "failed", "open", "closing", "closed"} /\ encMutex = "free"
  /\ \/ /\ codec = "null"
        /\ encMutex' = "left"
        /\ app' = "closed"
        /\ UNCHANGED <<sps, codecVars>>
     \/ /\ codec # "null"
        /\ sps' = NULL
        /\ \/ app' = "closing" /\ UNCHANGED codecVars
           \/ app' = "closing" /\ Stands
           \/ /\ app' = "closed"
              /\ codec' = "null" /\ pipe' = <<>> /\ lent' = 0 /\ lost' = 0
              /\ UNCHANGED <<set, fresh, dropped, starts>>
        /\ UNCHANGED encMutex
  /\ UNCHANGED <<codeType, width, bit_rate, firstI, frameIndex, recent, frames, idrs,
                 farVars, failed>>

mediacodec_encoder_free ==
  /\ app \in {"allocated", "closed"}
  /\ app' = "none"
  /\ UNCHANGED <<fieldVars, codecVars, frames, idrs, farVars, failed>>
-----------------------------------------------------------------------------
(***************************************************************************)
(* A frame goes in.                                                        *)
(***************************************************************************)

\* What the codec makes of a frame.  The first one is a key frame, with the
\* parameter sets in front, in a buffer of their own or in the same.
Encoded(n) ==
  LET b(config, slice, idr) ==
        [config |-> config, slice |-> slice, idr |-> idr, size |-> set.size]
  IN  IF fresh
      THEN {<<b(TRUE, "none", n), b(FALSE, "I", n)>>, <<b(TRUE, "I", n)>>}
      ELSE {<<b(FALSE, "I", n)>>, <<b(FALSE, "P", n - 1)>>}

\* The frame is as large as the encoder's fields say: does it fit?
inputBufferSize == set.size
Fits == inputBufferSize >= width

\* A buffer the codec lends for good: its index is not given back.
Lends == codec = "running" /\ lent < NumBuffers /\ lent' = lent + 1

\* No input buffer is given; or one without memory (inputBuffer is NULL), or into which
\* the frame does not fit, and neither goes back.
NotPutIn ==
  /\ \/ UNCHANGED <<lent, lost>>
     \/ Lends /\ lost' = lost + 1
     \/ Lends /\ ~Fits /\ UNCHANGED lost
  /\ UNCHANGED <<pipe, fresh, idrs>>

\* The frame is put in, and the codec will encode it.
Queued ==
  /\ codec = "running" /\ lent < NumBuffers /\ Fits
  /\ \E out \in Encoded(idrs + 1) :
       /\ pipe' = pipe \o out
       /\ idrs' = IF out[Len(out)].slice = "I" THEN idrs + 1 ELSE idrs
  /\ fresh' = FALSE
  /\ UNCHANGED <<lent, lost>>

\* The status of AMediaCodec_queueInputBuffer is not looked at: when it fails nothing
\* comes of the frame, and the buffer is not given back.
NotQueued ==
  /\ Lends /\ Fits
  /\ lost' = lost + 1
  /\ UNCHANGED <<pipe, fresh, idrs>>

PutIn == Queued \/ NotQueued

mediacodec_encoder_input ==
  /\ style = "async" /\ Idle /\ frames < NumFrames
  /\ frames' = frames + 1
  /\ \/ NotPutIn /\ UNCHANGED frameIndex
     \/ PutIn /\ frameIndex' = frameIndex + 1
  /\ UNCHANGED <<app, codeType, width, bit_rate, sps, firstI, recent, encMutex, codec, set,
                 dropped, starts, farVars, failed>>

\* The first half of mediacodec_encoder_encode, which goes on whether it failed or not.
EncodeInput ==
  /\ style = "encode" /\ Idle /\ frames < NumFrames
  /\ frames' = frames + 1
  /\ NotPutIn \/ PutIn
  /\ encMutex' = "encode"
  /\ UNCHANGED <<app, codeType, width, bit_rate, sps, firstI, frameIndex, recent, codec, set,
                 dropped, starts, farVars, failed>>
-----------------------------------------------------------------------------
(***************************************************************************)
(* A buffer comes out.                                                     *)
(***************************************************************************)

\* A key frame is looked for while there was none, but not behind the parameter
\* sets that are saved from the same buffer.
SeesKeyFrame(b) ==
  firstI \/ (b.slice = "I" /\ ~(sps = NULL /\ b.config))

\* The parameter sets are saved when there are none.
SavedSets(b) == IF sps = NULL /\ b.config THEN b.size ELSE sps

\* Nothing is handed out before the first key frame.
HandsOut(b) == codeType = "HEVC" \/ SeesKeyFrame(b)

\* The parameter sets handed out with a buffer: its own, or the saved ones in front
\* of a key frame that has none.
SetsWith(b) ==
  IF b.config THEN b.size
  ELSE IF codeType = "AVC" /\ b.slice = "I" THEN sps ELSE NULL

\* What the receiver makes of it.
Received(b) ==
  LET has == IF SetsWith(b) # NULL THEN SetsWith(b) ELSE dec.sps
  IN  /\ dec' = [sps |-> has, idr |-> IF b.slice = "I" THEN b.idr ELSE dec.idr]
      /\ broken' = (\/ broken
                    \/ ~failed /\ ~dropped /\ b.slice = "I" /\ has # b.size
                    \/ ~failed /\ ~dropped /\ b.slice = "P" /\ dec.idr # b.idr)

\* A buffer is taken out of the codec, looked through and copied to the caller.
TakeOut ==
  /\ codec = "running" /\ pipe # <<>>
  /\ pipe' = Tail(pipe)
  /\ LET b == Head(pipe)
     IN  /\ IF codeType = "AVC" THEN sps' = SavedSets(b) /\ firstI' = SeesKeyFrame(b)
                             ELSE UNCHANGED <<sps, firstI>>
         /\ IF HandsOut(b) THEN Received(b) ELSE UNCHANGED farVars
  /\ UNCHANGED <<codec, set, fresh, lent, lost, dropped, starts>>

\* A buffer without memory (outputBuffer is NULL) goes back as it is.
DropOut ==
  /\ codec = "running" /\ pipe # <<>>
  /\ pipe' = Tail(pipe)
  /\ dropped' = TRUE
  /\ UNCHANGED <<sps, firstI, farVars, codec, set, fresh, lent, lost, starts>>

\* A plausible slip: the count is not looked at.
OutputUncounted ==
  /\ style = "async" /\ Idle
  /\ TakeOut
  /\ frameIndex' = frameIndex - 1
  /\ UNCHANGED <<app, codeType, width, bit_rate, recent, encMutex, frames, idrs, failed>>

\* Only if frames are thought to be inside; the count goes down for any buffer that is
\* handed out.  A call that finds no buffer leaves everything as it is.
mediacodec_encoder_output ==
  /\ style = "async" /\ Idle
  /\ frameIndex > 0
  /\ \/ TakeOut /\ frameIndex' = frameIndex - 1
     \/ DropOut /\ UNCHANGED frameIndex
  /\ UNCHANGED <<app, codeType, width, bit_rate, recent, encMutex, frames, idrs, failed>>

\* The loop of mediacodec_encoder_encode, and its end: no buffer, or an error.
EncodeOutput ==
  /\ encMutex = "encode"
  /\ TakeOut \/ DropOut
  /\ UNCHANGED <<app, codeType, width, bit_rate, frameIndex, recent, encMutex, frames, idrs,
                 failed>>

EncodeReturn ==
  /\ encMutex = "encode"
  /\ encMutex' = "free"
  /\ UNCHANGED <<app, codeType, width, bit_rate, sps, firstI, frameIndex, recent, codecVars,
                 frames, idrs, farVars, failed>>
-----------------------------------------------------------------------------
(***************************************************************************)
(* The parameters are changed.                                             *)
(***************************************************************************)

\* mediacodec_encoder_restart: stop, configure, start.  If the codec cannot be
\* stopped it runs on as it is.
Restarts(params) == starts < NumStarts /\ Runs(params)
RestartFails == UNCHANGED codecVars \/ Stands

\* mediacodec_encoder_modify_bitrate on a system that can set it.
SetRate(rate) ==
  /\ setsRate
  /\ \/ /\ codec = "running"
        /\ set' = [set EXCEPT !.rate = rate]
        /\ bit_rate' = rate
     \/ UNCHANGED <<set, bit_rate>>
  /\ UNCHANGED <<sps, firstI, frameIndex, recent, encMutex, codec, pipe, fresh, lent,
                    lost, dropped, starts>>

\* A plausible slip: the mutex is not released when the last change is too recent.
RefuseLocked(rate) ==
  /\ ~setsRate /\ (rate = bit_rate \/ recent)
  /\ encMutex' = "left"
  /\ UNCHANGED <<bit_rate, sps, firstI, frameIndex, recent, codecVars>>

\* On an older system a change is refused if it is small or the last one is recent.
RefuseRate(rate) ==
  /\ ~setsRate /\ (rate = bit_rate \/ recent)
  /\ UNCHANGED <<bit_rate, sps, firstI, frameIndex, recent, encMutex, codecVars>>

\* A plausible slip: the new rate is kept also when the restart has failed.
RestartWithRateAnyway(rate) ==
  /\ ~setsRate /\ rate # bit_rate /\ ~recent
  /\ recent' = TRUE
  /\ \/ Restarts([size |-> width, rate |-> rate]) \/ RestartFails
  /\ frameIndex' = 0 /\ bit_rate' = rate
  /\ UNCHANGED <<sps, firstI, encMutex>>

\* Otherwise the codec is restarted.  The parameter sets are kept, as the size is.
RestartWithRate(rate) ==
  /\ ~setsRate /\ rate # bit_rate /\ ~recent
  /\ recent' = TRUE
  /\ \/ /\ Restarts([size |-> width, rate |-> rate])
        /\ frameIndex' = 0 /\ bit_rate' = rate
     \/ /\ RestartFails
        /\ UNCHANGED <<frameIndex, bit_rate>>
  /\ UNCHANGED <<sps, firstI, encMutex>>

mediacodec_encoder_modify_bitrate(rate) ==
  /\ SetRate(rate) \/ RefuseRate(rate) \/ RestartWithRate(rate)
  /\ UNCHANGED <<app, codeType, width, frames, idrs, farVars, failed>>

\* A plausible slip: the saved parameter sets outlive the change of size.
ResizeKeepsSets(size, rate) ==
  /\ \/ Restarts([size |-> size, rate |-> rate]) /\ failed' = FALSE
     \/ RestartFails /\ failed' = TRUE
  /\ width' = size /\ bit_rate' = rate
  /\ firstI' = FALSE
  /\ UNCHANGED <<app, codeType, sps, frameIndex, recent, encMutex, frames, idrs, farVars>>

\* The size is changed.  mediacodec_encoder_restart returns 1 or -1, and the test
\* for its success takes either for it.
Resize(size, rate) ==
  /\ \/ Restarts([size |-> size, rate |-> rate]) /\ failed' = FALSE
     \/ RestartFails /\ failed' = TRUE
  /\ width' = size /\ bit_rate' = rate
  /\ sps' = NULL
  /\ firstI' = FALSE
  /\ UNCHANGED <<app, codeType, frameIndex, recent, encMutex, frames, idrs, farVars>>

mediacodec_encoder_reset_param(size, rate) ==
  /\ Idle
  /\ \/ Resize(size, rate)
     \/ size = width /\ mediacodec_encoder_modify_bitrate(rate)

\* The last restart for a bit rate is MODIFY_TIMEOUT seconds ago.
TimePasses ==
  /\ recent
  /\ recent' = FALSE
  /\ UNCHANGED <<app, codeType, width, bit_rate, sps, firstI, frameIndex, encMutex, codecVars,
                 frames, idrs, farVars, failed>>
-----------------------------------------------------------------------------
Init ==
  /\ setsRate \in BOOLEAN
  /\ style \in (IF setsRate THEN NewStyles ELSE OldStyles)
  /\ app = "none"
  /\ codeType \in Codecs /\ width \in Sizes /\ bit_rate \in Rates
  /\ sps = NULL /\ firstI = FALSE /\ frameIndex = 0
  /\ recent = FALSE /\ encMutex = "free"
  /\ codec = "null" /\ set = NoParams
  /\ pipe = <<>> /\ fresh = FALSE /\ lent = 0 /\ lost = 0 /\ dropped = FALSE
  /\ frames = 0 /\ starts = 0 /\ idrs = 0
  /\ dec = [sps |-> NULL, idr |-> 0] /\ broken = FALSE
  /\ failed = FALSE

Life ==
  \/ \E type \in Codecs, size \in Sizes, rate \in Rates :
       mediacodec_encoder_alloc(type, size, rate)
  \/ mediacodec_encoder_open \/ mediacodec_encoder_close \/ mediacodec_encoder_free

Use ==
  \/ mediacodec_encoder_input \/ mediacodec_encoder_output
  \/ EncodeInput \/ EncodeOutput \/ EncodeReturn

Control ==
  \/ \E size \in Sizes, rate \in Rates : mediacodec_encoder_reset_param(size, rate)
  \/ TimePasses

Next == (Life \/ Use \/ Control) /\ UNCHANGED <<style, setsRate>>

Spec == Init /\ [][Next]_vars

\* The application that puts frames in calls for output again and again, and the
\* codec hands over what it has encoded.
FairSpec ==
  /\ Spec
  /\ WF_vars(mediacodec_encoder_output /\ UNCHANGED <<style, setsRate>>)
-----------------------------------------------------------------------------
(***************************************************************************)
(* Properties.                                                             *)
(***************************************************************************)

\* The types of the variables.
TypeOK ==
  /\ style \in {"encode", "async"} /\ setsRate \in BOOLEAN
  /\ app \in {"none", "allocated", "open", "failed", "closing", "closed"}
  /\ codeType \in Codecs /\ width \in Sizes /\ bit_rate \in Rates
  /\ sps \in Sizes \cup {NULL}
  /\ firstI \in BOOLEAN /\ frameIndex \in Int
  /\ recent \in BOOLEAN
  /\ encMutex \in {"free", "encode", "left"}
  /\ codec \in {"null", "stopped", "running"}
  /\ set \in [size : Sizes, rate : Rates] \cup {NoParams}
  /\ pipe \in Seq(Buffer)
  /\ fresh \in BOOLEAN
  /\ lent \in Nat /\ lost \in Nat /\ dropped \in BOOLEAN
  /\ frames \in Nat /\ starts \in Nat /\ idrs \in Nat
  /\ dec \in [sps : Sizes \cup {NULL}, idr : Nat]
  /\ broken \in BOOLEAN /\ failed \in BOOLEAN

\* Whatever is changed while frames are inside: what is handed out can be decoded by
\* a receiver that has got everything since the encoder was made, unless the last
\* change of size has failed, or the codec has given out a buffer without memory since it
\* was started.  A key frame comes with, or after, the parameter sets of its size, and a P
\* frame after its key frame.
Decodable == ~broken

Slices == {i \in DOMAIN pipe : pipe[i].slice # "none"}

\* The fields keep their types, and the count of frames inside, which the buffer of
\* the parameter sets takes down, too, is never more than one too low (what the codec
\* refuses or gives out without memory makes it too high):
\* mediacodec_encoder_output leaves at most one encoded frame inside the codec when it
\* thinks there is none.
AtMostOneHeldBack ==
  /\ TypeOK
  /\ app = "open" /\ style = "async" =>
       frameIndex >= 0 /\ Cardinality(Slices) <= frameIndex + 1

\* A codec that runs does so with the size and the bit rate of the fields, and no input
\* buffer is lost because a frame is too large for it, unless a change of size has failed.
\* Those that had no memory, or came with a frame the codec refused, are out of its hands
\* until it is restarted.
RunsAsTold ==
  app = "open" /\ codec = "running" /\ ~failed =>
    set = [size |-> width, rate |-> bit_rate] /\ lent = lost

\* Encoded frames come out of mediacodec_encoder_output but for that one, unless the
\* encoder is restarted, stands or is closed: no call keeps the mutex, and the count
\* does not stop the output.
FramesComeOut ==
  \A n \in 1..NumStarts :
    (/\ app = "open" /\ style = "async"
     /\ codec = "running" /\ starts = n /\ Cardinality(Slices) > 1)
    ~> (app # "open" \/ codec # "running" \/ starts # n \/ Cardinality(Slices) <= 1)
=============================================================================

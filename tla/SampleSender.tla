------------------------------ MODULE SampleSender ------------------------------
(***************************************************************************)
(* The calls of RtcNative.cpp that send what a Java encoder produces.      *)
(* sendSampleData gets a buffer with the flags of android.media.MediaCodec: *)
(* 2 for parameter sets, which it keeps in gProfile, 1 for a key frame,     *)
(* which gets the kept sets sent in front of it, 0 for any other frame.     *)
(*                                                                         *)
(* The encoder is external: it hands out its sets once, when it starts or   *)
(* changes, and goes on over a stop and start of the stream.  So is the     *)
(* receiver, which may come late and lose anything.  All calls are of one   *)
(* thread; what happens to the streams' own state is StreamLifecycle's.     *)
(***************************************************************************)
EXTENDS Integers, Sequences

CONSTANT NumSets  \* bound: parameter sets the encoder goes through

ASSUME SampleAssumption == NumSets \in Nat \ {0}

VARIABLES
  started,   \* between startSendVideo and stopSendVideo
  gProfile,  \* the sets kept, None with size 0
  encoder,   \* its sets, and whether it has yet to hand them out
  handed,    \* history: its sets were passed to sendSampleData in this stream
  held,      \* the last sets the receiver got
  shown      \* history: the last call with a key frame

sampleVars == <<started, gProfile, encoder, handed, held, shown>>

None == 0
Sets == 1 .. NumSets
-----------------------------------------------------------------------------
\* A plausible slip: gProfile is not cleared.
StartKeepsProfile ==
  /\ ~started /\ started' = TRUE
  /\ handed' = FALSE
  /\ UNCHANGED <<gProfile, encoder, held, shown>>

\* A stream may be started over and over; gProfile is a global.
startSendVideo ==
  /\ ~started /\ started' = TRUE
  /\ gProfile' = None
  /\ handed' = FALSE
  /\ UNCHANGED <<encoder, held, shown>>

stopSendVideo ==
  /\ started /\ started' = FALSE
  /\ UNCHANGED <<gProfile, encoder, handed, held, shown>>

\* gProfile after the first test.
Profile(flags) == IF flags = 2 THEN encoder.sets ELSE gProfile

\* What is sent in front of the buffer.
InFront(flags) ==
  IF Profile(flags) # None /\ flags = 1 THEN <<Profile(flags)>> ELSE <<>>

\* The sets a receiver has when those of sent arrive whose places are in got.
HeldAfter(sent, got) ==
  LET came == {i \in DOMAIN sent : i \in got}
  IN  IF came = {} THEN held ELSE sent[CHOOSE i \in came : \A j \in came : j <= i]

\* Everything packet_and_send sends may be lost, but comes in order out of the
\* receiver's jitter buffer.  Place 0 stands for a frame itself.
sendSampleData(flags, got) ==
  LET sent == IF flags = 2 THEN <<encoder.sets>> ELSE InFront(flags)
  IN  /\ started
      /\ (flags = 2) = encoder.pending
      /\ gProfile' = Profile(flags)
      /\ encoder' = [encoder EXCEPT !.pending = FALSE]
      /\ handed' = (handed \/ flags = 2)
      /\ held' = HeldAfter(sent, got)
      /\ shown' = IF flags # 1 THEN shown
                  ELSE [handed |-> handed, sets |-> encoder.sets,
                        whole |-> DOMAIN sent \cup {0} \subseteq got,
                        before |-> held, after |-> held']
      /\ UNCHANGED started

\* The encoder starts or changes its size: the next buffer has the new sets.
EncoderChanges ==
  /\ encoder.sets < NumSets /\ ~encoder.pending
  /\ encoder' = [sets |-> encoder.sets + 1, pending |-> TRUE]
  /\ handed' = FALSE
  /\ UNCHANGED <<started, gProfile, held, shown>>

\* Without a stream the application throws away what the encoder puts out.
ThrownAway ==
  /\ ~started /\ encoder.pending
  /\ encoder' = [encoder EXCEPT !.pending = FALSE]
  /\ UNCHANGED <<started, gProfile, handed, held, shown>>

\* A receiver that starts anew.
Join == held' = None /\ UNCHANGED <<started, gProfile, encoder, handed, shown>>
-----------------------------------------------------------------------------
SampleInit ==
  /\ started = FALSE /\ gProfile = None /\ handed = FALSE
  /\ encoder = [sets |-> 1, pending |-> TRUE]
  /\ held = None
  /\ shown = [handed |-> FALSE, whole |-> FALSE, sets |-> 1, before |-> None, after |-> None]

SampleNext ==
  \/ startSendVideo \/ stopSendVideo
  \/ \E flags \in 0 .. 2, got \in SUBSET (0 .. 1) : sendSampleData(flags, got)
  \/ EncoderChanges \/ ThrownAway \/ Join

SampleSpec == SampleInit /\ [][SampleNext]_sampleVars
-----------------------------------------------------------------------------
(***************************************************************************)
(* Properties.                                                             *)
(***************************************************************************)

SampleTypeOK ==
  /\ started \in BOOLEAN /\ handed \in BOOLEAN
  /\ gProfile \in Sets \cup {None} /\ held \in Sets \cup {None}
  /\ encoder \in [sets : Sets, pending : BOOLEAN]
  /\ shown \in [handed : BOOLEAN, whole : BOOLEAN, sets : Sets,
                before : Sets \cup {None}, after : Sets \cup {None}]

\* Whatever a receiver missed, and whenever it came: with a key frame of whose call
\* nothing is lost it has that frame's own sets, if the encoder handed them out since
\* the stream was started; and no key frame ever brings the sets of another.
KeyHeals ==
  /\ SampleTypeOK
  /\ shown.whole /\ shown.handed => shown.after = shown.sets
  /\ shown.after \in {shown.before, shown.sets}
================================================================================

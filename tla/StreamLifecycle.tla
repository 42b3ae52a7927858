---------------------------- MODULE StreamLifecycle ----------------------------
(***************************************************************************)
(* The life of a video stream: vid_stream_create, _start, _stop and        *)
(* _destroy of vid_stream.c, called by the application's thread, against   *)
(* the four threads a start makes: the player of vid_port.c and the three  *)
(* workers of transport_udp.c.                                             *)
(*                                                                         *)
(* There is one stream at a time, g_vid_stream, which keeps the pointers   *)
(* to the transport, the ring buffer and the decoder.  Threads are told to *)
(* quit by flags and joined by nobody (pj_thread_destroy, which would, has *)
(* no caller).  The flags of the transport's threads are in the transport, *)
(* the player's is in g_vid_stream, and only vid_stream_create clears it.  *)
(*                                                                         *)
(* The application calls in the order the library's own callers do; it may *)
(* also start a stopped stream again.  It leaves a stream alone for which  *)
(* vid_stream_create has failed: no caller in the library looks, but all   *)
(* other calls would go through a NULL pointer.                            *)
(***************************************************************************)
EXTENDS Integers, FiniteSets

CONSTANTS
  Waits,       \* the application waits for the threads it has told to quit
  NumStreams,  \* bound: streams created
  NumStarts    \* bound: calls of vid_stream_start

ASSUME Assumption ==
  Waits \in BOOLEAN /\ NumStreams \in Nat /\ NumStarts \in Nat

VARIABLES
  appPc,       \* where the application is, see App
  \* g_vid_stream
  stream,      \* number of streams created, and g_vid_stream.trans
  transport,   \* *trans: "none" (NULL), "open", "closed" (its sockets) or "freed"
  quit,        \* thread_quit of the transport's threads
  ringbuf,     \* the stream whose ring buffer it is, 0 for NULL
  surface,     \* vid_port.surface is set
  decoder,     \* vid_port.decoder: the start that allocated it, 0 for NULL
  jbufQuit,    \* vid_port.jbuf_recv_thread.thread_quit
  \* the threads
  starts,      \* calls of vid_stream_start
  of,          \* start -> its stream
  pc,          \* start -> thread -> where it is
  held,        \* start -> thread -> the pointer it has read and will use
  \* history, read by properties only
  stray,       \* what was used after it was freed, or without being there
  cutOff       \* a stop came while the player was about to use its decoder

appVars == <<stream, transport, quit, ringbuf, surface, decoder, jbufQuit, starts, of>>
threadVars == <<pc, held>>
historyVars == <<stray, cutOff>>
vars == <<appPc, appVars, threadVars, historyVars>>

Workers == {"rtp_recv", "rtp_send", "rtcp_recv"}
Threads == Workers \cup {"jbuf_recv"}

Running(n, k) == pc[n][k] \notin {"none", "ended"}

\* The thread has been told to quit.
Told(n, k) == IF k = "jbuf_recv" THEN jbufQuit ELSE of[n] = stream /\ quit[k]

Ready == Waits => \A n \in 1..NumStarts, k \in Threads : Running(n, k) => ~Told(n, k)
-----------------------------------------------------------------------------
(***************************************************************************)
(* The application.                                                        *)
(***************************************************************************)

\* transport_udp_create fails early, with no socket and no transport, or late, when
\* the port for RTCP is taken.
transport_udp_create ==
  /\ transport' \in {"none", "open"}
  /\ appPc' \in IF transport' = "none" THEN {"failed"} ELSE {"created", "failed"}

\* A plausible slip: g_vid_stream is not zeroed.
CreateUnzeroed ==
  /\ appPc \in {"none", "failed"} /\ Ready /\ stream < NumStreams
  /\ stream' = stream + 1
  /\ decoder' = 0
  /\ surface' \in BOOLEAN
  /\ ringbuf' = stream'
  /\ transport_udp_create
  /\ UNCHANGED <<quit, jbufQuit, starts, of, threadVars, historyVars>>

\* vid_stream_create, which zeroes g_vid_stream and the player's flag with it.  What
\* a failed one has made, the ring buffer at least, is lost when it is called again.
vid_stream_create ==
  /\ appPc \in {"none", "failed"} /\ Ready /\ stream < NumStreams
  /\ stream' = stream + 1
  /\ jbufQuit' = FALSE
  /\ decoder' = 0
  /\ surface' \in BOOLEAN
  /\ ringbuf' = stream'
  /\ transport_udp_create
  /\ UNCHANGED <<quit, starts, of, threadVars, historyVars>>

\* vid_stream_start: first the decoder, where there is a surface, and the player.
vid_port_start ==
  /\ appPc \in {"created", "stopped"} /\ Ready /\ starts < NumStarts
  /\ starts' = starts + 1
  /\ of' = [of EXCEPT ![starts'] = stream]
  /\ decoder' = IF surface THEN starts' ELSE decoder
  /\ pc' = [pc EXCEPT ![starts'].jbuf_recv = "test"]
  /\ appPc' = "starting"
  /\ UNCHANGED <<stream, transport, quit, ringbuf, surface, jbufQuit, held, historyVars>>

\* Then the flags of the transport's threads are cleared and these created.
transport_udp_start ==
  /\ appPc = "starting"
  /\ quit' = [k \in Workers |-> FALSE]
  /\ pc' = [pc EXCEPT ![starts] = [k \in Threads |-> IF k \in Workers THEN "test" ELSE @[k]]]
  /\ appPc' = "running"
  /\ UNCHANGED <<stream, transport, ringbuf, surface, decoder, jbufQuit, starts, of, held,
                 historyVars>>

\* The player is in the middle of a frame for its decoder.
Rendering == \E n \in 1..NumStarts : pc[n].jbuf_recv = "render"

\* vid_stream_stop: the player is told to quit, and its decoder is freed at once.
vid_port_stop ==
  /\ appPc = "running"
  /\ jbufQuit' = TRUE
  /\ decoder' = 0
  /\ cutOff' = (cutOff \/ Rendering)
  /\ appPc' = "stopping"
  /\ UNCHANGED <<stream, transport, quit, ringbuf, surface, starts, of, threadVars,
                 stray>>

\* A plausible slip: the thread for RTCP is forgotten.
StopWithoutRtcp ==
  /\ appPc = "stopping"
  /\ quit' = [k \in Workers |-> k # "rtcp_recv"]
  /\ appPc' = "stopped"
  /\ UNCHANGED <<stream, transport, ringbuf, surface, decoder, jbufQuit, starts, of,
                 threadVars, historyVars>>

\* Then the transport's threads are told.
transport_udp_stop ==
  /\ appPc = "stopping"
  /\ quit' = [k \in Workers |-> TRUE]
  /\ appPc' = "stopped"
  /\ UNCHANGED <<stream, transport, ringbuf, surface, decoder, jbufQuit, starts, of,
                 threadVars, historyVars>>

\* vid_stream_destroy: the sockets are closed, the transport is freed with its
\* queue, and the ring buffer after it.
CloseSockets ==
  /\ appPc \in {"created", "stopped"} /\ Ready
  /\ transport' = "closed"
  /\ appPc' = "closing"
  /\ UNCHANGED <<stream, quit, ringbuf, surface, decoder, jbufQuit, starts, of, threadVars,
                 stray, cutOff>>

FreeTransport ==
  /\ appPc = "closing"
  /\ transport' = "freed"
  /\ appPc' = "freeing"
  /\ UNCHANGED <<stream, quit, ringbuf, surface, decoder, jbufQuit, starts, of, threadVars,
                 historyVars>>

FreeRing ==
  /\ appPc = "freeing"
  /\ ringbuf' = 0
  /\ appPc' = "none"
  /\ UNCHANGED <<stream, transport, quit, surface, decoder, jbufQuit, starts, of, threadVars,
                 historyVars>>

App ==
  \/ vid_stream_create \/ vid_port_start \/ transport_udp_start
  \/ vid_port_stop \/ transport_udp_stop
  \/ CloseSockets \/ FreeTransport \/ FreeRing
-----------------------------------------------------------------------------
(***************************************************************************)
(* The threads.                                                            *)
(***************************************************************************)

\* The transport the threads of start n were given is no more.
Gone(n) == of[n] # stream \/ transport = "freed"

Goes(n, k, to) == pc' = [pc EXCEPT ![n][k] = to]
Takes(n, k, p) == held' = [held EXCEPT ![n][k] = p]

\* The thread uses what it may no longer use if `freed`.
Uses(what, freed) == stray' = IF freed THEN stray \cup {what} ELSE stray

\* The head of a worker's loop.
TestWorker(n, k) ==
  /\ k \in Workers /\ pc[n][k] = "test"
  /\ Goes(n, k, IF quit[k] \/ transport = "closed" THEN "ended" ELSE "work")
  /\ Uses("transport", Gone(n))
  /\ UNCHANGED <<appPc, appVars, held, cutOff>>

TestPlayer(n) ==
  /\ pc[n].jbuf_recv = "test"
  /\ Goes(n, "jbuf_recv", IF jbufQuit THEN "ended" ELSE "work")
  /\ UNCHANGED <<appPc, appVars, held, historyVars>>

\* A turn of worker_rtp_sendto, or of worker_rtcp_recvfrom, whose callback only logs.
Work(n, k) ==
  /\ k \in {"rtp_send", "rtcp_recv"} /\ pc[n][k] = "work"
  /\ Goes(n, k, "test")
  /\ Uses("transport", Gone(n))
  /\ UNCHANGED <<appPc, appVars, held, cutOff>>

\* A receiving thread ends by itself when a socket fails or hands over nothing.
SocketEnds(n, k) ==
  /\ k \in {"rtp_recv", "rtcp_recv"} /\ pc[n][k] = "work"
  /\ Goes(n, k, "ended")
  /\ Uses("transport", Gone(n))
  /\ UNCHANGED <<appPc, appVars, held, cutOff>>

\* worker_rtp_recvfrom: nothing comes for a while, or a packet, and on_rx_rtp reads
\* where the ring buffer is.
Receive(n) ==
  /\ pc[n].rtp_recv = "work"
  /\ \/ Goes(n, "rtp_recv", "test") /\ UNCHANGED held
     \/ /\ ringbuf # 0
        /\ Goes(n, "rtp_recv", "write")
        /\ Takes(n, "rtp_recv", ringbuf)
  /\ Uses("transport", Gone(n))
  /\ UNCHANGED <<appPc, appVars, cutOff>>

\* ringbuffer_write, and a NACK through the stream's transport if need be.
Write(n) ==
  /\ pc[n].rtp_recv = "write"
  /\ \E nack \in BOOLEAN :
       IF held[n].rtp_recv # ringbuf THEN Uses("ringbuf", TRUE)
       ELSE Uses("transport", nack /\ transport = "freed")
  /\ Goes(n, "rtp_recv", "test")
  /\ Takes(n, "rtp_recv", 0)
  /\ UNCHANGED <<appPc, appVars, cutOff>>

\* worker_thread_jbuf: where is the ring buffer?
Look(n) ==
  /\ pc[n].jbuf_recv = "work"
  /\ IF ringbuf = 0 THEN Goes(n, "jbuf_recv", "test") ELSE Goes(n, "jbuf_recv", "read")
  /\ Takes(n, "jbuf_recv", ringbuf)
  /\ UNCHANGED <<appPc, appVars, historyVars>>

\* ringbuffer_read; a packet may finish a frame, which goes to the decoder.
Read(n) ==
  /\ pc[n].jbuf_recv = "read"
  /\ Uses("ringbuf", held[n].jbuf_recv # ringbuf)
  /\ \/ Goes(n, "jbuf_recv", "test") /\ Takes(n, "jbuf_recv", 0)
     \/ decoder # 0 /\ Goes(n, "jbuf_recv", "render") /\ Takes(n, "jbuf_recv", decoder)
  /\ UNCHANGED <<appPc, appVars, cutOff>>

\* mediacodec_decoder_render
Render(n) ==
  /\ pc[n].jbuf_recv = "render"
  /\ Uses("decoder", held[n].jbuf_recv # decoder)
  /\ Goes(n, "jbuf_recv", "test")
  /\ Takes(n, "jbuf_recv", 0)
  /\ UNCHANGED <<appPc, appVars, cutOff>>

Worker(n, k) ==
  \/ TestWorker(n, k) \/ Work(n, k) \/ SocketEnds(n, k)
  \/ k = "rtp_recv" /\ (Receive(n) \/ Write(n))

Player(n) == TestPlayer(n) \/ Look(n) \/ Read(n) \/ Render(n)
-----------------------------------------------------------------------------
Init ==
  /\ appPc = "none"
  /\ stream = 0 /\ transport = "none" /\ quit = [k \in Workers |-> FALSE]
  /\ ringbuf = 0 /\ surface = FALSE /\ decoder = 0 /\ jbufQuit = FALSE
  /\ starts = 0 /\ of = [n \in 1..NumStarts |-> 0]
  /\ pc = [n \in 1..NumStarts |-> [k \in Threads |-> "none"]]
  /\ held = [n \in 1..NumStarts |-> [k \in Threads |-> 0]]
  /\ stray = {} /\ cutOff = FALSE

\* Once something has been used after it was freed, nothing can be said any more.
Next ==
  /\ stray = {}
  /\ \/ App
     \/ \E n \in 1..NumStarts : (\E k \in Workers : Worker(n, k)) \/ Player(n)

Spec == Init /\ [][Next]_vars

\* The kernel schedules every thread; the waits in their loops are bounded (select
\* 100 ms, receive 3 s).  The application is free to call or not.
FairSpec ==
  /\ Spec
  /\ \A n \in 1..NumStarts :
       /\ \A k \in Workers : WF_vars(stray = {} /\ Worker(n, k))
       /\ WF_vars(stray = {} /\ Player(n))
-----------------------------------------------------------------------------
(***************************************************************************)
(* Properties.                                                             *)
(***************************************************************************)

\* The types of the variables, and when the pointers of g_vid_stream are set.
TypeOK ==
  /\ appPc \in {"none", "failed", "created", "starting", "running", "stopping", "stopped",
                "closing", "freeing"}
  /\ stream \in 0..NumStreams
  /\ transport \in {"none", "open", "closed", "freed"}
  /\ quit \in [Workers -> BOOLEAN]
  /\ ringbuf = IF appPc = "none" THEN 0 ELSE stream
  /\ surface \in BOOLEAN
  /\ decoder = IF appPc \in {"starting", "running"} /\ surface THEN starts ELSE 0
  /\ jbufQuit \in BOOLEAN
  /\ starts \in 0..NumStarts
  /\ of \in [1..NumStarts -> 0..NumStreams]
  /\ pc \in [1..NumStarts ->
              [Threads -> {"none", "test", "work", "write", "read", "render", "ended"}]]
  /\ held \in [1..NumStarts -> [Threads -> Nat]]
  /\ stray \subseteq {"transport", "ringbuf", "decoder"}
  /\ cutOff \in BOOLEAN

Started == appPc \in {"starting", "running", "stopping", "stopped"}

\* What the calls leave behind, whether the application waits or not: a transport that
\* is open, the flags, and the player's flag is set only after a stop of this stream.
AppInv ==
  /\ appPc = "created" \/ Started => transport = "open"
  /\ appPc # "none" => stream > 0
  /\ \A n \in 1..starts : of[n] <= stream
  /\ Started => starts > 0 /\ of[starts] = stream
  /\ appPc = "running" => \A k \in Workers : ~quit[k]
  /\ appPc = "stopped" => \A k \in Workers : quit[k]
  /\ appPc \in {"stopping", "stopped"} => jbufQuit
  /\ jbufQuit => \E n \in 1..starts :
                   of[n] = stream /\ (appPc \in {"starting", "running"} => n < starts)

\* Nothing but a flag ends the sender and the player.
ThreadsRun ==
  /\ appPc = "running" => Running(starts, "rtp_send")
  /\ appPc \in {"starting", "running"} /\ ~jbufQuit => Running(starts, "jbuf_recv")

\* If it waits: only threads of the last start run, and only while it lasts.
OnlyLastStart ==
  \A n \in 1..NumStarts, k \in Threads :
    Running(n, k) =>
      n = starts /\ Started /\ (k \in Workers => appPc # "starting")

\* And what they have in hand is there, but for the decoder after a stop.
InHand ==
  \A n \in 1..NumStarts :
    /\ pc[n].rtp_recv = "write" => held[n].rtp_recv = stream
    /\ pc[n].jbuf_recv = "read" => held[n].jbuf_recv = stream
    /\ pc[n].jbuf_recv = "render" => cutOff \/ held[n].jbuf_recv = decoder

\* Every step preserves this, and NoStrayUse with it.
LifeInv == AppInv /\ ThreadsRun /\ (Waits => OnlyLastStart /\ InHand)

\* If the application waits for the threads it has told to quit, none of them uses
\* a transport or a ring buffer that was freed.  A stop frees the decoder itself:
\* the player may use it after that, but only when it was about to.
NoStrayUse == TypeOK /\ stray \subseteq (IF cutOff THEN {"decoder"} ELSE {})

\* If it waits there is also only ever one thread of each kind: the send queue has
\* one sender, the ring buffer one writer and one reader.
OneOfEach ==
  \A k \in Threads : Cardinality({n \in 1..NumStarts : Running(n, k)}) <= 1

\* The first start of a stream brings up a sender and a player that run until the
\* stop, whatever the flags were left at before.  A second start of the same stream
\* brings up no player: its flag is still set.
RunsWhenStarted ==
  appPc = "running" =>
    /\ Running(starts, "rtp_send")
    /\ (\A n \in 1..(starts - 1) : of[n] # stream) => Running(starts, "jbuf_recv")

\* After a stop all threads end, so that there is something to wait for.
ThreadsEnd ==
  appPc = "stopped" ~>
    \/ appPc # "stopped" \/ stray # {}
    \/ \A n \in 1..NumStarts, k \in Threads : ~Running(n, k)
-----------------------------------------------------------------------------
(***************************************************************************)
(* What callers in the library take for granted.                           *)
(***************************************************************************)

\* stopSendVideo, RtcNative.cpp:211, "vid_stream_stop done.", upon which it destroys
\* the stream: after the stop nothing uses the transport any more, whether one waits
\* or not.
StopIsDone == "transport" \notin stray
================================================================================

# McpttRtc: a verification development in TLA+

McpttRtc (`src/VideoRtc`, C, with an Android JNI layer) sends and receives H.264
and H.265 video over RTP/UDP. This directory holds models of its core logic, the
TLC configurations that check them on small instances, and proofs, checked by TLAPS,
that most of what is checked holds for every value of the constants.

Abbreviations: PL `packed/packets_list.c`, TU `transport_udp.c`, JB
`packed/jitter_buffer.c`, DU `packed/dealrtpunpack.c`, HP `packed/h264_packetizer.c`,
VS `vid_stream.c`, VP `vid_port.c`, RN `RtcNative.cpp`, ME and MD
`mediacodec/mediacodec_encoder.c` and `_decoder.c`, MU `mediacodec/mediacodec_utils.c`, JO
`packed/jbuf_opt.c`, all under `src/VideoRtc/`.

## 1. The system

    application (JNI or demo)
      | packet_and_send                                   surface / mediacodec
      v                                                           ^
    packetizer (HP) -> rtp_update_hdr -> transport_send_rtp_seq   | frame
      |                                                   frame assembly (DU)
      v                                                           ^ packet
    send queue (PL), resend cache (TU)                 worker_thread_jbuf (VP)
      | worker_rtp_sendto                                         ^
      v                                                           |
     UDP  ----->  worker_rtp_recvfrom -> on_rx_rtp -> ring buffer (JB)
     UDP <-----  transport_send_rtcp (NACK, on a gap)
      '----> worker_rtcp_recvfrom -> on_rx_rtcp (logs it, sends nothing again)

A started stream has five threads in the library: the application's (it encodes,
packetizes and queues), `worker_rtp_sendto`, `worker_rtp_recvfrom`,
`worker_rtcp_recvfrom` and `worker_thread_jbuf`. One mutex, `rtp_cache_mutex`,
protects part of the send queue. Everything else the threads share is shared
without a lock, and no thread is ever joined.

### Components

| component | code | state | operations | talks to | what makes it hard, and correct |
|---|---|---|---|---|---|
| send queue and block pool | PL, TU:71-150, 552-596 | used and free lists of blocks; nodes chained by `next`; `list_current_send`, `list_current_write`, two wrapping counters | add, take off the head, reset on overflow, malloc, free | application thread, `worker_rtp_sendto` | a reset without the lock, a head read without the lock, a write pointer that outlives its node. The pool stays a partition until two frees overlap; the chain is a FIFO; nothing leaves it silently; a reset keeps the newest SPS |
| resend cache | TU:376-400 | `resend.resend_buf` by number modulo 1024 | save | application thread | wrap of the number, and a number that is one ahead. Where each of the last packets lies |
| jitter buffer | JB, VS:78-112, VP:88-131 | slots with a read flag, the two sequence numbers, two clocks | write, read, init | `worker_rtp_recvfrom`, `worker_thread_jbuf` | no lock; overrun, wrap, timeout against a late packet, restart after a silence. In order, never torn, nothing but an old packet in place of a missing one; NACK is the gap |
| frame assembly | DU, `packed/callCplus.c` | the record `H264_Rtp_Unpack_Handle` (first and last number, count, flags, buffer) | one packet; the two resets | `worker_thread_jbuf`, decoder | loss, replay, flags left over. Frames handed over are whole, nothing refers to what was given up, the next group of pictures heals |
| H.264 and H.265 packetizers | HP, `vid_codec.c`, VS:180-262 | position, header bytes written into the frame, the static `pkt_msg` | one payload | application thread, send queue | start codes at the end of the window, full payloads, state kept between calls. Bytes come out as they went in; last fragments marked; the loop ends |
| RTP session and header | `packed/rtp.c` | `out_extseq`, timestamp, payload type | header, decode | packetizer, receive thread | number and marker |
| transport threads | TU | sockets, the two remote addresses, `thread_quit` flags, statistics | create, start, stop, destroy, receive, send | all | termination, use after free, an address written by one thread and used by another. What is sent reaches the peer, also after it has moved |
| stream lifecycle | VS, VP, `packed/pj/os_core_unix.c` | `g_vid_stream` with the pointers to transport, ring buffer and decoder | create, start, stop, destroy | application | a creation that fails half way, threads told to quit by flags and not joined, memory freed after |
| Android interface | RN | the saved parameter sets (`gProfile`) | start/stop sending and rendering, `sendSampleData` | lifecycle, packetizer | a global that outlives a stream. A key frame brings its own parameter sets, or none |
| encoder wrapper | ME | parameters, saved parameter sets, `frameIndex`, `firstI`, mutex | open, close, encode or input and output, changes of rate and size | AMediaCodec, application | frames inside while parameters change, restarts that fail. What comes out can be decoded, and does come out |
| decoder wrapper | MD, MU | the fields of the output format | open, close, decode, getConfig | AMediaCodec, application | keys left out of a format, padding, margins, colour orders. The picture comes out sample for sample |
| alternative jitter buffer | JO | places by number, the last number read and written, counts of requests | write, read, reset, scan for lost packets | none (not compiled) | wraps, restarts, packets whose turn is over. In order; only what is missing is asked for |
| NACK answer, SPS decoder, demos, logging | `rtcp.c`, `packed/spsdecoder.h`, `rtc_*.c`, `UnitTest.c`, `glog.c` | | | | not modelled, see section 8 |

`PROJECT.json` lists, under `hazards`, what in this code is hard to test, each at
its line, with the properties that are about it.

## 2. The modules, and how they were planned

| order | module | kind | composes / implements |
|---|---|---|---|
| 1 | `SendFifo` | abstract: a queue that may hand out its head, drop from the front, and stop promising anything | |
| 2 | `SendQueue` | pool, list, resend cache, producer and sender interleaved | implements `SendFifo` (`ImplementsFifo`) |
| 3 | `SendQueueProofs` | theorems about `SendQueue` | |
| 4 | `OrderedDelivery` | abstract: hand over what has arrived, place by place; at a place given up because something newer is there, what an earlier round left in its slot | |
| 5 | `JitterBuffer` | receive thread, player and clock interleaved | implements `OrderedDelivery` (`DeliversInOrder`) |
| 6 | `FrameAssembly` | the unpacker, fed by a stream of groups of pictures that suffers | takes over what `JitterBuffer` can do to a packet: loss, replay |
| 7 | `Bitstream` | the frame as start codes and bytes, the search for the next start code | used by both packetizers |
| 8 | `H264Packetizer`, `H265Packetizer` | one frame cut into payloads, with the receiver's unpacking at the other end | |
| 8 | `PacketAndSend` | a stream of frames, one call of `packet_and_send_` after another | composes the two packetizers (`INSTANCE`), the stream's codec choosing between them |
| 9 | `StreamLifecycle` | the application's calls against four threads per start | |
| 10 | `VideoEncoder` | the wrapper of the encoder, with the platform's codec and a decoder as observers | |
| 11 | `VideoDecoder` | the wrapper of the decoder: formats and pictures, place by place | its standard names are `DecoderInit`, `DecoderSpec`, ... |
| 12 | `JitterBufferOpt` | the alternative jitter buffer, one step per function | its standard names are `OptInit`, `OptSpec`, ..., as `NetworkProofs` extends it next to `Addresses` |
| 13 | `Addresses` | two transports and the network between them | takes from `SendQueue` and `JitterBuffer` that media and NACKs are sent |
| 14 | `SampleSender` | `sendSampleData` over stops and starts of the stream | sits between an encoder and `StreamLifecycle`'s calls |
| 15 | `NumberLemmas` | lemmas about numbers modulo a width, induction on them, and functions defined by recursion on them | used by the proofs of `SendQueue`, `JitterBuffer`, `FrameAssembly`, `PacketAndSend`, `JitterBufferOpt` and `VideoDecoder` |
| 16 | `JitterBufferProofs`, `StreamLifecycleProofs`, `FrameAssemblyProofs`, `PacketAndSendProofs` | theorems about the module each is named after | |
| 17 | `CodecProofs` | theorems about `VideoEncoder`, `SampleSender` and `VideoDecoder` | extends the three, so the definitions of `SampleSender` that every specification has are named `SampleInit`, `SampleSpec`, ... |
| 18 | `NetworkProofs` | theorems about `Addresses` and `JitterBufferOpt`, two parts that live with what a network does | |

The specifications have few enough constants to be configured by their `.cfg`
files directly. Definitions introduced by "a plausible slip" are variants of the
definition below them, which no specification uses; replacing a definition by its
slip makes a run fail, and shows that the run's property depends on it.

Left for later: a composition of jitter buffer and frame assembly.

## 3. State and actions against the code

`PROJECT.json` maps every definition to its lines. What follows is the idea.

**SendQueue.** A block is a number; `used` and `free` are `memory_list`'s lists;
`buf` and `next` are what the node in a block holds. `hop` follows the pointers as
the loops of the code do. The producer is `transport_send_rtp_seq`:
`CheckOverflow` (TU:573, no lock), then, on overflow, `packet_list_reset` in the
steps another thread may come between (`ResetScan`; `ResetFree` and `ResetDrop` once per
node; `ResetRelink`, `ResetCounters`), then `Add` (under the mutex: one step). The
sender is `worker_rtp_sendto`: `Fetch` (no lock), `Transmit` (`sendto`, whose
failure is not looked at for a retry), `Offset` and `OffsetFree` (under the mutex).
`memory_list_free` is two steps of either thread, as the reset calls it without the mutex: the search for the
node in the used list (`pFound`, `sFound`), and the relinking of what was found
(`memory_list_free(b, found)`). Two threads in it at once may each undo what the other does. `OffsetOfNull`
is the dereference of NULL that a reset in between can cause; the model ends there.
`pack_type`, chosen when the stream is created, decides which reset runs.
`pending` is the queue as its history should have made it, and `damage` names
what has invalidated it: `race` (reset and sender met), `pool` (two calls of `memory_list_free` overlapped), `selfLink` (a block was
reused while `list_current_write` pointed at it), `blankHead` (the H.265 reset has
put an empty node in front). "Clean" is `damage = {}`.

**JitterBuffer.** `Receive`, `Zero`, `Mark`, `Fill`, `Update` are `on_rx_rtp` and
`ringbuffer_write` in the order of their stores; `Look`, `Copy`, `Done` are
`ringbuffer_read` and its caller; `handed` has what the caller got, one entry for each place. The clock is two booleans, `uPreTime` and
`uPreReadTS`, that may grow old at any time. A copy that overlaps a store yields
the old content, the new, or `Torn`. `damage` is again what a
property may have to except: `late`, `race`, `overrun`, `restart`.

**FrameAssembly.** `u` is the record of the unpacker; `CheckNal`, `Unpack` and
`Outcome` are the three stages of `pjmedia_unpack_rtp_h264`. The stream is made
of frames cut into packets in every way the sending side can cut them (`SliceShapes`: a
slice is one packet or up to `Longest` fragments; one slice, with or without a SEI in
front, or two). `Lose`, `Replay` and `Unsupported` are what may happen to a packet.
`simple` records what `WholeP` excepts: a second slice, a replay, a slice put behind
a remnant (`BehindRemnant`).

**H264Packetizer, H265Packetizer, PacketAndSend.** One action per kind of payload; a
turn includes the header, the marker and what the receiver appends. Bytes are numbered,
not valued, and so a byte sent twice, or not, shows. `PacketAndSend` holds the state of
both packetizers, of which a stream uses one, and its `packet_and_send` begins the next
frame with what is static in the code, `pkt_msg` and the sequence number, as it is.

**StreamLifecycle.** `appPc` is how far the application is in its calls; each
start adds four threads with their own place; `held` is a pointer a thread has
read and not used yet; `stray` collects uses of freed memory, and the model stops
at the first. `Waits` tells whether the application waits between telling the
threads to quit and its next call, as both demos do (`getchar`) and the
functions of `RtcNative.cpp` do not. It leaves a stream alone that could not be created.
`transport_udp_create` may fail at the first socket or
the second, without a transport (`"none"`), or return an error with one (`"open"`).

**VideoEncoder.** All calls but `alloc` and `free` hold `encMutex` from beginning to
end and are one step each; `_encode` takes the buffers out one by one. `codec`, `set`
and `pipe` are the platform's codec: whether it runs, what it was configured with,
and the buffers inside. Each of its calls that tells a status may fail, and a buffer it gives may be without
memory; `lent` counts the input buffers that were taken and not given back, `lost` those of them that are not for a frame too
large, and `dropped` says that an output buffer went back unread. `dec` is a
decoder that gets all that is handed out, and `broken` records that it could not decode.
`style` and `setsRate` are chosen at the start: which of the two ways of calling the
application uses, and whether the system can set a bit rate without a restart.

**VideoDecoder.** `fields` are those of `MediaCodecDecoder` that the output format
fills, `modern` whether the system is asked for the padding (`SDK_INT` of 23 or more), `picture` and `pictureSize` are the caller's
`out` and `size`, `running` whether its codec runs, `decoder` what the application knows. `told` is the format
the codec told last, `earlier` whether the decoder was told one before, `seen` what both were when the picture came. The codec stores
a picture as it told (`StrideOf`, `SliceHeightOf`), and the code reads it as its fields say. A picture is a function from places in a buffer to samples `<<plane, column,
row>>`; the four conversions and two croppings of MU are operators on such functions,
so that a sample in the wrong place shows.

**JitterBufferOpt.** `xbuffer` holds per place the read flag, the count of requests and
the packet. `pjmedia_ringbuffer_write`, `pjmedia_ringbuffer_read` (with the outcomes of
its wait), `Reset` and `ScanLost` are one step each, as no threads are left that call
them. Times are not modelled: a wait may end, and a silence happen, at any time. A packet
comes at most `uPacketNum` places ahead of the reader (`KeepsUp`): the code assumes it of
its 2048 places and does not check. `adrift` remembers that `move_pos` went on to another place
without a new `uPreReadSeq`.

**Addresses.** `rem_addr` holds `rem_rtp_addr` and `rem_rtcp_addr` of both endpoints;
`recvfrom` writes the sender's address in two steps, between which any other thread may
send; `Received` ends it and calls `on_rx_rtp`, which may send a NACK. The role
an endpoint is started in decides `Remote`, the address it is given.

**SampleSender.** `sendSampleData` is one step: the two tests, and the calls of
`packet_and_send`, each part of which may be lost on its way. The encoder outlives
the stream, as `gProfile` does.

## 4. The runs

Deadlock is checked for `PacketAndSend`, `Addresses` and `SampleSender`, which never
stop. In the other models the streams, starts or formats are finite, and they stop when
these are through.

| run | asks | bounds, and why they are enough |
|---|---|---|
| `SendQueue_both` | Whatever the interleaving, for H.264 and H.265: does the pool stay sound, does the clean list behave as a FIFO that counts what it drops, is the resend cache right, does every packet leave? | limit 2, 5 packets, counters wrapping at 4, cache of 2, numbers below 4: an overflow, a reset of either kind that drops the limit, a wrap, block reuse and the sender at every point of the reset, two frees of one node at once among them, all happen |
| `SendQueue_selflink` (violation) | PL:336 "copy the rtp pkg into the list of sendto thread" | 4 packets, no overflow is needed |
| `JitterBuffer_network` | A network that loses, reorders and repeats; the two threads, the clock, wraps, overruns and restarts | 3 slots, numbers below 6, 9 packets, up to 4 ahead and 3 late: slots wrap three times, the number once, losses of up to 3 in a row. States are explored only as far as the buffer is clean or about to be zeroed (`CONSTRAINT Explored`): all that is said of others is their types, and none becomes clean again |
| `FrameAssembly_gops` | Loss, refusal and replay in streams of both codecs | 9 packets, frames of up to 4: two groups of pictures, or one with several P frames, cut in every way; replay of the packet 6 before, one of an earlier frame, in this group or the one before. The sequence number does not wrap (64): see section 7 for what happens when it does |
| `PacketAndSend_frames` | Every frame of up to 3 H.264 NAL units of 3 to 11 bytes, or of up to 2 H.265 ones of 3 to 21 bytes whose second header byte is a 1 or not, and any frames of one NAL unit after it | MTU 6: none to two middle fragments, every remainder, both start codes, inside, at and beyond the window; H.265 payload 8: as above, with full single payloads, full fragments and remainders around the start code's length. Lengths matter only relative to these. What stays from frame to frame is set anew by the first call for a frame, so one frame before another is enough |
| `StreamLifecycle_restart` | Restarts and further streams, some of which cannot be created, by an application that waits | 3 streams, 4 starts: a restart of a stopped stream before, and in, another stream; a creation that fails first, last or between two that do not |
| `StreamLifecycle_hasty` (violation) | `RtcNative.cpp:211` "vid_stream_stop done." and the destruction after it | 2 streams, 1 start |
| `VideoEncoder_changes` | Two threads, one of which puts frames in, on an old system, or one call that does both, on a new one: does what comes out decode, does it come out, are the fields true, whatever changes and whatever fails? | both codecs, 3 frames, 2 input buffers, 2 sizes, 2 rates, 3 starts: a change with frames inside, a second one after it, a failure at each call of a restart, the refusal within 3 seconds; buffers without memory, and frames the codec refuses, in any number |
| `VideoDecoder_pictures` | Two formats in a row and a picture of each | sizes 8, 6 and 4 stand for 1920, 1088 and 1080; margins of 0 or 2 at each side, padding of 0 or 2; the rectangle and the padding left out or not; three colour formats; both kinds of hardware; systems that are asked for the padding and older ones: every branch of the conversion, with a format before whose fields could remain |
| `JitterBufferOpt_lossy` | A network that loses, reorders and repeats | 6 places, a window of 2, 12 packets from number 4 of 14 with an SPS in every fourth, one of them late by 1, 1 silence or reset, 1 scan: numbers and places wrap; three losses in a row, a skip to an SPS and one across the buffer's end by more than the window, a wrong restart and a late packet happen |
| `Addresses_roles` | Two endpoints, one of which may only play, the other of which gets a new address at any time | 3 datagrams under way, so that two old ones can be received after a new one |
| `SampleSender_restarts` | An encoder that runs through stops and starts, a receiver that comes late | 3 sets: one kept from before a stop, one thrown away during it, one after |

What the properties say is in the comment above each. The ones that carry most:

- `PoolPartition` holds through races of the list, as long as no two calls of `memory_list_free`
  overlap: each searches the used list first, and so a node freed by both threads, one after the
  other, goes back once. When they do overlap both may find it, and nothing is promised any more.
- `CleanInv`, `ImplementsFifo`: on a clean list the pointers spell out a FIFO, each packet is sent
  or counted as dropped. `CleanInv` is the inductive invariant that says so; it
  contains `QueueShape`, which has no run of its own.
- `ResendOneLate`: the resend cache is filed with a number that is one ahead. Under a packet's own number
  lies the packet before it, whatever the queue does.
- `Accounting`: `write_packet_size - send_packet_size` is the length of the
  queue only until the first reset, which sets the first to 640 less the nodes
  freed (PL:300) whatever is left in the queue. Afterwards it may exceed the length by
  far, so resets come early, and fall short of it by one per reset.
- `ResetKeepsLastSps`: the newest SPS survives a reset that is not raced, and is at the
  head unless the cap on nodes to drop was hit.
- `BufferInv`, `NoTornPacket`, `DeliversInOrder`: the lock-free buffer works as long as
  packets come before their turn, once, within the buffer's size: what came is handed over in its
  place. At a place that is given up the unpacker does not get nothing, though, but once more the packet that an
  earlier round left in its slot, and never another. `BufferInv` is inductive: it says of every slot
  what lies in it. `NackIsTheGap` has the exceptions the code has.
- `WholeP`: the count of packets is enough to find every hole in a P frame of
  one slice that is not put behind a remnant. `PFollowsIdr`: none is handed over that refers to what was given up.
  `HealsAtGop`: the next group of pictures is handed over again.
- `Lossless`, `HeaderOfItsNal`, `FragmentOfItsNal`, `GetsOn` state the lengths at which the
  code departs from them (section 7), and hold at all others. The second header byte of an H.265 NAL unit that is
  cut is not sent: `Lossless` says that the receiver then has the constant 1 for it (`Received`), and every
  other byte as it was.
- `NoStrayUse`, `OneOfEach`: waiting is enough for all but the decoder, also when a
  creation fails. `LifeInv` is why: it is inductive, and says what each call leaves in
  the flags and pointers that the next start finds.
- `Decodable`: `Resize` frees the saved sets, and what is inside with the old ones is
  flushed by the restart, so a later key frame never gets sets of another size; nothing is said once an
  output buffer without memory was given back unread (`dropped`), which loses a frame, or the sets.
  `AtMostOneHeldBack`: the buffer of parameter sets takes `frameIndex` down, too, so the
  count may be one low, and one frame stays inside; `FramesComeOut` is about all others.
- `PictureRight` compares the picture with the rectangle of the format the codec told, whatever formats
  came before, and names the code's three departures from it: `IgnoresCrop`, a rectangle that starts in the first column gives way
  to the whole picture; `KeepsKeys`, keys that a later format leaves out are those of one before, and `Misplaced`, padding, or a
  rectangle that starts elsewhere than the conversions expect. The first is part of what is stated (`Given`), the
  other two are excepted.
- `RunsAsTold`: the fields tell the truth after any failure but that of a change of size, and no input buffer is lost
  for a frame too large for it; the two places where the code loses one for good (section 7) are counted (`lost`).
- `DeliversInOrder` of `JitterBufferOpt`: only a packet whose turn is over can come out
  of order. `AsksForMissing`: what is asked for is missing, but for the case in which
  `move_pos` leaves the reader's number behind (section 7).
- `ReachesPeer`: a half-written address is harmless between two endpoints that stay, as both
  halves are the ones that were there. `FindsMovedPeer`: late datagrams of the old address turn
  `rem_rtp_addr` back, but only as many as are under way. One endpoint moves, and once: two that move
  at the same time lose each other.
- `KeyHeals`: the sets in front of a key frame are always its own, since a start clears
  `gProfile`; the price is that an encoder that goes on sends none after a restart of the stream.

The type invariant of a module is a conjunct of its first property (`BufferInv`, `WholeP`,
`Lossless`, `NoStrayUse`, `AtMostOneHeldBack`, `PictureRight`, `DeliversInOrder`,
`ReachesPeer`, `KeyHeals`); `SendQueue` has it by itself, as it has a theorem.

## 5. Fairness

Only the `FairSpec` of five modules has any. Both threads of the send queue, the two of
the jitter buffer and all threads of a stream are pthreads with bounded waits (select
100 ms, receive timeout 3 s, sleeps of 10 ms), and the mutex is held for a list
operation only: weak fairness per thread. Time passes: weak fairness of
`ReadTimeout`. Nothing obliges the network to deliver (`Receive` in `JitterBuffer` has
no fairness), nor the application to call anything (`App` has none); that the
encoder goes on making packets is part of the producer's fairness in
`SendQueue`, where `EveryPacketLeaves` speaks of packets already queued. A
silence long enough for a restart is possible at any time, never obligatory.

`VideoEncoder`: weak fairness of `mediacodec_encoder_output`, which its thread calls in a
loop, and of the end of an `_encode`; nothing obliges the application to put frames in
or change anything. `Addresses`: weak fairness of the end of a `recvfrom`, and
strong fairness of media being sent to a worker that waits, and of being received: an
endpoint that sends media does so for as long as the stream lasts, and the network does
not lose all of it. Nothing obliges an endpoint to start or to move. `SampleSender` and the
others have no liveness property.

## 6. What is proved

Everything below holds for every value of the constants that satisfies the `Assumption`
of its module, and so for the code's: a queue limit of 640, counters wrapping at 4000000000
in words of 32 bits, 2048 slots, numbers of 16 bits, any number of packets, frames,
streams and starts. The bounds of the runs are constants like the others, and
the theorems do not depend on them. Three
theorems, `NothingMissing`, `NothingFreedUsed` and `NeverTwoOfAKind`, have an assumption of their own.

| theorem | of | says |
|---|---|---|
| `TypeCorrect`, `PoolSafe` | `SendQueue` | `TypeOK`; `PoolPartition`, through races of the list, until two calls of `memory_list_free` overlap |
| `CleanListSafe`, `QueueShapeHolds` | | `CleanInv`; `QueueShape` follows from it |
| `FaultNeedsRace` | | the NULL dereference needs a reset that met the sender |
| `CountersTell` | | `Accounting`: what the difference of the counters tells of the queue's length |
| `CacheIsOneLate` | | `ResendOneLate`, damage or not |
| `ResetLeavesSps` | | `ResetKeepsLastSps`, an action property |
| `Refinement` | | `Spec => ImplementsFifo` |
| `BufferAgreed`, `NothingTorn` | `JitterBuffer` | `BufferInv`, `NoTornPacket` |
| `NackNamesGap` | | `NackIsTheGap`, an action property |
| `PlaysInOrder` | | `Spec => DeliversInOrder`, the refinement of `OrderedDelivery`, in which an old packet takes the place of one given up |
| `NoOrphans` | `FrameAssembly` | `PFollowsIdr` |
| `NothingMissing` | | `WholeP`, if `NumPackets < SeqMod` |
| `HealsEveryGop` | | `HealsAtGop`, wherever the numbers wrap |
| `TypesKept`, `LifeInvHolds` | `StreamLifecycle` | `TypeOK`, `LifeInv` |
| `NothingFreedUsed`, `NeverTwoOfAKind` | | `NoStrayUse`, `OneOfEach`, if `Waits` |
| `StartBringsUp` | | `RunsWhenStarted`, waiting or not |
| `AllDecodable`, `OneHeldBack`, `CodecRunsAsTold` | `VideoEncoder` | `Decodable`, `AtMostOneHeldBack`, `RunsAsTold`, with all failures the platform can tell |
| `SentReachesPeer` | `Addresses` | `ReachesPeer` |
| `HandsOutInOrder`, `AsksForWhatIsMissing` | `JitterBufferOpt` | `DeliversInOrder` (with `OptTypeOK`), `AsksForMissing` |
| `KeyFrameHeals` | `SampleSender` | `KeyHeals` |
| `PicturesRight` | `VideoDecoder` | `PictureRight`, sample by sample, for any sizes, rectangles and paddings, with the three departures it names |
| `NothingLost` | `PacketAndSend` | `Lossless`, of any frame, for both codecs; of H.265 fragments, with the second header byte as the receiver makes it |
| `HeadersAreRight`, `FragmentsAreRight` | | `HeaderOfItsNal`, `FragmentOfItsNal` |
| `LoopGetsOn` | | `GetsOn`, an action property |

`NumberLemmas` has the lemmas about `%` and `\div` that these need: the
provers know these operators for a modulus that is a number, not for one that is a
constant of the module. It also has induction as a fact about a set of numbers, since the library's,
which is about an operator, cannot be used; and from it, that a
function defined by recursion on the numbers up to a limit exists, which is what makes its
equation a fact (`IterationExists`).

### The assumptions

`Waits`: an application that does not wait for the threads it has told to quit does use
freed memory (`StreamLifecycle_hasty`).

`mtu > 3`: the code's is 1300. With 3, a fragment has one byte, the headers of two fragments
overlap in the buffer, and `HeaderOfItsNal` is false.

`3 * uMaxPktWin < Seqs`, `uPacketNum < Seqs \div 2` (640, 2048 and 65536 in the code): or the difference of two
numbers would not tell how far apart two packets are, one of which may be a window ahead of the newest and the other two behind it.

Even sizes and `m + 2 < Short` for a margin `m` (`DecoderAssumption`): H.264 and H.265 code pictures of colour
format 4:2:0, in which two by two samples of luma share their chroma, and the code halves both sizes itself; and a
rectangle that a codec tells is not empty.

`NumPackets < SeqMod`: the numbers do not wrap in the stream. With a wrap `WholeP` is false, and the
code has the same gap (section 7): the number in front of the first of a frame whose beginning was
lost counts as -1, so when the frame ends at the number 65535 the distance is 1 and fits a
single packet received; and 65536 packets lost in the middle of a slice leave the distance what it was. `HealsEveryGop` has no
such assumption: nothing of its group is lost, and a frame's distance is right for `Longest < SeqMod`.

### The arguments

*Send queue.* `PoolPartition` is inductive with `TypeOK`: its `Calls` says that what the search of a thread inside
`memory_list_free` found is still so. `QueueShape` is not.
That `packet_list_node_offset` takes off the packet that was sent needs `InHand`
(the sender's node is the head); that freeing the head leaves the others in use
needs `Distinct`; that the reset frees just the front of the queue needs
`DropProgress`; that the FIFO never hands out a packet twice needs `TriedAreOld`.
`CleanInv` is the conjunction, under `Clean`; each of the producer's and the
sender's actions has a lemma that it preserves it. `FaultInv` adds to `FaultOnlyByRace`
that the list cannot be empty under a sender in `send` or `offset` unless there was a race.
`Accounting` speaks of the moments between resets; `AccountInv` also says what the counters are
in each step of one, and that the difference never exceeds the limit by more than one: an overflow is
found before the next add, as the limit is below half the word.
`ResetKeepsLastSps` compares two recursive definitions: `hop`, by which the property walks the list, and the
scan of the reset. `HopIs` solves the first by induction: it is `pending` read from the
front. `ScanFindsLastSps` says that the scan finds the last SPS of the queue, and
`DropPlan`, inductive, that the nodes a reset has dropped and those it will drop lie in front of
it, and are all of these or as many as the cap allows.

*Jitter buffer.* What a slot holds tells nothing by its number, as numbers and slots wrap. `BufferInv`
follows absolute positions: where both threads are (`Positions`), what is in
each slot between them (`SlotsHold`), what a slot whose packet has not come still holds of earlier rounds (`LeftBehind`),
what was handed over for each place behind the reader (`PlayedBehind`), and which
packets the writer may still bring (`Arrivals`, `WriterAhead`). A step of one
thread touches a slot the other does not read because two positions less than `PacketNum` apart have different slots.

*Frame assembly.* The stream is seen as one sequence, of what was sent and what is to be, and
`StreamInv` says how its packets follow one another. `IdrInv` makes `PFollowsIdr` inductive: it says
the same of the flag `bIDR`. For `WholeP`, `BufInv` says that all in the buffer was sent, and `CountInv`
that it lies there in order, that the number in `usRtpSSeq` is that of the first slice packet in the buffer, and that
nothing is counted in front of it; then the count can reach the distance only if none between is missing.
For `HealsAtGop`, `GroupInv` says what is left of each packet of a group that has come so far: the parameter sets'
flags after each of them, an unpacker without a slice between frames, and within a frame a
buffer that ends with all its slices so far.

*Lifecycle.* `LifeInv` is in the module, as a run checks it, too. The decoder is excepted from
`InHand` once a stop came between `read` and `render` (`cutOff`).

*Encoder.* `EncoderInv` has `CountInv` (what is inside against `frameIndex`), `OneSize` (what is inside is of one
size), `QueueOrder` (parameter sets first, then a key frame; each P frame follows a frame of the same
key frame, as long as nothing was `dropped`) and `ReceiverReady` (what the receiver and the saved sets must be, given what comes next).

*Addresses.* `AddressInv`: whatever is in a `sockaddr`, in a copy of one or on the way, half-written or
not, is an address of the peer, old or new, and the one it had from the start while it has not moved.

*Alternative jitter buffer.* `OptInv`: what is in the ring is a window `r..last` of the packets, `r` the next
to read, each in the place that its distance from some packet `b` gives, `b` being the one that restarted the
buffer (`Track`); the three are not in the state, so the invariant says they exist. Less than a round apart,
packets have different places (`InWindow`), and a difference of two numbers is the packets' distance
(`GapTells`). `SkipFinds` is what the search for an SPS comes to in all its branches.

*Decoder.* A place of a buffer is that of a luma sample, known by row and column, or of a chroma sample of one of
two planes (`PlacesCovered`), so a layout is right when it is at these (`LayoutHolds`, for each of the three
orders). The four conversions and two croppings then move known places to known places, which takes products and
quotients of numbers that are not constants (`RowMajor`, `Quarters`), each by a lemma of its own. `DecoderInv` has what the
history of formats leaves in the fields: a rectangle that starts in a column of its own has a size whichever format it is from,
even where its corner is (`RectInv`); that the fields say what the format told last does, unless it left keys to one before (`ToldInv`);
and that a picture, which is there only during a call, was right when it came (`ShownInv`).

*Samples.* `SampleInv`: once the encoder's sets went through `sendSampleData` in this stream they are
the ones kept, and older ones are never kept while a stream lasts, unless new ones are to come.

*Packetizers.* `Inv` is about where a turn of the loop may begin. For H.264 (`H264Place`): at a start code; behind the leading
zero of one, if the turn before took it for the end of its NAL unit; or inside a NAL unit whose
fragments so far were full, with the header of the last of them just in front, in the buffer. For
H.265 (`H265Place`), where all start codes are alike: at one; or inside a NAL unit, and then `pkt_msg` has what it must
of it, and what is left has not the length at which a window's edge cuts the next start code.
What `find_next_nal_unit` finds from such a place is a case of one lemma each (`FindFirst`, `FindNext`, `FindNone`). That
each kind of turn hands over just the bytes between two places is a lemma for each; what the receiver should hold then
(`Expected`) is solved by induction over the bytes in between.

### Only model-checked

- All liveness: `EveryPacketLeaves`, `EveryPacketPlayed`, `ThreadsEnd`, `FramesComeOut`,
  `FindsMovedPeer`. It rests on fairness, which is beyond the prover.

Every invariant and action property that the runs check, but for the two of them that are findings, is
stated by a theorem of the table above.

## 7. Where the code departs from what it says

Found while modelling. `AddedIsInList` and `StopIsDone` have a run that TLC finds them
violated in; most of the others are what the properties above except, in a
definition named there.

Send queue
- PL:373: `list_current_write` is not cleared when the queue runs empty. The next
  `malloc` may hand out that very block, which is then linked to itself
  (`AddedIsInList`). It takes a queue that empties after a block was freed and reused, no race.
- TU:574: the reset takes no lock. It may free the node the sender has in hand,
  and the sender then takes another off, or reads through NULL. PL:95-130: both may be in
  `memory_list_free` at once, find the same node and put it on the free list twice (damage `pool`).
- PL:283-288: a reset drops at most 640 nodes, so the SPS it looks for need not end
  up at the head.
- PL:312, TU:115: the H.265 reset puts an empty node at the head. The sender moves on
  only from a node with bytes in it, so it never does again, until the
  next reset, which leaves another such node.
- PL:328, 362: the counters wrap at 4000000000 one after the other. In between the
  difference is huge and a reset is made for nothing.
- TU:384: the resend cache files a packet under the number after its own, as VS:231 has advanced
  `out_extseq` by then (`ResendOneLate`); nobody reads it.

Jitter buffer
- JB:172, 195: a late or duplicate packet sets `uPreSeq` back behind the reader, which
  then runs through all numbers, giving each up; or it sets it just to
  the reader's place, and the reader waits although newer packets are there.
- JB:200-204: the tests for a first read compare 16-bit fields with -1 and never succeed:
  reading starts at number 0, as sending does. After a silence of more than a
  second the buffer is initialised and the reader walks from 0 again.
- JB:239: a packet given up is "read" from its slot, which holds the packet 2048 before, and VP:30 hands that to
  the unpacker again (`Replay` in `OrderedDelivery` and in `FrameAssembly`).
- No NACK is sent for a loss across the wrap of the number, or before the first packet;
  a late packet can cause a NACK for packets that were received.

Frame assembly
- DU:818: with a start number of -1 (the frame's beginning was lost) the distance depends
  on where the numbers are in their range, and a wrap can make it fit the count. DU:831: a replayed packet makes
  up for a lost one in the count. DU:556: a second slice's first packet takes the place of the first one's.
  DU:547: `bLenom` joins the fragments of two frames when the last one of the first is lost.
- DU:826: for an I frame a wrong count is only logged.
- DU:73, 119-122: `bSPS` is neither initialised nor cleared; `bPPS` is cleared twice.
- DU:258: the marker is taken off H.264 parameter sets only. H.265 parameter sets sent by themselves
  therefore count as a finished I frame, and P frames without their IDR are handed over.
- DU:548: a SEI in front of a P frame carries that frame's timestamp, so the first fragment
  behind it does not start the buffer anew; and an I frame whose group's first packet was lost
  is put behind whatever there is. What was there counts, and can make the count fit.
- A P frame lost as a whole is not noticed.

Packetizers
- HP:220: a fragmented NAL unit that is not the frame's last can miss its E bit, when the window
  ends in the start code behind it. HP:208: at two lengths the byte in front of a start code of
  three is skipped, or the first zero of one of four is sent along.
- HP:260, VS:215: an H.264 frame without a start code is never finished: each call returns
  PJ_ECANCELLED, which is not looked at, and the loop sends its last payload for ever.
- HP:775, 776, 838: an exactly full H.265 payload is split, its last fragment lacks the E bit, and
  a start code's length is taken from the first one; a frame without a first start code is sent in raw pieces.
- HP:865: the second byte of an H.265 fragment's header is the constant 1 ("the value should calculation"), HP:871-876 leave out both bytes of
  the NAL unit's own header, and HP:985-986 rebuild its second byte from the constant: layer and temporal sub-layer of a NAL
  unit that is cut are lost (`SecondRebuilt`).

Lifecycle
- VS:170: threads are told to quit and not joined. `stopSendVideo` and `stopRecvRender` of
  `RtcNative.cpp` destroy the stream at once: workers use a freed transport (`StopIsDone`), and
  a start right after may revive them and have two of a kind.
- VP:86: `vid_port_stop` frees the decoder, which the player may be about to use
  (the exception `cutOff` of `NoStrayUse`); it is freed without being closed.
- A second start of the same stream brings no player: only `vid_stream_create` clears its flag.
- VS:151: when a socket cannot be had, `vid_stream_create` leaves `trans` NULL, and
  `vid_stream_stop` writes through it, as `stream_send_test` makes it do.

Addresses
- RN:172: a player is started with its own address for the remote one. The first packet of
  media corrects `rem_rtp_addr`, nothing ever corrects `rem_rtcp_addr`: its NACKs go to its own
  socket (the exception of `ReachesPeer`).
- TU:326: the RTCP address of a peer that has moved is found only by RTCP from it, which it
  sends only when it has lost something.

Android codecs
- ME:1093: a restart returns 1 or -1, and both count as done, though ME:1060 says "return 1
  successful, 0 or -1 failed": after a failed one the fields say what the codec does not do
  (the exception `failed` of `Decodable` and `RunsAsTold`).
- ME:804: the parameter sets' buffer is counted as a frame, so one frame stays inside.
- ME:442, 698: an input buffer without memory, or one too small for the frame, is not given back; ME:465, 721: the status of
  `AMediaCodec_queueInputBuffer` is not looked at, and the frame counts as put in. The codec has one buffer less each time.
- ME:799: an output buffer without memory is given back unread, and nothing tells the caller that a frame is gone.
- ME:336-375: a `close` without a codec, as a second one is, returns with `encMutex` locked (`"left"` in
  `mediacodec_encoder_close`), and no later call on the encoder but `free` ever returns.
- MD:394: `crop_left` is tested four times, where the comment at MD:393 names the four keys: a rectangle from column 0 is
  replaced by the whole picture (`IgnoresCrop`).
- MD:388: a key that a format leaves out keeps the value of the format before, so a picture can be cut
  with a rectangle of another one, and its rows read with the stride of a wider one (`KeepsKeys`).
- MD:464: of a padded picture only half of the chroma is copied. MU:67: a rectangle that starts further down is written as many rows too low.
  MU:70, 83: one in an odd column takes the chroma samples for each other, and with planes of their own one in any column but the first
  takes them from too far right (`Misplaced`).
- MD:442: a change of format after a picture in the same call: `getConfig` then tells a size that is not that of the
  picture given back.

Alternative jitter buffer
- JO:741: the count of requests has three bits and wraps: a packet is asked for again
  after eight scans.
- JO:82: a negative remainder makes every wrap of the numbers a restart.
- JO:660: when a skip throws away more than a window across the buffer's end, the reader gets a
  new place and keeps its number: until it has read a packet, what is asked for is counted from the
  wrong one (the exception `adrift` of `AsksForMissing`). The proof of that property found it.
- JO:639: a number is compared with a place; on a window they are never equal.
- JO:110: a packet that comes too late is handed out a round later.

## 8. What is abstracted, and what is not modelled

- Stores are sequentially consistent. The list operations under the mutex are one step each, and `memory_list_free`, which
  the reset calls without it, is two, its search and its relinking. When two threads relink at once each may lose
  what the other wrote; finer mixtures of their stores, and the shapes of a list after them, are left out, as nothing is promised
  from then on. The torn outcomes of bit-fields written by two threads and of the order inside
  `ringbuffer_init` are left out, too. `vid_stream_create` is one step, and freeing the send queue
  with the transport another.
- H.265 with more than one layer is left out: the second header byte of a NAL unit is 1 or 2, and its first has no layer bit. Sizes of
  buffers, payload bytes and timestamps in units are left out. B frames are treated by the
  code as P frames. STAP-A and H.265 aggregation packets are never sent (`HYT_PTT` is defined, HP:36).
  The search for a start code of H.265 reads up to 3 bytes beyond the frame, modelled as finding none there. A single
  H.265 payload whose header bits were overwritten is taken or refused, nondeterministically.
- `sendto` is not retried when it fails; `uCuPktLost` is only logged; packets with a length
  beyond the slot's change nothing: no state to model.
- An application thread that goes on sending after a destroy, and the ends of the loops of TU at
  errors of `select`: not modelled. Of a socket only creation can fail.
- `AMediaCodec`, its formats and the surface are external. `mediacodec_decoder_render` hands a
  buffer to the surface and keeps nothing; `NativeCodec.cpp` looks up the platform's symbols. Pictures with
  padding, and rectangles that do not start where the conversions expect it, are moved by the model as the code
  moves them, but `PictureRight` only says that they are a departure (`Misplaced`), not where their samples come to lie.
- In `JitterBufferOpt` the walk through an aggregation packet is a choice of whether it holds an SPS;
  the times of requests, `set_resend_wait_time` and the statistics of received packets (all calls of
  which are commented out) are left out. Neither build file compiles the file.
- The SPS decoder (`packed/spsdecoder.h`) is included by no file. There is no NACK answer: nothing calls
  `rtcp.c`, and a NACK received is logged. Demos, tests and logging have no state to model.

------------------------ MODULE StreamLifecycleProofs ------------------------
(***************************************************************************)
(* Proofs about StreamLifecycle, for any number of streams and starts.  A  *)
(* theorem that needs the application to wait says so.                     *)
(***************************************************************************)
EXTENDS StreamLifecycle, FiniteSetTheorems, TLAPS

AppStates ==
  {"none", "failed", "created", "starting", "running", "stopping", "stopped",
   "closing", "freeing"}
ThreadStates == {"none", "test", "work", "write", "read", "render", "ended"}

-----------------------------------------------------------------------------
(***************************************************************************)
(* Type correctness.                                                       *)
(***************************************************************************)

LEMMA TypeInit == Init => TypeOK
<1> SUFFICES ASSUME Init PROVE TypeOK
  OBVIOUS
<1> USE DEF Init
<1>0. /\ appPc = "none" /\ transport = "none" /\ ringbuf = 0 /\ decoder = 0
      /\ starts \in 0..NumStarts /\ stray = {}
  BY Assumption
<1>6. cutOff \in BOOLEAN /\ surface \in BOOLEAN /\ jbufQuit \in BOOLEAN
  BY Zenon
<1>1. of \in [1..NumStarts -> 0..NumStreams] /\ stream \in 0..NumStreams
  BY Assumption
<1>2. pc \in [1..NumStarts -> [Threads -> ThreadStates]]
  BY DEF ThreadStates
<1>3. held \in [1..NumStarts -> [Threads -> Nat]]
  OBVIOUS
<1>4. quit \in [Workers -> BOOLEAN]
  OBVIOUS
<1> HIDE DEF Init
<1>5. QED
  BY <1>0, <1>1, <1>2, <1>3, <1>4, <1>6 DEF TypeOK, ThreadStates

\* A call of the application keeps the types.
LEMMA TypeApp == TypeOK /\ App => TypeOK'
<1> SUFFICES ASSUME TypeOK, App PROVE TypeOK'
  OBVIOUS
<1> USE Assumption DEF TypeOK, threadVars, historyVars
<1>1. CASE vid_stream_create
  <2>1. stream' \in 0..NumStreams /\ ringbuf' = stream'
    BY <1>1 DEF vid_stream_create
  <2>2. /\ transport' \in {"none", "open"} /\ appPc' \in {"created", "failed"}
        /\ jbufQuit' = FALSE /\ decoder' = 0 /\ surface' \in BOOLEAN
    BY <1>1 DEF vid_stream_create, transport_udp_create
  <2>3. UNCHANGED <<quit, starts, of, pc, held, stray, cutOff>>
    BY <1>1 DEF vid_stream_create
  <2>4. QED
    BY <2>1, <2>2, <2>3
<1>2. CASE vid_port_start
  <2>1. starts' \in 1..NumStarts
    BY <1>2 DEF vid_port_start
  <2>2. of' \in [1..NumStarts -> 0..NumStreams]
    BY <1>2, <2>1 DEF vid_port_start
  <2>3. pc' \in [1..NumStarts -> [Threads -> ThreadStates]]
    <3>1. pc' = [pc EXCEPT ![starts'].jbuf_recv = "test"]
      BY <1>2 DEF vid_port_start
    <3>2. QED
      BY <2>1, <3>1 DEF ThreadStates
  <2>4. /\ appPc' = "starting" /\ decoder' = (IF surface THEN starts' ELSE 0)
        /\ ringbuf' = stream'
        /\ UNCHANGED <<stream, transport, quit, surface, jbufQuit, held, stray, cutOff>>
    BY <1>2 DEF vid_port_start
  <2>5. QED
    BY <2>1, <2>2, <2>3, <2>4 DEF ThreadStates
<1>3. CASE transport_udp_start
  <2>1. pc' \in [1..NumStarts -> [Threads -> ThreadStates]]
    BY <1>3 DEF transport_udp_start, ThreadStates
  <2>2. quit' \in [Workers -> BOOLEAN]
    BY <1>3 DEF transport_udp_start
  <2>3. QED
    BY <1>3, <2>1, <2>2 DEF transport_udp_start, ThreadStates
<1>4. CASE vid_port_stop
  <2>1. cutOff' \in BOOLEAN
    BY <1>4 DEF vid_port_stop, Rendering
  <2>2. QED
    BY <1>4, <2>1 DEF vid_port_stop
<1>5. CASE transport_udp_stop
  <2>1. quit' \in [Workers -> BOOLEAN]
    BY <1>5 DEF transport_udp_stop
  <2>2. QED
    BY <1>5, <2>1 DEF transport_udp_stop
<1>6. CASE CloseSockets \/ FreeTransport \/ FreeRing
  BY <1>6 DEF CloseSockets, FreeTransport, FreeRing
<1>7. QED
  BY <1>1, <1>2, <1>3, <1>4, <1>5, <1>6 DEF App

\* What every step of a thread is: it is running, goes to another place of its loop
\* and takes something, and leaves the application and the other threads alone.
ThreadStep(n, k, to, p) ==
  /\ Running(n, k)
  /\ pc' = [pc EXCEPT ![n][k] = to]
  /\ held' = [held EXCEPT ![n][k] = p]
  /\ UNCHANGED <<appPc, appVars, cutOff>>

LEMMA HeldKept ==
  ASSUME TypeOK, NEW n \in 1..NumStarts, NEW k \in Threads
  PROVE  held = [held EXCEPT ![n][k] = held[n][k]]
BY DEF TypeOK

\* The steps of the workers, one by one.
LEMMA WorkerSteps ==
  ASSUME TypeOK, NEW n \in 1..NumStarts, NEW k \in Workers, Worker(n, k)
  PROVE  /\ stray' \subseteq stray \cup {"transport", "ringbuf", "decoder"}
         /\ \/ /\ TestWorker(n, k) /\ pc[n][k] = "test"
               /\ ThreadStep(n, k, IF quit[k] \/ transport = "closed" THEN "ended" ELSE "work",
                             held[n][k])
            \/ /\ Work(n, k) /\ pc[n][k] = "work"
               /\ ThreadStep(n, k, "test", held[n][k])
            \/ /\ SocketEnds(n, k) /\ k # "rtp_send" /\ pc[n][k] = "work"
               /\ ThreadStep(n, k, "ended", held[n][k])
            \/ /\ Receive(n) /\ k = "rtp_recv" /\ pc[n][k] = "work"
               /\ \/ ThreadStep(n, k, "test", held[n][k])
                  \/ ringbuf # 0 /\ ThreadStep(n, k, "write", ringbuf)
            \/ /\ Write(n) /\ k = "rtp_recv" /\ pc[n][k] = "write"
               /\ ThreadStep(n, k, "test", 0)
<1> k \in Threads /\ "rtp_recv" \in Threads
  BY DEF Threads, Workers
<1>1. held = [held EXCEPT ![n][k] = held[n][k]]
  BY HeldKept
<1> USE DEF Goes, Takes, Uses, ThreadStep, Running
<1>2. CASE TestWorker(n, k)
  BY <1>1, <1>2 DEF TestWorker
<1>3. CASE Work(n, k)
  BY <1>1, <1>3 DEF Work
<1>4. CASE SocketEnds(n, k)
  BY <1>1, <1>4 DEF SocketEnds
<1>5. CASE k = "rtp_recv" /\ Receive(n)
  BY <1>1, <1>5 DEF Receive
<1>6. CASE k = "rtp_recv" /\ Write(n)
  BY <1>6 DEF Write
<1>7. QED
  BY <1>2, <1>3, <1>4, <1>5, <1>6 DEF Worker

\* The steps of the player.
LEMMA PlayerSteps ==
  ASSUME TypeOK, NEW n \in 1..NumStarts, Player(n)
  PROVE  /\ stray' \subseteq stray \cup {"transport", "ringbuf", "decoder"}
         /\ \/ /\ TestPlayer(n) /\ pc[n].jbuf_recv = "test"
               /\ ThreadStep(n, "jbuf_recv", IF jbufQuit THEN "ended" ELSE "work",
                             held[n].jbuf_recv)
            \/ /\ Look(n) /\ pc[n].jbuf_recv = "work"
               /\ ThreadStep(n, "jbuf_recv", IF ringbuf = 0 THEN "test" ELSE "read", ringbuf)
            \/ /\ Read(n) /\ pc[n].jbuf_recv = "read"
               /\ \/ ThreadStep(n, "jbuf_recv", "test", 0)
                  \/ decoder # 0 /\ ThreadStep(n, "jbuf_recv", "render", decoder)
            \/ /\ Render(n) /\ pc[n].jbuf_recv = "render"
               /\ ThreadStep(n, "jbuf_recv", "test", 0)
<1> "jbuf_recv" \in Threads
  BY DEF Threads
<1>1. held = [held EXCEPT ![n]["jbuf_recv"] = held[n]["jbuf_recv"]]
  BY HeldKept
<1> USE DEF Goes, Takes, Uses, ThreadStep, Running, historyVars
<1>2. CASE TestPlayer(n)
  BY <1>1, <1>2 DEF TestPlayer
<1>3. CASE Look(n)
  BY <1>3 DEF Look
<1>4. CASE Read(n)
  BY <1>4 DEF Read
<1>5. CASE Render(n)
  BY <1>5 DEF Render
<1>6. QED
  BY <1>2, <1>3, <1>4, <1>5 DEF Player

LEMMA TypeThreadStep ==
  ASSUME TypeOK, NEW n \in 1..NumStarts, NEW k \in Threads, NEW to \in ThreadStates,
         NEW p \in Nat, ThreadStep(n, k, to, p),
         stray' \subseteq stray \cup {"transport", "ringbuf", "decoder"}
  PROVE  TypeOK'
<1>1. pc' \in [1..NumStarts -> [Threads -> ThreadStates]]
  BY DEF ThreadStep, TypeOK, ThreadStates
<1>2. held' \in [1..NumStarts -> [Threads -> Nat]]
  BY DEF ThreadStep, TypeOK
<1>3. QED
  BY <1>1, <1>2 DEF ThreadStep, TypeOK, appVars, ThreadStates

LEMMA PointerTypes ==
  ASSUME TypeOK
  PROVE  /\ ringbuf \in Nat /\ decoder \in Nat
         /\ \A n \in 1..NumStarts, k \in Threads : held[n][k] \in Nat
BY Assumption DEF TypeOK

LEMMA TypeThreads ==
  ASSUME TypeOK, NEW n \in 1..NumStarts, (\E k \in Workers : Worker(n, k)) \/ Player(n)
  PROVE  TypeOK'
<1> USE DEF ThreadStates
<1>1. CASE \E k \in Workers : Worker(n, k)
  <2>1. PICK k \in Workers : Worker(n, k)
    BY <1>1
  <2>2. k \in Threads /\ held[n][k] \in Nat
    BY PointerTypes DEF Threads
  <2>3. QED
    BY <2>1, <2>2, WorkerSteps, PointerTypes, TypeThreadStep
<1>2. CASE Player(n)
  <2>1. "jbuf_recv" \in Threads
    BY DEF Threads
  <2>2. held[n]["jbuf_recv"] \in Nat
    BY <2>1, PointerTypes
  <2>3. QED
    BY <1>2, <2>1, <2>2, PlayerSteps, PointerTypes, TypeThreadStep
<1>3. QED
  BY <1>1, <1>2

LEMMA TypeStep == TypeOK /\ [Next]_vars => TypeOK'
<1> SUFFICES ASSUME TypeOK, [Next]_vars PROVE TypeOK'
  OBVIOUS
<1>1. CASE UNCHANGED vars
  BY <1>1 DEF vars, appVars, threadVars, historyVars, TypeOK
<1>2. QED
  BY <1>1, TypeApp, TypeThreads DEF Next

THEOREM TypesKept == Spec => []TypeOK
<1>1. TypeOK /\ [Next]_vars => TypeOK'
  BY TypeStep
<1>2. QED
  BY TypeInit, <1>1, PTL DEF Spec

-----------------------------------------------------------------------------
(***************************************************************************)
(* What the calls leave behind.                                            *)
(***************************************************************************)

LEMMA AppInvInit == Init => AppInv
BY DEF Init, AppInv, Started

\* A start is made of the stream that is there, and gets the next number.
LEMMA StartsGrow ==
  ASSUME TypeOK, vid_port_start
  PROVE  /\ starts' \in 1..NumStarts /\ starts' = starts + 1 /\ starts \in Nat
         /\ of'[starts'] = stream
         /\ \A n \in 1..starts : of'[n] = of[n]
BY Assumption DEF vid_port_start, TypeOK

LEMMA AppInvApp == TypeOK /\ AppInv /\ App => AppInv'
<1> SUFFICES ASSUME TypeOK, AppInv, App PROVE AppInv'
  OBVIOUS
<1> USE DEF threadVars, historyVars
<1>1. stream \in Nat /\ starts \in Nat /\ starts <= NumStarts
  BY Assumption DEF TypeOK
<1>2. CASE vid_stream_create
  <2>1. /\ stream' = stream + 1 /\ starts' = starts /\ of' = of /\ jbufQuit' = FALSE
        /\ appPc' \in {"created", "failed"} /\ (appPc' = "created" => transport' = "open")
    BY <1>2 DEF vid_stream_create, transport_udp_create
  <2>2. \A n \in 1..starts' : of'[n] <= stream'
    BY <1>1, <2>1, Assumption DEF AppInv, TypeOK
  <2>3. QED
    BY <1>1, <2>1, <2>2 DEF AppInv, Started
<1>3. CASE vid_port_start
  <2>1. /\ appPc \in {"created", "stopped"} /\ appPc' = "starting"
        /\ UNCHANGED <<stream, transport, quit, jbufQuit>>
    BY <1>3 DEF vid_port_start
  <2>2. \A n \in 1..starts' : of'[n] <= stream'
    BY <1>1, <1>3, <2>1, StartsGrow DEF AppInv
  <2>3. ASSUME jbufQuit'
        PROVE  \E n \in 1..starts' : of'[n] = stream' /\ n < starts'
    <3>1. PICK n \in 1..starts : of[n] = stream
      BY <2>1, <2>3 DEF AppInv
    <3>2. n \in 1..starts' /\ n < starts' /\ of'[n] = stream'
      BY <1>1, <1>3, <2>1, <3>1, StartsGrow
    <3>3. QED
      BY <3>2
  <2>4. transport' = "open" /\ stream' > 0 /\ starts' > 0 /\ of'[starts'] = stream'
    BY <1>1, <1>3, <2>1, StartsGrow DEF AppInv, Started
  <2>5. QED
    BY <2>1, <2>2, <2>3, <2>4 DEF AppInv, Started
<1>4. CASE transport_udp_start
  <2>1. /\ appPc = "starting" /\ appPc' = "running"
        /\ quit' = [k \in Workers |-> FALSE]
        /\ UNCHANGED <<stream, transport, jbufQuit, starts, of>>
    BY <1>4 DEF transport_udp_start
  <2>2. \A k \in Workers : ~quit'[k]
    BY <2>1
  <2>3. QED
    BY <2>1, <2>2 DEF AppInv, Started
<1>5. CASE vid_port_stop
  <2>1. /\ appPc = "running" /\ appPc' = "stopping" /\ jbufQuit'
        /\ UNCHANGED <<stream, transport, quit, starts, of>>
    BY <1>5 DEF vid_port_stop
  <2>2. starts \in 1..starts /\ of[starts] = stream
    BY <1>1, <2>1 DEF AppInv, Started
  <2>3. QED
    BY <2>1, <2>2 DEF AppInv, Started
<1>6. CASE transport_udp_stop
  <2>1. /\ appPc = "stopping" /\ appPc' = "stopped"
        /\ quit' = [k \in Workers |-> TRUE]
        /\ UNCHANGED <<stream, transport, jbufQuit, starts, of>>
    BY <1>6 DEF transport_udp_stop
  <2>2. \A k \in Workers : quit'[k]
    BY <2>1
  <2>3. QED
    BY <2>1, <2>2 DEF AppInv, Started
<1>7. CASE CloseSockets \/ FreeTransport \/ FreeRing
  <2>1. /\ appPc # "none" /\ appPc' \in {"closing", "freeing", "none"}
        /\ appPc \notin {"starting", "running"}
        /\ UNCHANGED <<stream, quit, jbufQuit, starts, of>>
    BY <1>7 DEF CloseSockets, FreeTransport, FreeRing
  <2>2. QED
    BY <2>1 DEF AppInv, Started
<1>8. QED
  BY <1>2, <1>3, <1>4, <1>5, <1>6, <1>7 DEF App

\* Threads leave the application's state alone.
LEMMA AppInvThread ==
  ASSUME AppInv, UNCHANGED <<appPc, appVars>>
  PROVE  AppInv'
BY DEF AppInv, Started, appVars

-----------------------------------------------------------------------------
(***************************************************************************)
(* Only a flag ends the sender and the player.                             *)
(***************************************************************************)

LEMMA ThreadsRunApp == TypeOK /\ AppInv /\ ThreadsRun /\ App => ThreadsRun'
<1> SUFFICES ASSUME TypeOK, AppInv, ThreadsRun, App PROVE ThreadsRun'
  OBVIOUS
<1> USE DEF threadVars, historyVars
<1>0. "rtp_send" \in Workers /\ {"rtp_send", "jbuf_recv"} \subseteq Threads
      /\ "jbuf_recv" \notin Workers
  BY DEF Threads, Workers
<1>1. CASE vid_port_start
  <2>1. /\ starts' \in 1..NumStarts /\ appPc' = "starting"
        /\ pc' = [pc EXCEPT ![starts']["jbuf_recv"] = "test"]
    BY <1>1, StartsGrow DEF vid_port_start
  <2>2. pc'[starts']["jbuf_recv"] = "test"
    BY <1>0, <2>1 DEF TypeOK
  <2>3. QED
    BY <2>1, <2>2 DEF ThreadsRun, Running
<1>2. CASE transport_udp_start
  <2>1. /\ appPc = "starting" /\ starts' = starts /\ jbufQuit' = jbufQuit
        /\ pc' = [pc EXCEPT ![starts] = [k \in Threads |-> IF k \in Workers THEN "test" ELSE pc[starts][k]]]
    BY <1>2 DEF transport_udp_start
  <2>2. starts \in 1..NumStarts
    BY <2>1, Assumption DEF AppInv, Started, TypeOK
  <2>3. pc'[starts]["rtp_send"] = "test" /\ pc'[starts]["jbuf_recv"] = pc[starts]["jbuf_recv"]
    BY <1>0, <2>1, <2>2 DEF TypeOK
  <2>4. QED
    BY <2>1, <2>3 DEF ThreadsRun, Running
<1>3. CASE vid_stream_create
  BY <1>3 DEF vid_stream_create, transport_udp_create, ThreadsRun
<1>4. CASE vid_port_stop \/ transport_udp_stop \/ CloseSockets \/ FreeTransport \/ FreeRing
  BY <1>4 DEF vid_port_stop, transport_udp_stop, CloseSockets, FreeTransport, FreeRing,
     ThreadsRun
<1>5. QED
  BY <1>1, <1>2, <1>3, <1>4 DEF App

\* What a step of thread <<n, k>> does to the places of all threads.
LEMMA PlacesAfter ==
  ASSUME TypeOK, NEW n \in 1..NumStarts, NEW k \in Threads, NEW to, NEW p,
         ThreadStep(n, k, to, p)
  PROVE  /\ pc'[n][k] = to /\ held'[n][k] = p
         /\ \A m \in 1..NumStarts, j \in Threads :
              m # n \/ j # k => pc'[m][j] = pc[m][j] /\ held'[m][j] = held[m][j]
BY DEF ThreadStep, TypeOK

LEMMA ThreadsRunStep ==
  ASSUME TypeOK, AppInv, ThreadsRun, NEW n \in 1..NumStarts, NEW k \in Threads,
         NEW to, NEW p, ThreadStep(n, k, to, p), to # "none",
         to = "ended" =>
           \/ k \notin {"rtp_send", "jbuf_recv"}
           \/ k = "rtp_send" /\ (quit[k] \/ transport = "closed")
           \/ k = "jbuf_recv" /\ jbufQuit
  PROVE  ThreadsRun'
<1>1. "rtp_send" \in Workers /\ {"rtp_send", "jbuf_recv"} \subseteq Threads
  BY DEF Threads, Workers
<1>2. UNCHANGED <<appPc, quit, transport, jbufQuit, starts>>
  BY DEF ThreadStep, appVars
<1>3. appPc \in {"starting", "running"} => starts \in 1..NumStarts
  BY Assumption DEF AppInv, Started, TypeOK
<1>4. ASSUME appPc = "running" PROVE pc'[starts]["rtp_send"] \notin {"none", "ended"}
  <2>1. ~quit["rtp_send"] /\ transport = "open"
    BY <1>1, <1>4 DEF AppInv, Started
  <2>2. pc[starts]["rtp_send"] \notin {"none", "ended"}
    BY <1>4 DEF ThreadsRun, Running
  <2>3. QED
    BY <1>1, <1>3, <1>4, <2>1, <2>2, PlacesAfter
<1>5. ASSUME appPc \in {"starting", "running"}, ~jbufQuit
      PROVE  pc'[starts]["jbuf_recv"] \notin {"none", "ended"}
  <2>1. pc[starts]["jbuf_recv"] \notin {"none", "ended"}
    BY <1>5 DEF ThreadsRun, Running
  <2>2. QED
    BY <1>1, <1>3, <1>5, <2>1, PlacesAfter
<1>6. QED
  BY <1>2, <1>4, <1>5 DEF ThreadsRun, Running

-----------------------------------------------------------------------------
(***************************************************************************)
(* What waiting is good for: only the threads of the last start run.       *)
(***************************************************************************)

\* Everything that holds in every reachable state when the application waits.
WaitInv ==
  /\ TypeOK /\ AppInv /\ ThreadsRun /\ OnlyLastStart /\ InHand
  /\ stray \subseteq (IF cutOff THEN {"decoder"} ELSE {})

\* Before it creates, starts or closes anything the application has waited until
\* nothing runs: after a stop all threads of the stream have been told.
LEMMA NothingRuns ==
  ASSUME Waits, TypeOK, AppInv, OnlyLastStart, Ready,
         appPc \in {"none", "failed", "created", "stopped"}
  PROVE  \A n \in 1..NumStarts, k \in Threads : ~Running(n, k)
<1> SUFFICES ASSUME NEW n \in 1..NumStarts, NEW k \in Threads, Running(n, k) PROVE FALSE
  OBVIOUS
<1>1. n = starts /\ appPc = "stopped"
  BY DEF OnlyLastStart, Started
<1>2. of[n] = stream /\ jbufQuit /\ \A j \in Workers : quit[j]
  BY <1>1 DEF AppInv, Started
<1>3. Told(n, k)
  BY <1>2 DEF Told, Threads
<1>4. QED
  BY <1>3 DEF Ready

LEMMA OnlyLastStartApp ==
  ASSUME Waits, TypeOK, AppInv, OnlyLastStart, App
  PROVE  OnlyLastStart'
<1> USE DEF threadVars, historyVars
<1>0. "jbuf_recv" \in Threads /\ "jbuf_recv" \notin Workers
  BY DEF Threads, Workers
<1>1. CASE vid_port_start
  <2>1. \A n \in 1..NumStarts, k \in Threads : pc[n][k] \in {"none", "ended"}
    BY <1>1, NothingRuns DEF vid_port_start, Running
  <2>2. /\ starts' \in 1..NumStarts /\ appPc' = "starting"
        /\ pc' = [pc EXCEPT ![starts']["jbuf_recv"] = "test"]
    BY <1>1, StartsGrow DEF vid_port_start
  <2>3. \A n \in 1..NumStarts, k \in Threads :
          n # starts' \/ k # "jbuf_recv" => pc'[n][k] = pc[n][k]
    BY <2>2 DEF TypeOK
  <2>4. QED
    BY <1>0, <2>1, <2>2, <2>3 DEF OnlyLastStart, Running, Started
<1>2. CASE transport_udp_start
  <2>1. /\ appPc = "starting" /\ appPc' = "running" /\ starts' = starts
        /\ pc' = [pc EXCEPT ![starts] = [k \in Threads |-> IF k \in Workers THEN "test" ELSE pc[starts][k]]]
    BY <1>2 DEF transport_udp_start
  <2>2. \A n \in 1..NumStarts : n # starts => pc'[n] = pc[n]
    BY <2>1 DEF TypeOK
  <2>3. QED
    BY <2>1, <2>2 DEF OnlyLastStart, Running, Started
<1>3. CASE vid_stream_create
  <2>1. \A n \in 1..NumStarts, k \in Threads : ~Running(n, k)
    BY <1>3, NothingRuns DEF vid_stream_create
  <2>2. pc' = pc
    BY <1>3 DEF vid_stream_create
  <2>3. QED
    BY <2>1, <2>2 DEF OnlyLastStart, Running
<1>4. CASE vid_port_stop \/ transport_udp_stop
  BY <1>4 DEF vid_port_stop, transport_udp_stop, OnlyLastStart, Running, Started
<1>5. CASE CloseSockets
  <2>1. \A n \in 1..NumStarts, k \in Threads : ~Running(n, k)
    BY <1>5, NothingRuns DEF CloseSockets
  <2>2. pc' = pc
    BY <1>5 DEF CloseSockets
  <2>3. QED
    BY <2>1, <2>2 DEF OnlyLastStart, Running
<1>6. CASE FreeTransport \/ FreeRing
  BY <1>6 DEF FreeTransport, FreeRing, OnlyLastStart, Running, Started
<1>7. QED
  BY <1>1, <1>2, <1>3, <1>4, <1>5, <1>6 DEF App

LEMMA InHandApp ==
  ASSUME Waits, TypeOK, AppInv, OnlyLastStart, InHand, App
  PROVE  InHand'
<1> USE DEF threadVars, historyVars
<1>0. {"rtp_recv", "jbuf_recv"} \subseteq Threads /\ "jbuf_recv" \notin Workers
  BY DEF Threads, Workers
<1>1. CASE vid_port_start
  <2>1. \A n \in 1..NumStarts, k \in Threads : pc[n][k] \in {"none", "ended"}
    BY <1>1, NothingRuns DEF vid_port_start, Running
  <2>2. /\ starts' \in 1..NumStarts
        /\ pc' = [pc EXCEPT ![starts']["jbuf_recv"] = "test"]
    BY <1>1, StartsGrow DEF vid_port_start
  <2>3. \A n \in 1..NumStarts, k \in Threads : pc'[n][k] \in {"none", "ended", "test"}
    BY <2>1, <2>2 DEF TypeOK
  <2>4. QED
    BY <1>0, <2>3 DEF InHand
<1>2. CASE transport_udp_start
  <2>1. /\ UNCHANGED <<stream, decoder, cutOff, held, starts>>
        /\ pc' = [pc EXCEPT ![starts] = [k \in Threads |-> IF k \in Workers THEN "test" ELSE pc[starts][k]]]
    BY <1>2 DEF transport_udp_start
  <2>2. \A n \in 1..NumStarts, k \in Threads : pc'[n][k] \in {"test", pc[n][k]}
    BY <2>1 DEF TypeOK
  <2>3. QED
    BY <1>0, <2>1, <2>2 DEF InHand
<1>3. CASE vid_stream_create
  <2>1. \A n \in 1..NumStarts, k \in Threads : pc[n][k] \in {"none", "ended"}
    BY <1>3, NothingRuns DEF vid_stream_create, Running
  <2>2. pc' = pc
    BY <1>3 DEF vid_stream_create
  <2>3. QED
    BY <1>0, <2>1, <2>2 DEF InHand
<1>4. CASE vid_port_stop
  <2>1. UNCHANGED <<pc, held, stream>> /\ (Rendering => cutOff') /\ (cutOff => cutOff')
    BY <1>4 DEF vid_port_stop
  <2>2. QED
    BY <2>1 DEF InHand, Rendering
<1>5. CASE transport_udp_stop \/ CloseSockets \/ FreeTransport \/ FreeRing
  BY <1>5 DEF transport_udp_stop, CloseSockets, FreeTransport, FreeRing, InHand
<1>6. QED
  BY <1>1, <1>2, <1>3, <1>4, <1>5 DEF App

\* A running thread is of the stream that is there, whose transport is open and
\* whose ring buffer is in place.
LEMMA RunningHasAll ==
  ASSUME TypeOK, AppInv, OnlyLastStart, NEW n \in 1..NumStarts, NEW k \in Threads,
         Running(n, k)
  PROVE  /\ n = starts /\ Started /\ transport = "open" /\ ringbuf = stream
         /\ stream > 0 /\ ~Gone(n)
         /\ k \in Workers => appPc # "starting"
BY DEF OnlyLastStart, AppInv, Started, TypeOK, Gone

LEMMA OnlyLastStartStep ==
  ASSUME TypeOK, OnlyLastStart, NEW n \in 1..NumStarts, NEW k \in Threads,
         NEW to, NEW p, ThreadStep(n, k, to, p)
  PROVE  OnlyLastStart'
<1>1. UNCHANGED <<appPc, starts>> /\ Running(n, k)
  BY DEF ThreadStep, appVars
<1>2. \A m \in 1..NumStarts, j \in Threads :
        pc'[m][j] \notin {"none", "ended"} => Running(m, j)
  BY <1>1, PlacesAfter DEF Running
<1>3. QED
  BY <1>1, <1>2 DEF OnlyLastStart, Running, Started

\* The steps of the workers use nothing that is gone, and keep InHand.
LEMMA WorkerSafe ==
  ASSUME WaitInv, NEW n \in 1..NumStarts, NEW k \in Workers, Worker(n, k)
  PROVE  stray' = stray /\ InHand'
<1>0. k \in Threads /\ {"rtp_recv", "jbuf_recv"} \subseteq Threads /\ k # "jbuf_recv"
  BY DEF Threads, Workers
<1>1. TypeOK /\ AppInv /\ OnlyLastStart /\ InHand
  BY DEF WaitInv
<1>2. Running(n, k)
  BY <1>1, WorkerSteps DEF ThreadStep
<1>3. transport = "open" /\ ringbuf = stream /\ stream > 0 /\ ~Gone(n)
  BY <1>0, <1>1, <1>2, RunningHasAll
<1>4. ASSUME NEW to, NEW p, ThreadStep(n, k, to, p), to # "write" \/ p = stream
      PROVE  InHand'
  <2>1. UNCHANGED <<stream, decoder, cutOff>>
    BY <1>4 DEF ThreadStep, appVars
  <2>2. \A m \in 1..NumStarts :
          pc'[m]["jbuf_recv"] = pc[m]["jbuf_recv"] /\ held'[m]["jbuf_recv"] = held[m]["jbuf_recv"]
    BY <1>0, <1>1, <1>4, PlacesAfter
  <2>3. \A m \in 1..NumStarts :
          \/ pc'[m]["rtp_recv"] = to /\ held'[m]["rtp_recv"] = p
          \/ pc'[m]["rtp_recv"] = pc[m]["rtp_recv"] /\ held'[m]["rtp_recv"] = held[m]["rtp_recv"]
    BY <1>0, <1>1, <1>4, PlacesAfter
  <2>4. QED
    BY <1>1, <1>4, <2>1, <2>2, <2>3 DEF InHand
<1>5. InHand'
  BY <1>1, <1>3, <1>4, WorkerSteps
<1>6. CASE TestWorker(n, k) \/ Work(n, k) \/ SocketEnds(n, k) \/ Receive(n)
  BY <1>3, <1>5, <1>6 DEF TestWorker, Work, SocketEnds, Receive, Uses
<1>7. CASE Write(n)
  <2>1. held[n].rtp_recv = stream
    BY <1>1, <1>7 DEF Write, InHand
  <2>2. QED
    BY <1>3, <1>5, <1>7, <2>1 DEF Write, Uses
<1>8. QED
  BY <1>6, <1>7 DEF Worker

\* Nor do those of the player, but for a decoder that a stop has freed.
LEMMA PlayerSafe ==
  ASSUME WaitInv, NEW n \in 1..NumStarts, Player(n)
  PROVE  stray' \subseteq (IF cutOff THEN {"decoder"} ELSE {}) /\ InHand'
<1>0. {"rtp_recv", "jbuf_recv"} \subseteq Threads
  BY DEF Threads, Workers
<1>1. TypeOK /\ AppInv /\ OnlyLastStart /\ InHand
  BY DEF WaitInv
<1>2. Running(n, "jbuf_recv")
  BY <1>1, PlayerSteps DEF ThreadStep
<1>3. ringbuf = stream /\ stream > 0
  BY <1>0, <1>1, <1>2, RunningHasAll
<1>4. ASSUME NEW to, NEW p, ThreadStep(n, "jbuf_recv", to, p),
             to # "read" \/ p = stream, to # "render" \/ p = decoder
      PROVE  InHand'
  <2>1. UNCHANGED <<stream, decoder, cutOff>>
    BY <1>4 DEF ThreadStep, appVars
  <2>2. \A m \in 1..NumStarts :
          pc'[m]["rtp_recv"] = pc[m]["rtp_recv"] /\ held'[m]["rtp_recv"] = held[m]["rtp_recv"]
    BY <1>0, <1>1, <1>4, PlacesAfter
  <2>3. \A m \in 1..NumStarts :
          \/ pc'[m]["jbuf_recv"] = to /\ held'[m]["jbuf_recv"] = p
          \/ pc'[m]["jbuf_recv"] = pc[m]["jbuf_recv"] /\ held'[m]["jbuf_recv"] = held[m]["jbuf_recv"]
    BY <1>0, <1>1, <1>4, PlacesAfter
  <2>4. QED
    BY <1>1, <1>4, <2>1, <2>2, <2>3 DEF InHand
<1>5. InHand'
  <2>1. ASSUME NEW to, NEW p, ThreadStep(n, "jbuf_recv", to, p), to \in {"test", "work", "ended"}
        PROVE  InHand'
    BY <1>4, <2>1
  <2>2. ASSUME ThreadStep(n, "jbuf_recv", "read", stream) PROVE InHand'
    BY <1>4, <2>2
  <2>3. ASSUME ThreadStep(n, "jbuf_recv", "render", decoder) PROVE InHand'
    BY <1>4, <2>3
  <2>4. ringbuf # 0
    BY <1>1, <1>3 DEF TypeOK
  <2>5. QED
    BY <1>1, <1>3, <2>1, <2>2, <2>3, <2>4, PlayerSteps
<1>6. CASE TestPlayer(n) \/ Look(n)
  BY <1>5, <1>6 DEF TestPlayer, Look, historyVars, WaitInv
<1>7. CASE Read(n)
  <2>1. held[n].jbuf_recv = stream
    BY <1>1, <1>7 DEF Read, InHand
  <2>2. QED
    BY <1>3, <1>5, <1>7, <2>1 DEF Read, Uses, WaitInv
<1>8. CASE Render(n)
  <2>1. cutOff \/ held[n].jbuf_recv = decoder
    BY <1>1, <1>8 DEF Render, InHand
  <2>2. QED
    BY <1>5, <1>8, <2>1 DEF Render, Uses, WaitInv
<1>9. QED
  BY <1>6, <1>7, <1>8 DEF Player

-----------------------------------------------------------------------------
(***************************************************************************)
(* The theorems.                                                           *)
(***************************************************************************)

\* What holds whether the application waits or not.
AlwaysInv == TypeOK /\ AppInv /\ ThreadsRun

LEMMA AlwaysThread ==
  ASSUME AlwaysInv, NEW n \in 1..NumStarts, (\E k \in Workers : Worker(n, k)) \/ Player(n)
  PROVE  AppInv' /\ ThreadsRun'
<1>1. TypeOK /\ AppInv /\ ThreadsRun
  BY DEF AlwaysInv
<1>2. CASE \E k \in Workers : Worker(n, k)
  <2>1. PICK k \in Workers : Worker(n, k)
    BY <1>2
  <2>2. k \in Threads /\ k # "jbuf_recv"
    BY DEF Threads, Workers
  <2>3. ASSUME NEW to, NEW p, ThreadStep(n, k, to, p), to # "none",
               to = "ended" => k # "rtp_send" \/ quit[k] \/ transport = "closed"
        PROVE  AppInv' /\ ThreadsRun'
    <3>1. ThreadsRun'
      BY <1>1, <2>2, <2>3, ThreadsRunStep
    <3>2. AppInv'
      BY <1>1, <2>3, AppInvThread DEF ThreadStep
    <3>3. QED
      BY <3>1, <3>2
  <2>4. ASSUME NEW to \in {"test", "work", "write"}, NEW p, ThreadStep(n, k, to, p)
        PROVE  AppInv' /\ ThreadsRun'
    BY <2>3, <2>4
  <2>5. ASSUME NEW p, ThreadStep(n, k, "ended", p),
               k # "rtp_send" \/ quit[k] \/ transport = "closed"
        PROVE  AppInv' /\ ThreadsRun'
    BY <2>3, <2>5
  <2>6. QED
    BY <1>1, <2>1, <2>4, <2>5, WorkerSteps
<1>3. CASE Player(n)
  <2>1. "jbuf_recv" \in Threads
    BY DEF Threads
  <2>2. ASSUME NEW to, NEW p, ThreadStep(n, "jbuf_recv", to, p), to # "none",
               to = "ended" => jbufQuit
        PROVE  AppInv' /\ ThreadsRun'
    <3>1. ThreadsRun'
      BY <1>1, <2>1, <2>2, ThreadsRunStep
    <3>2. AppInv'
      BY <1>1, <2>2, AppInvThread DEF ThreadStep
    <3>3. QED
      BY <3>1, <3>2
  <2>3. ASSUME NEW to \in {"test", "work", "read", "render"}, NEW p,
               ThreadStep(n, "jbuf_recv", to, p)
        PROVE  AppInv' /\ ThreadsRun'
    BY <2>2, <2>3
  <2>4. ASSUME NEW p, ThreadStep(n, "jbuf_recv", "ended", p), jbufQuit
        PROVE  AppInv' /\ ThreadsRun'
    BY <2>2, <2>4
  <2>5. QED
    BY <1>1, <1>3, <2>3, <2>4, PlayerSteps
<1>4. QED
  BY <1>2, <1>3

LEMMA AlwaysStep == AlwaysInv /\ [Next]_vars => AlwaysInv'
<1> SUFFICES ASSUME AlwaysInv, [Next]_vars PROVE AlwaysInv'
  OBVIOUS
<1>1. TypeOK'
  BY TypeStep DEF AlwaysInv
<1>2. CASE UNCHANGED vars
  <2>1. UNCHANGED <<appPc, appVars, pc>>
    BY <1>2 DEF vars, threadVars
  <2>2. AppInv'
    BY <2>1, AppInvThread DEF AlwaysInv
  <2>3. ThreadsRun'
    BY <2>1 DEF AlwaysInv, ThreadsRun, Running, appVars
  <2>4. QED
    BY <1>1, <2>2, <2>3 DEF AlwaysInv
<1>3. CASE App
  BY <1>1, <1>3, AppInvApp, ThreadsRunApp DEF AlwaysInv
<1>4. CASE \E n \in 1..NumStarts : (\E k \in Workers : Worker(n, k)) \/ Player(n)
  BY <1>1, <1>4, AlwaysThread DEF AlwaysInv
<1>5. QED
  BY <1>2, <1>3, <1>4 DEF Next

LEMMA AlwaysInit == Init => AlwaysInv
<1> SUFFICES ASSUME Init PROVE AlwaysInv
  OBVIOUS
<1>1. ThreadsRun
  BY DEF Init, ThreadsRun
<1>2. QED
  BY <1>1, TypeInit, AppInvInit DEF AlwaysInv

\* When the application waits.
LEMMA WaitInit == Waits /\ Init => WaitInv
<1> SUFFICES ASSUME Waits, Init PROVE WaitInv
  OBVIOUS
<1>1. \A n \in 1..NumStarts, k \in Threads : pc[n][k] = "none"
  BY DEF Init
<1>2. OnlyLastStart
  BY <1>1 DEF OnlyLastStart, Running
<1>3. InHand
  BY <1>1 DEF InHand, Threads, Workers
<1>4. stray = {}
  BY DEF Init
<1>5. QED
  BY <1>2, <1>3, <1>4, AlwaysInit DEF WaitInv, AlwaysInv

LEMMA WaitStep == Waits /\ WaitInv /\ [Next]_vars => WaitInv'
<1> SUFFICES ASSUME Waits, WaitInv, [Next]_vars PROVE WaitInv'
  OBVIOUS
<1>1. TypeOK' /\ AppInv' /\ ThreadsRun'
  BY AlwaysStep DEF WaitInv, AlwaysInv
<1>2. CASE UNCHANGED vars
  <2>1. UNCHANGED <<appPc, stream, decoder, starts, pc, held, stray, cutOff>>
    BY <1>2 DEF vars, appVars, threadVars, historyVars
  <2>2. QED
    BY <1>1, <2>1 DEF WaitInv, OnlyLastStart, Running, Started, InHand
<1>3. CASE App
  <2>1. OnlyLastStart' /\ InHand'
    BY <1>3, OnlyLastStartApp, InHandApp DEF WaitInv
  <2>2. stray' = stray /\ (cutOff => cutOff')
    <3>1. CASE vid_port_stop
      BY <3>1 DEF vid_port_stop
    <3>2. CASE vid_stream_create \/ vid_port_start \/ transport_udp_start \/ transport_udp_stop
      BY <3>2 DEF vid_stream_create, vid_port_start, transport_udp_start, transport_udp_stop,
         historyVars
    <3>3. CASE CloseSockets \/ FreeTransport \/ FreeRing
      BY <3>3 DEF CloseSockets, FreeTransport, FreeRing, historyVars
    <3>4. QED
      BY <1>3, <3>1, <3>2, <3>3 DEF App
  <2>3. QED
    BY <1>1, <2>1, <2>2 DEF WaitInv
<1>4. CASE \E n \in 1..NumStarts : (\E k \in Workers : Worker(n, k)) \/ Player(n)
  <2>1. PICK n \in 1..NumStarts : (\E k \in Workers : Worker(n, k)) \/ Player(n)
    BY <1>4
  <2>2. InHand' /\ stray' \subseteq (IF cutOff THEN {"decoder"} ELSE {})
    BY <2>1, WorkerSafe, PlayerSafe DEF WaitInv
  <2>3. TypeOK /\ OnlyLastStart
    BY DEF WaitInv
  <2>4. ASSUME NEW k \in Threads, NEW to, NEW p, ThreadStep(n, k, to, p)
        PROVE  OnlyLastStart' /\ cutOff' = cutOff
    BY <2>3, <2>4, OnlyLastStartStep DEF ThreadStep
  <2>5. CASE \E k \in Workers : Worker(n, k)
    <3>1. PICK k \in Workers : Worker(n, k)
      BY <2>5
    <3>2. k \in Threads
      BY DEF Threads
    <3>3. OnlyLastStart' /\ cutOff' = cutOff
      BY <2>3, <2>4, <3>1, <3>2, WorkerSteps
    <3>4. QED
      BY <1>1, <2>2, <3>3 DEF WaitInv
  <2>6. CASE Player(n)
    <3>1. "jbuf_recv" \in Threads
      BY DEF Threads
    <3>2. OnlyLastStart' /\ cutOff' = cutOff
      BY <2>3, <2>4, <2>6, <3>1, PlayerSteps
    <3>3. QED
      BY <1>1, <2>2, <3>2 DEF WaitInv
  <2>7. QED
    BY <2>1, <2>5, <2>6
<1>5. QED
  BY <1>2, <1>3, <1>4 DEF Next

\* However often streams are created, started, stopped and destroyed: what the calls
\* leave behind, and if the application waits, that nothing of an earlier start runs
\* and the threads hold no pointer of an earlier stream.
THEOREM LifeInvHolds == Spec => []LifeInv
<1>1. CASE Waits
  <2>1. Init => WaitInv
    BY <1>1, WaitInit
  <2>2. WaitInv /\ [Next]_vars => WaitInv'
    BY <1>1, WaitStep
  <2>3. WaitInv => LifeInv
    BY DEF WaitInv, LifeInv
  <2>4. QED
    BY <2>1, <2>2, <2>3, PTL DEF Spec
<1>2. CASE ~Waits
  <2>1. AlwaysInv => LifeInv
    BY <1>2 DEF AlwaysInv, LifeInv
  <2>2. QED
    BY AlwaysInit, AlwaysStep, <2>1, PTL DEF Spec
<1>3. QED
  BY <1>1, <1>2

\* An application that waits for the threads it has told to quit sees none of them use
\* a transport or ring buffer that was freed; the decoder only when a stop came
\* between read and render.
THEOREM NothingFreedUsed ==
  ASSUME Waits
  PROVE  Spec => []NoStrayUse
<1>1. Init => WaitInv
  BY WaitInit
<1>2. WaitInv /\ [Next]_vars => WaitInv'
  BY WaitStep
<1>3. WaitInv => NoStrayUse
  BY DEF WaitInv, NoStrayUse
<1>4. QED
  BY <1>1, <1>2, <1>3, PTL DEF Spec

\* And there is never more than one thread of a kind.
THEOREM NeverTwoOfAKind ==
  ASSUME Waits
  PROVE  Spec => []OneOfEach
<1>1. Init => WaitInv
  BY WaitInit
<1>2. WaitInv /\ [Next]_vars => WaitInv'
  BY WaitStep
<1>3. WaitInv => OneOfEach
  <2> SUFFICES ASSUME WaitInv, NEW k \in Threads
               PROVE  Cardinality({n \in 1..NumStarts : Running(n, k)}) <= 1
    BY DEF OneOfEach
  <2>1. {n \in 1..NumStarts : Running(n, k)} \subseteq {starts}
    BY DEF WaitInv, OnlyLastStart
  <2>2. IsFiniteSet({starts}) /\ Cardinality({starts}) = 1
    BY FS_Singleton
  <2>3. Cardinality({n \in 1..NumStarts : Running(n, k)}) <= Cardinality({starts})
    BY <2>1, <2>2, FS_Subset
  <2>4. QED
    BY <2>2, <2>3
<1>4. QED
  BY <1>1, <1>2, <1>3, PTL DEF Spec

\* The first start of every stream brings up a sender and a player, even for an
\* application that waits for nothing.
THEOREM StartBringsUp == Spec => []RunsWhenStarted
<1>1. AlwaysInv => RunsWhenStarted
  <2> SUFFICES ASSUME AlwaysInv, appPc = "running"
               PROVE  /\ Running(starts, "rtp_send")
                      /\ (\A n \in 1..(starts - 1) : of[n] # stream)
                            => Running(starts, "jbuf_recv")
    BY DEF RunsWhenStarted
  <2>1. Running(starts, "rtp_send")
    BY DEF AlwaysInv, ThreadsRun
  <2>2. ASSUME jbufQuit PROVE \E n \in 1..(starts - 1) : of[n] = stream
    <3>1. PICK n \in 1..starts : of[n] = stream /\ n < starts
      BY <2>2 DEF AlwaysInv, AppInv
    <3>2. starts \in Nat
      BY Assumption DEF AlwaysInv, TypeOK
    <3>3. n \in 1..(starts - 1)
      BY <3>1, <3>2
    <3>4. QED
      BY <3>1, <3>3
  <2>3. QED
    BY <2>1, <2>2 DEF AlwaysInv, ThreadsRun
<1>2. QED
  BY <1>1, AlwaysInit, AlwaysStep, PTL DEF Spec
=============================================================================

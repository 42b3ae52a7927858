------------------------------ MODULE SendFifo ------------------------------
(***************************************************************************)
(* What the send queue of packed/packets_list.c promises transport_udp.c:  *)
(* a FIFO of RTP packets.  A packet is appended, it is handed to sendto    *)
(* when it has become the head, and it leaves after that; an overflowing   *)
(* queue may also lose a prefix.  Nothing is reordered, duplicated or      *)
(* taken out of the middle.                                                *)
(*                                                                         *)
(* The promise is void once `ok` is FALSE: the implementation has ways of  *)
(* damaging its list (see SendQueue), and from then on nothing is said.    *)
(***************************************************************************)
EXTENDS Integers, Sequences

CONSTANT Packet      \* the packets, records with an id; ids grow as they are made

VARIABLES
  queue,             \* the packets still queued, the oldest first
  tried,             \* ids of the packets that were handed to sendto
  ok                 \* FALSE once the queue is damaged

fifoVars == <<queue, tried, ok>>

Init ==
  /\ queue = <<>>
  /\ tried = {}
  /\ ok = TRUE

\* A packet newer than all that were tried or are queued joins the end.
Put ==
  /\ \E p \in Packet :
       /\ \A id \in tried : id < p.id
       /\ \A i \in DOMAIN queue : queue[i].id < p.id
       /\ queue' = Append(queue, p)
  /\ UNCHANGED <<tried, ok>>

\* The head, and only the head, is handed to sendto, once.
Try ==
  /\ queue # <<>>
  /\ Head(queue).id \notin tried
  /\ tried' = tried \cup {Head(queue).id}
  /\ UNCHANGED <<queue, ok>>

\* The head leaves after it was handed to sendto.
Take ==
  /\ queue # <<>>
  /\ Head(queue).id \in tried
  /\ queue' = Tail(queue)
  /\ UNCHANGED <<tried, ok>>

\* An overflowing queue loses a prefix.
Drop ==
  /\ \E n \in 1..Len(queue) : queue' = SubSeq(queue, n + 1, Len(queue))
  /\ UNCHANGED <<tried, ok>>

Damage == ok' = FALSE

Next ==
  \/ ok /\ (Put \/ Try \/ Take \/ Drop)
  \/ Damage

Spec == Init /\ [][Next]_fifoVars
=============================================================================

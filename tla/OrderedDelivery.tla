--------------------------- MODULE OrderedDelivery ---------------------------
(***************************************************************************)
(* What the jitter buffer of packed/jitter_buffer.c promises the thread    *)
(* that assembles frames: place by place, in the order in which the packets *)
(* were made, it hands over the packet of each place, if it has arrived.   *)
(* A place is given up only when a newer packet has arrived; what is handed *)
(* over there is no new packet but, once more, the newest one of an earlier *)
(* round through the slots that had the same slot, if there is one.        *)
(*                                                                         *)
(* The promise is void once `ok` is FALSE (see JitterBuffer's damage).     *)
(***************************************************************************)
EXTENDS Integers, Sequences

CONSTANT Slots   \* the places of one round

VARIABLES
  arrived,   \* the packets that arrived, by number
  pos,       \* the next place
  handed,    \* what was handed over, place by place, or Nothing
  ok         \* FALSE once the buffer is damaged

deliveryVars == <<arrived, pos, handed, ok>>

Nothing == -1

Init == arrived = {} /\ pos = 0 /\ handed = <<>> /\ ok = TRUE

\* A packet arrives, in any order, but not when its turn is over.
Arrive ==
  /\ \E n \in arrived' : n >= pos /\ n \notin arrived /\ arrived' = arrived \cup {n}
  /\ UNCHANGED <<pos, handed, ok>>

\* Of the packets got, those of earlier rounds that have the slot of place n.
Older(got, n) == {k \in got : k < n /\ k % Slots = n % Slots}

\* m is what such packets have left in the slot of place n: the newest of them.
IsLeftover(got, m, n) ==
  IF Older(got, n) = {} THEN m = Nothing
  ELSE m \in Older(got, n) /\ \A k \in Older(got, n) : k <= m

\* The next packet has arrived and is handed over.
Hand ==
  /\ pos \in arrived
  /\ handed' = Append(handed, pos)
  /\ pos' = pos + 1
  /\ UNCHANGED <<arrived, ok>>

\* The next packet is given up, having been overtaken, and an old one is handed over
\* again in its place.
Replay ==
  /\ pos \notin arrived
  /\ \E n \in arrived : n > pos
  /\ \E m \in {Nothing} \cup arrived : IsLeftover(arrived, m, pos) /\ handed' = Append(handed, m)
  /\ pos' = pos + 1
  /\ UNCHANGED <<arrived, ok>>

Damage == ok' = FALSE

Next ==
  \/ ok /\ (Arrive \/ Hand \/ Replay)
  \/ Damage

Spec == Init /\ [][Next]_deliveryVars
=============================================================================

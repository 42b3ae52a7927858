------------------------------- MODULE Addresses -------------------------------
(***************************************************************************)
(* Where two streams of transport_udp.c send to.  Each has an address for  *)
(* RTP and one for RTCP, rem_rtp_addr and rem_rtcp_addr: the start of the  *)
(* stream sets them, and every recvfrom of a receiving worker writes the    *)
(* sender's over them, without a lock, while another thread may read them   *)
(* for a sendto.  An endpoint that only plays is started with its own      *)
(* address for the remote one (startRecvRender, stream_recv_test).          *)
(*                                                                         *)
(* The network delays, reorders and loses datagrams, and the address of an *)
(* endpoint may change under way, as behind a NAT.  What is sent and when a *)
(* NACK is due is SendQueue's and JitterBuffer's matter: here both happen   *)
(* at any time.                                                            *)
(***************************************************************************)
EXTENDS Integers, FiniteSets

CONSTANTS
  Players,     \* endpoints that may be started with their own address, to play only
  Movers,      \* endpoints whose address changes once
  MaxInFlight  \* bound: datagrams in the network

Endpoint == {1, 2}
Peer(e) == 3 - e
Kind == {"rtp", "rtcp"}

ASSUME Assumption ==
  Players \subseteq Endpoint /\ Movers \subseteq Endpoint /\ MaxInFlight \in Nat

\* The address of an endpoint before and after it has moved.  A sockaddr is copied
\* in parts.
Place(e, m, k) == [host |-> <<e, m>>, port |-> <<e, m, k>>]
Address ==
  [host : Endpoint \X BOOLEAN, port : Endpoint \X BOOLEAN \X Kind]
NoAddress == [host |-> <<>>, port |-> <<>>]

VARIABLES
  role,      \* endpoint -> what it was started as: "none", "duplex" or "player"
  rem_addr,  \* endpoint -> kind -> rem_rtp_addr or rem_rtcp_addr
  copying,   \* endpoint -> kind -> what recvfrom has written the first part of
  net,       \* datagrams under way
  moved      \* endpoint -> its address has changed

vars == <<role, rem_addr, copying, net, moved>>

Now(e, k) == Place(e, moved[e], k)
-----------------------------------------------------------------------------
\* vid_stream_start's arguments: a player is given its own address for the remote one.
Remote(e, r) == IF r = "player" THEN e ELSE Peer(e)

\* transport_udp_start: the port for RTCP is the one for RTP and 1.
transport_udp_start(e, r) ==
  /\ role[e] = "none" /\ (r = "player" => e \in Players)
  /\ role' = [role EXCEPT ![e] = r]
  /\ rem_addr' = [rem_addr EXCEPT ![e] = [k \in Kind |-> Place(Remote(e, r), FALSE, k)]]
  /\ UNCHANGED <<copying, net, moved>>

\* sendto, with whatever the address is at this moment.  The network may lose any of
\* the datagrams under way.
Sent(e, k) ==
  {n \cup {[from |-> Now(e, k), to |-> rem_addr[e][k]]} : n \in SUBSET net}

worker_rtp_sendto(e) ==
  /\ role[e] = "duplex"
  /\ net' \in Sent(e, "rtp")
  /\ UNCHANGED <<role, rem_addr, copying, moved>>

\* A plausible slip: both workers write the same address, one being a copy of the other.
LearnsRtp(k) == "rtp"

\* Which address the worker for k writes.
Learns(k) == k

\* A plausible slip: the sender's address is not kept.
KeepsOld(old, from) == old

\* What recvfrom makes of it.
Learnt(old, from) == from

\* recvfrom finds a datagram and writes a part of the sender's address.
recvfrom(e, k, m) ==
  /\ role[e] # "none" /\ copying[e][k] = NoAddress
  /\ m \in net /\ m.to = Now(e, k)
  /\ net' = net \ {m}
  /\ LET old == rem_addr[e][Learns(k)]
         new == Learnt(old, m.from)
     IN  /\ \/ rem_addr' = [rem_addr EXCEPT ![e][Learns(k)].host = new.host]
            \/ rem_addr' = [rem_addr EXCEPT ![e][Learns(k)].port = new.port]
         /\ copying' = [copying EXCEPT ![e][k] = new]
  /\ UNCHANGED <<role, moved>>

\* Then the rest, and calls on_rx_rtp, which may send a NACK, or on_rx_rtcp, which
\* logs.
Received(e, k) ==
  /\ copying[e][k] # NoAddress
  /\ rem_addr' = [rem_addr EXCEPT ![e][Learns(k)] = copying[e][k]]
  /\ copying' = [copying EXCEPT ![e][k] = NoAddress]
  /\ \/ k = "rtp" /\ net' \in Sent(e, "rtcp")
     \/ UNCHANGED net
  /\ UNCHANGED <<role, moved>>

Move(e) ==
  /\ e \in Movers /\ ~moved[e]
  /\ moved' = [moved EXCEPT ![e] = TRUE]
  /\ UNCHANGED <<role, rem_addr, copying, net>>
-----------------------------------------------------------------------------
Init ==
  /\ role = [e \in Endpoint |-> "none"]
  /\ rem_addr = [e \in Endpoint |-> [k \in Kind |-> NoAddress]]
  /\ copying = [e \in Endpoint |-> [k \in Kind |-> NoAddress]]
  /\ net = {} /\ moved = [e \in Endpoint |-> FALSE]

Next ==
  /\ \E e \in Endpoint :
       \/ \E r \in {"duplex", "player"} : transport_udp_start(e, r)
       \/ worker_rtp_sendto(e)
       \/ \E k \in Kind : (\E m \in net : recvfrom(e, k, m)) \/ Received(e, k)
       \/ Move(e)
  /\ Cardinality(net') <= MaxInFlight

Spec == Init /\ [][Next]_vars

\* A datagram from where the peer is now.
ReceivesFresh(e) ==
  \E m \in net : m.from = Now(Peer(e), "rtp") /\ recvfrom(e, "rtp", m)

\* The peer sends one while the worker of e waits in select.
SentToWaiting(e) ==
  copying[e]["rtp"] = NoAddress /\ worker_rtp_sendto(Peer(e))

\* The kernel runs every worker; media is sent again and again, and not all of it is
\* lost: some is sent to a worker that waits, and some is received.
FairSpec ==
  /\ Spec
  /\ \A e \in Endpoint :
       /\ WF_vars(Received(e, "rtp") /\ UNCHANGED net)
       /\ SF_vars(SentToWaiting(e) /\ Cardinality(net') <= MaxInFlight)
       /\ SF_vars(ReceivesFresh(e))
-----------------------------------------------------------------------------
(***************************************************************************)
(* Properties.                                                             *)
(***************************************************************************)

\* The types of the variables.
TypeOK ==
  /\ role \in [Endpoint -> {"none", "duplex", "player"}]
  /\ rem_addr \in [Endpoint -> [Kind -> Address \cup {NoAddress}]]
  /\ copying \in [Endpoint -> [Kind -> Address \cup {NoAddress}]]
  /\ net \subseteq [from : Address, to : Address]
  /\ moved \in [Endpoint -> BOOLEAN]

\* What an endpoint that also sends media sends, NACKs among it, goes to the peer's
\* socket for it, never to an address put together of two, as long as the peer has not
\* moved and whatever this endpoint does itself.  The NACKs of a player go to its own
\* socket: it learns where the media comes from, but no RTCP tells it more.
ReachesPeer ==
  TypeOK /\ \A e \in Endpoint, k \in Kind, b \in BOOLEAN :
    role[e] = "duplex" /\ ~moved[Peer(e)] =>
      \A m \in net : m.from = Place(e, b, k) => m.to = Now(Peer(e), k)

\* An endpoint, also a player, whose peer has moved and goes on sending has its new
\* address in the end, whatever is still under way from the old one.  This is for one
\* endpoint that moves, and once (Movers of the run): if both moved before either had heard
\* of it, neither would know where to send, and nothing here would tell them.
FindsMovedPeer ==
  \A e \in Endpoint :
    role[e] # "none" /\ role[Peer(e)] = "duplex" /\ moved[Peer(e)] ~> [](rem_addr[e]["rtp"] = Now(Peer(e), "rtp"))
================================================================================

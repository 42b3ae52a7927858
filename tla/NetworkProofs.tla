---------------------------- MODULE NetworkProofs ----------------------------
(***************************************************************************)
(* Proofs about two parts that live with what a network does: Addresses,   *)
(* for any choice of players and movers and any number of datagrams under  *)
(* way; and JitterBufferOpt, for every number of places, window, width of  *)
(* the sequence numbers and number of packets that its assumption allows.  *)
(***************************************************************************)
EXTENDS Addresses, JitterBufferOpt, NumberLemmas, TLAPS

\* Addresses of a socket for k, also ones put together of two.
AddressFor(k) == [host : Endpoint \X BOOLEAN, port : Endpoint \X BOOLEAN \X {k}]

\* An address endpoint e may have for its peer's socket for k.  It can only be the one
\* the peer had from the beginning as long as that has not moved and e sends media.
MayHave(e, k, a) ==
  /\ a \in AddressFor(k)
  /\ role[e] = "duplex" /\ ~moved[Peer(e)] => a = Place(Peer(e), FALSE, k)

\* An address that some endpoint has or has had for its socket for k.
WasAt(x, k, a) == \E b \in BOOLEAN : a = Place(x, b, k) /\ (b => moved[x])

\* A datagram an endpoint x that was started has sent, to what it had for an address.
Wrote(x, k, m) == role[x] # "none" /\ WasAt(x, k, m.from) /\ MayHave(x, k, m.to)

Roles == role \in [Endpoint -> {"none", "duplex", "player"}] /\ moved \in [Endpoint -> BOOLEAN]

RemoteInv ==
  /\ rem_addr \in [Endpoint -> [Kind -> Address \cup {NoAddress}]]
  /\ \A e \in Endpoint, k \in Kind :
       IF role[e] = "none" THEN rem_addr[e][k] = NoAddress ELSE MayHave(e, k, rem_addr[e][k])

CopyingInv ==
  /\ copying \in [Endpoint -> [Kind -> Address \cup {NoAddress}]]
  /\ \A e \in Endpoint, k \in Kind :
       copying[e][k] # NoAddress =>
         role[e] # "none" /\ MayHave(e, k, copying[e][k])

NetInv == \A m \in net :
  /\ m \in [from : Address, to : Address]
  /\ \E x \in Endpoint, k \in Kind : Wrote(x, k, m)

AddressInv == Roles /\ RemoteInv /\ CopyingInv /\ NetInv
-----------------------------------------------------------------------------
(***************************************************************************)
(* Addresses.                                                              *)
(***************************************************************************)

LEMMA Peers ==
  \A e \in Endpoint : Peer(e) \in Endpoint /\ Peer(e) # e /\ Peer(Peer(e)) = e
                      /\ \A x \in Endpoint : x = e \/ x = Peer(e)
BY DEF Endpoint, Peer

\* The places of the sockets tell endpoint, kind and whether it is the first one.
LEMMA PlacesOf ==
  ASSUME NEW e \in Endpoint, NEW b \in BOOLEAN, NEW k \in Kind
  PROVE  /\ Place(e, b, k) \in AddressFor(k) /\ Place(e, b, k) \in Address
         /\ Place(e, b, k) # NoAddress
         /\ \A x \in Endpoint, c \in BOOLEAN, j \in Kind :
              Place(e, b, k) = Place(x, c, j) => e = x /\ b = c /\ k = j
         /\ \A j \in Kind : Place(e, b, k) \in AddressFor(j) => k = j
<1>1. <<e, b>> # <<>>
  OBVIOUS
<1>2. Place(e, b, k).host = <<e, b>> /\ Place(e, b, k).port = <<e, b, k>>
  BY DEF Place
<1>3. Place(e, b, k) # NoAddress
  BY <1>1, <1>2 DEF NoAddress
<1>4. ASSUME NEW x \in Endpoint, NEW c \in BOOLEAN, NEW j \in Kind, Place(e, b, k) = Place(x, c, j)
      PROVE  e = x /\ b = c /\ k = j
  <2>1. <<e, b, k>> = <<x, c, j>>
    BY <1>2, <1>4 DEF Place
  <2>2. QED
    BY <2>1
<1>5. Place(e, b, k) \in AddressFor(k) /\ Place(e, b, k) \in Address
  BY DEF Place, AddressFor, Address
<1>6. ASSUME NEW j \in Kind, Place(e, b, k) \in AddressFor(j) PROVE k = j
  <2>1. <<e, b, k>> \in Endpoint \X BOOLEAN \X {j}
    BY <1>2, <1>6 DEF AddressFor
  <2>2. QED
    BY <2>1
<1>7. QED
  BY <1>3, <1>4, <1>5, <1>6

LEMMA AddressesFor ==
  \A k \in Kind : \A a \in AddressFor(k) : a \in Address /\ a # NoAddress
<1> SUFFICES ASSUME NEW k \in Kind, NEW a \in AddressFor(k) PROVE a \in Address /\ a # NoAddress
  OBVIOUS
<1>1. a \in Address
  BY DEF AddressFor, Address
<1>2. a.host \in Endpoint \X BOOLEAN
  BY DEF AddressFor
<1>3. a.host # <<>>
  BY <1>2
<1>4. QED
  BY <1>1, <1>3 DEF NoAddress

\* An address of which one part has been written over is one for the same socket.
LEMMA Written ==
  ASSUME NEW k \in Kind, NEW a \in AddressFor(k), NEW new \in AddressFor(k)
  PROVE  /\ [a EXCEPT !.host = new.host] \in AddressFor(k)
         /\ [a EXCEPT !.port = new.port] \in AddressFor(k)
         /\ a = new => /\ [a EXCEPT !.host = new.host] = a
                       /\ [a EXCEPT !.port = new.port] = a
BY DEF AddressFor
-----------------------------------------------------------------------------
(***************************************************************************)
(* The invariant is kept.                                                  *)
(***************************************************************************)

LEMMA AddressInit == Init => AddressInv
<1> SUFFICES ASSUME Init PROVE AddressInv
  OBVIOUS
<1>1. Roles
  BY DEF Init, Roles
<1>2. RemoteInv
  BY DEF Init, RemoteInv
<1>3. CopyingInv
  BY DEF Init, CopyingInv
<1>4. NetInv
  BY DEF Init, NetInv
<1>5. QED
  BY <1>1, <1>2, <1>3, <1>4 DEF AddressInv

\* A datagram stays what it is, whoever starts or moves afterwards.
LEMMA NetKept ==
  ASSUME AddressInv, net' \subseteq net,
         \A e \in Endpoint : role[e] # "none" => role'[e] = role[e],
         \A e \in Endpoint : moved[e] => moved'[e]
  PROVE  NetInv'
<1> SUFFICES ASSUME NEW m \in net'
             PROVE  /\ m \in [from : Address, to : Address]
                    /\ \E x \in Endpoint, k \in Kind :
                         /\ role'[x] # "none"
                         /\ \E b \in BOOLEAN : m.from = Place(x, b, k) /\ (b => moved'[x])
                         /\ m.to \in AddressFor(k)
                         /\ role'[x] = "duplex" /\ ~moved'[Peer(x)] => m.to = Place(Peer(x), FALSE, k)
  BY DEF NetInv, Wrote, WasAt, MayHave
<1>1. m \in net /\ m \in [from : Address, to : Address]
  BY DEF AddressInv, NetInv
<1>2. PICK x \in Endpoint, k \in Kind : Wrote(x, k, m)
  BY <1>1 DEF AddressInv, NetInv
<1>3. Peer(x) \in Endpoint
  BY Peers
<1>4. role'[x] = role[x] /\ role[x] # "none"
  BY <1>2 DEF Wrote
<1>5. \E b \in BOOLEAN : m.from = Place(x, b, k) /\ (b => moved'[x])
  BY <1>2 DEF Wrote, WasAt
<1>6. m.to \in AddressFor(k)
  BY <1>2 DEF Wrote, MayHave
<1>7. role'[x] = "duplex" /\ ~moved'[Peer(x)] => m.to = Place(Peer(x), FALSE, k)
  BY <1>2, <1>3, <1>4 DEF Wrote, MayHave
<1>8. QED
  BY <1>1, <1>4, <1>5, <1>6, <1>7

\* What is sent to what the sender has for an address is a datagram it wrote.
LEMMA NetSent ==
  ASSUME AddressInv, NEW e \in Endpoint, NEW k \in Kind, role[e] # "none",
         net' \in Sent(e, k), UNCHANGED <<role, moved>>
  PROVE  NetInv'
<1> DEFINE s == [from |-> Now(e, k), to |-> rem_addr[e][k]]
<1>1. moved[e] \in BOOLEAN
  BY DEF AddressInv, Roles
<1>2. MayHave(e, k, rem_addr[e][k])
  BY DEF AddressInv, RemoteInv
<1>3. s.from = Place(e, moved[e], k) /\ s.to = rem_addr[e][k]
  BY DEF Now
<1>4. WasAt(e, k, s.from)
  BY <1>1, <1>3 DEF WasAt
<1>5. Wrote(e, k, s)
  BY <1>2, <1>3, <1>4 DEF Wrote
<1>6. s \in [from : Address, to : Address]
  <2>1. Place(e, moved[e], k) \in Address
    BY <1>1, PlacesOf
  <2>2. rem_addr[e][k] \in Address
    BY <1>2, AddressesFor DEF MayHave
  <2>3. QED
    BY <2>1, <2>2 DEF Now
<1> HIDE DEF s
<1>7. \A m \in net' : m \in net \/ m = s
  BY DEF Sent, s
<1>8. \A m \in net' : m \in [from : Address, to : Address]
                    /\ \E x \in Endpoint, j \in Kind : Wrote(x, j, m)
  BY <1>5, <1>6, <1>7 DEF AddressInv, NetInv
<1>9. QED
  <2> SUFFICES ASSUME NEW m \in net'
               PROVE  /\ m \in [from : Address, to : Address]
                      /\ \E x \in Endpoint, j \in Kind :
                           /\ role'[x] # "none"
                           /\ \E b \in BOOLEAN : m.from = Place(x, b, j) /\ (b => moved'[x])
                           /\ m.to \in AddressFor(j)
                           /\ role'[x] = "duplex" /\ ~moved'[Peer(x)] => m.to = Place(Peer(x), FALSE, j)
    BY DEF NetInv, Wrote, WasAt, MayHave
  <2>1. PICK x \in Endpoint, j \in Kind : Wrote(x, j, m)
    BY <1>8
  <2>2. /\ role'[x] # "none"
        /\ \E b \in BOOLEAN : m.from = Place(x, b, j) /\ (b => moved'[x])
        /\ m.to \in AddressFor(j)
        /\ role'[x] = "duplex" /\ ~moved'[Peer(x)] => m.to = Place(Peer(x), FALSE, j)
    BY <2>1 DEF Wrote, WasAt, MayHave
  <2>3. QED
    BY <1>8, <2>2

\* A datagram that reaches the socket of e for k has been sent by its peer if e sends
\* media to a peer that has not moved; whoever sent it, from a socket for k.
LEMMA FoundIsFrom ==
  ASSUME AddressInv, NEW e \in Endpoint, NEW k \in Kind, NEW m \in net, m.to = Now(e, k)
  PROVE  MayHave(e, k, m.from)
<1>1. PICK x \in Endpoint, j \in Kind : Wrote(x, j, m)
  BY DEF AddressInv, NetInv
<1>2. PICK b \in BOOLEAN : m.from = Place(x, b, j) /\ (b => moved[x])
  BY <1>1 DEF Wrote, WasAt
<1>3. moved[e] \in BOOLEAN /\ m.to = Place(e, moved[e], k)
  BY DEF AddressInv, Roles, Now
<1>4. m.to \in AddressFor(j)
  BY <1>1 DEF Wrote, MayHave
<1>5. j = k
  BY <1>3, <1>4, PlacesOf
<1>6. m.from \in AddressFor(k)
  BY <1>2, <1>5, PlacesOf
<1>7. ASSUME role[e] = "duplex", ~moved[Peer(e)]
      PROVE  m.from = Place(Peer(e), FALSE, k)
  <2>1. x # e
    <3>1. SUFFICES ASSUME x = e PROVE FALSE
      OBVIOUS
    <3>2. m.to = Place(Peer(e), FALSE, j)
      BY <1>1, <1>7, <3>1 DEF Wrote, MayHave
    <3>3. Peer(e) \in Endpoint /\ Peer(e) # e /\ FALSE \in BOOLEAN
      BY Peers
    <3>4. PICK c \in BOOLEAN : m.to = Place(e, c, k)
      BY <1>3
    <3>5. PICK d \in BOOLEAN : Place(e, c, k) = Place(Peer(e), d, j)
      BY <3>2, <3>4
    <3>6. e = Peer(e)
      BY <3>3, <3>5, PlacesOf
    <3>7. QED
      BY <3>3, <3>6
  <2>2. x = Peer(e)
    BY <2>1, Peers
  <2>3. b = FALSE
    BY <1>2, <1>7, <2>2
  <2>4. QED
    BY <1>2, <1>5, <2>2, <2>3
<1>8. QED
  BY <1>6, <1>7 DEF MayHave

LEMMA StepStart ==
  ASSUME AddressInv, NEW e \in Endpoint, NEW r \in {"duplex", "player"},
         transport_udp_start(e, r)
  PROVE  AddressInv'
<1> DEFINE a(k) == Place(Remote(e, r), FALSE, k)
<1>1. /\ role' = [role EXCEPT ![e] = r] /\ role[e] = "none"
      /\ rem_addr' = [rem_addr EXCEPT ![e] = [k \in Kind |-> a(k)]]
      /\ UNCHANGED <<copying, net, moved>>
  BY DEF transport_udp_start
<1>2. \A k \in Kind : a(k) \in AddressFor(k) /\ a(k) \in Address
                     /\ (r = "duplex" => a(k) = Place(Peer(e), FALSE, k))
  <2>1. Remote(e, r) \in Endpoint /\ (r = "duplex" => Remote(e, r) = Peer(e))
    BY Peers DEF Remote
  <2>2. \A k \in Kind : a(k) \in AddressFor(k) /\ a(k) \in Address
    BY <2>1, PlacesOf
  <2>3. QED
    BY <2>1, <2>2
<1> HIDE DEF a
<1>3. Roles'
  BY <1>1 DEF AddressInv, Roles
<1>4. role'[e] = r /\ \A x \in Endpoint : x # e => role'[x] = role[x]
  BY <1>1 DEF AddressInv, Roles
<1>5. /\ rem_addr' \in [Endpoint -> [Kind -> Address \cup {NoAddress}]]
      /\ \A k \in Kind : rem_addr'[e][k] = a(k)
      /\ \A x \in Endpoint : x # e => rem_addr'[x] = rem_addr[x]
  <2>1. [k \in Kind |-> a(k)] \in [Kind -> Address \cup {NoAddress}]
    BY <1>2
  <2>2. QED
    BY <1>1, <2>1 DEF AddressInv, RemoteInv
<1>6. RemoteInv'
  <2>1. ASSUME NEW x \in Endpoint, NEW k \in Kind
        PROVE  IF role'[x] = "none" THEN rem_addr'[x][k] = NoAddress
               ELSE /\ rem_addr'[x][k] \in AddressFor(k)
                    /\ role'[x] = "duplex" /\ ~moved'[Peer(x)]
                         => rem_addr'[x][k] = Place(Peer(x), FALSE, k)
    <3>1. CASE x = e
      BY <1>2, <1>4, <1>5, <3>1
    <3>2. CASE x # e
      <4>1. IF role[x] = "none" THEN rem_addr[x][k] = NoAddress
            ELSE /\ rem_addr[x][k] \in AddressFor(k)
                 /\ role[x] = "duplex" /\ ~moved[Peer(x)]
                      => rem_addr[x][k] = Place(Peer(x), FALSE, k)
        BY DEF AddressInv, RemoteInv, MayHave
      <4>2. role'[x] = role[x] /\ rem_addr'[x] = rem_addr[x] /\ moved' = moved
        BY <1>1, <1>4, <1>5, <3>2
      <4>3. QED
        BY <4>1, <4>2
    <3>3. QED
      BY <3>1, <3>2
  <2>2. QED
    BY <1>5, <2>1 DEF RemoteInv, MayHave
<1>7. CopyingInv'
  <2>1. ASSUME NEW x \in Endpoint, NEW k \in Kind, copying[x][k] # NoAddress
        PROVE  /\ role'[x] # "none" /\ copying[x][k] \in AddressFor(k)
               /\ role'[x] = "duplex" /\ ~moved'[Peer(x)]
                    => copying[x][k] = Place(Peer(x), FALSE, k)
    <3>1. role[x] # "none" /\ MayHave(x, k, copying[x][k])
      BY <2>1 DEF AddressInv, CopyingInv
    <3>2. role'[x] = role[x]
      BY <1>1, <1>4, <3>1
    <3>3. QED
      BY <1>1, <3>1, <3>2 DEF MayHave
  <2>2. QED
    BY <1>1, <2>1 DEF AddressInv, CopyingInv, MayHave
<1>8. NetInv'
  BY <1>1, <1>4, NetKept
<1>9. QED
  BY <1>3, <1>6, <1>7, <1>8 DEF AddressInv

LEMMA StepSend ==
  ASSUME AddressInv, NEW e \in Endpoint, worker_rtp_sendto(e)
  PROVE  AddressInv'
<1>1. role[e] = "duplex" /\ net' \in Sent(e, "rtp") /\ UNCHANGED <<role, rem_addr, copying, moved>>
  BY DEF worker_rtp_sendto
<1>2. NetInv'
  BY <1>1, NetSent DEF Kind
<1>3. QED
  BY <1>1, <1>2 DEF AddressInv, Roles, RemoteInv, CopyingInv, MayHave

\* An address is written over in part or in whole by what the endpoint may have.
LEMMA StepWrite ==
  ASSUME AddressInv, NEW e \in Endpoint, NEW k \in Kind, NEW a, role[e] # "none", MayHave(e, k, a),
         UNCHANGED <<role, moved>>, rem_addr' = [rem_addr EXCEPT ![e][k] = a]
  PROVE  RemoteInv'
<1>1. a \in Address
  BY AddressesFor DEF MayHave
<1>2. rem_addr' \in [Endpoint -> [Kind -> Address \cup {NoAddress}]]
  BY <1>1 DEF AddressInv, RemoteInv
<1>3. \A x \in Endpoint, j \in Kind :
        rem_addr'[x][j] = IF x = e /\ j = k THEN a ELSE rem_addr[x][j]
  BY DEF AddressInv, RemoteInv
<1>4. \A x \in Endpoint, j \in Kind :
        IF role[x] = "none" THEN rem_addr'[x][j] = NoAddress ELSE MayHave(x, j, rem_addr'[x][j])
  BY <1>3 DEF AddressInv, RemoteInv
<1>5. QED
  BY <1>2, <1>4 DEF RemoteInv, MayHave

LEMMA StepFind ==
  ASSUME AddressInv, NEW e \in Endpoint, NEW k \in Kind, NEW m \in net, recvfrom(e, k, m)
  PROVE  AddressInv'
<1> DEFINE old == rem_addr[e][k]
           new == m.from
<1>1. /\ role[e] # "none" /\ m.to = Now(e, k) /\ net' = net \ {m} /\ UNCHANGED <<role, moved>>
      /\ \/ rem_addr' = [rem_addr EXCEPT ![e][k] = [old EXCEPT !.host = new.host]]
         \/ rem_addr' = [rem_addr EXCEPT ![e][k] = [old EXCEPT !.port = new.port]]
      /\ copying' = [copying EXCEPT ![e][k] = new]
  BY DEF recvfrom, Learns, Learnt
<1>2. MayHave(e, k, new)
  BY <1>1, FoundIsFrom
<1>3. MayHave(e, k, old)
  BY <1>1 DEF AddressInv, RemoteInv
<1> HIDE DEF old, new
<1>4. /\ MayHave(e, k, [old EXCEPT !.host = new.host])
      /\ MayHave(e, k, [old EXCEPT !.port = new.port])
  BY <1>2, <1>3, Written DEF MayHave
<1>5. RemoteInv'
  BY <1>1, <1>4, StepWrite
<1>6. CopyingInv'
  <2>1. new \in Address
    BY <1>2, AddressesFor DEF MayHave
  <2>2. copying' \in [Endpoint -> [Kind -> Address \cup {NoAddress}]]
    BY <1>1, <2>1 DEF AddressInv, CopyingInv
  <2>3. \A x \in Endpoint, j \in Kind :
          copying'[x][j] = IF x = e /\ j = k THEN new ELSE copying[x][j]
    BY <1>1 DEF AddressInv, CopyingInv
  <2>4. \A x \in Endpoint, j \in Kind :
          copying'[x][j] # NoAddress => role[x] # "none" /\ MayHave(x, j, copying'[x][j])
    BY <1>1, <1>2, <2>3 DEF AddressInv, CopyingInv
  <2>5. QED
    BY <1>1, <2>2, <2>4 DEF CopyingInv, MayHave
<1>7. NetInv'
  BY <1>1, NetKept
<1>8. QED
  BY <1>1, <1>5, <1>6, <1>7 DEF AddressInv, Roles

LEMMA StepReceived ==
  ASSUME AddressInv, NEW e \in Endpoint, NEW k \in Kind, Received(e, k)
  PROVE  AddressInv'
<1>1. /\ copying[e][k] # NoAddress
      /\ rem_addr' = [rem_addr EXCEPT ![e][k] = copying[e][k]]
      /\ copying' = [copying EXCEPT ![e][k] = NoAddress]
      /\ net' \in Sent(e, "rtcp") \/ net' = net
      /\ UNCHANGED <<role, moved>>
  BY DEF Received, Learns
<1>2. role[e] # "none" /\ MayHave(e, k, copying[e][k])
  BY <1>1 DEF AddressInv, CopyingInv
<1>3. RemoteInv'
  BY <1>1, <1>2, StepWrite
<1>4. CopyingInv'
  <2>1. copying' \in [Endpoint -> [Kind -> Address \cup {NoAddress}]]
    BY <1>1 DEF AddressInv, CopyingInv
  <2>2. \A x \in Endpoint, j \in Kind :
          copying'[x][j] = NoAddress \/ copying'[x][j] = copying[x][j]
    BY <1>1 DEF AddressInv, CopyingInv
  <2>3. \A x \in Endpoint, j \in Kind :
          copying'[x][j] # NoAddress => role[x] # "none" /\ MayHave(x, j, copying'[x][j])
    BY <2>2 DEF AddressInv, CopyingInv
  <2>4. QED
    BY <1>1, <2>1, <2>3 DEF CopyingInv, MayHave
<1>5. NetInv'
  <2>1. CASE net' \in Sent(e, "rtcp")
    BY <1>1, <1>2, <2>1, NetSent DEF Kind
  <2>2. CASE net' = net
    BY <1>1, <2>2, NetKept
  <2>3. QED
    BY <1>1, <2>1, <2>2
<1>6. QED
  BY <1>1, <1>3, <1>4, <1>5 DEF AddressInv, Roles

LEMMA StepMove ==
  ASSUME AddressInv, NEW e \in Endpoint, Move(e)
  PROVE  AddressInv'
<1>1. moved' = [moved EXCEPT ![e] = TRUE] /\ UNCHANGED <<role, rem_addr, copying, net>>
  BY DEF Move
<1>2. Roles' /\ \A x \in Endpoint : moved[x] => moved'[x]
  BY <1>1 DEF AddressInv, Roles
<1>3. \A x \in Endpoint : Peer(x) \in Endpoint
  BY Peers
<1>4. RemoteInv' /\ CopyingInv'
  BY <1>1, <1>2, <1>3 DEF AddressInv, RemoteInv, CopyingInv, MayHave
<1>5. NetInv'
  BY <1>1, <1>2, NetKept
<1>6. QED
  BY <1>2, <1>4, <1>5 DEF AddressInv

LEMMA AddressStep == AddressInv /\ [Next]_vars => AddressInv'
<1> SUFFICES ASSUME AddressInv, [Next]_vars PROVE AddressInv'
  OBVIOUS
<1>1. CASE UNCHANGED vars
  <2>1. UNCHANGED <<role, rem_addr, copying, net, moved>>
    BY <1>1 DEF vars
  <2>2. Roles' /\ RemoteInv' /\ CopyingInv'
    BY <2>1 DEF AddressInv, Roles, RemoteInv, CopyingInv, MayHave
  <2>3. NetInv'
    BY <2>1, NetKept
  <2>4. QED
    BY <2>2, <2>3 DEF AddressInv
<1>2. QED
  BY <1>1, StepStart, StepSend, StepFind, StepReceived, StepMove DEF Next

-----------------------------------------------------------------------------
\* Whatever the network does and whoever moves: datagrams of an endpoint that sends
\* media go to its peer's socket for them while the peer is where it was.  A sockaddr
\* written in parts does no harm, as all datagrams that reach the endpoint are from
\* its peer, and write what was there.
THEOREM SentReachesPeer == Spec => []ReachesPeer
<1>1. AddressInv => ReachesPeer
  <2> SUFFICES ASSUME AddressInv PROVE ReachesPeer
    OBVIOUS
  <2>1. TypeOK
    BY DEF AddressInv, Roles, RemoteInv, CopyingInv, NetInv, TypeOK
  <2>2. ASSUME NEW e \in Endpoint, NEW k \in Kind, NEW b \in BOOLEAN, NEW m \in net,
               role[e] = "duplex", ~moved[Peer(e)], m.from = Place(e, b, k)
        PROVE  m.to = Now(Peer(e), k)
    <3>1. PICK x \in Endpoint, j \in Kind : Wrote(x, j, m)
      BY DEF AddressInv, NetInv
    <3>2. x = e /\ j = k
      <4>1. PICK c \in BOOLEAN : m.from = Place(x, c, j)
        BY <3>1 DEF Wrote, WasAt
      <4>2. Place(e, b, k) = Place(x, c, j)
        BY <2>2, <4>1
      <4>3. QED
        BY <4>2, PlacesOf
    <3>3. m.to = Place(Peer(e), FALSE, k)
      BY <2>2, <3>1, <3>2 DEF Wrote, MayHave
    <3>4. moved[Peer(e)] = FALSE
      BY <2>2, Peers DEF AddressInv, Roles
    <3>5. QED
      BY <3>3, <3>4 DEF Now
  <2>3. QED
    BY <2>1, <2>2 DEF ReachesPeer
<1>2. QED
  BY <1>1, AddressInit, AddressStep, PTL DEF Spec

-----------------------------------------------------------------------------
(***************************************************************************)
(* JitterBufferOpt.                                                        *)
(*                                                                         *)
(* The buffer is a window r..last of the packets, r the next to read and    *)
(* last the last written, laid on the ring so that packet b is at place 0.  *)
(* None of the three is in the state, so the invariant says that they       *)
(* exist.                                                                  *)
(***************************************************************************)

Ring == [Places -> [uForRead : BOOLEAN, uResendFlg : 0..(Bits3 - 1), n : 0..NumPackets]]

\* Nothing has come since the buffer was emptied.
Idle ==
  /\ uPreSeq = -1 /\ uPrePos = -1 /\ uPreReadSeq = -1 /\ uPreReadPos = -1
  /\ arrived = {} /\ \A p \in Places : ~xbuffer[p].uForRead

\* The numbers of the reader and of what is stored are not above the last one written.
NumbersInv ==
  /\ uPreReadSeq <= uPreSeq
  /\ (uPrePos = -1 \/ uPreSeq = -1) => Idle
  /\ \A p \in Places : xbuffer[p].uForRead =>
       xbuffer[p].n \in Packets /\ Seq(xbuffer[p].n) <= uPreSeq

\* Packet n waits in its place; b is the packet whose place is 0.
Waits(n, b) == xbuffer[At(n - b)].uForRead /\ xbuffer[At(n - b)].n = n

\* The window: place 0 was that of packet b, last is the last one written, and r the
\* one the reader waits for.
Reader(b, last, r) ==
  /\ b \in Int /\ last \in Packets /\ r \in Int
  /\ b <= last /\ b <= r /\ r <= last + 1 /\ last - r < uPacketNum - 1
  /\ uPreSeq = Seq(last) /\ last - b <= uPreSeq
  /\ uPrePos = At(last - b) /\ curReadPos = At(r - b)
  /\ played < r /\ last <= newest /\ newest - last <= uMaxPktWin

\* What there is to read: all that has come and not been given up, each in its place.
Holds(b, last, r) ==
  /\ r = last + 1 => played = last /\ uPreReadSeq = uPreSeq
  /\ r <= last => last \in arrived
  /\ \A p \in Places : xbuffer[p].uForRead =>
       xbuffer[p].n \in r..last /\ p = At(xbuffer[p].n - b)
  /\ \A n \in arrived : n >= r => n <= last /\ Waits(n, b)

\* The first place after the buffer was emptied is that of a packet; and the reader's
\* number is that of the one before.
AtReader(b, r) ==
  /\ uPreReadPos = -1 => xbuffer[curReadPos].uForRead
  /\ uPreReadPos # -1 => b < r
  /\ uPreReadPos # -1 /\ ~adrift => Seq(r) = (uPreReadSeq + 1) % Seqs

Track(b, last, r) == Reader(b, last, r) /\ Holds(b, last, r) /\ AtReader(b, r)

InStep == ~stale => ~disorder /\ (Idle \/ \E b, last, r \in Int : Track(b, last, r))

OptInv == OptTypeOK /\ NumbersInv /\ InStep

-----------------------------------------------------------------------------
(***************************************************************************)
(* Places and numbers.                                                     *)
(***************************************************************************)

LEMMA Widths ==
  /\ uPacketNum \in Nat \ {0} /\ uMaxPktWin \in Nat \ {0} /\ uMaxPktWin < uPacketNum
  /\ Seqs \in Nat \ {0} /\ FirstSeq \in 0..(Seqs - 1) /\ 3 * uMaxPktWin < Seqs
  /\ uPacketNum + uPacketNum < Seqs
  /\ NumPackets \in Nat /\ MaxLate \in 0..uMaxPktWin /\ NumSilences \in Nat /\ NumScans \in Nat
  /\ 0 \in Places /\ uPacketNum - 1 \in Places
<1>1. Seqs \in Nat /\ uPacketNum < Seqs \div 2 /\ uPacketNum \in Nat \ {0}
  BY OptAssumption
<1>2. Splits(Seqs, 2, Seqs \div 2, Seqs % 2)
  BY <1>1, DivMod
<1>3. Seqs >= 2 * (Seqs \div 2) /\ Seqs \div 2 \in Int
  BY <1>1, <1>2 DEF Splits
<1>4. uPacketNum + uPacketNum < Seqs
  BY <1>1, <1>3
<1>5. QED
  BY <1>1, <1>4, OptAssumption DEF Places

LEMMA AtIs ==
  ASSUME NEW a \in Int
  PROVE  At(a) \in Places /\ a = uPacketNum * (a \div uPacketNum) + At(a) /\ a \div uPacketNum \in Int
BY Widths, DivMod DEF At, Places, Splits

\* Whole rounds do not change the place.
LEMMA AtSame ==
  ASSUME NEW a \in Int, NEW c \in Int, NEW q \in Int, a = c + uPacketNum * q
  PROVE  At(a) = At(c)
<1> DEFINE d == c \div uPacketNum
           e == At(c)
           P == uPacketNum
<1>1. P \in Nat \ {0} /\ d \in Int /\ e \in 0..(P - 1) /\ c = P * d + e
  BY Widths, AtIs DEF Places
<1>2. a = c + P * q
  OBVIOUS
<1> HIDE DEF d, e, P
<1>3. P * (d + q) = P * d + P * q /\ d + q \in Int
  BY <1>1
<1>4. a = P * (d + q) + e
  BY <1>1, <1>2, <1>3
<1>5. Splits(a, P, d + q, e)
  BY <1>1, <1>3, <1>4 DEF Splits
<1>6. a % P = e
  BY <1>1, <1>5, DivModUnique
<1>7. QED
  BY <1>6 DEF At, e, P

LEMMA AtPlus ==
  ASSUME NEW a \in Int, NEW k \in Int
  PROVE  At(At(a) + k) = At(a + k)
<1>1. At(a) \in Int /\ a = uPacketNum * (a \div uPacketNum) + At(a) /\ a \div uPacketNum \in Int
  BY AtIs DEF Places
<1>2. PICK e \in Int : e = At(a)
  BY <1>1
<1>3. PICK q \in Int : q = a \div uPacketNum
  BY <1>1
<1>4. a + k = (e + k) + uPacketNum * q
  BY <1>1, <1>2, <1>3, Widths
<1>5. At(a + k) = At(e + k)
  BY <1>4, AtSame
<1>6. QED
  BY <1>2, <1>5

\* From a place to another, when they are less than a round apart.
LEMMA AtDistance ==
  ASSUME NEW a \in Int, NEW c \in Int, a <= c, c - a < uPacketNum
  PROVE  At(At(c) - At(a)) = c - a
<1>1. PICK e \in Int, q \in Int : e = At(a) /\ a = uPacketNum * q + e
  BY AtIs DEF Places
<1>2. At(At(c) + (-e)) = At(c + (-e))
  BY AtPlus
<1>3. c + (-e) = (c - a) + uPacketNum * q
  BY <1>1, Widths
<1>4. At(c + (-e)) = At(c - a)
  BY <1>3, AtSame
<1>5. c - a \in 0..(uPacketNum - 1)
  BY Widths
<1>6. At(c - a) = c - a
  BY <1>5, ModOfSmall, Widths DEF At
<1>7. At(c) - At(a) = At(c) + (-e)
  BY <1>1, AtIs DEF Places
<1>8. QED
  BY <1>2, <1>4, <1>6, <1>7

\* Less than a round apart, places differ.
LEMMA AtDiffers ==
  ASSUME NEW a \in Int, NEW c \in Int, At(a) = At(c), a - c < uPacketNum, c - a < uPacketNum
  PROVE  a = c
<1>1. CASE a < c
  <2>1. c < a + uPacketNum
    BY Widths
  <2>2. QED
    BY <1>1, <2>1, NearDiffer, Widths DEF At
<1>2. CASE c < a
  <2>1. a < c + uPacketNum
    BY Widths
  <2>2. QED
    BY <1>2, <2>1, NearDiffer, Widths DEF At
<1>3. QED
  BY <1>1, <1>2

LEMMA AtOfPlace ==
  ASSUME NEW p \in Places
  PROVE  At(p) = p
BY ModOfSmall, Widths DEF At, Places

LEMMA SeqIs ==
  ASSUME NEW n \in Int
  PROVE  Seq(n) \in 0..(Seqs - 1) /\ \E q \in Int : FirstSeq + n - 1 = Seqs * q + Seq(n)
<1>1. PICK x \in Int : x = FirstSeq + n - 1
  BY Widths
<1>2. x = Seqs * (x \div Seqs) + (x % Seqs) /\ x \div Seqs \in Int /\ x % Seqs \in 0..(Seqs - 1)
  BY DivMod, Widths DEF Splits
<1>3. Seq(n) = x % Seqs
  BY <1>1 DEF Seq
<1>4. QED
  BY <1>1, <1>2, <1>3

\* The difference of two numbers tells how far the packets are apart, when that is at
\* most two windows and the numbers are in one.
LEMMA GapTells ==
  ASSUME NEW n \in Int, NEW m \in Int,
         n - m <= 2 * uMaxPktWin, m - n <= 2 * uMaxPktWin,
         Seq(n) - Seq(m) <= uMaxPktWin, Seq(m) - Seq(n) <= uMaxPktWin
  PROVE  Seq(n) - Seq(m) = n - m
<1>1. PICK q \in Int : FirstSeq + n - 1 = Seqs * q + Seq(n) /\ Seq(n) \in Int
  BY SeqIs
<1>2. PICK d \in Int : FirstSeq + m - 1 = Seqs * d + Seq(m) /\ Seq(m) \in Int
  BY SeqIs
<1>3. PICK s \in Int, t \in Int : s = Seq(n) /\ t = Seq(m)
  BY <1>1, <1>2
<1>4. Seqs * (q - d) = Seqs * q - Seqs * d /\ q - d \in Int
  BY Widths
<1>5. Seqs * (q - d) = (n - m) - (s - t)
  BY <1>1, <1>2, <1>3, <1>4, Widths
<1>6. Seqs * (q - d) < Seqs /\ Seqs * (q - d) > -Seqs
  BY <1>3, <1>5, Widths
<1>7. q - d = 0
  BY <1>4, <1>6, NoMultiple, Widths
<1>8. Seqs * (q - d) = 0
  BY <1>7, Widths
<1>9. QED
  BY <1>3, <1>5, <1>8

LEMMA SeqPlus ==
  ASSUME NEW r \in Int, NEW u \in Int, Seq(r) = (u + 1) % Seqs, NEW k \in Int
  PROVE  Seq(r + k) = (u + 1 + k) % Seqs
<1>1. PICK q \in Int : FirstSeq + r - 1 = Seqs * q + Seq(r) /\ Seq(r) \in Int
  BY SeqIs
<1>2. u + 1 = Seqs * ((u + 1) \div Seqs) + ((u + 1) % Seqs) /\ (u + 1) \div Seqs \in Int
  BY DivMod, Widths DEF Splits
<1>3. PICK d \in Int : u + 1 = Seqs * d + Seq(r)
  BY <1>2
<1>4. PICK x \in Int : x = u + 1 + k
  OBVIOUS
<1>5. x = Seqs * (x \div Seqs) + (x % Seqs) /\ x \div Seqs \in Int /\ x % Seqs \in 0..(Seqs - 1)
  BY DivMod, Widths DEF Splits
<1>6. PICK y \in Int, z \in 0..(Seqs - 1) : x = Seqs * y + z /\ z = x % Seqs
  BY <1>5
<1>7. Seqs * (y + q - d) = Seqs * y + Seqs * q - Seqs * d /\ y + q - d \in Int
  BY Widths
<1>8. PICK v \in Int : v = FirstSeq + (r + k) - 1
  BY Widths
<1>9. v = Seqs * (y + q - d) + z
  BY <1>1, <1>3, <1>4, <1>6, <1>7, <1>8, Widths
<1>10. Splits(v, Seqs, y + q - d, z)
  BY <1>6, <1>7, <1>9 DEF Splits
<1>11. v % Seqs = z
  BY <1>7, <1>10, DivModUnique, Widths
<1>12. Seq(r + k) = z
  BY <1>8, <1>11 DEF Seq
<1>13. QED
  BY <1>4, <1>6, <1>12

\* The next packet's number is one up, or 0.
LEMMA SeqAfter ==
  ASSUME NEW n \in Int
  PROVE  Seq(n + 1) = (Seq(n) + 1) % Seqs /\ Seq(n) = (Seq(n) - 1 + 1) % Seqs
<1>1. Seq(n) \in 0..(Seqs - 1)
  BY SeqIs
<1>2. Seq(n) - 1 \in Int /\ Seq(n) - 1 + 1 = Seq(n) /\ Seq(n) % Seqs = Seq(n)
  BY <1>1, ModOfSmall, Widths
<1>3. Seq(n) = ((Seq(n) - 1) + 1) % Seqs
  BY <1>2
<1>4. Seq(n + 1) = ((Seq(n) - 1) + 1 + 1) % Seqs
  BY <1>2, <1>3, SeqPlus
<1>5. QED
  BY <1>1, <1>3, <1>4

-----------------------------------------------------------------------------
(***************************************************************************)
(* On to the next SPS.                                                     *)
(***************************************************************************)

\* A ring that has nothing to read that another does not have.
Under(ring, old) ==
  /\ ring \in Ring
  /\ \A q \in Places : ring[q].n = old[q].n /\ (ring[q].uForRead => old[q].uForRead)

\* Of what there is to read, it has the packets from m on.
Keeps(ring, m) ==
  \A q \in Places : /\ ring[q].n = xbuffer[q].n
                    /\ ring[q].uForRead <=> xbuffer[q].uForRead /\ m <= xbuffer[q].n

LEMMA CurReadPos ==
  ASSUME OptTypeOK
  PROVE  curReadPos \in Places /\ uPreReadPos \in Int /\ \A k \in Int : PlaceAt(k) \in Places
<1>1. curReadPos \in Places /\ uPreReadPos \in Int
  <2>1. CASE uPreReadPos = -1
    BY <2>1, Widths DEF curReadPos
  <2>2. CASE uPreReadPos # -1
    <3>1. uPreReadPos \in Places /\ uPreReadPos + 1 \in Int
      BY <2>2 DEF OptTypeOK, Places
    <3>2. QED
      BY <2>2, <3>1, AtIs DEF curReadPos, Places
  <2>3. QED
    BY <2>1, <2>2
<1>2. \A k \in Int : curReadPos + k \in Int
  BY <1>1 DEF Places
<1>3. QED
  BY <1>1, <1>2, AtIs DEF PlaceAt

\* A ring from which the packets in some places are taken.
Emptied(ring, D) ==
  [q \in Places |-> IF q \in D THEN [ring[q] EXCEPT !.uForRead = FALSE] ELSE ring[q]]

LEMMA EmptiedIs ==
  ASSUME NEW ring \in Ring, NEW D
  PROVE  /\ Under(Emptied(ring, D), ring)
         /\ \A q \in Places : Emptied(ring, D)[q].uForRead <=> ring[q].uForRead /\ q \notin D
<1>1. ASSUME NEW q \in Places
      PROVE  /\ Emptied(ring, D)[q] \in [uForRead : BOOLEAN, uResendFlg : 0..(Bits3 - 1),
                                          n : 0..NumPackets]
             /\ Emptied(ring, D)[q].n = ring[q].n
             /\ Emptied(ring, D)[q].uForRead <=> ring[q].uForRead /\ q \notin D
  <2>1. ring[q] \in [uForRead : BOOLEAN, uResendFlg : 0..(Bits3 - 1), n : 0..NumPackets]
    BY DEF Ring
  <2>2. CASE q \in D
    <3>1. Emptied(ring, D)[q] = [ring[q] EXCEPT !.uForRead = FALSE]
      BY <2>2 DEF Emptied
    <3>2. QED
      BY <2>1, <2>2, <3>1
  <2>3. CASE q \notin D
    <3>1. Emptied(ring, D)[q] = ring[q]
      BY <2>3 DEF Emptied
    <3>2. QED
      BY <2>1, <2>3, <3>1
  <2>4. QED
    BY <2>2, <2>3
<1>2. Emptied(ring, D) = [q \in Places |-> Emptied(ring, D)[q]]
  BY DEF Emptied
<1>3. Emptied(ring, D) \in Ring
  BY <1>1, <1>2 DEF Ring
<1>4. QED
  BY <1>1, <1>3 DEF Under

LEMMA DropFrontIs ==
  DropFront = Emptied(xbuffer, Dropped)
BY DEF DropFront, Emptied

\* The first of some offsets.
LEMMA FirstOf ==
  ASSUME NEW S \in SUBSET Nat, S # {}, NEW first, first = CHOOSE k \in S : \A j \in S : k <= j
  PROVE  first \in S /\ \A j \in S : first <= j
BY SmallestMember

LEMMA FindSpsIs ==
  ASSUME OptTypeOK, uPrePos # -1
  PROVE  /\ find_sps \in -1..(uPacketNum - 1)
         /\ WithSps # {} => FirstSps \in WithSps /\ \A j \in WithSps : FirstSps <= j
         /\ WithSps \subseteq Nat
<1>1. Places \subseteq Nat /\ uPrePos \in Places
  BY DEF Places, OptTypeOK
<1>2. WithSps \subseteq Nat
  BY <1>1 DEF WithSps, Behind
<1>3. WithSps # {} => FirstSps \in WithSps /\ \A j \in WithSps : FirstSps <= j
  BY <1>2, FirstOf DEF FirstSps
<1>4. CASE WithSps = {}
  <2>1. find_sps = uPrePos - 1
    BY <1>4 DEF find_sps
  <2>2. QED
    BY <1>1, <1>2, <1>3, <2>1, Widths DEF Places
<1>5. CASE WithSps # {}
  <2>1. find_sps = PlaceAt(FirstSps)
    BY <1>5 DEF find_sps
  <2>2. PlaceAt(FirstSps) \in Places
    <3>1. FirstSps \in WithSps
      BY <1>3, <1>5
    <3>2. FirstSps \in Int
      BY <1>2, <3>1
    <3>3. QED
      BY <3>2, CurReadPos
  <2>3. QED
    BY <1>2, <1>3, <2>1, <2>2, Widths DEF Places
<1>6. QED
  BY <1>4, <1>5

\* What move_pos looks through from p: so many places up to the writer's, of which some
\* have a packet; and the places it passes when it goes on to the writer's.
Distance(p) == IF p < uPrePos THEN uPrePos - p ELSE uPrePos + uPacketNum - p
Found(ring, p) == {k \in 0..Distance(p) : ring[At(p + k)].uForRead}
First(ring, p) == CHOOSE k \in Found(ring, p) : \A j \in Found(ring, p) : k <= j
Passed(p) == {q \in Places : At(q - p) < Distance(p)}

LEMMA MovePosIs ==
  ASSUME NEW ring \in Ring, NEW p \in -1..(uPacketNum - 1), uPrePos \in Places
  PROVE  LET to == move_pos(ring, p)
             stays == to.ring = ring /\ to.pos = uPrePos /\ to.seq = uPreReadSeq
         IN  \/ p < 0 /\ to.ring = ring /\ to.pos = 0 /\ to.seq = uPreReadSeq
             \/ p >= 0 /\ uPreSeq = uPreReadPos /\ stays
             \/ /\ p >= uPrePos /\ Distance(p) > uMaxPktWin /\ uPreSeq # uPreReadPos
                /\ to.ring = Emptied(ring, Passed(p)) /\ to.pos = uPrePos
                /\ to.seq = uPreReadSeq
             \/ p >= 0 /\ Found(ring, p) = {} /\ stays
             \/ /\ p >= 0 /\ Found(ring, p) # {}
                /\ to.ring = ring /\ to.pos = At(p + First(ring, p))
                /\ to.seq = Seq(ring[At(p + First(ring, p))].n) - 1
<1>1. CASE p < 0
  BY <1>1 DEF move_pos
<1>2. CASE p >= 0 /\ uPreSeq = uPreReadPos
  BY <1>2 DEF move_pos
<1>3. CASE p >= 0 /\ uPreSeq # uPreReadPos /\ p >= uPrePos /\ Distance(p) > uMaxPktWin
  <2>1. Emptied(ring, Passed(p))
          = [q \in Places |-> IF At(q - p) < Distance(p)
                              THEN [ring[q] EXCEPT !.uForRead = FALSE] ELSE ring[q]]
    BY DEF Emptied, Passed
  <2>2. QED
    BY <1>3, <2>1 DEF move_pos, Distance
<1>4. CASE /\ p >= 0 /\ uPreSeq # uPreReadPos /\ ~(p >= uPrePos /\ Distance(p) > uMaxPktWin)
           /\ Found(ring, p) = {}
  BY <1>4 DEF move_pos, Distance, Found
<1>5. CASE /\ p >= 0 /\ uPreSeq # uPreReadPos /\ ~(p >= uPrePos /\ Distance(p) > uMaxPktWin)
           /\ Found(ring, p) # {}
  BY <1>5 DEF move_pos, Distance, Found, First
<1>6. QED
  BY <1>1, <1>2, <1>3, <1>4, <1>5

\* Where the reader may go, in any state.
LEMMA MovePosTypes ==
  ASSUME OptTypeOK, NumbersInv, uPrePos # -1,
         NEW ring \in Ring, Under(ring, xbuffer), NEW p \in -1..(uPacketNum - 1)
  PROVE  /\ Under(move_pos(ring, p).ring, xbuffer) /\ move_pos(ring, p).pos \in Places
         /\ move_pos(ring, p).seq \in -1..uPreSeq
<1> DEFINE to == move_pos(ring, p)
<1>1. uPrePos \in Places /\ 0 \in Places /\ uPreReadSeq \in -1..uPreSeq
      /\ uPreSeq \in -1..(Seqs - 1)
  <2>1. uPreReadSeq \in -1..(Seqs - 1) /\ uPreSeq \in -1..(Seqs - 1) /\ uPrePos \in Places
    BY DEF OptTypeOK
  <2>2. QED
    BY <2>1, Widths DEF NumbersInv
<1>2. CASE p >= 0 /\ Found(ring, p) # {} /\ to.ring = ring /\ to.pos = At(p + First(ring, p))
           /\ to.seq = Seq(ring[At(p + First(ring, p))].n) - 1
  <2>1. Found(ring, p) \in SUBSET Nat
    BY DEF Found
  <2>2. First(ring, p) \in Found(ring, p)
    BY <1>2, <2>1, FirstOf DEF First
  <2>3. First(ring, p) \in Nat /\ ring[At(p + First(ring, p))].uForRead
    BY <2>2 DEF Found
  <2>4. PICK q \in Places : q = At(p + First(ring, p))
    BY <2>3, AtIs
  <2>5. xbuffer[q].uForRead /\ ring[q].n = xbuffer[q].n
    BY <2>3, <2>4 DEF Under
  <2>6. xbuffer[q].n \in Packets /\ Seq(xbuffer[q].n) <= uPreSeq
    BY <2>5 DEF NumbersInv
  <2>7. Seq(xbuffer[q].n) \in 0..(Seqs - 1)
    BY <2>6, SeqIs DEF Packets
  <2>8. to.seq = Seq(xbuffer[q].n) - 1 /\ to.pos = q
    BY <1>2, <2>4, <2>5
  <2>9. to.seq \in -1..uPreSeq
    BY <1>1, <2>6, <2>7, <2>8
  <2>10. QED
    BY <1>2, <2>8, <2>9
<1>3. CASE to.ring = Emptied(ring, Passed(p)) /\ to.pos = uPrePos /\ to.seq = uPreReadSeq
  <2>1. Under(Emptied(ring, Passed(p)), ring)
    BY EmptiedIs
  <2>2. Under(Emptied(ring, Passed(p)), xbuffer)
    BY <2>1 DEF Under
  <2>3. QED
    BY <1>1, <1>3, <2>2
<1>4. CASE to.ring = ring /\ to.pos \in {0, uPrePos} /\ to.seq = uPreReadSeq
  BY <1>1, <1>4
<1>5. QED
  BY <1>1, <1>2, <1>3, <1>4, MovePosIs

\* Two packets of the window are in different places, and as far apart as they are.
PlacesDiffer(b, last, r) ==
  \A n, m \in r..(last + 1) : /\ At(n - b) = At(m - b) => n = m
                              /\ n <= m => At(At(m - b) - At(n - b)) = m - n

LEMMA InWindow ==
  ASSUME NEW b \in Int, NEW last \in Int, NEW r \in Int, last - r < uPacketNum - 1
  PROVE  PlacesDiffer(b, last, r)
<1>1. SUFFICES ASSUME NEW n \in r..(last + 1), NEW m \in r..(last + 1)
               PROVE  /\ At(n - b) = At(m - b) => n = m
                      /\ n <= m => At(At(m - b) - At(n - b)) = m - n
  BY DEF PlacesDiffer
<1>2. PICK x \in Int, y \in Int : x = n - b /\ y = m - b
  OBVIOUS
<1>3. x - y < uPacketNum /\ y - x < uPacketNum /\ y - x = m - n /\ x - y = n - m
  BY <1>2, Widths
<1>4. At(x) = At(y) => x = y
  BY <1>3, AtDiffers
<1>5. x <= y => At(At(y) - At(x)) = y - x
  BY <1>3, AtDistance
<1>6. QED
  BY <1>2, <1>3, <1>4, <1>5

\* Emptying the places of the packets in front of m keeps those from m on.
LEMMA EmptiedKeeps ==
  ASSUME NEW b \in Int, NEW last \in Int, NEW r \in Int, last - r < uPacketNum - 1,
         NEW m \in r..last, NEW first \in r..m, NEW ring \in Ring, Keeps(ring, first),
         \A p \in Places : xbuffer[p].uForRead =>
           xbuffer[p].n \in r..last /\ p = At(xbuffer[p].n - b),
         NEW D, \A n \in first..last : At(n - b) \in D <=> n < m
  PROVE  Keeps(Emptied(ring, D), m)
<1>1. ASSUME NEW q \in Places
      PROVE  /\ Emptied(ring, D)[q].n = xbuffer[q].n
             /\ Emptied(ring, D)[q].uForRead <=> xbuffer[q].uForRead /\ m <= xbuffer[q].n
  <2>1. /\ Emptied(ring, D)[q].n = ring[q].n
        /\ Emptied(ring, D)[q].uForRead <=> ring[q].uForRead /\ q \notin D
    BY EmptiedIs DEF Under
  <2>2. ring[q].n = xbuffer[q].n /\ (ring[q].uForRead <=> xbuffer[q].uForRead /\ first <= xbuffer[q].n)
    BY DEF Keeps
  <2>3. ASSUME xbuffer[q].uForRead
        PROVE  first <= xbuffer[q].n /\ q \notin D <=> m <= xbuffer[q].n
    <3>1. PICK n \in r..last : n = xbuffer[q].n /\ q = At(n - b)
      BY <2>3
    <3>2. first <= n => (q \in D <=> n < m)
      BY <3>1
    <3>3. QED
      BY <3>1, <3>2
  <2>4. QED
    BY <2>1, <2>2, <2>3
<1>2. QED
  BY <1>1 DEF Keeps

\* What the search for an SPS comes to: a packet r2 of the window.
SkipsTo(b, last, r, r2) ==
  /\ r2 \in r..last /\ Waits(r2, b)
  /\ LET to == move_pos(DropFront, find_sps)
     IN  /\ to.pos = At(r2 - b) /\ Keeps(to.ring, r2)
         /\ to.seq = uPreReadSeq \/ to.seq = Seq(r2) - 1

LEMMA SkipFinds ==
  ASSUME OptTypeOK, NEW b \in Int, NEW last \in Int, NEW r \in Int, Track(b, last, r),
         r < last, uPreReadPos # -1
  PROVE  \E r2 \in Int : SkipsTo(b, last, r, r2)
<1> DEFINE ring == DropFront
           to == move_pos(ring, find_sps)
<1>1. /\ xbuffer \in Ring /\ uPrePos \in Places /\ uPrePos # -1 /\ uPrePos = At(last - b)
      /\ curReadPos = At(r - b) /\ last - r < uPacketNum - 1 /\ b < r
      /\ uPreReadPos \in Places
  <2>1. /\ uPrePos = At(last - b) /\ curReadPos = At(r - b) /\ last - r < uPacketNum - 1
        /\ b < r /\ last - b \in Int
    BY DEF Track, Reader, AtReader
  <2>2. xbuffer \in Ring /\ uPreReadPos \in Places
    BY DEF OptTypeOK, Ring
  <2>3. uPrePos \in Places /\ uPrePos # -1
    BY <2>1, AtIs DEF Places
  <2>4. QED
    BY <2>1, <2>2, <2>3
<1>2. /\ \A p \in Places : xbuffer[p].uForRead =>
          xbuffer[p].n \in r..last /\ p = At(xbuffer[p].n - b)
      /\ last \in arrived /\ Waits(last, b)
  BY DEF Track, Holds
<1>2a. last - r < uPacketNum - 1
  BY <1>1
<1>2b. PlacesDiffer(b, last, r)
  BY <1>2a, InWindow
\* The packets between the reader and the writer.
<1>3. Behind = 0..(last - r - 1)
  <2>1. At(uPrePos - curReadPos) = last - r
    <3>1. r \in r..(last + 1) /\ last \in r..(last + 1) /\ r <= last
      OBVIOUS
    <3>2. QED
      BY <1>1, <3>1, <1>2b DEF PlacesDiffer
  <2>2. last - r - 1 < uPacketNum
    BY <1>1, Widths
  <2>3. QED
    BY <1>1, <2>1, <2>2, Widths DEF Behind, Places
<1>4. ASSUME NEW k \in Int
      PROVE  PlaceAt(k) = At(r + k - b)
  <2>1. At(At(r - b) + k) = At((r - b) + k)
    BY AtPlus
  <2>2. (r - b) + k = r + k - b
    OBVIOUS
  <2>3. QED
    BY <1>1, <2>1, <2>2 DEF PlaceAt
<1>5. ring \in Ring
  <2>1. Under(Emptied(xbuffer, Dropped), xbuffer)
    BY <1>1, EmptiedIs
  <2>2. QED
    BY <2>1, DropFrontIs DEF Under
<1>6. find_sps \in -1..(uPacketNum - 1)
      /\ (WithSps # {} => FirstSps \in WithSps /\ \A j \in WithSps : FirstSps <= j)
  BY <1>1, FindSpsIs
<1>7. ASSUME NEW n \in r..last, NEW m \in r..last,
             \A k \in Behind : PlaceAt(k) \in Dropped <=> k < m - r,
             Dropped \subseteq {PlaceAt(k) : k \in Behind}
      PROVE  At(n - b) \in Dropped <=> n < m
  <2>1. CASE n < last
    <3>1. n - r \in Behind /\ PlaceAt(n - r) = At(n - b) /\ (n - r < m - r <=> n < m)
      <4>1. n - r \in Behind /\ n - r \in Int /\ r + (n - r) - b = n - b /\ (n - r < m - r <=> n < m)
        BY <1>3, <2>1
      <4>2. QED
        BY <1>4, <4>1
    <3>2. QED
      BY <1>7, <3>1
  <2>2. CASE n = last
    <3>1. ASSUME NEW k \in Behind, PlaceAt(k) = At(n - b)
          PROVE  FALSE
      <4>1. k \in Int /\ r + k \in r..(last - 1)
        BY <1>3
      <4>2. PICK x \in Int : x = r + k /\ x \in r..(last + 1) /\ x < last
        BY <4>1
      <4>3. At(x - b) = At(n - b) /\ n \in r..(last + 1)
        BY <1>4, <3>1, <4>1, <4>2
      <4>4. x = n
        BY <4>2, <4>3, <1>2b DEF PlacesDiffer
      <4>5. QED
        BY <2>2, <4>2, <4>4
    <3>2. At(n - b) \notin Dropped
      BY <1>7, <3>1
    <3>3. QED
      BY <2>2, <3>2
  <2>3. QED
    BY <2>1, <2>2
<1>8. Keeps(xbuffer, r)
  BY <1>2 DEF Keeps
<1>9. ASSUME NEW m \in r..last, \A k \in Behind : PlaceAt(k) \in Dropped <=> k < m - r
      PROVE  Keeps(ring, m)
  <2>1. Dropped \subseteq {PlaceAt(k) : k \in Behind}
    BY DEF Dropped
  <2>2. \A n \in r..last : At(n - b) \in Dropped <=> n < m
    BY <1>7, <1>9, <2>1
  <2>3. r \in r..m
    OBVIOUS
  <2>4. Keeps(Emptied(xbuffer, Dropped), m)
    BY <1>1, <1>2, <1>8, <2>2, <2>3, EmptiedKeeps
  <2>5. QED
    BY <2>4, DropFrontIs
<1>10. PICK p \in -1..(uPacketNum - 1) : p = find_sps
  BY <1>6
<1>11. uPrePos \in 0..(uPacketNum - 1)
  BY <1>1 DEF Places
\* No SPS is left: the last packet is the next.
<1>12. CASE WithSps = {}
  <2>1. Keeps(ring, last)
    <3>1. \A k \in Behind : k < last - r
      BY <1>3
    <3>2. \A k \in Behind : PlaceAt(k) \in Dropped
      BY <1>12 DEF Dropped
    <3>3. last \in r..last
      OBVIOUS
    <3>4. QED
      BY <1>9, <3>1, <3>2, <3>3
  <2>2. p = uPrePos - 1
    BY <1>10, <1>12 DEF find_sps
  <2>3. p < uPrePos /\ (p < 0 => uPrePos = 0)
    BY <1>11, <2>2
  <2>4. CASE to.ring = ring /\ to.pos = uPrePos /\ to.seq = uPreReadSeq
    <3>1. SkipsTo(b, last, r, last)
      BY <1>1, <1>2, <2>1, <2>4 DEF SkipsTo
    <3>2. QED
      BY <3>1
  <2>5. CASE /\ p >= 0 /\ Found(ring, p) # {}
             /\ to.ring = ring /\ to.pos = At(p + First(ring, p))
             /\ to.seq = Seq(ring[At(p + First(ring, p))].n) - 1
    <3>1. Found(ring, p) \in SUBSET Nat
      BY DEF Found
    <3>2. First(ring, p) \in Found(ring, p)
      BY <2>5, <3>1, FirstOf DEF First
    <3>3. First(ring, p) \in Nat /\ ring[At(p + First(ring, p))].uForRead
      BY <3>2 DEF Found
    <3>4. PICK q \in Places : q = At(p + First(ring, p))
      BY <3>3, AtIs
    <3>5. xbuffer[q].uForRead /\ last <= xbuffer[q].n /\ ring[q].n = xbuffer[q].n
      BY <2>1, <3>3, <3>4 DEF Keeps
    <3>6. xbuffer[q].n \in r..last /\ q = At(xbuffer[q].n - b)
      BY <1>2, <3>5
    <3>7. xbuffer[q].n = last
      BY <3>5, <3>6
    <3>8. to.pos = At(last - b) /\ to.seq = Seq(last) - 1
      BY <2>5, <3>4, <3>5, <3>6, <3>7
    <3>9. SkipsTo(b, last, r, last)
      BY <1>1, <1>2, <2>1, <2>5, <3>8 DEF SkipsTo
    <3>10. QED
      BY <3>9
  <2>6. ~(p >= uPrePos)
    BY <1>11, <2>3
  <2>7. to = move_pos(ring, p)
    BY <1>10
  <2>8. to.ring = ring /\ to.pos = 0 /\ to.seq = uPreReadSeq /\ p < 0 => uPrePos = 0
    BY <2>3
  <2>9. QED
    BY <1>1, <1>5, <2>3, <2>4, <2>5, <2>6, <2>7, MovePosIs
\* A packet m with an SPS is there.
<1>13. CASE WithSps # {}
  <2>1. PICK k \in Behind : /\ k = FirstSps /\ Readable(k)
                            /\ k \in WithSps /\ \A j \in WithSps : k <= j
    BY <1>6, <1>13 DEF WithSps
  <2>2. PICK m \in r..(last - 1) : m = r + k
    BY <1>3, <2>1
  <2>3. p = At(m - b) /\ p = PlaceAt(k)
    <3>1. k \in Int /\ PlaceAt(k) = find_sps
      BY <1>3, <1>13, <2>1 DEF find_sps
    <3>2. QED
      BY <1>4, <1>10, <2>2, <3>1
  <2>4. p \in Places
    BY <2>2, <2>3, AtIs
  <2>5. Waits(m, b)
    <3>1. xbuffer[p].uForRead
      BY <2>1, <2>3 DEF Readable
    <3>2. PICK n \in r..last : n = xbuffer[p].n /\ p = At(n - b)
      BY <1>2, <2>4, <3>1
    <3>3. n \in r..(last + 1) /\ m \in r..(last + 1) /\ n \in Int /\ m \in Int
      OBVIOUS
    <3>4. n = m
      BY <1>1, <2>3, <3>2, <3>3, <1>2b DEF PlacesDiffer
    <3>5. QED
      BY <2>3, <3>1, <3>2, <3>4 DEF Waits
  <2>6. Keeps(ring, m)
    <3>1. ASSUME NEW j \in Behind
          PROVE  PlaceAt(j) \in Dropped <=> j < m - r
      <4>1. j < k => PlaceAt(j) \in Dropped
        <5>1. ASSUME j < k, NEW sps \in WithSps
              PROVE  j < sps
          <6>1. k <= sps /\ sps \in Int /\ j \in Int /\ k \in Int
            BY <1>3, <2>1 DEF WithSps
          <6>2. QED
            BY <5>1, <6>1
        <5>2. QED
          BY <5>1 DEF Dropped
      <4>2. ASSUME PlaceAt(j) \in Dropped
            PROVE  j < k
        <5>1. PICK i \in Behind : PlaceAt(i) = PlaceAt(j) /\ i < k
          BY <2>1, <4>2 DEF Dropped
        <5>2. PICK x \in Int, y \in Int : x = r + i /\ y = r + j
          BY <1>3
        <5>3. x \in r..(last + 1) /\ y \in r..(last + 1) /\ i \in Int /\ j \in Int
          BY <1>3, <5>2
        <5>4. At(x - b) = At(y - b)
          BY <1>4, <5>1, <5>2, <5>3
        <5>5. x = y
          BY <1>1, <5>3, <5>4, <1>2b DEF PlacesDiffer
        <5>6. QED
          BY <5>1, <5>2, <5>3, <5>5
      <4>3. m - r = k
        BY <1>3, <2>2
      <4>4. QED
        BY <4>1, <4>2, <4>3
    <3>2. QED
      BY <1>9, <3>1, <2>2
  <2>7. m \in r..(last + 1) /\ last \in r..(last + 1) /\ m \in Int /\ m < last
    OBVIOUS
  <2>8. p # uPrePos /\ At(uPrePos - p) = last - m
    <3>1. At(m - b) # At(last - b)
      BY <1>2b, <2>7 DEF PlacesDiffer
    <3>2. At(At(last - b) - At(m - b)) = last - m
      BY <1>2b, <2>7 DEF PlacesDiffer
    <3>3. QED
      BY <1>1, <2>3, <3>1, <3>2
  <2>9. uPreSeq # uPreReadPos
    <3>1. At(uPreReadPos + 1) = At(r - b) /\ uPreReadPos \in Int
      BY <1>1 DEF curReadPos, Places
    <3>2. PICK x \in Int : x = r - b - 1
      OBVIOUS
    <3>3. At(At(uPreReadPos + 1) + (-1)) = At((uPreReadPos + 1) + (-1))
      BY <3>1, AtPlus
    <3>4. At(At(r - b) + (-1)) = At((r - b) + (-1))
      BY AtPlus
    <3>5. (uPreReadPos + 1) + (-1) = uPreReadPos /\ (r - b) + (-1) = x /\ x >= 0
      BY <1>1, <3>1, <3>2
    <3>6. uPreReadPos = At(x)
      BY <1>1, <3>1, <3>3, <3>4, <3>5, AtOfPlace
    <3>7. PICK q \in Int : x = uPacketNum * q + At(x)
      BY AtIs
    <3>8. q >= 0
      <4>1. q <= -1 => uPacketNum * q <= -uPacketNum
        BY Widths
      <4>2. At(x) \in 0..(uPacketNum - 1)
        BY AtIs DEF Places
      <4>3. QED
        BY <3>5, <3>7, <4>1, <4>2, Widths
    <3>9. uPacketNum * q >= 0
      BY <3>8, Widths
    <3>10. At(x) <= x
      BY <3>7, <3>9, <3>6, <3>1, Widths
    <3>11. last - b <= uPreSeq /\ uPreSeq \in Int
      BY DEF Track, Reader, OptTypeOK
    <3>12. QED
      BY <3>1, <3>2, <3>6, <3>10, <3>11
  <2>10. CASE /\ p >= uPrePos /\ Distance(p) > uMaxPktWin
              /\ to.ring = Emptied(ring, Passed(p)) /\ to.pos = uPrePos
              /\ to.seq = uPreReadSeq
    <3>1. PICK d \in Int : d = Distance(p) /\ d = (uPrePos - p) + uPacketNum * 1
      BY <1>11, <2>10, Widths DEF Distance
    <3>2. d \in Places
      BY <1>11, <2>8, <2>10, <3>1, Widths DEF Places
    <3>3. At(d) = At(uPrePos - p)
      BY <1>11, <3>1, AtSame
    <3>4. d = last - m
      BY <2>8, <3>2, <3>3, AtOfPlace
    <3>5. ASSUME NEW n \in m..last
          PROVE  At(n - b) \in Passed(p) <=> n < last
      <4>1. n \in r..(last + 1) /\ n \in Int /\ m <= n
        BY <2>7
      <4>2. At(At(n - b) - p) = n - m
        BY <1>1, <2>3, <2>7, <4>1, <1>2b DEF PlacesDiffer
      <4>3. At(n - b) \in Places
        BY <4>1, AtIs
      <4>4. n - m < d <=> n < last
        BY <2>7, <3>4, <4>1
      <4>5. QED
        BY <3>1, <4>2, <4>3, <4>4 DEF Passed
    <3>6. last \in r..last /\ m \in r..last
      OBVIOUS
    <3>7. Keeps(Emptied(ring, Passed(p)), last)
      BY <1>1, <1>2, <1>5, <2>6, <3>5, <3>6, EmptiedKeeps
    <3>8. SkipsTo(b, last, r, last)
      BY <1>1, <1>2, <2>10, <3>6, <3>7 DEF SkipsTo
    <3>9. QED
      BY <3>8
  <2>11. 0 \in Found(ring, p)
    <3>1. Distance(p) >= 0 /\ Distance(p) \in Int
      BY <1>11, Widths DEF Distance
    <3>2. p + 0 = p
      OBVIOUS
    <3>3. At(p + 0) = p
      BY <2>4, <3>2, AtOfPlace
    <3>4. ring[p].uForRead
      BY <2>3, <2>4, <2>5, <2>6, <2>7 DEF Keeps, Waits
    <3>5. QED
      BY <3>1, <3>3, <3>4 DEF Found
  <2>12. CASE /\ p >= 0 /\ Found(ring, p) # {}
              /\ to.ring = ring /\ to.pos = At(p + First(ring, p))
              /\ to.seq = Seq(ring[At(p + First(ring, p))].n) - 1
    <3>1. Found(ring, p) \in SUBSET Nat
      BY DEF Found
    <3>2. First(ring, p) \in Found(ring, p) /\ \A j \in Found(ring, p) : First(ring, p) <= j
      BY <2>12, <3>1, FirstOf DEF First
    <3>3. First(ring, p) = 0
      BY <2>11, <3>1, <3>2
    <3>4. p + First(ring, p) = p
      BY <3>3
    <3>5. to.pos = p /\ to.seq = Seq(ring[p].n) - 1
      BY <2>4, <2>12, <3>4, AtOfPlace
    <3>6. ring[p].n = m
      BY <2>3, <2>4, <2>5, <2>6 DEF Keeps, Waits
    <3>7. SkipsTo(b, last, r, m)
      BY <2>3, <2>5, <2>6, <2>12, <3>5, <3>6 DEF SkipsTo
    <3>8. QED
      BY <3>7, <2>7
  <2>13. p >= 0 /\ Found(ring, p) # {}
    BY <2>4, <2>11 DEF Places
  <2>14. QED
    BY <1>1, <1>5, <1>10, <2>9, <2>10, <2>12, <2>13, MovePosIs
<1>14. QED
  BY <1>12, <1>13

-----------------------------------------------------------------------------
(***************************************************************************)
(* Types and numbers, in every state.                                      *)
(***************************************************************************)

LEMMA RingIs ==
  ASSUME OptTypeOK
  PROVE  /\ xbuffer \in Ring
         /\ \A q \in Places : xbuffer[q] \in [uForRead : BOOLEAN, uResendFlg : 0..(Bits3 - 1),
                                             n : 0..NumPackets]
BY DEF OptTypeOK, Ring

LEMMA StoredIs ==
  ASSUME NEW n \in Packets
  PROVE  /\ Stored(n) \in [uForRead : BOOLEAN, uResendFlg : 0..(Bits3 - 1), n : 0..NumPackets]
         /\ Stored(n).uForRead /\ Stored(n).n = n
         /\ Empty \in [uForRead : BOOLEAN, uResendFlg : 0..(Bits3 - 1), n : 0..NumPackets]
         /\ ~Empty.uForRead
         /\ n \in Int /\ Seq(n) \in 0..(Seqs - 1)
<1>1. n \in Int /\ n \in 0..NumPackets /\ 0 \in 0..NumPackets
  BY Widths DEF Packets
<1>2. QED
  BY <1>1, SeqIs DEF Stored, Empty, Bits3

\* How far the packet is from the last one, as a number.
LEMMA GapIs ==
  ASSUME OptTypeOK, NumbersInv, NEW n \in Packets
  PROVE  /\ nSeqGap(n) \in Int /\ abs(nSeqGap(n)) \in Int
         /\ abs(nSeqGap(n)) <= uMaxPktWin => nSeqGap(n) <= uMaxPktWin /\ -nSeqGap(n) <= uMaxPktWin
         /\ uPreSeq = -1 => nSeqGap(n) = 1 /\ Idle
         /\ uPreSeq # -1 => nSeqGap(n) = Seq(n) - uPreSeq /\ uPrePos \in Places /\ uPreSeq \in Nat
<1>1. Seq(n) \in 0..(Seqs - 1) /\ uPreSeq \in -1..(Seqs - 1)
  BY StoredIs DEF OptTypeOK
<1>2. uPreSeq # -1 => uPrePos \in Places
  BY DEF OptTypeOK, NumbersInv, Idle
<1>3. nSeqGap(n) \in Int
  BY <1>1, Widths DEF nSeqGap
<1>4. PICK g \in Int : g = nSeqGap(n)
  BY <1>3
<1>5. abs(g) \in Int /\ (abs(g) <= uMaxPktWin => g <= uMaxPktWin /\ -g <= uMaxPktWin)
  BY Widths DEF abs
<1>6. uPreSeq = -1 => nSeqGap(n) = 1 /\ Idle
  BY DEF nSeqGap, NumbersInv
<1>7. uPreSeq # -1 => nSeqGap(n) = Seq(n) - uPreSeq /\ uPreSeq \in Nat
  BY <1>1, Widths DEF nSeqGap
<1>8. QED
  BY <1>2, <1>3, <1>4, <1>5, <1>6, <1>7

LEMMA RestartTypes ==
  ASSUME NEW n \in Packets, Restart(n)
  PROVE  /\ xbuffer' \in Ring
         /\ \A p \in Places : xbuffer'[p].uForRead <=> p = 0
         /\ xbuffer'[0].n = n
<1>1. xbuffer' = [p \in Places |-> IF p = 0 THEN Stored(n) ELSE Empty]
  BY DEF Restart
<1>2. 0 \in Places
  BY Widths
<1>3. QED
  BY <1>1, <1>2, StoredIs DEF Ring

LEMMA StoreTypes ==
  ASSUME OptTypeOK, NumbersInv, NEW n \in Packets, Store(n)
  PROVE  \E index \in Places :
           /\ index = At(uPrePos + nSeqGap(n) + uPacketNum)
           /\ xbuffer' \in Ring /\ xbuffer'[index].uForRead /\ xbuffer'[index].n = n
           /\ \A q \in Places : q # index => xbuffer'[q] = xbuffer[q]
<1>1. uPrePos + nSeqGap(n) + uPacketNum \in Int
  <2>1. uPrePos \in Int /\ nSeqGap(n) \in Int
    BY GapIs DEF OptTypeOK, Places
  <2>2. QED
    BY <2>1, Widths
<1>2. PICK index \in Places : index = At(uPrePos + nSeqGap(n) + uPacketNum)
  BY <1>1, AtIs
<1>3. xbuffer' = [xbuffer EXCEPT ![index] = Stored(n)]
  BY <1>2 DEF Store
<1>4. xbuffer' \in Ring
  BY <1>3, RingIs, StoredIs DEF Ring
<1>5. xbuffer'[index] = Stored(n) /\ \A q \in Places : q # index => xbuffer'[q] = xbuffer[q]
  BY <1>3, RingIs DEF Ring
<1>6. QED
  BY <1>2, <1>4, <1>5, StoredIs

LEMMA WriteTypes ==
  ASSUME OptTypeOK, NumbersInv, Write
  PROVE  OptTypeOK' /\ NumbersInv'
<1>1. PICK n \in Packets :
        /\ newest - n <= MaxLate /\ n - newest <= uMaxPktWin
        /\ pjmedia_ringbuffer_write(n)
        /\ newest' = IF n > newest THEN n ELSE newest
        /\ UNCHANGED <<scans, played, disorder>>
  BY DEF Write
<1>2. /\ n \in 0..NumPackets /\ n \in Int /\ Seq(n) \in 0..(Seqs - 1) /\ 0 \in Places
      /\ Seq(n) \in -1..(Seqs - 1) /\ -1 \in -1..(Seqs - 1)
  BY StoredIs, Widths DEF Packets
<1>3. newest' \in 0..NumPackets /\ scans' \in 0..NumScans /\ played' \in 0..NumPackets
      /\ disorder' \in BOOLEAN
  BY <1>1, <1>2 DEF OptTypeOK
<1>4. silences' \in 0..NumSilences
  <2>1. silences \in 0..NumSilences
    BY DEF OptTypeOK
  <2>2. silences' = silences \/ (silences < NumSilences /\ silences' = silences + 1)
    BY <1>1 DEF pjmedia_ringbuffer_write
  <2>3. QED
    BY <2>1, <2>2, Widths
<1>5. CASE Restart(n)
  <2>1. /\ uPrePos' = 0 /\ uPreSeq' = Seq(n) /\ uPreReadPos' = -1 /\ uPreReadSeq' = -1
        /\ uCuPktLost' = 0 /\ arrived' = {n} /\ adrift' = FALSE
    BY <1>5 DEF Restart
  <2>2. /\ xbuffer' \in Ring
        /\ \A p \in Places : xbuffer'[p].uForRead <=> p = 0
        /\ xbuffer'[0].n = n
    BY <1>5, RestartTypes
  <2>3. stale' \in BOOLEAN
    BY <1>2, <1>5 DEF Restart, OptTypeOK
  <2>4. OptTypeOK'
    <3>1. uCuPktLost' \in 0..(MaxLost - 1)
      BY <2>1 DEF MaxLost
    <3>2. arrived' \subseteq Packets /\ adrift' \in BOOLEAN
      BY <2>1
    <3>3. /\ uPrePos' \in Places \cup {-1} /\ uPreReadPos' \in Places \cup {-1}
          /\ uPreSeq' \in -1..(Seqs - 1) /\ uPreReadSeq' \in -1..(Seqs - 1)
      BY <1>2, <2>1
    <3>4. QED
      BY <1>3, <1>4, <2>2, <2>3, <3>1, <3>2, <3>3 DEF OptTypeOK, Ring
  <2>5. uPreReadSeq' <= uPreSeq' /\ uPreSeq' # -1 /\ uPrePos' # -1
    BY <1>2, <2>1
  <2>6. \A p \in Places : xbuffer'[p].uForRead =>
          xbuffer'[p].n \in Packets /\ Seq(xbuffer'[p].n) <= uPreSeq'
    BY <1>2, <2>1, <2>2
  <2>7. NumbersInv'
    BY <2>5, <2>6 DEF NumbersInv, Seq
  <2>8. QED
    BY <2>4, <2>7
<1>6. CASE Store(n)
  <2>1. PICK index \in Places :
          /\ index = At(uPrePos + nSeqGap(n) + uPacketNum)
          /\ xbuffer' \in Ring /\ xbuffer'[index].uForRead /\ xbuffer'[index].n = n
          /\ \A q \in Places : q # index => xbuffer'[q] = xbuffer[q]
    BY <1>6, StoreTypes
  <2>2. /\ IF nSeqGap(n) > 0 THEN uPrePos' = index /\ uPreSeq' = Seq(n)
                             ELSE UNCHANGED <<uPrePos, uPreSeq>>
        /\ arrived' = arrived \cup {n}
        /\ UNCHANGED <<uPreReadPos, uPreReadSeq, uCuPktLost, adrift>>
    BY <1>6, <2>1 DEF Store
  <2>3. stale' \in BOOLEAN
    BY <1>2, <1>6 DEF Store, OptTypeOK
  <2>4. uPrePos' \in Places \cup {-1} /\ uPreSeq' \in -1..(Seqs - 1)
    BY <1>2, <2>1, <2>2 DEF OptTypeOK
  <2>5. OptTypeOK'
    BY <1>2, <1>3, <1>4, <2>1, <2>2, <2>3, <2>4 DEF OptTypeOK, Ring
  <2>6. /\ uPreReadSeq \in Int /\ uPreSeq \in Int /\ uPreReadSeq <= uPreSeq
        /\ nSeqGap(n) \in Int
        /\ uPreSeq = -1 => nSeqGap(n) = 1
        /\ uPreSeq # -1 => nSeqGap(n) = Seq(n) - uPreSeq /\ uPrePos \in Places
    BY GapIs DEF OptTypeOK, NumbersInv
  <2>7. uPreSeq' >= uPreSeq /\ uPreSeq' >= Seq(n) /\ uPreSeq' \in Int /\ uPreSeq' # -1
    BY <1>2, <2>2, <2>6
  <2>8. uPrePos' # -1
    BY <2>1, <2>2, <2>6 DEF Places
  <2>9. ASSUME NEW p \in Places, xbuffer'[p].uForRead
        PROVE  xbuffer'[p].n \in Packets /\ Seq(xbuffer'[p].n) <= uPreSeq'
    <3>1. CASE p = index
      BY <2>1, <2>7, <3>1
    <3>2. CASE p # index
      <4>1. xbuffer[p].n \in Packets /\ Seq(xbuffer[p].n) <= uPreSeq /\ xbuffer'[p] = xbuffer[p]
        BY <2>1, <2>9, <3>2 DEF NumbersInv
      <4>2. Seq(xbuffer[p].n) \in Int
        BY <4>1, StoredIs
      <4>3. QED
        BY <2>6, <2>7, <4>1, <4>2
    <3>3. QED
      BY <3>1, <3>2
  <2>10. uPreReadSeq' <= uPreSeq'
    BY <2>2, <2>6, <2>7
  <2>11. NumbersInv'
    BY <2>7, <2>8, <2>9, <2>10 DEF NumbersInv, Seq
  <2>12. QED
    BY <2>5, <2>11
<1>7. QED
  BY <1>1, <1>5, <1>6 DEF pjmedia_ringbuffer_write

LEMMA ResetTypes ==
  ASSUME OptTypeOK, NumbersInv, Reset
  PROVE  OptTypeOK' /\ NumbersInv' /\ Idle'
<1>1. xbuffer' = [p \in Places |-> Empty]
  BY DEF Reset
<1>2. Empty \in [uForRead : BOOLEAN, uResendFlg : 0..(Bits3 - 1), n : 0..NumPackets]
      /\ ~Empty.uForRead
  BY Widths DEF Empty, Bits3
<1>3. silences' \in 0..NumSilences /\ -1 \in -1..(Seqs - 1)
  BY Widths DEF Reset, OptTypeOK
<1>4. OptTypeOK'
  <2>1. xbuffer' \in Ring /\ arrived' \subseteq Packets /\ uCuPktLost' \in 0..(MaxLost - 1)
    BY <1>1, <1>2 DEF Ring, Reset, MaxLost
  <2>2. /\ newest' = newest /\ scans' = scans /\ played' = played /\ disorder' = disorder
        /\ stale' = stale /\ adrift' = FALSE
        /\ uPreSeq' = -1 /\ uPrePos' = -1 /\ uPreReadSeq' = -1 /\ uPreReadPos' = -1
    BY DEF Reset, playVars
  <2>3. QED
    BY <1>3, <2>1, <2>2 DEF OptTypeOK, Ring
<1>5. \A p \in Places : ~xbuffer'[p].uForRead
  BY <1>1, <1>2
<1>6. Idle'
  BY <1>5 DEF Idle, Reset
<1>7. NumbersInv'
  BY <1>5, <1>6 DEF NumbersInv, Idle
<1>8. QED
  BY <1>4, <1>6, <1>7

LEMMA ReadPacketIs ==
  ASSUME OptTypeOK, NumbersInv, ReadPacket
  PROVE  \E q \in Places :
           /\ q = curReadPos /\ uPrePos # -1 /\ xbuffer[q].uForRead
           /\ xbuffer' \in Ring /\ ~xbuffer'[q].uForRead
           /\ \A p \in Places : p # q => xbuffer'[p] = xbuffer[p]
           /\ uPreReadSeq' = Seq(xbuffer[q].n) /\ played' = xbuffer[q].n
           /\ disorder' = (disorder \/ xbuffer[q].n <= played)
           /\ uPreReadPos' = q /\ adrift' = FALSE
<1>1. PICK q \in Places : q = curReadPos
  BY CurReadPos
<1>2. xbuffer' = [xbuffer EXCEPT ![q].uForRead = FALSE, ![q].uResendFlg = 0]
  BY <1>1 DEF ReadPacket
<1>3. /\ xbuffer \in Ring /\ xbuffer[q] \in [uForRead : BOOLEAN, uResendFlg : 0..(Bits3 - 1),
                                             n : 0..NumPackets]
  BY RingIs
<1>4. [[xbuffer[q] EXCEPT !.uForRead = FALSE] EXCEPT !.uResendFlg = 0]
        \in [uForRead : BOOLEAN, uResendFlg : 0..(Bits3 - 1), n : 0..NumPackets]
  <2>1. PICK v \in [uForRead : BOOLEAN, uResendFlg : 0..(Bits3 - 1), n : 0..NumPackets] :
          v = [xbuffer[q] EXCEPT !.uForRead = FALSE]
    BY <1>3
  <2>2. 0 \in 0..(Bits3 - 1)
    BY DEF Bits3
  <2>3. [v EXCEPT !.uResendFlg = 0]
          \in [uForRead : BOOLEAN, uResendFlg : 0..(Bits3 - 1), n : 0..NumPackets]
    BY <2>2
  <2>4. QED
    BY <2>1, <2>3
<1>5. /\ xbuffer' \in Ring
      /\ xbuffer'[q] = [[xbuffer[q] EXCEPT !.uForRead = FALSE] EXCEPT !.uResendFlg = 0]
      /\ \A p \in Places : p # q => xbuffer'[p] = xbuffer[p]
  BY <1>2, <1>3, <1>4 DEF Ring
<1>6. ~xbuffer'[q].uForRead
  BY <1>3, <1>5
<1>7. uPrePos # -1 /\ xbuffer[q].uForRead
  BY <1>1 DEF ReadPacket, HasPacket
<1>8. uPreReadSeq' = Seq(xbuffer[q].n) /\ played' = xbuffer[q].n
      /\ (disorder' = (disorder \/ xbuffer[q].n <= played)) /\ uPreReadPos' = q /\ adrift' = FALSE
  BY <1>1 DEF ReadPacket
<1>9. QED
  BY <1>1, <1>5, <1>6, <1>7, <1>8

LEMMA ReadPacketTypes ==
  ASSUME OptTypeOK, NumbersInv, ReadPacket
  PROVE  OptTypeOK' /\ NumbersInv'
<1>1. PICK q \in Places :
        /\ q = curReadPos /\ uPrePos # -1 /\ xbuffer[q].uForRead
        /\ xbuffer' \in Ring /\ ~xbuffer'[q].uForRead
        /\ \A p \in Places : p # q => xbuffer'[p] = xbuffer[p]
        /\ uPreReadSeq' = Seq(xbuffer[q].n) /\ played' = xbuffer[q].n
        /\ disorder' = (disorder \/ xbuffer[q].n <= played)
        /\ uPreReadPos' = q /\ adrift' = FALSE
  BY ReadPacketIs
<1>2. uPreSeq' = uPreSeq /\ uPrePos' = uPrePos /\ netVars' = netVars /\ stale' = stale
      /\ arrived' = arrived /\ uCuPktLost' = 0
  BY DEF ReadPacket
<1>3. xbuffer[q].n \in Packets /\ Seq(xbuffer[q].n) <= uPreSeq
  BY <1>1 DEF NumbersInv
<1>4. Seq(xbuffer[q].n) \in 0..(Seqs - 1) /\ xbuffer[q].n \in 0..NumPackets
  BY <1>3, StoredIs, Widths DEF Packets
<1>5. uCuPktLost' \in 0..(MaxLost - 1) /\ uPreReadSeq' \in -1..(Seqs - 1)
  BY <1>1, <1>2, <1>4 DEF MaxLost
<1>6. newest' = newest /\ silences' = silences /\ scans' = scans
  BY <1>2 DEF netVars
<1>7. disorder' \in BOOLEAN /\ adrift' \in BOOLEAN /\ stale' \in BOOLEAN
  BY <1>1, <1>2 DEF OptTypeOK
<1>8. OptTypeOK'
  BY <1>1, <1>2, <1>4, <1>5, <1>6, <1>7 DEF OptTypeOK, Ring
<1>9. uPreSeq # -1
  <2>1. Seq(xbuffer[q].n) \in 0..(Seqs - 1) /\ uPreSeq \in Int
    BY <1>4 DEF OptTypeOK
  <2>2. QED
    BY <1>3, <2>1
<1>10. \A p \in Places : xbuffer'[p].uForRead =>
         xbuffer'[p].n \in Packets /\ Seq(xbuffer'[p].n) <= uPreSeq
  BY <1>1 DEF NumbersInv
<1>11. NumbersInv'
  BY <1>1, <1>2, <1>3, <1>9, <1>10 DEF NumbersInv, Seq
<1>12. QED
  BY <1>8, <1>11

LEMMA GiveUpTypes ==
  ASSUME OptTypeOK, NumbersInv, GiveUp
  PROVE  OptTypeOK' /\ NumbersInv'
<1>1. /\ xbuffer' = xbuffer /\ uPreSeq' = uPreSeq /\ uPrePos' = uPrePos /\ netVars' = netVars
      /\ playVars' = playVars /\ arrived' = arrived /\ adrift' = adrift
      /\ uCuPktLost' = uCuPktLost + 1 /\ uCuPktLost + 1 < MaxLost /\ uPreSeq # uPreReadSeq
      /\ uPreReadPos # -1 \/ uPrePos # -1
      /\ \/ uPreReadPos < uPrePos /\ uPreReadPos' = uPreReadPos + 1 /\ uPreReadSeq' = uPreReadSeq + 1
         \/ UNCHANGED <<uPreReadPos, uPreReadSeq>>
  BY DEF GiveUp, WaitEnds
<1>2. /\ uPreSeq \in -1..(Seqs - 1) /\ uPreReadSeq \in -1..(Seqs - 1) /\ uCuPktLost \in 0..(MaxLost - 1)
      /\ uPrePos \in -1..(uPacketNum - 1) /\ uPreReadPos \in -1..(uPacketNum - 1)
      /\ uPreReadSeq <= uPreSeq
  BY Widths DEF OptTypeOK, NumbersInv, Places
<1>3. uPreReadSeq' \in -1..(Seqs - 1) /\ uPreReadSeq' <= uPreSeq
  BY <1>1, <1>2, Widths
<1>4. uPreReadPos' \in Places \cup {-1}
  BY <1>1, <1>2, Widths DEF Places
<1>5. uCuPktLost' \in 0..(MaxLost - 1)
  BY <1>1, <1>2 DEF MaxLost
<1>6. /\ newest' = newest /\ silences' = silences /\ scans' = scans
      /\ played' = played /\ disorder' = disorder /\ stale' = stale
  BY <1>1 DEF netVars, playVars
<1>7. OptTypeOK'
  BY <1>1, <1>3, <1>4, <1>5, <1>6 DEF OptTypeOK
<1>8. uPrePos # -1 /\ uPreSeq # -1
  BY <1>1 DEF NumbersInv, Idle
<1>9. NumbersInv'
  BY <1>1, <1>3, <1>8 DEF NumbersInv, Seq
<1>10. QED
  BY <1>7, <1>9

LEMMA SkipToSpsIs ==
  ASSUME OptTypeOK, NumbersInv, SkipToSps
  PROVE  LET to == move_pos(DropFront, find_sps)
         IN  /\ WaitEnds /\ uPrePos # -1 /\ uPreSeq # -1
             /\ Under(to.ring, xbuffer) /\ to.pos \in Places /\ to.seq \in -1..uPreSeq
             /\ xbuffer' = to.ring /\ uPreReadPos' = to.pos - 1 /\ uPreReadSeq' = to.seq
             /\ adrift' = (to.seq = uPreReadSeq)
<1>1. WaitEnds
  BY DEF SkipToSps
<1>2. uPrePos # -1 /\ uPreSeq # -1
  BY <1>1 DEF WaitEnds, NumbersInv, Idle
<1>3. find_sps \in -1..(uPacketNum - 1)
  BY <1>2, FindSpsIs
<1>4. xbuffer \in Ring
  BY RingIs
<1>5. Under(DropFront, xbuffer) /\ DropFront \in Ring
  BY <1>4, DropFrontIs, EmptiedIs DEF Under
<1>6. LET to == move_pos(DropFront, find_sps)
      IN  Under(to.ring, xbuffer) /\ to.pos \in Places /\ to.seq \in -1..uPreSeq
  BY <1>2, <1>3, <1>5, MovePosTypes
<1>7. QED
  BY <1>1, <1>2, <1>6 DEF SkipToSps

LEMMA SkipToSpsTypes ==
  ASSUME OptTypeOK, NumbersInv, SkipToSps
  PROVE  OptTypeOK' /\ NumbersInv'
<1> DEFINE to == move_pos(DropFront, find_sps)
<1>1. /\ WaitEnds /\ uPrePos # -1 /\ uPreSeq # -1
      /\ Under(to.ring, xbuffer) /\ to.pos \in Places /\ to.seq \in -1..uPreSeq
      /\ xbuffer' = to.ring /\ uPreReadPos' = to.pos - 1 /\ uPreReadSeq' = to.seq
      /\ adrift' = (to.seq = uPreReadSeq)
  BY SkipToSpsIs
<1> HIDE DEF to
<1>2. /\ uPreSeq' = uPreSeq /\ uPrePos' = uPrePos /\ netVars' = netVars /\ stale' = stale
      /\ arrived' = arrived /\ uCuPktLost' = 0 /\ played' = played /\ disorder' = disorder
  BY DEF SkipToSps
<1>3. uPreSeq \in -1..(Seqs - 1) /\ uPreReadSeq' \in -1..(Seqs - 1) /\ uPreReadSeq' <= uPreSeq
  BY <1>1, Widths DEF OptTypeOK
<1>4. uPreReadPos' \in Places \cup {-1} /\ adrift' \in BOOLEAN
  BY <1>1, Widths DEF Places
<1>5. uCuPktLost' \in 0..(MaxLost - 1)
  BY <1>2 DEF MaxLost
<1>6. newest' = newest /\ silences' = silences /\ scans' = scans
  BY <1>2 DEF netVars
<1>7. xbuffer' \in Ring
      /\ \A q \in Places : xbuffer'[q].n = xbuffer[q].n /\ (xbuffer'[q].uForRead => xbuffer[q].uForRead)
  BY <1>1 DEF Under
<1>8. OptTypeOK'
  BY <1>2, <1>3, <1>4, <1>5, <1>6, <1>7 DEF OptTypeOK, Ring
<1>9. NumbersInv'
  BY <1>1, <1>2, <1>3, <1>7 DEF NumbersInv, Seq
<1>10. QED
  BY <1>8, <1>9

\* A scan changes nothing that is read.
LEMMA ScanLostIs ==
  ASSUME OptTypeOK, NEW nMax, ScanLost(nMax)
  PROVE  /\ xbuffer' \in Ring
         /\ \A q \in Places : /\ xbuffer'[q].n = xbuffer[q].n
                              /\ xbuffer'[q].uForRead <=> xbuffer[q].uForRead
<1> DEFINE bumped == {PlaceAt(k) : k \in {i \in Reached(nMax) : ~Readable(i)}}
           flag == [k \in Scanned |-> Bumped(k)]
<1>1. xbuffer' = [p \in Places |->
                    IF p \in bumped
                    THEN [xbuffer[p] EXCEPT !.uResendFlg = flag[At(p - curReadPos)]]
                    ELSE xbuffer[p]]
  BY DEF ScanLost
<1>2. ASSUME NEW p \in Places, p \in bumped
      PROVE  flag[At(p - curReadPos)] \in 0..(Bits3 - 1)
  <2>1. PICK k \in Scanned : p = PlaceAt(k)
    BY <1>2 DEF Reached
  <2>2. curReadPos \in Int /\ uPrePos \in Int
    BY CurReadPos DEF OptTypeOK, Places
  <2>3. At(uPrePos - curReadPos) \in Places
    BY <2>2, AtIs
  <2>4. k \in Places /\ k \in Int
    BY <2>1, <2>3, Widths DEF Scanned, Places
  <2>5. At(At(curReadPos + k) + (-curReadPos)) = At((curReadPos + k) + (-curReadPos))
    BY <2>2, <2>4, AtPlus
  <2>6. (curReadPos + k) + (-curReadPos) = k
    BY <2>2, <2>4
  <2>7. At(curReadPos + k) \in Int
    BY <2>2, <2>4, AtIs DEF Places
  <2>8. p - curReadPos = At(curReadPos + k) + (-curReadPos)
    BY <2>1, <2>2, <2>7 DEF PlaceAt
  <2>9. At(p - curReadPos) = k
    BY <2>4, <2>5, <2>6, <2>8, AtOfPlace
  <2>10. Bumped(k) \in 0..(Bits3 - 1)
    <3>1. xbuffer[PlaceAt(k)].uResendFlg \in 0..(Bits3 - 1)
      BY <2>4, CurReadPos, RingIs
    <3>2. QED
      BY <3>1 DEF Bumped, Bits3
  <2>11. QED
    BY <2>1, <2>9, <2>10
<1> HIDE DEF bumped, flag
<1>3. ASSUME NEW p \in Places
      PROVE  /\ xbuffer'[p] \in [uForRead : BOOLEAN, uResendFlg : 0..(Bits3 - 1), n : 0..NumPackets]
             /\ xbuffer'[p].n = xbuffer[p].n
             /\ xbuffer'[p].uForRead <=> xbuffer[p].uForRead
  <2>1. xbuffer[p] \in [uForRead : BOOLEAN, uResendFlg : 0..(Bits3 - 1), n : 0..NumPackets]
    BY RingIs
  <2>2. CASE p \in bumped
    <3>1. xbuffer'[p] = [xbuffer[p] EXCEPT !.uResendFlg = flag[At(p - curReadPos)]]
      BY <1>1, <2>2
    <3>2. QED
      BY <1>2, <2>1, <2>2, <3>1
  <2>3. CASE p \notin bumped
    <3>1. xbuffer'[p] = xbuffer[p]
      BY <1>1, <2>3
    <3>2. QED
      BY <2>1, <3>1
  <2>4. QED
    BY <2>2, <2>3
<1>4. xbuffer' = [p \in Places |-> xbuffer'[p]]
  BY <1>1
<1>5. QED
  BY <1>3, <1>4 DEF Ring

LEMMA ScanLostTypes ==
  ASSUME OptTypeOK, NumbersInv, NEW nMax, ScanLost(nMax)
  PROVE  OptTypeOK' /\ NumbersInv'
<1>1. /\ xbuffer' \in Ring
      /\ \A q \in Places : /\ xbuffer'[q].n = xbuffer[q].n
                           /\ xbuffer'[q].uForRead <=> xbuffer[q].uForRead
  BY ScanLostIs
<1>2. /\ scans < NumScans /\ scans' = scans + 1 /\ Scans
      /\ UNCHANGED <<uPreSeq, uPrePos, uPreReadSeq, uPreReadPos, uCuPktLost, newest, silences,
                     played, disorder, stale, adrift, arrived>>
  BY DEF ScanLost, playVars
<1>3. scans' \in 0..NumScans
  BY <1>2, Widths DEF OptTypeOK
<1>4. OptTypeOK'
  BY <1>1, <1>2, <1>3 DEF OptTypeOK, Ring
<1>5. uPrePos # -1 /\ uPreSeq # -1
  BY <1>2 DEF Scans
<1>6. NumbersInv'
  <2>1. ASSUME NEW p \in Places, xbuffer'[p].uForRead
        PROVE  xbuffer'[p].n \in Packets /\ Seq(xbuffer'[p].n) <= uPreSeq
    <3>1. xbuffer'[p].n = xbuffer[p].n /\ xbuffer[p].uForRead
      <4>1. /\ xbuffer'[p].n = xbuffer[p].n
            /\ xbuffer'[p].uForRead <=> xbuffer[p].uForRead
        BY <1>1
      <4>2. QED
        BY <2>1, <4>1
    <3>2. xbuffer[p].n \in Packets /\ Seq(xbuffer[p].n) <= uPreSeq
      BY <3>1 DEF NumbersInv
    <3>3. QED
      BY <3>1, <3>2
  <2>2. uPreReadSeq <= uPreSeq
    BY DEF NumbersInv
  <2>3. QED
    BY <1>2, <1>5, <2>1, <2>2 DEF NumbersInv, Seq
<1>7. QED
  BY <1>4, <1>6

LEMMA TypesAfter ==
  ASSUME OptTypeOK, NumbersInv, [OptNext]_optVars
  PROVE  OptTypeOK' /\ NumbersInv'
<1>1. CASE Write
  BY <1>1, WriteTypes
<1>2. CASE Reset
  BY <1>2, ResetTypes
<1>3. CASE ReadPacket
  BY <1>3, ReadPacketTypes
<1>4. CASE GiveUp
  BY <1>4, GiveUpTypes
<1>5. CASE SkipToSps
  BY <1>5, SkipToSpsTypes
<1>6. ASSUME NEW nMax \in {1, uPacketNum}, ScanLost(nMax)
      PROVE  OptTypeOK' /\ NumbersInv'
  BY <1>6, ScanLostTypes
<1>7. CASE UNCHANGED optVars
  BY <1>7 DEF optVars, ringVars, netVars, playVars, OptTypeOK, NumbersInv, Idle, Seq
<1>8. QED
  BY <1>1, <1>2, <1>3, <1>4, <1>5, <1>6, <1>7 DEF OptNext, pjmedia_ringbuffer_read

-----------------------------------------------------------------------------
(***************************************************************************)
(* The window.                                                             *)
(***************************************************************************)

\* The packet that restarts the buffer, also by being the first one.
LEMMA FirstTracks ==
  ASSUME OptTypeOK, NEW n \in Packets, n > played, played' = played,
         newest - n <= MaxLate, newest' = (IF n > newest THEN n ELSE newest),
         \A p \in Places : xbuffer'[p].uForRead <=> p = 0,
         xbuffer'[0].n = n, uPrePos' = 0, uPreSeq' = Seq(n), uPreReadPos' = -1, arrived' = {n}
  PROVE  Track(n, n, n)'
<1>1. n \in Int /\ Seq(n) \in 0..(Seqs - 1) /\ played \in Int /\ newest \in Int
  BY StoredIs DEF OptTypeOK
<1>2. At(0) = 0 /\ 0 \in Places /\ n - n = 0 /\ At(n - n) = 0
  BY <1>1, AtOfPlace, Widths
<1>3. curReadPos' = 0
  BY DEF curReadPos
<1>4. n <= newest' /\ newest' - n <= uMaxPktWin
  BY <1>1, Widths
<1>5. n - n < uPacketNum - 1
  BY <1>1, Widths
<1>6. Reader(n, n, n)'
  BY <1>1, <1>2, <1>3, <1>4, <1>5 DEF Reader
<1>7. Waits(n, n)'
  BY <1>2 DEF Waits
<1>8. Holds(n, n, n)'
  <2>1. ~(n = n + 1) /\ n \in n..n
    BY <1>1
  <2>2. \A p \in Places : xbuffer'[p].uForRead => xbuffer'[p].n \in n..n /\ p = At(xbuffer'[p].n - n)
    BY <1>2, <2>1
  <2>3. \A m \in arrived' : m >= n => m <= n /\ Waits(m, n)'
    BY <1>1, <1>7
  <2>4. QED
    BY <2>1, <2>2, <2>3 DEF Holds
<1>9. AtReader(n, n)'
  BY <1>2, <1>3 DEF AtReader
<1>10. QED
  BY <1>6, <1>8, <1>9 DEF Track

\* The distance from the reader to the writer, as the code computes it.
LEMMA ReaderIs ==
  ASSUME OptTypeOK, NEW b \in Int, NEW last \in Int, NEW r \in Int, Reader(b, last, r)
  PROVE  /\ r <= last => At(uPrePos - curReadPos) = last - r
         /\ At(uPrePos - uPreReadPos) = last - r + 1
         /\ PlacesDiffer(b, last, r) /\ last - r < uPacketNum - 1
<1>1. /\ b <= last /\ b <= r /\ r <= last + 1 /\ last - r < uPacketNum - 1
      /\ uPrePos = At(last - b) /\ curReadPos = At(r - b)
  BY DEF Reader
<1>2. last - r < uPacketNum - 1
  BY <1>1
<1>3. PlacesDiffer(b, last, r)
  BY <1>2, InWindow
<1>4. ASSUME r <= last
      PROVE  At(uPrePos - curReadPos) = last - r
  <2>1. r \in r..(last + 1) /\ last \in r..(last + 1)
    BY <1>4
  <2>2. At(At(last - b) - At(r - b)) = last - r
    BY <1>3, <1>4, <2>1 DEF PlacesDiffer
  <2>3. QED
    BY <1>1, <2>2
<1>5. PICK c \in Int : c = uPreReadPos + 1 /\ At(c) = At(r - b)
  <2>1. uPreReadPos + 1 \in Int
    BY CurReadPos
  <2>2. CASE uPreReadPos = -1
    <3>1. uPreReadPos + 1 = 0 /\ 0 \in Places
      BY <2>2, Widths
    <3>2. At(0) = 0 /\ curReadPos = 0
      BY <2>2, <3>1, AtOfPlace DEF curReadPos
    <3>3. QED
      BY <1>1, <3>1, <3>2
  <2>3. CASE uPreReadPos # -1
    BY <1>1, <2>1, <2>3 DEF curReadPos
  <2>4. QED
    BY <2>2, <2>3
<1>6. PICK e \in Int, x \in Int, y \in Int : e = At(r - b) /\ c = uPacketNum * x + e /\ r - b = uPacketNum * y + e
  <2>1. r - b \in Int
    OBVIOUS
  <2>2. /\ c = uPacketNum * (c \div uPacketNum) + At(c) /\ c \div uPacketNum \in Int
        /\ r - b = uPacketNum * ((r - b) \div uPacketNum) + At(r - b)
        /\ (r - b) \div uPacketNum \in Int /\ At(r - b) \in Int
    BY <2>1, AtIs DEF Places
  <2>3. QED
    BY <1>5, <2>2
<1>7. PICK f \in Int, z \in Int : f = At(last - b) /\ last - b = uPacketNum * z + f
  <2>1. last - b \in Int
    OBVIOUS
  <2>2. /\ last - b = uPacketNum * ((last - b) \div uPacketNum) + At(last - b)
        /\ (last - b) \div uPacketNum \in Int /\ At(last - b) \in Int
    BY <2>1, AtIs DEF Places
  <2>3. QED
    BY <2>2
<1>8. uPrePos - uPreReadPos = f - c + 1
  <2>1. uPreReadPos \in Int
    BY CurReadPos
  <2>2. QED
    BY <1>1, <1>5, <1>7, <2>1
<1>9. uPacketNum * (y - x - z) = uPacketNum * y - uPacketNum * x - uPacketNum * z /\ y - x - z \in Int
  BY Widths
<1>10. f - c + 1 = (last - r + 1) + uPacketNum * (y - x - z)
  BY <1>6, <1>7, <1>9, Widths
<1>11. At(f - c + 1) = At(last - r + 1)
  BY <1>9, <1>10, AtSame
<1>12. last - r + 1 \in Places
  BY <1>1, Widths DEF Places
<1>13. At(last - r + 1) = last - r + 1
  BY <1>12, AtOfPlace
<1>14. QED
  BY <1>2, <1>3, <1>4, <1>8, <1>11, <1>13

\* Another packet: n is not in front of the reader, and the gap is its distance.
LEMMA StoreTracks ==
  ASSUME OptTypeOK, NumbersInv,
         NEW b \in Int, NEW last \in Int, NEW r \in Int, Track(b, last, r),
         NEW n \in Packets, newest - n <= MaxLate, n - newest <= uMaxPktWin,
         newest' = (IF n > newest THEN n ELSE newest), played' = played,
         abs(nSeqGap(n)) <= uMaxPktWin, KeepsUp(n), Store(n), ~stale'
  PROVE  \E m \in Int : Track(b, m, r)'
<1>1. /\ last \in Packets /\ b <= last /\ b <= r /\ r <= last + 1 /\ last - r < uPacketNum - 1
      /\ uPreSeq = Seq(last) /\ last - b <= uPreSeq
      /\ uPrePos = At(last - b) /\ curReadPos = At(r - b)
      /\ played < r /\ last <= newest /\ newest - last <= uMaxPktWin
  BY DEF Track, Reader
<1>2. /\ n \in Int /\ Seq(n) \in 0..(Seqs - 1) /\ Seq(last) \in 0..(Seqs - 1)
      /\ newest \in Int /\ played \in Int
  BY <1>1, StoredIs DEF OptTypeOK
<1>3. PICK g \in Int : g = nSeqGap(n) /\ g = Seq(n) - Seq(last) /\ g <= uMaxPktWin /\ -g <= uMaxPktWin
  <2>1. uPreSeq # -1
    BY <1>1, <1>2
  <2>2. QED
    BY <1>1, <2>1, GapIs
<1>4. g = n - last
  <2>1. n - last <= 2 * uMaxPktWin /\ last - n <= 2 * uMaxPktWin
    BY <1>1, <1>2, Widths
  <2>2. Seq(n) - Seq(last) <= uMaxPktWin /\ Seq(last) - Seq(n) <= uMaxPktWin
    BY <1>2, <1>3, Widths
  <2>3. Seq(n) - Seq(last) = n - last
    BY <1>2, <2>1, <2>2, GapTells
  <2>4. QED
    BY <1>3, <2>3
<1>5. /\ r <= last => At(uPrePos - curReadPos) = last - r
      /\ At(uPrePos - uPreReadPos) = last - r + 1
  BY ReaderIs DEF Track
<1>6. n >= r
  <2>1. ~TurnIsOver(n)
    BY DEF Store
  <2>2. n > played /\ (uPrePos # -1 => ~(At(uPrePos - curReadPos) + g < 0))
    BY <1>2, <1>3, <2>1 DEF TurnIsOver
  <2>3. uPrePos # -1
    BY <1>1, AtIs DEF Places
  <2>4. CASE r <= last
    BY <1>2, <1>4, <1>5, <2>2, <2>3, <2>4
  <2>5. CASE r = last + 1
    <3>1. played = last
      BY <2>5 DEF Track, Holds
    <3>2. QED
      BY <1>2, <2>2, <2>5, <3>1
  <2>6. QED
    BY <1>1, <2>4, <2>5
<1>7. n - r < uPacketNum - 1
  <2>1. last - r + 1 + g < uPacketNum
    BY <1>3, <1>5 DEF KeepsUp
  <2>2. QED
    BY <1>2, <1>4, <2>1, Widths
<1>8. PICK index \in Places :
        /\ index = At(uPrePos + nSeqGap(n) + uPacketNum)
        /\ xbuffer' \in Ring /\ xbuffer'[index].uForRead /\ xbuffer'[index].n = n
        /\ \A q \in Places : q # index => xbuffer'[q] = xbuffer[q]
  BY StoreTypes
<1>9. index = At(n - b)
  <2>1. PICK x \in Int, k \in Int : x = last - b /\ k = g + uPacketNum
    BY Widths
  <2>2. At(x) \in Int
    BY AtIs DEF Places
  <2>3. uPrePos + nSeqGap(n) + uPacketNum = At(x) + k
    BY <1>1, <1>3, <2>1, <2>2, Widths
  <2>4. At(At(x) + k) = At(x + k)
    BY AtPlus
  <2>5. x + k = (n - b) + uPacketNum * 1
    BY <1>2, <1>4, <2>1, Widths
  <2>6. n - b \in Int /\ x + k \in Int
    BY <1>2
  <2>7. At(x + k) = At(n - b)
    BY <2>5, <2>6, AtSame
  <2>8. QED
    BY <1>8, <2>3, <2>4, <2>7
<1>10. /\ IF g > 0 THEN uPrePos' = index /\ uPreSeq' = Seq(n) ELSE UNCHANGED <<uPrePos, uPreSeq>>
       /\ arrived' = arrived \cup {n}
       /\ UNCHANGED <<uPreReadPos, uPreReadSeq, uCuPktLost, adrift>>
  BY <1>3, <1>8 DEF Store
<1>11. PICK m \in Packets : m = IF g > 0 THEN n ELSE last
  BY <1>1
<1>12. /\ m \in Int /\ m >= last /\ m >= n /\ m - r < uPacketNum - 1
       /\ m = n \/ (m = last /\ g <= 0)
  BY <1>1, <1>2, <1>4, <1>7, <1>11, Widths
<1>13. uPrePos' = At(m - b) /\ uPreSeq' = Seq(m) /\ m - b <= uPreSeq'
  <2>1. CASE g > 0
    <3>1. m = n /\ uPrePos' = index /\ uPreSeq' = Seq(n)
      BY <1>10, <1>11, <2>1
    <3>2. n - b <= Seq(n)
      BY <1>1, <1>2, <1>3, <1>4
    <3>3. QED
      BY <1>9, <3>1, <3>2
  <2>2. CASE ~(g > 0)
    BY <1>1, <1>10, <1>11, <2>2
  <2>3. QED
    BY <2>1, <2>2
<1>14. curReadPos' = curReadPos
  BY <1>10 DEF curReadPos
<1>15. Reader(b, m, r)'
  <2>1. m <= newest' /\ newest' - m <= uMaxPktWin
    BY <1>1, <1>2, <1>12, Widths
  <2>2. b <= m /\ r <= m + 1
    BY <1>1, <1>12
  <2>3. played' < r
    BY <1>1
  <2>4. QED
    BY <1>1, <1>12, <1>13, <1>14, <2>1, <2>2, <2>3 DEF Reader
<1>16. PlacesDiffer(b, m, r)
  <2>1. m - r < uPacketNum - 1
    BY <1>12
  <2>2. QED
    BY <1>12, <2>1, InWindow
<1>17. Holds(b, m, r)'
  <2>1. r # m + 1
    BY <1>6, <1>12, <1>2
  <2>2. m \in arrived'
    <3>1. CASE m = n
      BY <1>10, <3>1
    <3>2. CASE m = last /\ m >= n
      <4>1. r <= last
        BY <1>2, <1>6, <3>2
      <4>2. QED
        BY <1>10, <3>2, <4>1 DEF Track, Holds
    <3>3. QED
      BY <1>12, <3>1, <3>2
  <2>3. ASSUME NEW p \in Places, xbuffer'[p].uForRead
        PROVE  xbuffer'[p].n \in r..m /\ p = At(xbuffer'[p].n - b)
    <3>1. CASE p = index
      <4>1. n \in r..m
        BY <1>2, <1>6, <1>12
      <4>2. QED
        BY <1>8, <1>9, <3>1, <4>1
    <3>2. CASE p # index
      <4>1. xbuffer'[p] = xbuffer[p]
        BY <1>8, <3>2
      <4>2. xbuffer[p].n \in r..last /\ p = At(xbuffer[p].n - b)
        BY <2>3, <4>1 DEF Track, Holds
      <4>3. xbuffer[p].n \in r..m
        BY <1>12, <4>2
      <4>4. QED
        BY <4>1, <4>2, <4>3
    <3>3. QED
      BY <3>1, <3>2
  <2>4. ASSUME NEW k \in arrived', k >= r
        PROVE  k <= m /\ Waits(k, b)'
    <3>1. CASE k = n
      BY <1>8, <1>9, <1>12, <3>1 DEF Waits
    <3>2. CASE k \in arrived /\ k # n
      <4>1. k <= last /\ Waits(k, b) /\ k \in Int
        BY <2>4, <3>2 DEF Track, Holds, OptTypeOK, Packets
      <4>2. k \in r..(m + 1) /\ n \in r..(m + 1) /\ k <= m
        BY <1>2, <1>6, <1>12, <2>4, <4>1
      <4>3. At(k - b) # index
        BY <1>9, <1>16, <3>2, <4>2 DEF PlacesDiffer
      <4>4. At(k - b) \in Places
        BY <4>1, AtIs
      <4>5. QED
        BY <1>8, <4>1, <4>2, <4>3, <4>4 DEF Waits
    <3>3. QED
      BY <1>10, <3>1, <3>2
  <2>5. QED
    BY <2>1, <2>2, <2>3, <2>4 DEF Holds
<1>18. AtReader(b, r)'
  <2>1. ASSUME uPreReadPos = -1
        PROVE  xbuffer'[curReadPos].uForRead
    <3>1. xbuffer[curReadPos].uForRead /\ curReadPos \in Places
      BY <2>1, CurReadPos DEF Track, AtReader
    <3>2. QED
      BY <1>8, <3>1
  <2>2. QED
    BY <1>10, <1>14, <2>1 DEF Track, AtReader
<1>19. QED
  BY <1>12, <1>15, <1>17, <1>18 DEF Track

LEMMA WriteTracks ==
  ASSUME OptInv, Write
  PROVE  InStep'
<1>1. PICK n \in Packets :
        /\ newest - n <= MaxLate /\ n - newest <= uMaxPktWin
        /\ abs(nSeqGap(n)) <= uMaxPktWin => KeepsUp(n)
        /\ pjmedia_ringbuffer_write(n)
        /\ newest' = (IF n > newest THEN n ELSE newest)
        /\ UNCHANGED <<scans, played, disorder>>
  BY DEF Write
<1>2. SUFFICES ASSUME ~stale'
               PROVE  ~disorder' /\ (Idle' \/ \E b, last, r \in Int : Track(b, last, r)')
  BY DEF InStep
<1>3. OptTypeOK /\ NumbersInv /\ n \in Int /\ played \in Int
  BY StoredIs DEF OptInv, OptTypeOK
<1>4. CASE Restart(n)
  <2>1. ~stale /\ n > played
    <3>1. stale' = (stale \/ n <= played)
      BY <1>4 DEF Restart
    <3>2. ~stale /\ ~(n <= played)
      BY <1>2, <3>1
    <3>3. QED
      BY <1>3, <3>2
  <2>2. ~disorder'
    BY <1>1, <2>1 DEF OptInv, InStep
  <2>3. Track(n, n, n)'
    <3>1. /\ \A p \in Places : xbuffer'[p].uForRead <=> p = 0
          /\ xbuffer'[0].n = n
      BY <1>4, RestartTypes
    <3>2. uPrePos' = 0 /\ uPreSeq' = Seq(n) /\ uPreReadPos' = -1 /\ arrived' = {n}
      BY <1>4 DEF Restart
    <3>3. played' = played
      BY <1>1
    <3>4. QED
      BY <1>1, <1>3, <2>1, <3>1, <3>2, <3>3, FirstTracks
  <2>4. QED
    BY <1>3, <2>2, <2>3
<1>5. CASE Store(n) /\ abs(nSeqGap(n)) <= uMaxPktWin
  <2>1. ~stale /\ ~TurnIsOver(n)
    BY <1>2, <1>5 DEF Store
  <2>2. ~disorder' /\ (Idle \/ \E b, last, r \in Int : Track(b, last, r))
    BY <1>1, <2>1 DEF OptInv, InStep
  <2>3. CASE Idle
    <3>1. n > played
      BY <1>3, <2>1 DEF TurnIsOver
    <3>2. PICK index \in Places :
            /\ index = At(uPrePos + nSeqGap(n) + uPacketNum)
            /\ xbuffer' \in Ring /\ xbuffer'[index].uForRead /\ xbuffer'[index].n = n
            /\ \A q \in Places : q # index => xbuffer'[q] = xbuffer[q]
      BY <1>3, <1>5, StoreTypes
    <3>3. nSeqGap(n) = 1 /\ uPrePos = -1 /\ uPreReadPos = -1 /\ arrived = {}
      BY <2>3 DEF nSeqGap, Idle
    <3>4. index = 0
      <4>1. uPrePos + nSeqGap(n) + uPacketNum = 0 + uPacketNum * 1
        BY <3>3, Widths
      <4>2. At(0 + uPacketNum * 1) = At(0) /\ At(0) = 0
        BY AtSame, AtOfPlace, Widths
      <4>3. QED
        BY <3>2, <4>1, <4>2
    <3>5. uPrePos' = 0 /\ uPreSeq' = Seq(n) /\ uPreReadPos' = -1 /\ arrived' = {n}
      BY <1>5, <3>2, <3>3, <3>4 DEF Store
    <3>6. \A p \in Places : xbuffer'[p].uForRead <=> p = 0
      BY <2>3, <3>2, <3>4 DEF Idle
    <3>7. xbuffer'[0].n = n /\ played' = played
      BY <1>1, <3>2, <3>4
    <3>8. Track(n, n, n)'
      BY <1>1, <1>3, <3>1, <3>5, <3>6, <3>7, FirstTracks
    <3>9. QED
      BY <1>3, <2>2, <3>8
  <2>4. ASSUME NEW b \in Int, NEW last \in Int, NEW r \in Int, Track(b, last, r)
        PROVE  ~disorder' /\ (Idle' \/ \E x, y, z \in Int : Track(x, y, z)')
    <3>1. KeepsUp(n) /\ played' = played
      BY <1>1, <1>5
    <3>2. PICK m \in Int : Track(b, m, r)'
      BY <1>1, <1>2, <1>3, <1>5, <2>4, <3>1, StoreTracks
    <3>3. QED
      BY <2>2, <3>2
  <2>5. QED
    BY <2>2, <2>3, <2>4
<1>6. QED
  BY <1>1, <1>4, <1>5 DEF pjmedia_ringbuffer_write

LEMMA ReadPacketTracks ==
  ASSUME OptTypeOK, NumbersInv, ReadPacket,
         NEW b \in Int, NEW last \in Int, NEW r \in Int, Track(b, last, r)
  PROVE  Track(b, last, r + 1)' /\ disorder' = disorder
<1>1. PICK q \in Places :
        /\ q = curReadPos /\ uPrePos # -1 /\ xbuffer[q].uForRead
        /\ xbuffer' \in Ring /\ ~xbuffer'[q].uForRead
        /\ \A p \in Places : p # q => xbuffer'[p] = xbuffer[p]
        /\ uPreReadSeq' = Seq(xbuffer[q].n) /\ played' = xbuffer[q].n
        /\ disorder' = (disorder \/ xbuffer[q].n <= played)
        /\ uPreReadPos' = q /\ adrift' = FALSE
  BY ReadPacketIs
<1>2. uPreSeq' = uPreSeq /\ uPrePos' = uPrePos /\ newest' = newest /\ arrived' = arrived
  BY DEF ReadPacket, netVars
<1>3. /\ last \in Packets /\ b <= last /\ b <= r /\ r <= last + 1 /\ last - r < uPacketNum - 1
      /\ uPreSeq = Seq(last) /\ last - b <= uPreSeq
      /\ uPrePos = At(last - b) /\ curReadPos = At(r - b)
      /\ played < r /\ last <= newest /\ newest - last <= uMaxPktWin
  BY DEF Track, Reader
<1>4. PlacesDiffer(b, last, r)
  BY ReaderIs DEF Track
<1>5. PICK n \in r..last : n = xbuffer[q].n /\ q = At(n - b)
  BY <1>1 DEF Track, Holds
<1>6. n = r /\ r <= last
  <2>1. n \in r..(last + 1) /\ r \in r..(last + 1) /\ r <= last
    OBVIOUS
  <2>2. At(n - b) = At(r - b)
    BY <1>1, <1>3, <1>5
  <2>3. QED
    BY <1>4, <2>1, <2>2 DEF PlacesDiffer
<1>7. disorder' = disorder
  <2>1. played \in Int /\ disorder \in BOOLEAN
    BY DEF OptTypeOK
  <2>2. ~(xbuffer[q].n <= played)
    BY <1>3, <1>5, <1>6, <2>1
  <2>3. QED
    BY <1>1, <2>1, <2>2
<1>8. curReadPos' = At(r + 1 - b)
  <2>1. uPreReadPos' # -1 /\ uPreReadPos' + 1 = At(r - b) + 1
    BY <1>1, <1>3 DEF Places
  <2>2. At(At(r - b) + 1) = At((r - b) + 1)
    BY AtPlus
  <2>3. (r - b) + 1 = r + 1 - b
    OBVIOUS
  <2>4. QED
    BY <2>1, <2>2, <2>3 DEF curReadPos
<1>9. played' = r /\ uPreReadSeq' = Seq(r)
  BY <1>1, <1>5, <1>6
<1>10. Reader(b, last, r + 1)'
  <2>1. /\ r + 1 \in Int /\ b <= r + 1 /\ r + 1 <= last + 1 /\ last - (r + 1) < uPacketNum - 1
        /\ r < r + 1
    BY <1>3, <1>6, Widths
  <2>2. QED
    BY <1>2, <1>3, <1>8, <1>9, <2>1 DEF Reader
<1>11. Holds(b, last, r + 1)'
  <2>1. r + 1 = last + 1 => played' = last /\ uPreReadSeq' = uPreSeq'
    BY <1>2, <1>3, <1>9
  <2>2. last \in arrived'
    BY <1>2, <1>6 DEF Track, Holds
  <2>3. ASSUME NEW p \in Places, xbuffer'[p].uForRead
        PROVE  xbuffer'[p].n \in (r + 1)..last /\ p = At(xbuffer'[p].n - b)
    <3>1. p # q /\ xbuffer'[p] = xbuffer[p]
      BY <1>1, <2>3
    <3>2. PICK k \in r..last : k = xbuffer[p].n /\ p = At(k - b)
      BY <2>3, <3>1 DEF Track, Holds
    <3>3. k # r
      BY <1>5, <1>6, <3>1, <3>2
    <3>4. k \in (r + 1)..last
      BY <3>3
    <3>5. QED
      BY <3>1, <3>2, <3>4
  <2>4. ASSUME NEW k \in arrived', k >= r + 1
        PROVE  k <= last /\ Waits(k, b)'
    <3>1. k \in Int /\ k \in arrived /\ k >= r
      BY <1>2, <2>4 DEF OptTypeOK, Packets
    <3>2. k <= last /\ Waits(k, b)
      BY <3>1 DEF Track, Holds
    <3>3. k \in r..(last + 1) /\ r \in r..(last + 1) /\ k # r
      BY <1>6, <2>4, <3>1, <3>2
    <3>4. At(k - b) # q /\ At(k - b) \in Places
      <4>1. At(k - b) # At(r - b)
        BY <1>4, <3>3 DEF PlacesDiffer
      <4>2. QED
        BY <1>1, <1>3, <3>1, <4>1, AtIs
    <3>5. QED
      BY <1>1, <3>2, <3>4 DEF Waits
  <2>5. QED
    BY <2>1, <2>2, <2>3, <2>4 DEF Holds
<1>12. AtReader(b, r + 1)'
  <2>1. Seq(r + 1) = (uPreReadSeq' + 1) % Seqs
    BY <1>9, SeqAfter
  <2>2. uPreReadPos' # -1 /\ b < r + 1
    BY <1>1, <1>3 DEF Places
  <2>3. QED
    BY <2>1, <2>2 DEF AtReader
<1>13. QED
  BY <1>7, <1>10, <1>11, <1>12 DEF Track

\* A wait can only end between two packets that are there.
LEMMA WaitsBetween ==
  ASSUME OptTypeOK, NumbersInv, WaitEnds,
         NEW b \in Int, NEW last \in Int, NEW r \in Int, Track(b, last, r)
  PROVE  r < last /\ uPreReadPos # -1 /\ b < r /\ ~xbuffer[At(r - b)].uForRead
<1>1. /\ last \in Packets /\ r <= last + 1 /\ curReadPos = At(r - b) /\ last \in Int
  BY DEF Track, Reader, Packets
<1>2. ~xbuffer[At(r - b)].uForRead /\ uPreSeq # uPreReadSeq
  BY <1>1 DEF WaitEnds
<1>3. r # last + 1
  BY <1>2 DEF Track, Holds
<1>4. r # last
  <2>1. ASSUME r = last
        PROVE  FALSE
    <3>1. last \in arrived /\ last >= r /\ r <= last
      BY <2>1 DEF Track, Holds
    <3>2. Waits(last, b)
      BY <3>1 DEF Track, Holds
    <3>3. QED
      BY <1>2, <2>1, <3>2 DEF Waits
  <2>2. QED
    BY <2>1
<1>5. uPreReadPos # -1
  BY <1>1, <1>2 DEF Track, AtReader
<1>6. QED
  BY <1>1, <1>2, <1>3, <1>4, <1>5 DEF Track, AtReader

LEMMA GiveUpTracks ==
  ASSUME OptTypeOK, NumbersInv, GiveUp,
         NEW b \in Int, NEW last \in Int, NEW r \in Int, Track(b, last, r)
  PROVE  \E z \in Int : Track(b, last, z)'
<1>1. r < last /\ uPreReadPos # -1 /\ b < r /\ ~xbuffer[At(r - b)].uForRead
  BY WaitsBetween DEF GiveUp
<1>2. /\ xbuffer' = xbuffer /\ uPreSeq' = uPreSeq /\ uPrePos' = uPrePos /\ newest' = newest
      /\ played' = played /\ arrived' = arrived /\ adrift' = adrift
      /\ \/ /\ uPreReadPos < uPrePos
            /\ uPreReadPos' = uPreReadPos + 1 /\ uPreReadSeq' = uPreReadSeq + 1
         \/ UNCHANGED <<uPreReadPos, uPreReadSeq>>
  BY DEF GiveUp, netVars, playVars
<1>3. CASE UNCHANGED <<uPreReadPos, uPreReadSeq>>
  <2>1. Track(b, last, r)'
    BY <1>2, <1>3 DEF Track, Reader, Holds, AtReader, Waits, curReadPos
  <2>2. QED
    BY <2>1
<1>4. CASE /\ uPreReadPos < uPrePos
           /\ uPreReadPos' = uPreReadPos + 1 /\ uPreReadSeq' = uPreReadSeq + 1
  <2>1. /\ last \in Packets /\ b <= last /\ b <= r /\ r <= last + 1 /\ last - r < uPacketNum - 1
        /\ uPreSeq = Seq(last) /\ last - b <= uPreSeq
        /\ uPrePos = At(last - b) /\ curReadPos = At(r - b)
        /\ played < r /\ last <= newest /\ newest - last <= uMaxPktWin /\ played \in Int
    BY DEF Track, Reader, OptTypeOK
  <2>2. curReadPos' = At(r + 1 - b)
    <3>1. PICK x \in Int : x = uPreReadPos
      BY CurReadPos
    <3>2. x >= 0 /\ x + 1 # -1
      BY <1>1, <3>1, Widths DEF OptTypeOK, Places
    <3>3. At(x + 1) = At(r - b)
      BY <1>1, <2>1, <3>1 DEF curReadPos
    <3>4. At(At(x + 1) + 1) = At((x + 1) + 1)
      BY AtPlus
    <3>5. At(At(r - b) + 1) = At((r - b) + 1)
      BY AtPlus
    <3>6. (r - b) + 1 = r + 1 - b
      OBVIOUS
    <3>7. curReadPos' = At((x + 1) + 1)
      BY <1>4, <3>1, <3>2 DEF curReadPos
    <3>8. QED
      BY <3>3, <3>4, <3>5, <3>6, <3>7
  <2>3. Reader(b, last, r + 1)'
    <3>1. /\ r + 1 \in Int /\ b <= r + 1 /\ r + 1 <= last + 1 /\ last - (r + 1) < uPacketNum - 1
          /\ played < r + 1
      BY <1>1, <2>1, Widths
    <3>2. QED
      BY <1>2, <2>1, <2>2, <3>1 DEF Reader
  <2>4. Holds(b, last, r + 1)'
    <3>1. r + 1 # last + 1
      BY <1>1
    <3>2. last \in arrived
      BY <1>1 DEF Track, Holds
    <3>3. ASSUME NEW p \in Places, xbuffer[p].uForRead
          PROVE  xbuffer[p].n \in (r + 1)..last /\ p = At(xbuffer[p].n - b)
      <4>1. PICK k \in r..last : k = xbuffer[p].n /\ p = At(k - b)
        BY <3>3 DEF Track, Holds
      <4>2. k # r
        BY <1>1, <3>3, <4>1
      <4>3. k \in (r + 1)..last
        BY <4>2
      <4>4. QED
        BY <4>1, <4>3
    <3>4. ASSUME NEW k \in arrived, k >= r + 1
          PROVE  k <= last /\ Waits(k, b)
      <4>1. k >= r
        BY <3>4 DEF OptTypeOK, Packets
      <4>2. QED
        BY <4>1 DEF Track, Holds
    <3>5. QED
      BY <1>2, <3>1, <3>2, <3>3, <3>4 DEF Holds, Waits
  <2>5. AtReader(b, r + 1)'
    <3>1. ASSUME ~adrift
          PROVE  Seq(r + 1) = (uPreReadSeq + 1 + 1) % Seqs
      <4>1. Seq(r) = (uPreReadSeq + 1) % Seqs /\ uPreReadSeq \in Int
        BY <1>1, <3>1 DEF Track, AtReader, OptTypeOK
      <4>2. QED
        BY <4>1, SeqPlus
    <3>2. uPreReadPos' # -1 /\ b < r + 1
      BY <1>1, <1>4, Widths DEF OptTypeOK, Places
    <3>3. QED
      BY <1>2, <1>4, <3>1, <3>2 DEF AtReader
  <2>6. Track(b, last, r + 1)'
    BY <2>3, <2>4, <2>5 DEF Track
  <2>7. QED
    BY <2>6
<1>5. QED
  BY <1>2, <1>3, <1>4

LEMMA SkipToSpsTracks ==
  ASSUME OptTypeOK, NumbersInv, SkipToSps,
         NEW b \in Int, NEW last \in Int, NEW r \in Int, Track(b, last, r)
  PROVE  \E z \in Int : Track(b, last, z)'
<1> DEFINE to == move_pos(DropFront, find_sps)
<1>1. /\ to.pos \in Places /\ xbuffer' = to.ring /\ uPreReadPos' = to.pos - 1
      /\ uPreReadSeq' = to.seq /\ adrift' = (to.seq = uPreReadSeq) /\ WaitEnds
  BY SkipToSpsIs
<1>2. r < last /\ uPreReadPos # -1 /\ b < r
  BY <1>1, WaitsBetween
<1>3. PICK z \in Int : SkipsTo(b, last, r, z)
  BY <1>2, SkipFinds
<1>4. /\ z \in r..last /\ Waits(z, b) /\ to.pos = At(z - b) /\ Keeps(to.ring, z)
      /\ to.seq = uPreReadSeq \/ to.seq = Seq(z) - 1
  BY <1>3 DEF SkipsTo
<1> HIDE DEF to
<1>5. /\ uPreSeq' = uPreSeq /\ uPrePos' = uPrePos /\ newest' = newest
      /\ played' = played /\ arrived' = arrived
  BY DEF SkipToSps, netVars
<1>6. /\ last \in Packets /\ b <= last /\ b <= r /\ r <= last + 1 /\ last - r < uPacketNum - 1
      /\ uPreSeq = Seq(last) /\ last - b <= uPreSeq
      /\ uPrePos = At(last - b) /\ curReadPos = At(r - b)
      /\ played < r /\ last <= newest /\ newest - last <= uMaxPktWin /\ played \in Int
  BY DEF Track, Reader, OptTypeOK
<1>7. curReadPos' = At(z - b)
  <2>1. CASE to.pos = 0
    <3>1. uPreReadPos' = -1
      BY <1>1, <2>1
    <3>2. QED
      BY <1>4, <2>1, <3>1 DEF curReadPos
  <2>2. CASE to.pos # 0
    <3>1. uPreReadPos' # -1 /\ uPreReadPos' + 1 = to.pos
      BY <1>1, <2>2 DEF Places
    <3>2. At(to.pos) = to.pos
      BY <1>1, AtOfPlace
    <3>3. QED
      BY <1>4, <3>1, <3>2 DEF curReadPos
  <2>3. QED
    BY <2>1, <2>2
<1>8. Reader(b, last, z)'
  <2>1. b <= z /\ z <= last + 1 /\ last - z < uPacketNum - 1 /\ played < z
    BY <1>4, <1>6, Widths
  <2>2. QED
    BY <1>5, <1>6, <1>7, <2>1 DEF Reader
<1>9. \A q \in Places : /\ xbuffer'[q].n = xbuffer[q].n
                        /\ xbuffer'[q].uForRead <=> xbuffer[q].uForRead /\ z <= xbuffer[q].n
  BY <1>1, <1>4 DEF Keeps
<1>10. Holds(b, last, z)'
  <2>1. z # last + 1
    BY <1>4
  <2>2. last \in arrived'
    BY <1>2, <1>5 DEF Track, Holds
  <2>3. ASSUME NEW p \in Places, xbuffer'[p].uForRead
        PROVE  xbuffer'[p].n \in z..last /\ p = At(xbuffer'[p].n - b)
    <3>1. xbuffer[p].uForRead /\ z <= xbuffer[p].n /\ xbuffer'[p].n = xbuffer[p].n
      BY <1>9, <2>3
    <3>2. xbuffer[p].n \in r..last /\ p = At(xbuffer[p].n - b)
      BY <3>1 DEF Track, Holds
    <3>3. xbuffer[p].n \in z..last
      BY <3>1, <3>2
    <3>4. QED
      BY <3>1, <3>2, <3>3
  <2>4. ASSUME NEW k \in arrived', k >= z
        PROVE  k <= last /\ Waits(k, b)'
    <3>1. k \in arrived /\ k \in Int /\ k >= r
      BY <1>4, <1>5, <2>4 DEF OptTypeOK, Packets
    <3>2. k <= last /\ Waits(k, b)
      BY <3>1 DEF Track, Holds
    <3>3. At(k - b) \in Places
      BY <3>1, AtIs
    <3>4. z <= k
      BY <2>4, <3>1
    <3>5. QED
      BY <1>9, <3>2, <3>3, <3>4 DEF Waits
  <2>5. QED
    BY <2>1, <2>2, <2>3, <2>4 DEF Holds
<1>11. AtReader(b, z)'
  <2>1. xbuffer'[curReadPos'].uForRead
    <3>1. At(z - b) \in Places
      BY AtIs
    <3>2. z <= z
      OBVIOUS
    <3>3. QED
      BY <1>4, <1>7, <1>9, <3>1, <3>2 DEF Waits
  <2>2. b < z
    BY <1>2, <1>4
  <2>3. ASSUME ~adrift'
        PROVE  Seq(z) = (uPreReadSeq' + 1) % Seqs
    <3>1. uPreReadSeq' = Seq(z) - 1
      BY <1>1, <1>4, <2>3
    <3>2. Seq(z) = (Seq(z) - 1 + 1) % Seqs
      BY SeqAfter
    <3>3. QED
      BY <3>1, <3>2
  <2>4. QED
    BY <2>1, <2>2, <2>3 DEF AtReader
<1>12. QED
  BY <1>8, <1>10, <1>11 DEF Track

LEMMA ScanLostTracks ==
  ASSUME OptTypeOK, NEW nMax, ScanLost(nMax),
         NEW b \in Int, NEW last \in Int, NEW r \in Int, Track(b, last, r)
  PROVE  Track(b, last, r)'
<1>1. \A q \in Places : /\ xbuffer'[q].n = xbuffer[q].n
                        /\ xbuffer'[q].uForRead <=> xbuffer[q].uForRead
  BY ScanLostIs
<1>2. /\ uPreSeq' = uPreSeq /\ uPrePos' = uPrePos /\ newest' = newest /\ played' = played
      /\ arrived' = arrived /\ uPreReadSeq' = uPreReadSeq /\ uPreReadPos' = uPreReadPos
      /\ adrift' = adrift
  BY DEF ScanLost, playVars
<1>3. curReadPos' = curReadPos /\ curReadPos \in Places
  BY <1>2, CurReadPos DEF curReadPos
<1>4. Reader(b, last, r)'
  BY <1>2, <1>3 DEF Track, Reader
<1>5. Holds(b, last, r)'
  <2>1. ASSUME NEW p \in Places, xbuffer'[p].uForRead
        PROVE  xbuffer'[p].n \in r..last /\ p = At(xbuffer'[p].n - b)
    <3>1. xbuffer[p].uForRead /\ xbuffer'[p].n = xbuffer[p].n
      BY <1>1, <2>1
    <3>2. QED
      BY <3>1 DEF Track, Holds
  <2>2. ASSUME NEW k \in arrived, k >= r
        PROVE  k <= last /\ Waits(k, b)'
    <3>1. k <= last /\ Waits(k, b) /\ k \in Int
      BY <2>2 DEF Track, Holds, OptTypeOK, Packets
    <3>2. At(k - b) \in Places
      BY <3>1, AtIs
    <3>3. QED
      BY <1>1, <3>1, <3>2 DEF Waits
  <2>3. QED
    BY <1>2, <2>1, <2>2 DEF Track, Holds
<1>6. AtReader(b, r)'
  BY <1>1, <1>2, <1>3 DEF Track, AtReader
<1>7. QED
  BY <1>4, <1>5, <1>6 DEF Track

LEMMA InStepAfter ==
  ASSUME OptInv, [OptNext]_optVars
  PROVE  InStep'
<1>1. OptTypeOK /\ NumbersInv
  BY DEF OptInv
<1>2. CASE Write
  BY <1>2, WriteTracks
<1>3. CASE Reset
  <2>1. Idle' /\ disorder' = disorder /\ stale' = stale
    BY <1>1, <1>3, ResetTypes DEF Reset, playVars
  <2>2. QED
    BY <2>1 DEF OptInv, InStep
\* The reader's steps need packets, so the buffer is not idle.
<1>4. ASSUME stale' = stale, ~Idle, disorder' = disorder \/ ReadPacket,
             \A b, last, r \in Int :
               Track(b, last, r) => disorder' = disorder /\ \E z \in Int : Track(b, last, z)'
      PROVE  InStep'
  <2>1. SUFFICES ASSUME ~stale'
                 PROVE  ~disorder' /\ (Idle' \/ \E b, last, r \in Int : Track(b, last, r)')
    BY DEF InStep
  <2>2. PICK b \in Int, last \in Int, r \in Int : Track(b, last, r)
    BY <1>4, <2>1 DEF OptInv, InStep
  <2>3. disorder' = disorder /\ \E z \in Int : Track(b, last, z)'
    BY <1>4, <2>2
  <2>4. ~disorder
    BY <1>4, <2>1 DEF OptInv, InStep
  <2>5. QED
    BY <2>3, <2>4
<1>5. CASE ReadPacket
  <2>1. stale' = stale /\ ~Idle
    BY <1>5 DEF ReadPacket, HasPacket, Idle
  <2>2. ASSUME NEW b \in Int, NEW last \in Int, NEW r \in Int, Track(b, last, r)
        PROVE  disorder' = disorder /\ \E z \in Int : Track(b, last, z)'
    <3>1. Track(b, last, r + 1)' /\ disorder' = disorder
      BY <1>1, <1>5, <2>2, ReadPacketTracks
    <3>2. QED
      BY <3>1
  <2>3. QED
    BY <1>4, <1>5, <2>1, <2>2
<1>6. CASE GiveUp
  <2>1. stale' = stale /\ ~Idle /\ disorder' = disorder
    BY <1>6 DEF GiveUp, WaitEnds, Idle, playVars
  <2>2. ASSUME NEW b \in Int, NEW last \in Int, NEW r \in Int, Track(b, last, r)
        PROVE  \E z \in Int : Track(b, last, z)'
    BY <1>1, <1>6, <2>2, GiveUpTracks
  <2>3. QED
    BY <1>4, <2>1, <2>2
<1>7. CASE SkipToSps
  <2>1. stale' = stale /\ ~Idle /\ disorder' = disorder
    BY <1>7 DEF SkipToSps, WaitEnds, Idle
  <2>2. ASSUME NEW b \in Int, NEW last \in Int, NEW r \in Int, Track(b, last, r)
        PROVE  \E z \in Int : Track(b, last, z)'
    BY <1>1, <1>7, <2>2, SkipToSpsTracks
  <2>3. QED
    BY <1>4, <2>1, <2>2
<1>8. ASSUME NEW nMax \in {1, uPacketNum}, ScanLost(nMax)
      PROVE  InStep'
  <2>1. stale' = stale /\ ~Idle /\ disorder' = disorder
    BY <1>8 DEF ScanLost, Scans, Idle, playVars
  <2>2. ASSUME NEW b \in Int, NEW last \in Int, NEW r \in Int, Track(b, last, r)
        PROVE  \E z \in Int : Track(b, last, z)'
    BY <1>1, <1>8, <2>2, ScanLostTracks
  <2>3. QED
    BY <1>4, <2>1, <2>2
<1>9. CASE UNCHANGED optVars
  <2>1. InStep
    BY DEF OptInv
  <2>2. QED
    BY <1>9, <2>1 DEF InStep, Idle, Track, Reader, Holds, AtReader, Waits, curReadPos,
                      optVars, ringVars, netVars, playVars
<1>10. QED
  BY <1>2, <1>3, <1>5, <1>6, <1>7, <1>8, <1>9 DEF OptNext, pjmedia_ringbuffer_read

LEMMA OptInitInv == OptInit => OptInv
<1> SUFFICES ASSUME OptInit PROVE OptInv
  OBVIOUS
<1>1. Empty \in [uForRead : BOOLEAN, uResendFlg : 0..(Bits3 - 1), n : 0..NumPackets]
      /\ ~Empty.uForRead
  BY Widths DEF Empty, Bits3
<1>2. xbuffer \in Ring /\ \A p \in Places : ~xbuffer[p].uForRead
  BY <1>1 DEF OptInit, Ring
<1>3. /\ -1 \in -1..(Seqs - 1) /\ 0 \in 0..NumPackets /\ 0 \in 0..NumSilences
      /\ 0 \in 0..NumScans
  BY Widths
<1>4. 0 \in 0..(MaxLost - 1)
  BY DEF MaxLost
<1>5. OptTypeOK
  BY <1>2, <1>3, <1>4 DEF OptInit, OptTypeOK, Ring
<1>6. Idle
  BY <1>2 DEF OptInit, Idle
<1>7. NumbersInv
  BY <1>2, <1>6 DEF NumbersInv, Idle
<1>8. InStep
  BY <1>6 DEF OptInit, InStep
<1>9. QED
  BY <1>5, <1>7, <1>8 DEF OptInv

\* The window is there in every state of every behaviour, until a packet is taken whose
\* turn was over.
THEOREM OptInvariance == OptSpec => []OptInv
<1>1. OptInit => OptInv
  BY OptInitInv
<1>2. OptInv /\ [OptNext]_optVars => OptInv'
  BY TypesAfter, InStepAfter DEF OptInv
<1>3. QED
  BY <1>1, <1>2, PTL DEF OptSpec

\* The types of jbuf_opt.c's variables; and pjmedia_ringbuffer_read hands packets out in
\* order, whatever is lost, late or repeated, over skips to an SPS, restarts and the
\* wrap of places and numbers, until a packet is taken whose turn was over.
THEOREM HandsOutInOrder == OptSpec => []DeliversInOrder
<1>1. OptInv => DeliversInOrder
  BY DEF OptInv, InStep, DeliversInOrder
<1>2. QED
  BY <1>1, OptInvariance, PTL

\* What is asked for.
LEMMA AsksRight ==
  ASSUME OptInv
  PROVE  AsksForMissing
<1>1. SUFFICES ASSUME Scans, ~stale, ~adrift, NEW s \in Lost(uPacketNum)
               PROVE  \E n \in Packets :
                        Seq(n) = s /\ n \in (played + 1)..newest /\ n \notin arrived
  BY DEF AsksForMissing
<1>2. OptTypeOK /\ uPrePos # -1 /\ uPreReadPos # -1 /\ uPreReadPos # uPrePos
      /\ curReadPos # uPrePos
  BY <1>1 DEF Scans, OptInv
<1>3. PICK b \in Int, last \in Int, r \in Int : Track(b, last, r)
  BY <1>1, <1>2 DEF OptInv, InStep, Idle
<1>4. /\ last \in Packets /\ r <= last + 1 /\ last - r < uPacketNum - 1
      /\ uPrePos = At(last - b) /\ curReadPos = At(r - b) /\ last <= newest /\ played < r
      /\ played \in 0..NumPackets /\ newest \in 0..NumPackets
  BY <1>2, <1>3 DEF Track, Reader, OptTypeOK
<1>5. r # last
  BY <1>2, <1>4
<1>6. r # last + 1
  <2>1. ASSUME r = last + 1
        PROVE  FALSE
    <3>1. PICK x \in Places : x = uPreReadPos
      <4>1. uPreReadPos \in Places
        BY <1>2 DEF OptTypeOK
      <4>2. QED
        BY <4>1
    <3>2. PICK y \in Int : y = last - b
      OBVIOUS
    <3>3. x \in Int /\ At(x) = x /\ (r - b) = y + 1
      BY <2>1, <3>1, <3>2, AtOfPlace DEF Places
    <3>4. At(x + 1) = At(y + 1)
      <4>1. curReadPos = At(x + 1)
        BY <1>2, <3>1 DEF curReadPos
      <4>2. QED
        BY <1>4, <3>3, <4>1
    <3>5. At(At(x + 1) + (-1)) = At((x + 1) + (-1)) /\ At(At(y + 1) + (-1)) = At((y + 1) + (-1))
      <4>1. PICK v \in Int, w \in Int : v = x + 1 /\ w = y + 1
        BY <3>3
      <4>2. At(At(v) + (-1)) = At(v + (-1)) /\ At(At(w) + (-1)) = At(w + (-1))
        BY AtPlus
      <4>3. QED
        BY <4>1, <4>2
    <3>6. (x + 1) + (-1) = x /\ (y + 1) + (-1) = y
      BY <3>2, <3>3
    <3>7. x = At(y)
      BY <3>3, <3>4, <3>5, <3>6
    <3>8. QED
      BY <1>2, <1>4, <3>1, <3>2, <3>7
  <2>2. QED
    BY <2>1
<1>7. r < last
  BY <1>4, <1>5, <1>6 DEF Packets
<1>8. At(uPrePos - curReadPos) = last - r
  BY <1>2, <1>3, <1>7, ReaderIs DEF Track
\* It is asked for on behalf of a place between the reader's and the writer's.
<1>9. PICK e \in Returned(uPacketNum) :
        s \in {LostSeq(k) : k \in {i \in Scanned :
                 \E a, c \in GroupUpTo(e) : a <= i /\ i <= c}}
  BY <1>1 DEF Lost
<1>10. PICK k \in Scanned : s = LostSeq(k) /\ \E a, c \in GroupUpTo(e) : a <= k /\ k <= c
  BY <1>9
<1>11. PICK a \in GroupUpTo(e), c \in GroupUpTo(e) : a <= k /\ k <= c
  BY <1>10
<1>12. /\ k \in 0..(last - r) /\ e \in 0..(last - r) /\ a \in 0..(last - r) /\ c \in 0..(last - r)
       /\ c < e /\ \A i \in a..(e - 1) : ~Readable(i)
  BY <1>8, <1>9, <1>11 DEF Scanned, Returned, Ends, GroupUpTo
<1>13. k < e /\ ~Readable(k)
  <2>1. k \in a..(e - 1)
    BY <1>11, <1>12
  <2>2. QED
    BY <1>12, <2>1
<1>14. PICK n \in Int : n = r + k
  BY <1>12
<1>15. n \in Packets /\ n \in (played + 1)..newest /\ n >= r
  BY <1>4, <1>12, <1>13, <1>14, Widths DEF Packets
<1>16. Seq(n) = s
  <2>1. Seq(r) = (uPreReadSeq + 1) % Seqs /\ uPreReadSeq \in Int
    BY <1>1, <1>2, <1>3 DEF Track, AtReader, OptTypeOK
  <2>2. Seq(r + k) = (uPreReadSeq + 1 + k) % Seqs
    BY <1>12, <2>1, SeqPlus
  <2>3. QED
    BY <1>10, <1>14, <2>2 DEF LostSeq
<1>17. n \notin arrived
  <2>1. ASSUME n \in arrived
        PROVE  FALSE
    <3>1. Waits(n, b)
      BY <1>3, <1>15, <2>1 DEF Track, Holds
    <3>2. At(At(r - b) + k) = At((r - b) + k) /\ (r - b) + k = n - b
      BY <1>12, <1>14, AtPlus
    <3>3. PlaceAt(k) = At(n - b)
      BY <1>4, <3>2 DEF PlaceAt
    <3>4. QED
      BY <1>13, <3>1, <3>3 DEF Readable, Waits
  <2>2. QED
    BY <2>1
<1>18. QED
  BY <1>15, <1>16, <1>17

\* Each number pjmedia_ringbuffer_scan_lost returns is that of a packet that was sent,
\* has not arrived and whose turn is still to come; but not after a skip that left
\* uPreReadSeq behind, before the next packet is read.
THEOREM AsksForWhatIsMissing == OptSpec => []AsksForMissing
<1>1. OptInv => AsksForMissing
  BY AsksRight
<1>2. QED
  BY <1>1, OptInvariance, PTL
=============================================================================

-------------------------- MODULE FederationProofs --------------------------
(* Theorems about Federation, for every forest of routers, every placement *)
(* of tasks, and any number of messages and faults.  The last part is that *)
(* the routers implement TopicBus, and lose no message whose way is        *)
(* without faults.                                                         *)
EXTENDS Federation, FiniteSetTheorems, SequenceTheorems, TLAPS

Below == CHOOSE B \in [Router -> SUBSET Router] : IsForest(B)

LEMMA BelowIsForest == Below \in [Router -> SUBSET Router] /\ IsForest(Below)
BY ForestAssumption DEF Below

-----------------------------------------------------------------------------
(* Types.  Only tasks and the sessions of gateway connections are ever     *)
(* enrolled: nothing advertises over a direct session.                     *)

Enrolled == RosNode \cup {e \in Session : e[1] \in Peering}
Registration == Name \X Enrolled

Message == RosSubscriber \X (Nat \ {0})
Data == [gdpname : Name, payload : Message, path : Seq(Router), hit : BOOLEAN]
Frame == Data \cup [gdpname : Name]
RibPacket == [gdpname : Name, payload : Message, path : Seq(Router),
              hit : BOOLEAN, source : RosNode \cup Session]

Typed ==
  /\ table \in [Router -> [Name \X Channel -> Nat]]
  /\ \A r \in Router, n \in Name, e \in Channel :
       Knows(r, n, e) => e \in Enrolled
  /\ rib_rx \in [Router -> Seq(RibPacket)]
  /\ channel_rx \in [Router -> Seq(Registration)]
  /\ outbox \in [Session -> Seq(Frame)]
  /\ said \in [RosSubscriber -> Seq(SUBSET RosPublisher)]

-----------------------------------------------------------------------------
(* A session of a gateway connection divides the routers into those on its *)
(* own side and the others; what it has been sent, its own side has routed.*)
(* What travels over a direct session nobody has routed.  So the messages  *)
(* of a subscriber travel away from the RIB that sees them first, and reach*)
(* each router over one session only.                                      *)

Side(e) ==
  IF e[1] \notin Peering THEN {}
  ELSE IF e[2] = "near" THEN Below[e[1]] ELSE Router \ Below[e[1]]

Within(path, R) == \A i \in 1 .. Len(path) : path[i] \in R

Carries(e, s) ==
  IF e[1] \in Peering THEN FirstRib(s) \in Side(e) ELSE e = Near(s)

InOutbox(e, frame) ==
  \/ IsAdvertisement(frame) /\ e[1] \in Peering /\ e[2] = "near"
  \/ /\ ~IsAdvertisement(frame)
     /\ frame.gdpname = TopicOf[frame.payload[1]]
     /\ Carries(e, frame.payload[1])
     /\ Within(frame.path, Side(e))

InRib(r, pkt) ==
  /\ pkt.gdpname = TopicOf[pkt.payload[1]]
  /\ \/ /\ pkt.source = pkt.payload[1]
        /\ pkt.path = <<>>
        /\ pkt.source \notin Direct /\ r = Home[pkt.source]
     \/ /\ pkt.source \in Session /\ At(pkt.source) = r
        /\ Carries(OtherEnd(pkt.source), pkt.payload[1])
        /\ Within(pkt.path, Side(OtherEnd(pkt.source)))

Directed ==
  /\ \A e \in Session : \A i \in 1 .. Len(outbox[e]) : InOutbox(e, outbox[e][i])
  /\ \A r \in Router : \A i \in 1 .. Len(rib_rx[r]) : InRib(r, rib_rx[r][i])

LoopInv == Typed /\ Directed

-----------------------------------------------------------------------------
LEMMA Sessions ==
  /\ Peering \cap Direct = {} /\ Peering \subseteq Router
  /\ \A r \in Peering : Gateway[r] \in Router /\ Near(r) \in Session
                        /\ Near(r)[1] = r /\ Near(r)[2] = "near"
                        /\ At(Near(r)) = r
  /\ \A s \in Direct : Near(s) \in Session /\ Near(s)[1] = s
  /\ \A e \in Session :
       /\ e[1] \in Link /\ e[2] \in {"near", "far"} /\ OtherEnd(e) \in Session
       /\ OtherEnd(e)[1] = e[1] /\ At(e) \in Router
       /\ e[2] = "near" => OtherEnd(e)[2] = "far"
       /\ e[2] = "far" => OtherEnd(e)[2] = "near"
<1>1. \A r \in Peering : r \in Router /\ Gateway[r] \in Router
  BY FederationAssumption DEF Peering
<1>2. \A s \in Direct : s \in RosNode /\ Home[s] \in Peering
  BY DEF Direct, RosNode
<1>3. Peering \cap Direct = {}
  BY <1>1, <1>2, FederationAssumption
<1>4. \A e \in Session :
        /\ e[1] \in Link /\ e[2] \in {"near", "far"} /\ OtherEnd(e) \in Session
        /\ OtherEnd(e)[1] = e[1]
        /\ e[2] = "near" => OtherEnd(e)[2] = "far"
        /\ e[2] = "far" => OtherEnd(e)[2] = "near"
  BY DEF Session, OtherEnd, Near, Far
<1>5. \A e \in Session : At(e) \in Router
  <2>1. \A l \in Link : Opener(l) \in Peering
    BY <1>2 DEF Link, Opener
  <2> QED  BY <1>1, <1>4, <2>1 DEF At
<1> QED
  BY <1>1, <1>3, <1>4, <1>5 DEF Link, Session, Near, At, Opener

LEMMA NamesFinite == IsFiniteSet(Name)
<1>1. IsFiniteSet(Topic)
  <2> DEFINE f == [e \in RosNode |-> TopicOf[e]]
  <2>1. f \in Surjection(RosNode, Topic)
    BY DEF Surjection, Topic
  <2> HIDE DEF f
  <2> QED  BY <2>1, FederationAssumption, FS_Surjection
<1>2. IsFiniteSet(Peering)
  <2>1. Peering \in SUBSET Router
    BY DEF Peering
  <2> QED  BY <2>1, FederationAssumption, FS_Subset
<1> QED  BY <1>1, <1>2, FS_Union DEF Name

(* The heart of the matter: what a router may send on over a session has   *)
(* come from the session's own side, and so has the router itself.         *)
LEMMA StaysOnSide ==
  ASSUME NEW r \in Router, NEW pkt \in RibPacket, InRib(r, pkt),
         NEW e \in Session, e[1] \in Peering, At(e) = r, e # pkt.source
  PROVE  r \in Side(e) /\ Within(pkt.path, Side(e)) /\ Carries(e, pkt.payload[1])
<1>1. /\ \A q \in Router : q \in Below[q] /\ Below[q] \subseteq Router
      /\ \A q \in Peering :
           Below[q] \subseteq Below[Gateway[q]] /\ Gateway[q] \notin Below[q]
      /\ \A q, l \in Peering :
           q # l /\ Gateway[q] = Gateway[l] => Below[q] \cap Below[l] = {}
  BY BelowIsForest DEF IsForest
<1>2. e[1] \in Router /\ e[2] \in {"near", "far"}
  BY Sessions
<1>3. /\ e[2] = "near" => r = e[1] /\ Side(e) = Below[r]
      /\ e[2] = "far" => r = Gateway[e[1]] /\ Side(e) = Router \ Below[e[1]]
  BY <1>2 DEF At, Opener, Side
<1>4. r \in Side(e)
  BY <1>1, <1>2, <1>3
<1>5. CASE /\ pkt.source = pkt.payload[1] /\ pkt.path = <<>>
           /\ pkt.source \notin Direct /\ r = Home[pkt.source]
  BY <1>4, <1>5 DEF Within, Carries, FirstRib
<1>6. CASE /\ pkt.source \in Session /\ At(pkt.source) = r
           /\ Carries(OtherEnd(pkt.source), pkt.payload[1])
           /\ Within(pkt.path, Side(OtherEnd(pkt.source)))
  <2> DEFINE x == pkt.source
             l == x[1]
  <2>1. /\ l \in Link /\ x[2] \in {"near", "far"} /\ OtherEnd(x)[1] = l
        /\ x[2] = "near" => OtherEnd(x)[2] = "far"
        /\ x[2] = "far" => OtherEnd(x)[2] = "near"
    BY <1>6, Sessions
  <2>2. CASE l \notin Peering
    <3>1. Side(OtherEnd(x)) = {} /\ OtherEnd(x) = Near(l) /\ l = pkt.payload[1]
      BY <1>6, <2>1, <2>2 DEF Side, Carries, Near
    <3>2. x[2] = "far" /\ l \in Direct
      BY <2>1, <2>2, <3>1 DEF Near, Link
    <3>3. r = FirstRib(l)
      BY <1>6, <2>2, <3>2 DEF At, Opener, FirstRib
    <3> QED  BY <1>4, <1>6, <1>2, <3>1, <3>3 DEF Within, Carries
  <2>3. CASE l \in Peering
    <3>1. /\ x[2] = "near" => r = l /\ Side(OtherEnd(x)) = Router \ Below[l]
          /\ x[2] = "far" => r = Gateway[l] /\ Side(OtherEnd(x)) = Below[l]
      BY <1>6, <2>1, <2>3 DEF At, Opener, Side
    <3>2. x = <<x[1], x[2]>> /\ e = <<e[1], e[2]>>
      BY <1>6 DEF Session
    <3>3. l # e[1] \/ x[2] # e[2]
      BY <3>2
    <3>4. Side(OtherEnd(x)) \subseteq Side(e)
      <4>1. CASE x[2] = "near" /\ e[2] = "near"
        BY <1>3, <3>1, <3>3, <4>1
      <4>2. CASE x[2] = "near" /\ e[2] = "far"
        BY <1>1, <1>3, <3>1, <4>2
      <4>3. CASE x[2] = "far" /\ e[2] = "near"
        BY <1>1, <1>3, <2>3, <3>1, <4>3
      <4>4. CASE x[2] = "far" /\ e[2] = "far"
        <5>1. Below[l] \cap Below[e[1]] = {} /\ Below[l] \subseteq Router
          BY <1>1, <1>3, <2>3, <3>1, <3>3, <4>4, Sessions
        <5> QED  BY <1>3, <3>1, <4>4, <5>1
      <4> QED  BY <1>2, <2>1, <4>1, <4>2, <4>3, <4>4
    <3> QED  BY <1>4, <1>6, <2>1, <2>3, <3>4 DEF Within, Carries
  <2> QED  BY <2>2, <2>3
<1> QED  BY <1>5, <1>6 DEF InRib

LEMMA DirectedHasNoLoop ==
  ASSUME LoopInv
  PROVE  NoLoop
<1> SUFFICES ASSUME NEW r \in Router, NEW i \in DOMAIN rib_rx[r],
                    Contains(rib_rx[r][i].path, r)
             PROVE  FALSE
  BY DEF NoLoop
<1> DEFINE pkt == rib_rx[r][i]
<1>1. /\ rib_rx[r] \in Seq(RibPacket) /\ DOMAIN rib_rx[r] = 1 .. Len(rib_rx[r])
      /\ pkt \in RibPacket
  BY LenProperties, ElementOfSeq DEF LoopInv, Typed
<1>2. InRib(r, pkt)
  BY <1>1 DEF LoopInv, Directed
<1>3. PICK k \in 1 .. Len(pkt.path) : pkt.path[k] = r
  BY <1>1, LenProperties DEF Contains, RibPacket
<1>4. /\ pkt.source \in Session /\ At(pkt.source) = r
      /\ Within(pkt.path, Side(OtherEnd(pkt.source)))
  BY <1>2, <1>3 DEF InRib
<1>5. r \in Side(OtherEnd(pkt.source))
  BY <1>3, <1>4 DEF Within
<1>6. \A q \in Peering : q \in Below[q] /\ Gateway[q] \notin Below[q]
  BY BelowIsForest, Sessions DEF IsForest
<1> HIDE DEF pkt
<1> QED
  BY <1>4, <1>5, <1>6, Sessions DEF Side, At, Opener
-----------------------------------------------------------------------------
LEMMA LoopInit == Init => LoopInv
<1> SUFFICES ASSUME Init PROVE LoopInv
  OBVIOUS
<1>1. Typed
  <2>1. table \in [Router -> [Name \X Channel -> Nat]]
    BY DEF Init
  <2>2. \A r \in Router, n \in Name, e \in Channel : ~Knows(r, n, e)
    BY DEF Init, Knows
  <2>3. /\ rib_rx \in [Router -> Seq(RibPacket)]
        /\ channel_rx \in [Router -> Seq(Registration)]
        /\ outbox \in [Session -> Seq(Frame)]
        /\ said \in [RosSubscriber -> Seq(SUBSET RosPublisher)]
    BY EmptySeq DEF Init
  <2> QED  BY <2>1, <2>2, <2>3 DEF Typed
<1>2. Directed
  BY DEF Init, Directed
<1> QED  BY <1>1, <1>2 DEF LoopInv

LEMMA QueueTypes ==
  ASSUME Typed
  PROVE  /\ \A r \in Router :
              /\ rib_rx[r] \in Seq(RibPacket) /\ Len(rib_rx[r]) \in Nat
              /\ channel_rx[r] \in Seq(Registration)
         /\ \A e \in Session :
              outbox[e] \in Seq(Frame) /\ Len(outbox[e]) \in Nat
  BY LenProperties DEF Typed

(* Appending to a queue, and taking its head, keeps a property of elements.*)
LEMMA AppendKeeps ==
  ASSUME NEW S, NEW q \in Seq(S), NEW x \in S, NEW P, P \subseteq S, x \in P,
         \A i \in 1 .. Len(q) : q[i] \in P
  PROVE  /\ Append(q, x) \in Seq(S)
         /\ \A i \in 1 .. Len(Append(q, x)) : Append(q, x)[i] \in P
<1>1. /\ Append(q, x) \in Seq(S) /\ Len(Append(q, x)) = Len(q) + 1
      /\ \A i \in 1 .. Len(q) : Append(q, x)[i] = q[i]
      /\ Append(q, x)[Len(q) + 1] = x /\ Len(q) \in Nat
  BY AppendProperties, LenProperties
<1> QED  BY <1>1

LEMMA TailKeeps ==
  ASSUME NEW S, NEW q \in Seq(S), q # <<>>, NEW P,
         \A i \in 1 .. Len(q) : q[i] \in P
  PROVE  /\ Tail(q) \in Seq(S) /\ Head(q) \in S /\ Head(q) \in P
         /\ \A i \in 1 .. Len(Tail(q)) : Tail(q)[i] \in P
<1>1. /\ Tail(q) \in Seq(S) /\ Head(q) \in S /\ Len(Tail(q)) = Len(q) - 1
      /\ \A i \in 1 .. Len(Tail(q)) : Tail(q)[i] = q[i + 1]
      /\ Len(q) \in Nat \ {0} /\ Head(q) = q[1]
  BY HeadTailProperties, LenProperties, EmptySeq
<1> QED  BY <1>1

LEMMA ConcatKeeps ==
  ASSUME NEW S, NEW q \in Seq(S), NEW s \in Seq(S), NEW P,
         \A i \in 1 .. Len(q) : q[i] \in P,
         \A i \in 1 .. Len(s) : s[i] \in P
  PROVE  /\ q \o s \in Seq(S)
         /\ \A i \in 1 .. Len(q \o s) : (q \o s)[i] \in P
<1>1. /\ q \o s \in Seq(S) /\ Len(q \o s) = Len(q) + Len(s)
      /\ \A i \in 1 .. Len(q) + Len(s) :
           (q \o s)[i] = IF i <= Len(q) THEN q[i] ELSE s[i - Len(q)]
      /\ Len(q) \in Nat /\ Len(s) \in Nat
  BY ConcatProperties, LenProperties
<1> QED  BY <1>1

(* The frames a session may hold, and the packets a RIB may: Directed says *)
(* that each queue holds such elements only.                               *)
Frames(e) == {f \in Frame : InOutbox(e, f)}
Packets(r) == {pkt \in RibPacket : InRib(r, pkt)}

Contained ==
  /\ \A e \in Session : \A i \in 1 .. Len(outbox[e]) : outbox[e][i] \in Frames(e)
  /\ \A r \in Router : \A i \in 1 .. Len(rib_rx[r]) : rib_rx[r][i] \in Packets(r)

LEMMA ContainedIsDirected == Typed => (Directed <=> Contained)
<1> SUFFICES ASSUME Typed PROVE Directed <=> Contained
  OBVIOUS
<1>1. \A e \in Session : \A i \in 1 .. Len(outbox[e]) : outbox[e][i] \in Frame
  BY ElementOfSeq DEF Typed
<1>2. \A r \in Router : \A i \in 1 .. Len(rib_rx[r]) : rib_rx[r][i] \in RibPacket
  BY ElementOfSeq DEF Typed
<1> QED  BY <1>1, <1>2 DEF Directed, Contained, Frames, Packets

(* A step that changes one outbox and one RIB queue at most, each to a     *)
(* sequence of elements that may be there.                                 *)
LEMMA QueueStep ==
  ASSUME LoopInv,
         table' \in [Router -> [Name \X Channel -> Nat]],
         \A r \in Router, n \in Name, e \in Channel :
           Knows(r, n, e)' => e \in Enrolled,
         channel_rx' \in [Router -> Seq(Registration)],
         said' \in [RosSubscriber -> Seq(SUBSET RosPublisher)],
         rib_rx' = [r \in Router |-> rib_rx'[r]],
         outbox' = [e \in Session |-> outbox'[e]],
         \A e \in Session :
           \/ outbox'[e] = outbox[e]
           \/ /\ outbox'[e] \in Seq(Frame)
              /\ \A i \in 1 .. Len(outbox'[e]) : outbox'[e][i] \in Frames(e),
         \A r \in Router :
           \/ rib_rx'[r] = rib_rx[r]
           \/ /\ rib_rx'[r] \in Seq(RibPacket)
              /\ \A i \in 1 .. Len(rib_rx'[r]) : rib_rx'[r][i] \in Packets(r)
  PROVE  LoopInv'
<1>1. Typed /\ Contained
  BY ContainedIsDirected DEF LoopInv
<1>2. /\ \A e \in Session : outbox'[e] \in Seq(Frame)
      /\ \A r \in Router : rib_rx'[r] \in Seq(RibPacket)
  BY <1>1, QueueTypes
<1>3. Typed'
  BY <1>2 DEF Typed
<1>4. /\ \A e \in Session : \A i \in 1 .. Len(outbox'[e]) : outbox'[e][i] \in Frames(e)
      /\ \A r \in Router : \A i \in 1 .. Len(rib_rx'[r]) : rib_rx'[r][i] \in Packets(r)
  BY <1>1 DEF Contained
<1>5. Directed'
  BY <1>4 DEF Directed, Frames, Packets
<1> QED  BY <1>3, <1>5 DEF LoopInv
-----------------------------------------------------------------------------
(* What the tasks and the gateway sessions add to the queues.              *)
LEMMA RegistrationStep ==
  ASSUME LoopInv, NEW r \in Router, NEW c \in Registration,
         channel_rx' = [channel_rx EXCEPT ![r] = Append(@, c)],
         UNCHANGED <<table, rib_rx, outbox, said>>
  PROVE  LoopInv'
<1>1. Append(channel_rx[r], c) \in Seq(Registration)
  BY QueueTypes, AppendProperties DEF LoopInv
<1>2. channel_rx' \in [Router -> Seq(Registration)]
  BY <1>1 DEF LoopInv, Typed
<1> QED
  BY <1>2, QueueStep DEF LoopInv, Typed, Knows

LEMMA RosStartStep ==
  ASSUME LoopInv, NEW e \in RosNode, RosStart(e)
  PROVE  LoopInv'
<1>1. /\ Home[e] \in Router /\ <<TopicOf[e], e>> \in Registration
  BY FederationAssumption DEF Registration, Enrolled, Name, Topic
<1> QED  BY <1>1, RegistrationStep DEF RosStart

LEMMA SessionStartStep ==
  ASSUME LoopInv, NEW r \in Peering, SessionStart(r)
  PROVE  LoopInv'
<1>1. r \in Router /\ <<r, Near(r)>> \in Registration
  BY Sessions DEF Registration, Enrolled, Name
<1> QED  BY <1>1, RegistrationStep DEF SessionStart

LEMMA RosSubscriberStep ==
  ASSUME LoopInv, NEW s \in RosSubscriber, RosSubscriberNext(s)
  PROVE  LoopInv'
<1> DEFINE packet == Packet(s, Len(said[s]) + 1)
<1>1. /\ Typed /\ Contained /\ Home[s] \in Router /\ s \in RosNode
      /\ Len(said[s]) \in Nat /\ said[s] \in Seq(SUBSET RosPublisher)
  BY ContainedIsDirected, FederationAssumption, LenProperties
  DEF LoopInv, Typed, RosNode
<1>2. said' \in [RosSubscriber -> Seq(SUBSET RosPublisher)]
  <2> DEFINE routed == {p \in RosPublisher : HasRoute(s, p)}
  <2>1. routed \in SUBSET RosPublisher /\ said' = [said EXCEPT ![s] = Append(said[s], routed)]
    BY DEF RosSubscriberNext
  <2> HIDE DEF routed
  <2>2. Append(said[s], routed) \in Seq(SUBSET RosPublisher)
    BY <1>1, <2>1, AppendProperties
  <2> QED  BY <1>1, <2>1, <2>2 DEF Typed
<1>3. /\ TopicOf[s] \in Name /\ <<>> \in Seq(Router)
      /\ <<s, Len(said[s]) + 1>> \in Message
  BY <1>1, EmptySeq DEF Name, Topic, Message
<1>4. UNCHANGED <<table, channel_rx>>
  BY DEF RosSubscriberNext
<1>5. CASE /\ s \in Direct /\ UNCHANGED rib_rx
           /\ outbox' = [outbox EXCEPT ![Near(s)] =
                           IF Alive(Near(s)) THEN Append(@, packet) ELSE @]
  <2>1. Near(s) \in Session /\ Near(s)[1] \notin Peering
    BY <1>5, Sessions
  <2>2. packet \in Frames(Near(s))
    <3>1. /\ packet \in Data /\ packet.path = <<>>
          /\ packet.payload[1] = s /\ packet.gdpname = TopicOf[s]
      BY <1>1, <1>3 DEF Packet, Data
    <3>2. ~IsAdvertisement(packet)
      <4>1. "path" \in DOMAIN packet /\ "path" \notin {"gdpname"}
        BY DEF Packet
      <4> HIDE DEF packet
      <4> QED  BY <4>1 DEF IsAdvertisement
    <3>3. Within(packet.path, Side(Near(s)))
      BY <3>1 DEF Within
    <3> HIDE DEF packet
    <3> QED  BY <2>1, <3>1, <3>2, <3>3 DEF Frames, Frame, InOutbox, Carries
  <2> HIDE DEF packet
  <2>3. /\ packet \in Frame /\ Frames(Near(s)) \subseteq Frame
        /\ outbox[Near(s)] \in Seq(Frame)
        /\ \A i \in 1 .. Len(outbox[Near(s)]) : outbox[Near(s)][i] \in Frames(Near(s))
    BY <1>1, <2>1, <2>2, QueueTypes DEF Frames, Contained
  <2>4. /\ Append(outbox[Near(s)], packet) \in Seq(Frame)
        /\ \A i \in 1 .. Len(Append(outbox[Near(s)], packet)) :
             Append(outbox[Near(s)], packet)[i] \in Frames(Near(s))
    BY <2>2, <2>3, AppendKeeps
  <2>5. \A e \in Session :
          \/ outbox'[e] = outbox[e]
          \/ /\ outbox'[e] \in Seq(Frame)
             /\ \A i \in 1 .. Len(outbox'[e]) : outbox'[e][i] \in Frames(e)
    BY <1>1, <1>5, <2>1, <2>4 DEF Typed
  <2>6. outbox' = [e \in Session |-> outbox'[e]] /\ rib_rx' = [r \in Router |-> rib_rx'[r]]
    BY <1>1, <1>5 DEF Typed
  <2> QED  BY <1>1, <1>2, <1>4, <1>5, <2>5, <2>6, QueueStep DEF Typed, Knows
<1>6. CASE /\ s \notin Direct /\ UNCHANGED outbox
           /\ rib_rx' = [rib_rx EXCEPT ![Home[s]] = Append(@, From(s, packet))]
  <2> DEFINE pkt == From(s, packet)
  <2>1. /\ pkt \in RibPacket /\ pkt.source = s /\ pkt.path = <<>>
        /\ pkt.payload[1] = s /\ pkt.gdpname = TopicOf[s]
    BY <1>1, <1>3 DEF From, Packet, RibPacket
  <2> HIDE DEF pkt
  <2>2. /\ pkt \in Packets(Home[s]) /\ Packets(Home[s]) \subseteq RibPacket
    BY <1>1, <1>6, <2>1 DEF Packets, InRib
  <2>3. /\ Append(rib_rx[Home[s]], pkt) \in Seq(RibPacket)
        /\ \A i \in 1 .. Len(Append(rib_rx[Home[s]], pkt)) :
             Append(rib_rx[Home[s]], pkt)[i] \in Packets(Home[s])
    <3>1. /\ rib_rx[Home[s]] \in Seq(RibPacket)
          /\ \A i \in 1 .. Len(rib_rx[Home[s]]) : rib_rx[Home[s]][i] \in Packets(Home[s])
      BY <1>1, QueueTypes DEF Contained
    <3> QED  BY <2>1, <2>2, <3>1, AppendKeeps
  <2>4. rib_rx' = [rib_rx EXCEPT ![Home[s]] = Append(rib_rx[Home[s]], pkt)]
    BY <1>6 DEF pkt
  <2>5. \A r \in Router :
          \/ rib_rx'[r] = rib_rx[r]
          \/ /\ rib_rx'[r] \in Seq(RibPacket)
             /\ \A i \in 1 .. Len(rib_rx'[r]) : rib_rx'[r][i] \in Packets(r)
    BY <1>1, <2>3, <2>4 DEF Typed
  <2>6. outbox' = [e \in Session |-> outbox'[e]] /\ rib_rx' = [r \in Router |-> rib_rx'[r]]
    BY <1>1, <1>6, <2>4 DEF Typed
  <2> QED  BY <1>1, <1>2, <1>4, <1>6, <2>5, <2>6, QueueStep DEF Typed, Knows
<1> QED  BY <1>5, <1>6 DEF RosSubscriberNext

-----------------------------------------------------------------------------
(* The number of copies is a number, and zero for a session without a      *)
(* registration.                                                           *)
LEMMA CopiesCounted ==
  ASSUME Typed, NEW r \in Router, NEW pkt \in RibPacket, NEW e \in Session
  PROVE  /\ CopiesTo(r, pkt, e) \in Nat
         /\ e \notin Enrolled \/ e = pkt.source => CopiesTo(r, pkt, e) = 0
<1> DEFINE Pairs == [n \in Name |-> {n} \X (1 .. table[r][<<n, e>>])]
           Img == {Pairs[n] : n \in Name}
<1>1. \A n \in Name : <<n, e>> \in Name \X Channel /\ table[r][<<n, e>>] \in Nat
  BY DEF Typed, Channel
<1>2. \A n \in Name : IsFiniteSet(Pairs[n])
  <2> TAKE n \in Name
  <2>1. IsFiniteSet({n})
    BY FS_Singleton
  <2>2. PICK k \in Int : k = table[r][<<n, e>>]
    BY <1>1
  <2>3. IsFiniteSet(1 .. k)
    BY FS_Interval
  <2> QED  BY <2>1, <2>2, <2>3, FS_Product
<1>3. IsFiniteSet(Img)
  <2>1. Pairs \in Surjection(Name, Img)
    BY DEF Surjection
  <2> HIDE DEF Pairs, Img
  <2> QED  BY <2>1, NamesFinite, FS_Surjection
<1>4. IsFiniteSet(UNION Img)
  <2>1. \A T \in Img : IsFiniteSet(T)
    BY <1>2
  <2> HIDE DEF Img
  <2> QED  BY <1>3, <2>1, FS_UNION
<1>5. RoutedBy(r, pkt) \subseteq Name
  BY DEF RoutedBy, KnownNames
<1>6. Routes(r, pkt, e) \in SUBSET (UNION Img)
  BY <1>5 DEF Routes
<1>7. Cardinality(Routes(r, pkt, e)) \in Nat
  <2> HIDE DEF Img
  <2> QED  BY <1>4, <1>6, FS_Subset, FS_CardinalityType
<1>8. ASSUME e \notin Enrolled
      PROVE  Cardinality(Routes(r, pkt, e)) = 0
  <2>1. \A n \in Name : table[r][<<n, e>>] = 0
    BY <1>1, <1>8 DEF Typed, Knows, Channel
  <2>2. \A n \in Name : {n} \X (1 .. table[r][<<n, e>>]) = {}
    BY <2>1
  <2>3. Routes(r, pkt, e) = {}
    BY <1>5, <2>2 DEF Routes
  <2> QED  BY <2>3, FS_EmptySet
<1> QED  BY <1>7, <1>8 DEF CopiesTo

LEMMA TimesKeeps ==
  ASSUME NEW k \in Nat, NEW x, NEW S, NEW P, k # 0 => x \in S /\ x \in P
  PROVE  /\ Times(k, x) \in Seq(S)
         /\ \A i \in 1 .. Len(Times(k, x)) : Times(k, x)[i] \in P
<1>1. Times(k, x) \in [1 .. k -> S]
  BY DEF Times
<1>2. Times(k, x) \in Seq(S) /\ Len(Times(k, x)) = k
  BY <1>1, IsASeq, LenProperties DEF Times
<1> QED  BY <1>2 DEF Times

LEMMA RecvPacketStep ==
  ASSUME LoopInv, NEW r \in Router, RecvPacket(r)
  PROVE  LoopInv'
<1> DEFINE pkt == Head(rib_rx[r])
           frame == [gdpname |-> pkt.gdpname, payload |-> pkt.payload,
                     path |-> Append(pkt.path, r), hit |-> pkt.hit]
<1>1. Typed /\ Contained /\ rib_rx[r] # <<>>
  BY ContainedIsDirected DEF LoopInv, RecvPacket
<1>2. /\ pkt \in RibPacket /\ pkt \in Packets(r) /\ InRib(r, pkt)
      /\ Tail(rib_rx[r]) \in Seq(RibPacket)
      /\ \A i \in 1 .. Len(Tail(rib_rx[r])) : Tail(rib_rx[r])[i] \in Packets(r)
  <2>1. /\ rib_rx[r] \in Seq(RibPacket)
        /\ \A i \in 1 .. Len(rib_rx[r]) : rib_rx[r][i] \in Packets(r)
    BY <1>1, QueueTypes DEF Contained
  <2>2. pkt \in Packets(r) => pkt \in RibPacket /\ InRib(r, pkt)
    BY DEF Packets
  <2> HIDE DEF pkt
  <2> QED  BY <1>1, <2>1, <2>2, TailKeeps DEF pkt
<1>3. /\ outbox' = [e \in Session |->
                      IF At(e) = r /\ Alive(e)
                      THEN outbox[e] \o Times(CopiesTo(r, pkt, e), frame)
                      ELSE outbox[e]]
      /\ rib_rx' = [rib_rx EXCEPT ![r] = Tail(rib_rx[r])]
      /\ UNCHANGED <<table, channel_rx, said>>
  BY DEF RecvPacket, life
<1> HIDE DEF pkt
<1>4. /\ frame \in Data /\ frame.path = Append(pkt.path, r)
      /\ frame.gdpname = TopicOf[frame.payload[1]]
      /\ frame.payload = pkt.payload /\ frame.hit = pkt.hit
      /\ ~IsAdvertisement(frame)
      /\ pkt.path \in Seq(Router) /\ frame.path \in Seq(Router)
  <2>1. pkt.path \in Seq(Router) /\ Append(pkt.path, r) \in Seq(Router)
    BY <1>2, AppendProperties DEF RibPacket
  <2>2. frame \in Data /\ frame.gdpname = TopicOf[frame.payload[1]]
    BY <1>2, <2>1 DEF RibPacket, Data, InRib
  <2>3. "path" \in DOMAIN frame /\ "path" \notin {"gdpname"}
    OBVIOUS
  <2>4. ~IsAdvertisement(frame)
    <3> HIDE DEF frame
    <3> QED  BY <2>3 DEF IsAdvertisement
  <2> QED  BY <2>1, <2>2, <2>4
<1> HIDE DEF frame
<1>5. ASSUME NEW e \in Session
      PROVE  \/ outbox'[e] = outbox[e]
             \/ /\ outbox'[e] \in Seq(Frame)
                /\ \A i \in 1 .. Len(outbox'[e]) : outbox'[e][i] \in Frames(e)
  <2>1. CASE ~(At(e) = r /\ Alive(e))
    BY <1>3, <2>1
  <2>2. CASE At(e) = r /\ Alive(e)
    <3> DEFINE k == CopiesTo(r, pkt, e)
               more == Times(k, frame)
    <3>1. k \in Nat /\ (k # 0 => e \in Enrolled /\ e # pkt.source)
      BY <1>1, <1>2, CopiesCounted
    <3>2. ASSUME k # 0
          PROVE  frame \in Frame /\ frame \in Frames(e)
      <4>1. e[1] \in Peering /\ e # pkt.source
        BY <3>1, <3>2, FederationAssumption DEF Enrolled
      <4>2. /\ r \in Side(e) /\ Within(pkt.path, Side(e))
            /\ Carries(e, pkt.payload[1])
        BY <1>2, <2>2, <4>1, StaysOnSide
      <4>3. Within(frame.path, Side(e))
        BY <1>4, <4>2, AppendProperties, LenProperties DEF Within
      <4> QED  BY <1>4, <4>2, <4>3 DEF Frame, Frames, InOutbox
    <3> HIDE DEF k
    <3>3. /\ more \in Seq(Frame)
          /\ \A i \in 1 .. Len(more) : more[i] \in Frames(e)
      BY <3>1, <3>2, TimesKeeps
    <3>4. /\ outbox[e] \in Seq(Frame)
          /\ \A i \in 1 .. Len(outbox[e]) : outbox[e][i] \in Frames(e)
      BY <1>1, QueueTypes DEF Contained
    <3>5. outbox'[e] = outbox[e] \o more
      BY <1>3, <2>2 DEF k
    <3> DEFINE held == outbox[e]
               fit == Frames(e)
    <3> HIDE DEF more, held, fit
    <3>6. /\ held \o more \in Seq(Frame)
          /\ \A i \in 1 .. Len(held \o more) : (held \o more)[i] \in fit
      BY <3>3, <3>4, ConcatKeeps DEF held, fit
    <3> QED  BY <3>5, <3>6 DEF held, fit
  <2> QED  BY <2>1, <2>2
<1>6. \A q \in Router :
        \/ rib_rx'[q] = rib_rx[q]
        \/ /\ rib_rx'[q] \in Seq(RibPacket)
           /\ \A i \in 1 .. Len(rib_rx'[q]) : rib_rx'[q][i] \in Packets(q)
  BY <1>1, <1>2, <1>3 DEF Typed
<1>7. /\ outbox' = [e \in Session |-> outbox'[e]]
      /\ rib_rx' = [q \in Router |-> rib_rx'[q]]
  BY <1>1, <1>3 DEF Typed
<1> QED  BY <1>1, <1>3, <1>5, <1>6, <1>7, QueueStep DEF Typed, Knows

LEMMA RecvChannelStep ==
  ASSUME LoopInv, NEW r \in Router, RecvChannel(r)
  PROVE  LoopInv'
<1> DEFINE c == Head(channel_rx[r])
<1>1. /\ Typed /\ channel_rx[r] \in Seq(Registration) /\ channel_rx[r] # <<>>
  BY QueueTypes DEF LoopInv, RecvChannel
<1>2. c \in Registration /\ Tail(channel_rx[r]) \in Seq(Registration)
  BY <1>1, HeadTailProperties
<1>3. /\ table' = [table EXCEPT ![r][c] = @ + 1]
      /\ channel_rx' = [channel_rx EXCEPT ![r] = Tail(@)]
      /\ UNCHANGED <<rib_rx, outbox, said>>
  BY DEF RecvChannel, life
<1> HIDE DEF c
<1>4. c \in Name \X Channel /\ c[2] \in Enrolled
  BY <1>2 DEF Registration, Enrolled, Channel
<1>5. table' \in [Router -> [Name \X Channel -> Nat]]
  <2> DEFINE row == [table[r] EXCEPT ![c] = table[r][c] + 1]
             Pair == Name \X Channel
             Row == [Pair -> Nat]
  <2>1. table \in [Router -> Row] /\ table[r] \in Row /\ c \in Pair
    BY <1>1, <1>4 DEF Typed
  <2> HIDE DEF Pair
  <2>2. row \in Row
    BY <2>1
  <2>3. table' = [table EXCEPT ![r] = row]
    BY <1>3, <2>1
  <2> HIDE DEF row, Row
  <2>4. table' \in [Router -> Row]
    BY <2>1, <2>2, <2>3
  <2> QED  BY <2>4 DEF Row, Pair
<1>6. ASSUME NEW q \in Router, NEW n \in Name, NEW e \in Channel,
             Knows(q, n, e)'
      PROVE  e \in Enrolled
  <2>1. <<n, e>> \in Name \X Channel
    OBVIOUS
  <2>2. CASE q = r /\ c = <<n, e>>
    BY <1>4, <2>2
  <2>3. CASE ~(q = r /\ c = <<n, e>>)
    <3>1. table'[q][<<n, e>>] = table[q][<<n, e>>]
      BY <1>1, <1>3, <1>4, <2>1, <2>3 DEF Typed
    <3> QED  BY <1>1, <1>6, <3>1 DEF Typed, Knows
  <2> QED  BY <2>2, <2>3
<1>7. channel_rx' \in [Router -> Seq(Registration)]
  BY <1>1, <1>2, <1>3 DEF Typed
<1> QED  BY <1>1, <1>3, <1>5, <1>6, <1>7, QueueStep DEF Typed

LEMMA FlushStep ==
  ASSUME LoopInv, NEW r \in Peering, Flush(r)
  PROVE  LoopInv'
<1> DEFINE e == Near(r)
<1>1. /\ Typed /\ Contained /\ r \in Router
      /\ e \in Session /\ e[1] \in Peering /\ e[2] = "near"
  BY ContainedIsDirected, Sessions DEF LoopInv
<1>2. /\ UNCHANGED <<table, rib_rx, channel_rx, said>>
      /\ \E names \in SetToSeqs(KnownNames(r)) :
           outbox' = [outbox EXCEPT ![e] =
             IF Alive(e)
             THEN @ \o [i \in DOMAIN names |-> Advertisement(names[i])] ELSE @]
  BY DEF Flush, ribs
<1> HIDE DEF e
<1>3. PICK names \in SetToSeqs(KnownNames(r)) :
        outbox' = [outbox EXCEPT ![e] =
          IF Alive(e)
          THEN @ \o [i \in DOMAIN names |-> Advertisement(names[i])] ELSE @]
  BY <1>2
<1> DEFINE more == [i \in DOMAIN names |-> Advertisement(names[i])]
<1>4. PICK k \in Nat : names \in [1 .. k -> Name]
  <2>1. KnownNames(r) \in SUBSET Name
    BY DEF KnownNames
  <2>2. Cardinality(KnownNames(r)) \in Nat
    BY <2>1, NamesFinite, FS_Subset, FS_CardinalityType
  <2>3. names \in [1 .. Cardinality(KnownNames(r)) -> Name]
    BY <1>3, <2>1 DEF SetToSeqs
  <2> QED  BY <2>2, <2>3
<1>5. /\ more \in Seq(Frame)
      /\ \A i \in 1 .. Len(more) : more[i] \in Frames(e)
  <2>1. \A n \in Name :
          Advertisement(n) \in [gdpname : Name] /\ IsAdvertisement(Advertisement(n))
    BY DEF Advertisement, IsAdvertisement
  <2>2. \A n \in Name : Advertisement(n) \in Frame /\ Advertisement(n) \in Frames(e)
    BY <1>1, <2>1 DEF Frame, Frames, InOutbox
  <2>3. \A i \in 1 .. k : more[i] \in Frame /\ more[i] \in Frames(e)
    BY <1>4, <2>2
  <2>4. more \in [1 .. k -> Frame]
    BY <1>4, <2>3
  <2> HIDE DEF more
  <2>5. more \in Seq(Frame) /\ Len(more) = k
    BY <2>4, SeqDef, LenProperties
  <2> QED  BY <2>3, <2>5
<1>6. /\ outbox[e] \in Seq(Frame)
      /\ \A i \in 1 .. Len(outbox[e]) : outbox[e][i] \in Frames(e)
  BY <1>1, QueueTypes DEF Contained
<1>7. \/ outbox' = outbox
      \/ outbox' = [outbox EXCEPT ![e] = outbox[e] \o more]
  BY <1>1, <1>3 DEF Typed
<1> HIDE DEF more
<1>8. /\ outbox[e] \o more \in Seq(Frame)
      /\ \A i \in 1 .. Len(outbox[e] \o more) : (outbox[e] \o more)[i] \in Frames(e)
  BY <1>5, <1>6, ConcatKeeps
<1>9. /\ \A d \in Session :
           \/ outbox'[d] = outbox[d]
           \/ /\ outbox'[d] \in Seq(Frame)
              /\ \A i \in 1 .. Len(outbox'[d]) : outbox'[d][i] \in Frames(d)
      /\ outbox' = [d \in Session |-> outbox'[d]]
      /\ rib_rx' = [q \in Router |-> rib_rx'[q]]
  BY <1>1, <1>2, <1>7, <1>8 DEF Typed
<1> QED  BY <1>1, <1>2, <1>9, QueueStep DEF Typed, Knows

-----------------------------------------------------------------------------
(* What sessions and connections do.                                       *)

(* Taking the head of an outbox, the rest unchanged.                       *)
LEMMA OutboxTail ==
  ASSUME Typed, Contained, NEW d \in Session, outbox[d] # <<>>,
         outbox' = [outbox EXCEPT ![d] = Tail(@)]
  PROVE  /\ Head(outbox[d]) \in Frame /\ Head(outbox[d]) \in Frames(d)
         /\ outbox' = [e \in Session |-> outbox'[e]]
         /\ \A e \in Session :
              \/ outbox'[e] = outbox[e]
              \/ /\ outbox'[e] \in Seq(Frame)
                 /\ \A i \in 1 .. Len(outbox'[e]) : outbox'[e][i] \in Frames(e)
<1>1. /\ outbox[d] \in Seq(Frame)
      /\ \A i \in 1 .. Len(outbox[d]) : outbox[d][i] \in Frames(d)
  BY QueueTypes DEF Contained
<1>2. /\ Tail(outbox[d]) \in Seq(Frame)
      /\ Head(outbox[d]) \in Frame /\ Head(outbox[d]) \in Frames(d)
      /\ \A i \in 1 .. Len(Tail(outbox[d])) : Tail(outbox[d])[i] \in Frames(d)
  BY <1>1, TailKeeps
<1> QED  BY <1>2 DEF Typed

LEMMA SessionReadStep ==
  ASSUME LoopInv, NEW e \in Session, SessionRead(e)
  PROVE  LoopInv'
<1> DEFINE o == OtherEnd(e)
           frame == Head(outbox[o])
<1>1. /\ Typed /\ Contained /\ At(e) \in Router /\ o \in Session /\ o[1] = e[1]
  BY ContainedIsDirected, Sessions DEF LoopInv
<1>2. /\ outbox[o] # <<>> /\ outbox' = [outbox EXCEPT ![o] = Tail(@)]
      /\ UNCHANGED <<table, said>>
  BY DEF SessionRead, life
<1> HIDE DEF o
<1>3. /\ frame \in Frame /\ InOutbox(o, frame)
      /\ outbox' = [d \in Session |-> outbox'[d]]
      /\ \A d \in Session :
           \/ outbox'[d] = outbox[d]
           \/ /\ outbox'[d] \in Seq(Frame)
              /\ \A i \in 1 .. Len(outbox'[d]) : outbox'[d][i] \in Frames(d)
  BY <1>1, <1>2, OutboxTail DEF Frames
<1>4. CASE /\ ~IsAdvertisement(frame) /\ UNCHANGED channel_rx
           /\ rib_rx' = [rib_rx EXCEPT ![At(e)] = Append(@, From(e, frame))]
  <2> DEFINE pkt == From(e, frame)
  <2>1. frame \in Data
    <3> HIDE DEF frame
    <3> QED  BY <1>3, <1>4 DEF Frame, IsAdvertisement
  <2>2. /\ pkt \in RibPacket /\ pkt.source = e /\ pkt.path = frame.path
        /\ pkt.payload = frame.payload /\ pkt.gdpname = frame.gdpname
    BY <2>1 DEF From, Data, RibPacket
  <2>3. /\ Within(frame.path, Side(o)) /\ Carries(o, frame.payload[1])
        /\ frame.gdpname = TopicOf[frame.payload[1]]
    BY <1>3, <1>4 DEF InOutbox
  <2>4. rib_rx' = [rib_rx EXCEPT ![At(e)] = Append(rib_rx[At(e)], pkt)]
    BY <1>4
  <2> HIDE DEF pkt, frame
  <2>5. pkt \in Packets(At(e)) /\ Packets(At(e)) \subseteq RibPacket
    BY <2>2, <2>3 DEF Packets, InRib, o
  <2>6. /\ rib_rx[At(e)] \in Seq(RibPacket)
        /\ \A i \in 1 .. Len(rib_rx[At(e)]) : rib_rx[At(e)][i] \in Packets(At(e))
    BY <1>1, QueueTypes DEF Contained
  <2>7. /\ Append(rib_rx[At(e)], pkt) \in Seq(RibPacket)
        /\ \A i \in 1 .. Len(Append(rib_rx[At(e)], pkt)) :
             Append(rib_rx[At(e)], pkt)[i] \in Packets(At(e))
    BY <2>2, <2>5, <2>6, AppendKeeps
  <2>8. /\ \A r \in Router :
             \/ rib_rx'[r] = rib_rx[r]
             \/ /\ rib_rx'[r] \in Seq(RibPacket)
                /\ \A i \in 1 .. Len(rib_rx'[r]) : rib_rx'[r][i] \in Packets(r)
        /\ rib_rx' = [r \in Router |-> rib_rx'[r]]
    BY <1>1, <2>4, <2>7 DEF Typed
  <2> QED  BY <1>1, <1>2, <1>3, <1>4, <2>8, QueueStep DEF Typed, Knows
<1>5. CASE /\ IsAdvertisement(frame) /\ UNCHANGED rib_rx
           /\ channel_rx' =
                [channel_rx EXCEPT ![At(e)] = Append(@, <<frame.gdpname, e>>)]
  <2>1. frame.gdpname \in Name
    BY <1>3 DEF Frame, Data
  <2>2. e \in Enrolled
    BY <1>1, <1>3, <1>5 DEF InOutbox, Enrolled
  <2>3. <<frame.gdpname, e>> \in Registration
    BY <2>1, <2>2 DEF Registration
  <2>4. Append(channel_rx[At(e)], <<frame.gdpname, e>>) \in Seq(Registration)
    BY <1>1, <2>3, QueueTypes, AppendProperties
  <2>5. channel_rx' \in [Router -> Seq(Registration)]
    BY <1>1, <1>5, <2>4 DEF Typed
  <2>6. rib_rx' = [r \in Router |-> rib_rx'[r]]
    BY <1>1, <1>5 DEF Typed
  <2> QED  BY <1>1, <1>2, <1>3, <1>5, <2>5, <2>6, QueueStep DEF Typed, Knows
<1> QED  BY <1>4, <1>5 DEF SessionRead, o

LEMMA LoseStep ==
  ASSUME LoopInv, NEW e \in Session, Lose(e)
  PROVE  LoopInv'
<1>1. Typed /\ Contained
  BY ContainedIsDirected DEF LoopInv
<1>2. /\ outbox[e] # <<>> /\ outbox' = [outbox EXCEPT ![e] = Tail(@)]
      /\ UNCHANGED <<table, rib_rx, channel_rx, said>>
  BY DEF Lose, ribs
<1>3. /\ outbox' = [d \in Session |-> outbox'[d]]
      /\ \A d \in Session :
           \/ outbox'[d] = outbox[d]
           \/ /\ outbox'[d] \in Seq(Frame)
              /\ \A i \in 1 .. Len(outbox'[d]) : outbox'[d][i] \in Frames(d)
  BY <1>1, <1>2, OutboxTail
<1> QED  BY <1>1, <1>2, <1>3, QueueStep DEF Typed, Knows

(* What a disturbance does to a queue: a packet of it is marked and        *)
(* comes first, and the others stay in order.                              *)
Hits(q, new) ==
  \E i \in 1 .. Len(q) :
    /\ q[i] \in Data /\ Len(new) = Len(q) /\ new[1] = [q[i] EXCEPT !.hit = TRUE]
    /\ \A j \in 2 .. i : new[j] = q[j - 1]
    /\ \A j \in i + 1 .. Len(q) : new[j] = q[j]

LEMMA DisturbDoes ==
  ASSUME Typed, NEW e \in Session, Disturb(e)
  PROVE  /\ Hits(outbox[e], outbox'[e]) /\ outbox'[e] \in Seq(Frame)
         /\ outbox' = [d \in Session |-> outbox'[d]]
         /\ \A d \in Session : d # e => outbox'[d] = outbox[d]
<1> DEFINE q == outbox[e]
<1>1. PICK i \in DOMAIN q :
        /\ ~IsAdvertisement(q[i])
        /\ outbox' = [outbox EXCEPT ![e] =
                        <<[q[i] EXCEPT !.hit = TRUE]>> \o RemoveAt(q, i)]
  BY DEF Disturb
<1>2. q \in Seq(Frame) /\ Len(q) \in Nat /\ DOMAIN q = 1 .. Len(q)
  BY QueueTypes, LenProperties
<1>3. i \in 1 .. Len(q) /\ q[i] \in Frame
  BY <1>2, ElementOfSeq
<1>4. q[i] \in Data
  BY <1>1, <1>3 DEF Frame, IsAdvertisement
<1> DEFINE x == [q[i] EXCEPT !.hit = TRUE]
           new == <<x>> \o RemoveAt(q, i)
<1>5. /\ outbox'[e] = new
      /\ outbox' = [d \in Session |-> outbox'[d]]
      /\ \A d \in Session : d # e => outbox'[d] = outbox[d]
  BY <1>1 DEF Typed
<1> HIDE DEF q
<1>6. x \in Frame
  BY <1>4 DEF Data, Frame
<1> HIDE DEF x
<1>7. /\ RemoveAt(q, i) \in Seq(Frame) /\ Len(RemoveAt(q, i)) = Len(q) - 1
      /\ \A j \in 1 .. Len(q) - 1 :
           RemoveAt(q, i)[j] = IF j < i THEN q[j] ELSE q[j + 1]
  <2> DEFINE a == SubSeq(q, 1, i - 1)
             b == SubSeq(q, i + 1, Len(q))
  <2>1. /\ a \in Seq(Frame) /\ Len(a) = i - 1
        /\ \A j \in 1 .. i - 1 : a[j] = q[j]
    BY <1>2, <1>3, SubSeqProperties
  <2>2. /\ b \in Seq(Frame) /\ Len(b) = Len(q) - i
        /\ \A j \in 1 .. Len(q) - i : b[j] = q[j + i]
    <3>1. /\ i + 1 \in Int /\ Len(q) \in Int
          /\ \A j \in i + 1 .. Len(q) : q[j] \in Frame
      <4>1. i + 1 \in Int /\ Len(q) \in Int /\ i + 1 .. Len(q) \subseteq 1 .. Len(q)
        BY <1>2, <1>3
      <4>2. \A j \in 1 .. Len(q) : q[j] \in Frame
        BY <1>2, ElementOfSeq
      <4> QED  BY <4>1, <4>2
    <3>2. /\ b \in Seq(Frame)
          /\ Len(b) = IF i + 1 <= Len(q) THEN Len(q) - (i + 1) + 1 ELSE 0
          /\ \A j \in 1 .. Len(q) - (i + 1) + 1 : b[j] = q[(i + 1) + j - 1]
      BY <3>1, SubSeqProperties
    <3> HIDE DEF b
    <3>3. /\ Len(q) - (i + 1) + 1 = Len(q) - i
          /\ IF i + 1 <= Len(q) THEN Len(q) - i \in Nat ELSE Len(q) - i = 0
      BY <1>2, <1>3
    <3>4. \A j \in 1 .. Len(q) - i : (i + 1) + j - 1 = j + i
      BY <1>2, <1>3
    <3> QED  BY <3>2, <3>3, <3>4
  <2>3. RemoveAt(q, i) = a \o b
    BY DEF RemoveAt
  <2> HIDE DEF a, b
  <2>4. /\ a \o b \in Seq(Frame) /\ Len(a \o b) = Len(a) + Len(b)
        /\ \A j \in 1 .. Len(a) + Len(b) :
             (a \o b)[j] = IF j <= Len(a) THEN a[j] ELSE b[j - Len(a)]
    BY <2>1, <2>2, ConcatProperties
  <2>5. a \o b \in Seq(Frame) /\ Len(a \o b) = Len(q) - 1
    BY <1>2, <1>3, <2>1, <2>2, <2>4
  <2>6. ASSUME NEW j \in 1 .. Len(q) - 1
        PROVE  (a \o b)[j] = IF j < i THEN q[j] ELSE q[j + 1]
    <3>1. (a \o b)[j] = IF j <= i - 1 THEN a[j] ELSE b[j - (i - 1)]
      <4>1. Len(a) = i - 1 /\ Len(b) = Len(q) - i
        BY <2>1, <2>2
      <4>2. Len(a) + Len(b) = Len(q) - 1
        BY <1>2, <1>3, <4>1
      <4> QED  BY <2>4, <2>6, <4>1, <4>2
    <3>2. ASSUME j < i
          PROVE  (a \o b)[j] = q[j]
      <4>1. j <= i - 1 /\ j \in 1 .. i - 1
        BY <1>2, <1>3, <3>2
      <4> QED  BY <2>1, <3>1, <4>1
    <3>3. ASSUME ~(j < i)
          PROVE  (a \o b)[j] = q[j + 1]
      <4>1. /\ j - (i - 1) \in 1 .. Len(q) - i /\ (j - (i - 1)) + i = j + 1
            /\ ~(j <= i - 1)
        BY <1>2, <1>3, <3>3
      <4>2. (a \o b)[j] = b[j - (i - 1)]
        BY <3>1, <4>1
      <4> QED  BY <2>2, <4>1, <4>2
    <3> QED  BY <3>2, <3>3
  <2> QED  BY <2>3, <2>5, <2>6
<1> DEFINE rest == RemoveAt(q, i)
<1> HIDE DEF rest
<1>8. <<x>> \in Seq(Frame) /\ Len(<<x>>) = 1 /\ <<x>>[1] = x
  BY <1>6
<1>9. /\ Len(new) = Len(q) /\ new[1] = x /\ new \in Seq(Frame)
      /\ \A j \in 2 .. Len(q) : new[j] = rest[j - 1]
  <2> DEFINE one == <<x>>
  <2>1. one \in Seq(Frame) /\ Len(one) = 1 /\ one[1] = x
    BY <1>8
  <2>2. rest \in Seq(Frame) /\ Len(rest) = Len(q) - 1
    BY <1>7 DEF rest
  <2>3. new = one \o rest
    BY DEF one, rest
  <2> HIDE DEF one, new
  <2>4. /\ one \o rest \in Seq(Frame) /\ Len(one \o rest) = Len(one) + Len(rest)
        /\ \A j \in 1 .. Len(one) + Len(rest) :
             (one \o rest)[j] = IF j <= Len(one) THEN one[j] ELSE rest[j - Len(one)]
    BY <2>1, <2>2, ConcatProperties
  <2>5. new \in Seq(Frame) /\ Len(new) = Len(q)
    BY <1>2, <2>1, <2>2, <2>3, <2>4
  <2>6. \A j \in 1 .. Len(q) : new[j] = IF j <= 1 THEN one[j] ELSE rest[j - 1]
    BY <1>2, <2>1, <2>2, <2>3, <2>4
  <2> QED  BY <1>2, <1>3, <2>1, <2>5, <2>6
<1> HIDE DEF new
<1>10. \A j \in 2 .. i : new[j] = q[j - 1]
  <2> TAKE j \in 2 .. i
  <2>1. /\ j \in 2 .. Len(q) /\ j - 1 \in 1 .. Len(q) - 1 /\ j - 1 < i
    BY <1>2, <1>3
  <2> QED  BY <1>7, <1>9, <2>1 DEF rest
<1>11. \A j \in i + 1 .. Len(q) : new[j] = q[j]
  <2> TAKE j \in i + 1 .. Len(q)
  <2>1. /\ j \in 2 .. Len(q) /\ j - 1 \in 1 .. Len(q) - 1 /\ ~(j - 1 < i)
        /\ (j - 1) + 1 = j
    BY <1>2, <1>3
  <2> QED  BY <1>7, <1>9, <2>1 DEF rest
<1>12. Hits(q, new)
  BY <1>3, <1>4, <1>9, <1>10, <1>11 DEF Hits, x
<1> QED  BY <1>5, <1>9, <1>12 DEF q

LEMMA DisturbStep ==
  ASSUME LoopInv, NEW e \in Session, Disturb(e)
  PROVE  LoopInv'
<1> DEFINE q == outbox[e]
           new == outbox'[e]
<1>1. Typed /\ Contained /\ UNCHANGED <<table, rib_rx, channel_rx, said>>
  BY ContainedIsDirected DEF LoopInv, Disturb, ribs
<1>2. /\ Hits(q, new) /\ new \in Seq(Frame)
      /\ outbox' = [d \in Session |-> outbox'[d]]
      /\ \A d \in Session : d # e => outbox'[d] = outbox[d]
  BY <1>1, DisturbDoes
<1>3. Len(q) \in Nat /\ \A i \in 1 .. Len(q) : q[i] \in Frame /\ InOutbox(e, q[i])
  BY <1>1, QueueTypes, ElementOfSeq DEF Contained, Frames
<1> HIDE DEF q, new
<1>4. PICK i \in 1 .. Len(q) :
        /\ q[i] \in Data /\ Len(new) = Len(q) /\ new[1] = [q[i] EXCEPT !.hit = TRUE]
        /\ \A j \in 2 .. i : new[j] = q[j - 1]
        /\ \A j \in i + 1 .. Len(q) : new[j] = q[j]
  BY <1>2 DEF Hits
<1>5. new[1] \in Frame /\ InOutbox(e, new[1])
  <2>1. /\ new[1] \in Data /\ new[1].gdpname = q[i].gdpname
        /\ new[1].payload = q[i].payload /\ new[1].path = q[i].path
    BY <1>4 DEF Data
  <2>2. \A x \in Data : ~IsAdvertisement(x)
    <3> TAKE x \in Data
    <3>1. "path" \in DOMAIN x /\ "path" \notin {"gdpname"}
      BY DEF Data
    <3> QED  BY <3>1 DEF IsAdvertisement
  <2>3. InOutbox(e, q[i])
    BY <1>3
  <2> QED  BY <1>4, <2>1, <2>2, <2>3 DEF InOutbox, Frame
<1>6. \A j \in 1 .. Len(new) : new[j] \in Frame /\ InOutbox(e, new[j])
  <2> TAKE j \in 1 .. Len(new)
  <2>1. CASE j = 1
    BY <1>5, <2>1
  <2>2. CASE j # 1 /\ j <= i
    <3>1. j \in 2 .. i /\ j - 1 \in 1 .. Len(q)
      BY <1>3, <1>4, <2>2
    <3> QED  BY <1>3, <1>4, <3>1
  <2>3. CASE j # 1 /\ j > i
    <3>1. j \in i + 1 .. Len(q) /\ j \in 1 .. Len(q)
      BY <1>3, <1>4, <2>3
    <3> QED  BY <1>3, <1>4, <3>1
  <2> QED  BY <1>3, <1>4, <2>1, <2>2, <2>3
<1>7. new \in Seq(Frame) /\ \A j \in 1 .. Len(new) : new[j] \in Frames(e)
  BY <1>2, <1>6 DEF Frames
<1>8. \A d \in Session :
        \/ outbox'[d] = outbox[d]
        \/ /\ outbox'[d] \in Seq(Frame)
           /\ \A j \in 1 .. Len(outbox'[d]) : outbox'[d][j] \in Frames(d)
  BY <1>2, <1>7 DEF new
<1> QED  BY <1>1, <1>2, <1>8, QueueStep DEF Typed, Knows

LEMMA BreakStep ==
  ASSUME LoopInv, NEW l \in Link, Break(l)
  PROVE  LoopInv'
<1>1. Typed
  BY DEF LoopInv
<1>2. /\ outbox' = [e \in Session |-> IF e[1] = l THEN <<>> ELSE outbox[e]]
      /\ UNCHANGED <<table, rib_rx, channel_rx, said>>
  BY DEF Break, ribs
<1>3. \A d \in Session :
        \/ outbox'[d] = outbox[d]
        \/ /\ outbox'[d] \in Seq(Frame)
           /\ \A i \in 1 .. Len(outbox'[d]) : outbox'[d][i] \in Frames(d)
  BY <1>2, EmptySeq
<1> QED  BY <1>1, <1>2, <1>3, QueueStep DEF Typed, Knows

LEMMA LoopIdle ==
  ASSUME LoopInv, UNCHANGED <<table, rib_rx, channel_rx, outbox, said>>
  PROVE  LoopInv'
BY DEF LoopInv, Typed, Directed, Knows

LEMMA LoopInductive == LoopInv /\ [Next]_vars => LoopInv'
<1> SUFFICES ASSUME LoopInv, [Next]_vars PROVE LoopInv'
  OBVIOUS
<1>1. CASE UNCHANGED vars
  BY <1>1, LoopIdle DEF vars, ribs
<1>2. ASSUME NEW p \in RosPublisher, RosPublisherFails(p) PROVE LoopInv'
  BY <1>2, LoopIdle DEF RosPublisherFails, ribs
<1> QED
  BY <1>1, <1>2, RosStartStep, RosSubscriberStep, SessionStartStep, FlushStep,
     RecvPacketStep, RecvChannelStep, SessionReadStep, LoseStep, DisturbStep,
     BreakStep DEF Next

-----------------------------------------------------------------------------
(* In every forest of routers no packet comes to a router that has routed  *)
(* it before, whatever names are registered, unknown and broadcast, flushed*)
(* or advertised meanwhile, and although each hop overwrites the source.   *)
THEOREM NoPacketLoops == Spec => []NoLoop
<1>1. LoopInv => NoLoop
  BY DirectedHasNoLoop
<1> QED  BY LoopInit, LoopInductive, <1>1, PTL DEF Spec

-----------------------------------------------------------------------------
(* Registrations are made once.  A name is advertised over a gateway       *)
(* session by the one flush of its router, a task and a gateway session    *)
(* advertise themselves once.                                              *)
Made(r, c) ==
  \/ table[r][c] > 0
  \/ \E i \in 1 .. Len(channel_rx[r]) : channel_rx[r][i] = c

Advertised(e, n) ==
  \E i \in 1 .. Len(outbox[e]) :
    IsAdvertisement(outbox[e][i]) /\ outbox[e][i].gdpname = n

(* Who has made registration c at router r.                                *)
Origin(r, c) ==
  \/ /\ c[2] \in started /\ c[1] = TopicOf[c[2]] /\ r = Home[c[2]]
  \/ c[2] \in Session /\ c[2][2] = "near" /\ c[2][1] \in connected
  \/ /\ c[2] \in Session /\ c[2][2] = "far" /\ c[2][1] \in flushed
     /\ r = At(c[2]) /\ ~Advertised(OtherEnd(c[2]), c[1])

MadeOnce ==
  \A r \in Router :
    /\ \A c \in Registration : table[r][c] <= 1
    /\ \A i \in 1 .. Len(channel_rx[r]) : table[r][channel_rx[r][i]] = 0
    /\ \A i, j \in 1 .. Len(channel_rx[r]) :
         channel_rx[r][i] = channel_rx[r][j] => i = j

AdvertisedOnce ==
  \A e \in Session : \A i, j \in 1 .. Len(outbox[e]) :
    IsAdvertisement(outbox[e][i]) =>
      /\ e[2] = "near" /\ e[1] \in flushed
      /\ IsAdvertisement(outbox[e][j]) /\ outbox[e][i].gdpname = outbox[e][j].gdpname
           => i = j

RegistrationInv ==
  /\ started \subseteq RosNode
  /\ MadeOnce
  /\ AdvertisedOnce
  /\ \A r \in Router, c \in Registration : Made(r, c) => Origin(r, c)

-----------------------------------------------------------------------------
(* What each kind of step does to the elements of a queue.                 *)
Longer(q, k, x, new) ==
  /\ Len(q) \in Nat /\ Len(new) = Len(q) + k
  /\ \A i \in 1 .. Len(q) : new[i] = q[i]
  /\ \A i \in 1 .. Len(new) : i > Len(q) => new[i] = x

LEMMA AppendAt ==
  ASSUME NEW S, NEW q \in Seq(S), NEW x \in S
  PROVE  Append(q, x) \in Seq(S) /\ Longer(q, 1, x, Append(q, x))
BY AppendProperties, LenProperties DEF Longer

LEMMA TailAt ==
  ASSUME NEW S, NEW q \in Seq(S), q # <<>>
  PROVE  /\ Tail(q) \in Seq(S) /\ Len(Tail(q)) = Len(q) - 1
         /\ Len(q) \in Nat \ {0} /\ Head(q) = q[1] /\ Head(q) \in S
         /\ \A i \in 1 .. Len(Tail(q)) : Tail(q)[i] = q[i + 1]
BY HeadTailProperties, LenProperties, EmptySeq

LEMMA TimesAt ==
  ASSUME NEW S, NEW q \in Seq(S), NEW k \in Nat, NEW x, k # 0 => x \in S
  PROVE  q \o Times(k, x) \in Seq(S) /\ Longer(q, k, x, q \o Times(k, x))
<1>1. Times(k, x) \in Seq(S) /\ Len(Times(k, x)) = k
  <2>1. Times(k, x) \in [1 .. k -> S]
    BY DEF Times
  <2> QED  BY <2>1, IsASeq, LenProperties DEF Times
<1>2. \A i \in 1 .. k : Times(k, x)[i] = x
  BY DEF Times
<1> DEFINE more == Times(k, x)
<1> HIDE DEF more
<1>3. /\ q \o more \in Seq(S) /\ Len(q \o more) = Len(q) + Len(more)
      /\ \A i \in 1 .. Len(q) + Len(more) :
           (q \o more)[i] = IF i <= Len(q) THEN q[i] ELSE more[i - Len(q)]
      /\ Len(q) \in Nat
  BY <1>1, ConcatProperties, LenProperties DEF more
<1>4. \A i \in 1 .. k : more[i] = x
  BY <1>2 DEF more
<1>5. Longer(q, k, x, q \o more)
  BY <1>1, <1>3, <1>4 DEF Longer, more
<1> QED  BY <1>3, <1>5 DEF more

-----------------------------------------------------------------------------
(* The parts of RegistrationInv that concern the outboxes hold as long as  *)
(* no advertisement comes into one.                                        *)
Retains(q, new, S) ==        \* the elements of new in S come from q, in order
  \E f \in [S -> 1 .. Len(q)] :
    /\ \A i \in S : new[i] = q[f[i]]
    /\ \A i, j \in S : i < j => f[i] < f[j]

Fewer(q, new) == Retains(q, new, {i \in 1 .. Len(new) : IsAdvertisement(new[i])})

LEMMA ShiftRetains ==
  ASSUME NEW q, NEW new, NEW S \in SUBSET Nat, NEW d \in Nat,
         \A i \in S : i + d \in 1 .. Len(q) /\ new[i] = q[i + d]
  PROVE  Retains(q, new, S)
<1> DEFINE f == [i \in S |-> i + d]
<1>1. f \in [S -> 1 .. Len(q)] /\ \A i \in S : i \in Nat /\ f[i] = i + d
  OBVIOUS
<1> HIDE DEF f
<1>2. /\ \A i \in S : new[i] = q[f[i]]
      /\ \A i, j \in S : i < j => f[i] < f[j]
  BY <1>1
<1> QED  BY <1>1, <1>2 DEF Retains

LEMMA ShiftHasFewer ==
  ASSUME NEW q, NEW new, NEW d \in Nat,
         \A i \in 1 .. Len(new) :
           IsAdvertisement(new[i]) => i + d \in 1 .. Len(q) /\ new[i] = q[i + d]
  PROVE  Fewer(q, new)
<1> DEFINE S == {i \in 1 .. Len(new) : IsAdvertisement(new[i])}
<1>1. S \in SUBSET Nat /\ \A i \in S : i + d \in 1 .. Len(q) /\ new[i] = q[i + d]
  OBVIOUS
<1> HIDE DEF S
<1>2. Retains(q, new, S)
  BY <1>1, ShiftRetains
<1> QED  BY <1>2 DEF Fewer, S

LEMMA HitRetains ==
  ASSUME NEW q, Len(q) \in Nat, NEW new, Hits(q, new),
         NEW S \in SUBSET (2 .. Len(new))
  PROVE  Retains(q, new, S)
<1>1. PICK i \in 1 .. Len(q) :
        /\ Len(new) = Len(q)
        /\ \A j \in 2 .. i : new[j] = q[j - 1]
        /\ \A j \in i + 1 .. Len(q) : new[j] = q[j]
  BY DEF Hits
<1> DEFINE f == [j \in S |-> IF j <= i THEN j - 1 ELSE j]
<1>2. f \in [S -> 1 .. Len(q)]
  BY <1>1
<1>3. \A j \in S : new[j] = q[f[j]]
  <2> TAKE j \in S
  <2>1. CASE j <= i
    BY <1>1, <2>1
  <2>2. CASE j > i
    BY <1>1, <2>2
  <2> QED  BY <1>1, <2>1, <2>2
<1>4. \A j, k \in S : j < k => f[j] < f[k]
  BY <1>1
<1> QED  BY <1>2, <1>3, <1>4 DEF Retains

LEMMA RegistrationInit == Init => RegistrationInv
<1> SUFFICES ASSUME Init PROVE RegistrationInv
  OBVIOUS
<1>1. /\ started = {}
      /\ \A r \in Router : Len(channel_rx[r]) = 0
      /\ \A e \in Session : Len(outbox[e]) = 0
  BY EmptySeq DEF Init
<1>2. \A r \in Router, c \in Registration : table[r][c] = 0
  BY DEF Init, Registration, Enrolled, Channel
<1> QED
  BY <1>1, <1>2 DEF RegistrationInv, MadeOnce, AdvertisedOnce, Made

LEMMA FewerAdvertised ==
  ASSUME AdvertisedOnce, LoopInv', UNCHANGED flushed,
         Typed, \A e \in Session : Fewer(outbox[e], outbox'[e])
  PROVE  /\ AdvertisedOnce'
         /\ \A e \in Session, n \in Name : Advertised(e, n)' => Advertised(e, n)
<1>1. AdvertisedOnce'
  <2> SUFFICES ASSUME NEW e \in Session,
                      NEW i \in 1 .. Len(outbox'[e]), NEW j \in 1 .. Len(outbox'[e]),
                      IsAdvertisement(outbox'[e][i])
               PROVE  /\ e[2] = "near" /\ e[1] \in flushed
                      /\ IsAdvertisement(outbox'[e][j])
                         /\ outbox'[e][i].gdpname = outbox'[e][j].gdpname
                           => i = j
    BY DEF AdvertisedOnce
  <2> DEFINE S == {k \in 1 .. Len(outbox'[e]) : IsAdvertisement(outbox'[e][k])}
  <2>1. PICK f \in [S -> 1 .. Len(outbox[e])] :
          /\ \A k \in S : outbox'[e][k] = outbox[e][f[k]]
          /\ \A k, l \in S : k < l => f[k] < f[l]
    BY DEF Fewer, Retains
  <2>2. Len(outbox'[e]) \in Nat /\ Len(outbox[e]) \in Nat
    BY LenProperties DEF LoopInv, Typed
  <2>3. e[2] = "near" /\ e[1] \in flushed
    BY <2>1 DEF AdvertisedOnce
  <2>4. ASSUME IsAdvertisement(outbox'[e][j]),
               outbox'[e][i].gdpname = outbox'[e][j].gdpname
        PROVE  i = j
    <3>1. i \in S /\ j \in S
      BY <2>4
    <3>2. f[i] = f[j]
      <4>1. /\ f[i] \in 1 .. Len(outbox[e]) /\ f[j] \in 1 .. Len(outbox[e])
            /\ outbox'[e][i] = outbox[e][f[i]] /\ outbox'[e][j] = outbox[e][f[j]]
        BY <2>1, <3>1
      <4> HIDE DEF S
      <4> QED  BY <2>4, <4>1 DEF AdvertisedOnce
    <3>3. f[i] \in Nat /\ i \in Nat /\ j \in Nat
      BY <2>1, <2>2, <3>1
    <3> QED  BY <2>1, <3>1, <3>2, <3>3
  <2> QED  BY <2>3, <2>4
<1>2. ASSUME NEW e \in Session, NEW n \in Name, Advertised(e, n)'
      PROVE  Advertised(e, n)
  <2> DEFINE S == {k \in 1 .. Len(outbox'[e]) : IsAdvertisement(outbox'[e][k])}
  <2>1. PICK f \in [S -> 1 .. Len(outbox[e])] :
          \A k \in S : outbox'[e][k] = outbox[e][f[k]]
    BY DEF Fewer, Retains
  <2>2. PICK k \in S : outbox'[e][k].gdpname = n
    BY <1>2 DEF Advertised
  <2> QED  BY <2>1, <2>2 DEF Advertised
<1> QED  BY <1>1, <1>2

LEMMA FewerKeeps ==
  ASSUME RegistrationInv, Typed, LoopInv', UNCHANGED <<table, channel_rx>>,
         UNCHANGED <<started, connected, flushed>>,
         \A e \in Session : Fewer(outbox[e], outbox'[e])
  PROVE  RegistrationInv'
<1>1. /\ AdvertisedOnce'
      /\ \A e \in Session, n \in Name : Advertised(e, n)' => Advertised(e, n)
  BY FewerAdvertised DEF RegistrationInv
<1>2. ASSUME NEW r \in Router, NEW c \in Registration, Made(r, c)'
      PROVE  Origin(r, c)'
  <2>1. Origin(r, c)
    BY <1>2 DEF Made, RegistrationInv
  <2>2. c[1] \in Name /\ (c[2] \in Session => OtherEnd(c[2]) \in Session)
    BY Sessions DEF Registration
  <2> QED  BY <1>1, <2>1, <2>2 DEF Origin
<1>3. MadeOnce'
  BY DEF RegistrationInv, MadeOnce
<1> QED  BY <1>1, <1>2, <1>3 DEF RegistrationInv

(* A new registration, of somebody that has made none of this kind yet.    *)
LEMMA MadeOnceStep ==
  ASSUME RegistrationInv, Typed, NEW r \in Router, NEW c \in Registration,
         ~Made(r, c), UNCHANGED table,
         channel_rx' = [channel_rx EXCEPT ![r] = Append(@, c)]
  PROVE  /\ MadeOnce'
         /\ \A q \in Router, d \in Registration :
              Made(q, d)' => Made(q, d) \/ (q = r /\ d = c)
<1> DEFINE new == Append(channel_rx[r], c)
<1>1. /\ Len(new) = Len(channel_rx[r]) + 1 /\ Len(channel_rx[r]) \in Nat
      /\ new[Len(channel_rx[r]) + 1] = c
      /\ \A i \in 1 .. Len(channel_rx[r]) : new[i] = channel_rx[r][i]
  BY QueueTypes, AppendAt DEF Longer
<1>2. channel_rx'[r] = new /\ \A q \in Router : q # r => channel_rx'[q] = channel_rx[q]
  BY DEF Typed
<1> HIDE DEF new
<1>3. table[r][c] = 0 /\ \A i \in 1 .. Len(channel_rx[r]) : channel_rx[r][i] # c
  <2>1. c \in Name \X Channel
    BY DEF Registration, Enrolled, Channel
  <2>2. table[r][c] \in Nat
    BY <2>1 DEF Typed
  <2> QED  BY <2>2 DEF Made
<1>4. MadeOnce'
  BY <1>1, <1>2, <1>3 DEF RegistrationInv, MadeOnce
<1>5. \A q \in Router, d \in Registration :
        Made(q, d)' => Made(q, d) \/ (q = r /\ d = c)
  BY <1>1, <1>2 DEF Made
<1> QED  BY <1>4, <1>5

LEMMA OriginStays ==
  ASSUME NEW r \in Router, NEW c \in Registration, Origin(r, c),
         started \subseteq started', connected \subseteq connected',
         flushed \subseteq flushed',
         c[2] \in Session /\ c[2][2] = "far" =>
           (Advertised(OtherEnd(c[2]), c[1])' => Advertised(OtherEnd(c[2]), c[1]))
  PROVE  Origin(r, c)'
BY DEF Origin

LEMMA RosStartRegisters ==
  ASSUME RegistrationInv, Typed, NEW e \in RosNode, RosStart(e)
  PROVE  RegistrationInv'
<1> DEFINE c == <<TopicOf[e], e>>
           r == Home[e]
<1>1. r \in Router /\ c \in Registration /\ e \notin Session
  BY FederationAssumption DEF Registration, Enrolled, Name, Topic
<1>2. /\ e \notin started /\ started' = started \cup {e}
      /\ channel_rx' = [channel_rx EXCEPT ![r] = Append(@, c)]
      /\ UNCHANGED <<table, outbox, connected, flushed>>
  BY DEF RosStart
<1>3. ~Made(r, c)
  BY <1>1, <1>2 DEF RegistrationInv, Origin
<1>4. /\ MadeOnce'
      /\ \A q \in Router, d \in Registration :
           Made(q, d)' => Made(q, d) \/ (q = r /\ d = c)
  <2> HIDE DEF c, r
  <2> QED  BY <1>1, <1>2, <1>3, MadeOnceStep
<1>5. Origin(r, c)'
  BY <1>2 DEF Origin
<1>6. ASSUME NEW q \in Router, NEW d \in Registration, Made(q, d)'
      PROVE  Origin(q, d)'
  <2>1. CASE q = r /\ d = c
    BY <1>5, <2>1
  <2>2. CASE Made(q, d)
    <3>1. Origin(q, d)
      BY <2>2 DEF RegistrationInv
    <3>2. Advertised(OtherEnd(d[2]), d[1])' => Advertised(OtherEnd(d[2]), d[1])
      BY <1>2 DEF Advertised
    <3> QED  BY <1>2, <3>1, <3>2, OriginStays
  <2> QED  BY <1>4, <1>6, <2>1, <2>2
<1>7. AdvertisedOnce'
  BY <1>2 DEF RegistrationInv, AdvertisedOnce
<1> QED  BY <1>2, <1>4, <1>6, <1>7 DEF RegistrationInv

LEMMA SessionStartRegisters ==
  ASSUME RegistrationInv, Typed, NEW r \in Peering, SessionStart(r)
  PROVE  RegistrationInv'
<1> DEFINE c == <<r, Near(r)>>
<1>1. /\ r \in Router /\ c \in Registration /\ c[2] = Near(r) /\ Near(r) \in Session
      /\ Near(r)[1] = r /\ Near(r)[2] = "near" /\ Near(r) \notin RosNode
  BY Sessions, FederationAssumption DEF Registration, Enrolled, Name
<1>2. /\ r \notin connected /\ connected' = connected \cup {r}
      /\ channel_rx' = [channel_rx EXCEPT ![r] = Append(@, c)]
      /\ UNCHANGED <<table, outbox, started, flushed>>
  BY DEF SessionStart
<1> HIDE DEF c
<1>3. ~Made(r, c)
  BY <1>1, <1>2 DEF RegistrationInv, Origin
<1>4. /\ MadeOnce'
      /\ \A q \in Router, d \in Registration :
           Made(q, d)' => Made(q, d) \/ (q = r /\ d = c)
  BY <1>1, <1>2, <1>3, MadeOnceStep
<1>5. Origin(r, c)'
  BY <1>1, <1>2 DEF Origin
<1>6. ASSUME NEW q \in Router, NEW d \in Registration, Made(q, d)'
      PROVE  Origin(q, d)'
  <2>1. CASE q = r /\ d = c
    BY <1>5, <2>1
  <2>2. CASE Made(q, d)
    <3>1. Origin(q, d)
      BY <2>2 DEF RegistrationInv
    <3>2. Advertised(OtherEnd(d[2]), d[1])' => Advertised(OtherEnd(d[2]), d[1])
      BY <1>2 DEF Advertised
    <3> QED  BY <1>2, <3>1, <3>2, OriginStays
  <2> QED  BY <1>4, <1>6, <2>1, <2>2
<1>7. AdvertisedOnce'
  BY <1>2 DEF RegistrationInv, AdvertisedOnce
<1> QED  BY <1>2, <1>4, <1>6, <1>7 DEF RegistrationInv

LEMMA RecvChannelRegisters ==
  ASSUME RegistrationInv, Typed, NEW r \in Router, RecvChannel(r)
  PROVE  RegistrationInv'
<1> DEFINE c == Head(channel_rx[r])
           q == channel_rx[r]
           Pair == Name \X Channel
           Row == [Pair -> Nat]
<1>1. /\ q \in Seq(Registration) /\ q # <<>>
      /\ table' = [table EXCEPT ![r][c] = @ + 1]
      /\ channel_rx' = [channel_rx EXCEPT ![r] = Tail(@)]
      /\ UNCHANGED <<outbox, started, connected, flushed>>
  BY QueueTypes DEF RecvChannel, life
<1>2. /\ Len(Tail(q)) = Len(q) - 1 /\ Len(q) \in Nat \ {0}
      /\ c = q[1] /\ c \in Registration
      /\ \A i \in 1 .. Len(Tail(q)) : Tail(q)[i] = q[i + 1]
  <2> HIDE DEF q
  <2> QED  BY <1>1, TailAt DEF q
<1>3. /\ table \in [Router -> Row] /\ Registration \subseteq Pair
      /\ \A d \in Pair : table[r][d] \in Nat
  BY DEF Typed, Registration, Enrolled, Channel
<1>4. channel_rx'[r] = Tail(q) /\ \A x \in Router : x # r => channel_rx'[x] = channel_rx[x]
  BY <1>1 DEF Typed
<1> HIDE DEF c, q, Pair
<1>5. /\ table'[r][c] = table[r][c] + 1
      /\ \A d \in Pair : d # c => table'[r][d] = table[r][d]
      /\ \A x \in Router : x # r => table'[x] = table[x]
  BY <1>1, <1>2, <1>3
<1> HIDE DEF Row
<1>6. /\ table[r][c] = 0
      /\ \A i \in 1 .. Len(Tail(q)) : Tail(q)[i] # c /\ table[r][Tail(q)[i]] = 0
      /\ \A i, j \in 1 .. Len(Tail(q)) : Tail(q)[i] = Tail(q)[j] => i = j
  BY <1>2 DEF RegistrationInv, MadeOnce, q
<1>7. \A i \in 1 .. Len(Tail(q)) : Tail(q)[i] \in Pair
  <2>1. \A i \in 1 .. Len(q) : q[i] \in Registration
    BY <1>1, ElementOfSeq
  <2> QED  BY <1>2, <1>3, <2>1
<1>8. MadeOnce'
  <2> SUFFICES ASSUME NEW x \in Router
               PROVE  /\ \A d \in Registration : table'[x][d] <= 1
                      /\ \A i \in 1 .. Len(channel_rx'[x]) :
                           table'[x][channel_rx'[x][i]] = 0
                      /\ \A i, j \in 1 .. Len(channel_rx'[x]) :
                           channel_rx'[x][i] = channel_rx'[x][j] => i = j
    BY DEF MadeOnce
  <2>1. CASE x # r
    BY <1>4, <1>5, <2>1 DEF RegistrationInv, MadeOnce
  <2>2. CASE x = r
    <3>1. \A d \in Registration : table'[r][d] <= 1
      BY <1>3, <1>5, <1>6 DEF RegistrationInv, MadeOnce
    <3>2. \A i \in 1 .. Len(Tail(q)) : table'[r][Tail(q)[i]] = 0
      BY <1>5, <1>6, <1>7
    <3> DEFINE rest == Tail(q)
    <3>3. channel_rx'[x] = rest
      BY <1>4, <2>2
    <3> HIDE DEF rest
    <3>4. \A i, j \in 1 .. Len(rest) : rest[i] = rest[j] => i = j
      BY <1>6 DEF rest
    <3>5. \A i \in 1 .. Len(rest) : table'[r][rest[i]] = 0
      BY <3>2 DEF rest
    <3> QED  BY <2>2, <3>1, <3>3, <3>4, <3>5
  <2> QED  BY <2>1, <2>2
<1>9. ASSUME NEW x \in Router, NEW d \in Registration, Made(x, d)'
      PROVE  Made(x, d)
  <2>1. CASE x # r
    BY <1>4, <1>5, <1>9, <2>1 DEF Made
  <2>2. CASE x = r /\ d = c
    BY <1>2, <2>2 DEF Made, q
  <2>3. CASE x = r /\ d # c
    <3>1. table'[r][d] = table[r][d]
      BY <1>3, <1>5, <2>3
    <3>2. CASE table[r][d] > 0
      BY <2>3, <3>2 DEF Made
    <3>3. CASE \E i \in 1 .. Len(Tail(q)) : Tail(q)[i] = d
      BY <1>2, <2>3, <3>3 DEF Made, q
    <3> QED  BY <1>4, <1>9, <2>3, <3>1, <3>2, <3>3 DEF Made
  <2> QED  BY <2>1, <2>2, <2>3
<1>10. ASSUME NEW x \in Router, NEW d \in Registration, Made(x, d)'
       PROVE  Origin(x, d)'
  <2>1. Origin(x, d)
    BY <1>9, <1>10 DEF RegistrationInv
  <2>2. Advertised(OtherEnd(d[2]), d[1])' => Advertised(OtherEnd(d[2]), d[1])
    BY <1>1 DEF Advertised
  <2> QED  BY <1>1, <2>1, <2>2, OriginStays
<1>11. AdvertisedOnce'
  BY <1>1 DEF RegistrationInv, AdvertisedOnce
<1> QED  BY <1>1, <1>8, <1>10, <1>11 DEF RegistrationInv

LEMMA FlushRegisters ==
  ASSUME RegistrationInv, Typed, NEW r \in Peering, Flush(r)
  PROVE  RegistrationInv'
<1> DEFINE e == Near(r)
<1>1. /\ r \notin flushed /\ flushed' = flushed \cup {r}
      /\ UNCHANGED <<table, channel_rx, started, connected>>
  BY DEF Flush, ribs
<1>2. PICK names \in SetToSeqs(KnownNames(r)) :
        outbox' = [outbox EXCEPT ![e] =
          IF Alive(e)
          THEN @ \o [i \in DOMAIN names |-> Advertisement(names[i])] ELSE @]
  BY DEF Flush
<1> DEFINE more == [i \in DOMAIN names |-> Advertisement(names[i])]
<1>3. PICK k \in Nat :
        /\ names \in [1 .. k -> Name]
        /\ \A i, j \in 1 .. k : i # j => names[i] # names[j]
  <2>1. KnownNames(r) \in SUBSET Name
    BY DEF KnownNames
  <2>2. Cardinality(KnownNames(r)) \in Nat
    BY <2>1, NamesFinite, FS_Subset, FS_CardinalityType
  <2>3. /\ names \in [1 .. Cardinality(KnownNames(r)) -> Name]
        /\ \A i, j \in 1 .. Cardinality(KnownNames(r)) : i # j => names[i] # names[j]
    BY <1>2, <2>1 DEF SetToSeqs
  <2> QED  BY <2>2, <2>3
<1>4. /\ more \in Seq(Frame) /\ Len(more) = k
      /\ \A i \in 1 .. k : more[i].gdpname = names[i]
  <2>1. \A n \in Name : Advertisement(n) \in Frame /\ Advertisement(n).gdpname = n
    BY DEF Advertisement, Frame
  <2>2. /\ more \in [1 .. k -> Frame]
        /\ \A i \in 1 .. k : more[i].gdpname = names[i]
    BY <1>3, <2>1
  <2> HIDE DEF more
  <2>3. more \in Seq(Frame) /\ Len(more) = k
    BY <2>2, SeqDef, LenProperties
  <2> QED  BY <2>2, <2>3
<1>5. /\ e \in Session /\ e[2] = "near" /\ e[1] = r /\ outbox[e] \in Seq(Frame)
      /\ Len(outbox[e]) \in Nat
  BY Sessions, QueueTypes
<1>6. /\ \A d \in Session : d # e => outbox'[d] = outbox[d]
      /\ outbox'[e] = outbox[e] \/ outbox'[e] = outbox[e] \o more
  BY <1>2, <1>5 DEF Typed
<1> HIDE DEF e, more
<1>7. /\ Len(outbox[e] \o more) = Len(outbox[e]) + k
      /\ \A i \in 1 .. Len(outbox[e]) : (outbox[e] \o more)[i] = outbox[e][i]
      /\ \A i \in Len(outbox[e]) + 1 .. Len(outbox[e]) + k :
           (outbox[e] \o more)[i] = more[i - Len(outbox[e])]
  <2>1. /\ Len(outbox[e] \o more) = Len(outbox[e]) + Len(more)
        /\ \A i \in 1 .. Len(outbox[e]) + Len(more) :
             (outbox[e] \o more)[i] =
               IF i <= Len(outbox[e]) THEN outbox[e][i] ELSE more[i - Len(outbox[e])]
    BY <1>4, <1>5, ConcatProperties
  <2> QED  BY <1>3, <1>4, <1>5, <2>1
<1>8. \A i \in 1 .. Len(outbox[e]) : ~IsAdvertisement(outbox[e][i])
  BY <1>1, <1>5 DEF RegistrationInv, AdvertisedOnce
<1>9. AdvertisedOnce'
  <2> SUFFICES ASSUME NEW d \in Session,
                      NEW i \in 1 .. Len(outbox'[d]), NEW j \in 1 .. Len(outbox'[d]),
                      IsAdvertisement(outbox'[d][i])
               PROVE  /\ d[2] = "near" /\ d[1] \in flushed'
                      /\ IsAdvertisement(outbox'[d][j])
                         /\ outbox'[d][i].gdpname = outbox'[d][j].gdpname => i = j
    BY DEF AdvertisedOnce
  <2>1. CASE outbox'[d] = outbox[d]
    BY <1>1, <2>1 DEF RegistrationInv, AdvertisedOnce
  <2>2. CASE d = e /\ outbox'[d] = outbox[e] \o more
    <3>1. i \in Len(outbox[e]) + 1 .. Len(outbox[e]) + k
      BY <1>3, <1>5, <1>7, <1>8, <2>2
    <3>2. IsAdvertisement(outbox'[d][j]) => j \in Len(outbox[e]) + 1 .. Len(outbox[e]) + k
      BY <1>3, <1>5, <1>7, <1>8, <2>2
    <3>3. \A x \in Len(outbox[e]) + 1 .. Len(outbox[e]) + k :
            outbox'[d][x].gdpname = names[x - Len(outbox[e])]
      BY <1>3, <1>4, <1>5, <1>7, <2>2
    <3>4. IsAdvertisement(outbox'[d][j]) /\ outbox'[d][i].gdpname = outbox'[d][j].gdpname
            => names[i - Len(outbox[e])] = names[j - Len(outbox[e])]
      BY <3>1, <3>2, <3>3
    <3>5. IsAdvertisement(outbox'[d][j]) /\ outbox'[d][i].gdpname = outbox'[d][j].gdpname
            => i = j
      BY <1>3, <1>5, <3>1, <3>2, <3>4
    <3>6. d[2] = "near" /\ d[1] \in flushed'
      BY <1>1, <1>5, <2>2
    <3> QED  BY <3>5, <3>6
  <2> QED  BY <1>6, <2>1, <2>2
<1>10. ASSUME NEW x \in Router, NEW d \in Registration, Made(x, d)'
       PROVE  Origin(x, d)'
  <2>1. Origin(x, d)
    BY <1>1, <1>10 DEF RegistrationInv, Made
  <2>2. ASSUME d[2] \in Session, d[2][2] = "far"
        PROVE  OtherEnd(d[2]) \in Session /\ outbox'[OtherEnd(d[2])] = outbox[OtherEnd(d[2])]
    <3>1. OtherEnd(d[2]) \in Session /\ OtherEnd(d[2])[1] = d[2][1]
      BY <2>2, Sessions
    <3>2. d[2][1] # r
      BY <1>1, <2>1, <2>2, FederationAssumption DEF Origin, RegistrationInv
    <3> QED  BY <1>5, <1>6, <3>1, <3>2
  <2>3. d[2] \in Session /\ d[2][2] = "far" =>
          (Advertised(OtherEnd(d[2]), d[1])' => Advertised(OtherEnd(d[2]), d[1]))
    BY <2>2 DEF Advertised
  <2> QED  BY <1>1, <2>1, <2>3, OriginStays
<1>11. MadeOnce'
  BY <1>1 DEF RegistrationInv, MadeOnce
<1> QED  BY <1>1, <1>9, <1>10, <1>11 DEF RegistrationInv

-----------------------------------------------------------------------------
(* What the steps that move packets do, in the terms of the invariants.    *)
LEMMA DataIsData ==
  /\ \A x \in Data : ~IsAdvertisement(x)
  /\ \A x \in RibPacket : ~IsAdvertisement(x)
  /\ \A x \in Frame : ~IsAdvertisement(x) => x \in Data
<1>1. ASSUME NEW x \in Data PROVE ~IsAdvertisement(x)
  <2>1. DOMAIN x = {"gdpname", "payload", "path", "hit"}
    BY DEF Data
  <2> QED  BY <2>1 DEF IsAdvertisement
<1>2. ASSUME NEW x \in RibPacket PROVE ~IsAdvertisement(x)
  <2>1. DOMAIN x = {"gdpname", "payload", "path", "hit", "source"}
    BY DEF RibPacket
  <2> QED  BY <2>1 DEF IsAdvertisement
<1>3. ASSUME NEW x \in Frame, ~IsAdvertisement(x) PROVE x \in Data
  BY <1>3 DEF Frame, IsAdvertisement
<1> QED  BY <1>1, <1>2, <1>3

LEMMA RecvPacketDoes ==
  ASSUME LoopInv, NEW r \in Router, RecvPacket(r)
  PROVE  \E pkt \in RibPacket, frame \in Data :
           /\ rib_rx[r] # <<>> /\ pkt = Head(rib_rx[r]) /\ InRib(r, pkt)
           /\ frame.payload = pkt.payload /\ frame.hit = pkt.hit
           /\ rib_rx' = [rib_rx EXCEPT ![r] = Tail(rib_rx[r])]
           /\ outbox' = [e \in Session |->
                           IF At(e) = r /\ Alive(e)
                           THEN outbox[e] \o Times(CopiesTo(r, pkt, e), frame)
                           ELSE outbox[e]]
           /\ heard' = [p \in RosPublisher |->
                           IF Home[p] = r /\ Publishes(p, pkt) /\ ~pkt.hit
                           THEN heard[p] \o Times(CopiesTo(r, pkt, p), pkt.payload)
                           ELSE heard[p]]
           /\ misheard' = misheard \cup
                {p \in {q \in RosPublisher : Home[q] = r /\ Publishes(q, pkt)} :
                   pkt.hit /\ CopiesTo(r, pkt, p) > 0}
           /\ UNCHANGED <<table, channel_rx, life, said>>
<1> DEFINE pkt == Head(rib_rx[r])
           frame == [gdpname |-> pkt.gdpname, payload |-> pkt.payload,
                     path |-> Append(pkt.path, r), hit |-> pkt.hit]
<1>1. Typed /\ rib_rx[r] # <<>> /\ rib_rx[r] \in Seq(RibPacket)
  BY QueueTypes DEF LoopInv, RecvPacket
<1>2. pkt \in RibPacket /\ pkt = rib_rx[r][1] /\ Len(rib_rx[r]) \in Nat \ {0}
  <2> DEFINE q == rib_rx[r]
  <2> HIDE DEF q
  <2>1. q # <<>> /\ q \in Seq(RibPacket)
    BY <1>1 DEF q
  <2>2. Head(q) \in RibPacket /\ Head(q) = q[1] /\ Len(q) \in Nat \ {0}
    BY <2>1, TailAt
  <2> QED  BY <2>2 DEF q
<1>3. InRib(r, pkt)
  <2>1. 1 \in 1 .. Len(rib_rx[r])
    BY <1>2
  <2> QED  BY <1>2, <2>1 DEF LoopInv, Directed
<1>4. /\ outbox' = [e \in Session |->
                      IF At(e) = r /\ Alive(e)
                      THEN outbox[e] \o Times(CopiesTo(r, pkt, e), frame)
                      ELSE outbox[e]]
      /\ heard' = [p \in RosPublisher |->
                      IF Home[p] = r /\ Publishes(p, pkt) /\ ~pkt.hit
                      THEN heard[p] \o Times(CopiesTo(r, pkt, p), pkt.payload)
                      ELSE heard[p]]
      /\ misheard' = misheard \cup
           {p \in {q \in RosPublisher : Home[q] = r /\ Publishes(q, pkt)} :
              pkt.hit /\ CopiesTo(r, pkt, p) > 0}
      /\ rib_rx' = [rib_rx EXCEPT ![r] = Tail(rib_rx[r])]
      /\ UNCHANGED <<table, channel_rx, life, said>>
  BY DEF RecvPacket
<1> HIDE DEF pkt
<1>5. frame \in Data /\ frame.payload = pkt.payload /\ frame.hit = pkt.hit
  <2>1. pkt.path \in Seq(Router) /\ Append(pkt.path, r) \in Seq(Router)
    BY <1>2, AppendProperties DEF RibPacket
  <2> QED  BY <1>2, <2>1 DEF RibPacket, Data
<1> HIDE DEF frame
<1>6. pkt = Head(rib_rx[r])
  BY DEF pkt
<1> QED  BY <1>1, <1>2, <1>3, <1>4, <1>5, <1>6

LEMMA RosSubscriberDoes ==
  ASSUME LoopInv, NEW s \in RosSubscriber, RosSubscriberNext(s)
  PROVE  \E promised \in SUBSET RosPublisher, k \in Nat :
           /\ k = Len(said[s]) + 1
           /\ promised = {p \in RosPublisher : HasRoute(s, p)}
           /\ said' = [said EXCEPT ![s] = Append(said[s], promised)]
           /\ UNCHANGED <<table, channel_rx, life, heard>>
           /\ \/ \E x \in Data :
                   /\ s \in Direct /\ x.payload = <<s, k>> /\ ~x.hit
                   /\ UNCHANGED rib_rx
                   /\ \/ UNCHANGED outbox /\ ~Alive(Near(s))
                      \/ outbox' = [outbox EXCEPT ![Near(s)] =
                                      Append(outbox[Near(s)], x)]
              \/ \E x \in RibPacket :
                   /\ s \notin Direct /\ x.payload = <<s, k>> /\ ~x.hit
                   /\ rib_rx' = [rib_rx EXCEPT ![Home[s]] =
                                   Append(rib_rx[Home[s]], x)]
                   /\ UNCHANGED outbox
<1> DEFINE k == Len(said[s]) + 1
           promised == {p \in RosPublisher : HasRoute(s, p)}
           packet == Packet(s, k)
<1>1. k \in Nat \ {0} /\ s \in RosNode /\ Typed
  <2>1. Typed /\ said[s] \in Seq(SUBSET RosPublisher)
    BY DEF LoopInv, Typed
  <2>2. Len(said[s]) \in Nat
    BY <2>1, LenProperties
  <2> QED  BY <2>1, <2>2 DEF RosNode
<1>2. /\ said' = [said EXCEPT ![s] = Append(said[s], promised)]
      /\ UNCHANGED <<table, channel_rx, life, heard>>
      /\ \/ /\ s \in Direct /\ UNCHANGED rib_rx
            /\ outbox' = [outbox EXCEPT ![Near(s)] =
                            IF Alive(Near(s)) THEN Append(@, packet) ELSE @]
         \/ /\ s \notin Direct /\ UNCHANGED outbox
            /\ rib_rx' = [rib_rx EXCEPT ![Home[s]] =
                            Append(rib_rx[Home[s]], From(s, packet))]
  BY DEF RosSubscriberNext
<1> HIDE DEF k
<1>3. /\ packet \in Data /\ packet.payload = <<s, k>> /\ ~packet.hit
      /\ From(s, packet) \in RibPacket /\ From(s, packet).payload = <<s, k>>
      /\ ~From(s, packet).hit
  <2>1. TopicOf[s] \in Name /\ <<>> \in Seq(Router) /\ <<s, k>> \in Message
    BY <1>1, EmptySeq DEF Name, Topic, Message
  <2> QED  BY <1>1, <2>1 DEF Packet, Data, From, RibPacket
<1> HIDE DEF packet, promised
<1>4. s \in Direct => Near(s) \in Session
  BY Sessions
<1>5. s \in Direct /\ ~Alive(Near(s)) /\
        outbox' = [outbox EXCEPT ![Near(s)] =
                     IF Alive(Near(s)) THEN Append(@, packet) ELSE @]
        => UNCHANGED outbox
  BY <1>1, <1>4 DEF Typed
<1>6. promised \in SUBSET RosPublisher /\ promised = {p \in RosPublisher : HasRoute(s, p)}
      /\ k = Len(said[s]) + 1
  BY DEF promised, k
<1>7. s \in Direct /\ Alive(Near(s)) /\
        outbox' = [outbox EXCEPT ![Near(s)] =
                     IF Alive(Near(s)) THEN Append(@, packet) ELSE @]
        => outbox' = [outbox EXCEPT ![Near(s)] = Append(outbox[Near(s)], packet)]
  OBVIOUS
<1> DEFINE Moves(x, y) ==
             \/ /\ s \in Direct /\ x.payload = <<s, k>> /\ ~x.hit
                /\ UNCHANGED rib_rx
                /\ \/ UNCHANGED outbox /\ ~Alive(Near(s))
                   \/ outbox' = [outbox EXCEPT ![Near(s)] = Append(outbox[Near(s)], x)]
             \/ /\ s \notin Direct /\ y.payload = <<s, k>> /\ ~y.hit
                /\ rib_rx' = [rib_rx EXCEPT ![Home[s]] = Append(rib_rx[Home[s]], y)]
                /\ UNCHANGED outbox
<1>8. Moves(packet, From(s, packet))
  BY <1>2, <1>3, <1>5, <1>7
<1>9. \/ \E x \in Data :
           /\ s \in Direct /\ x.payload = <<s, k>> /\ ~x.hit
           /\ UNCHANGED rib_rx
           /\ \/ UNCHANGED outbox /\ ~Alive(Near(s))
              \/ outbox' = [outbox EXCEPT ![Near(s)] = Append(outbox[Near(s)], x)]
      \/ \E x \in RibPacket :
           /\ s \notin Direct /\ x.payload = <<s, k>> /\ ~x.hit
           /\ rib_rx' = [rib_rx EXCEPT ![Home[s]] = Append(rib_rx[Home[s]], x)]
           /\ UNCHANGED outbox
  BY <1>3, <1>8
<1> HIDE DEF Moves
<1> QED  BY <1>1, <1>2, <1>6, <1>9

LEMMA SessionReadDoes ==
  ASSUME LoopInv, NEW e \in Session, SessionRead(e)
  PROVE  LET o == OtherEnd(e)
             x == Head(outbox[o])
         IN  /\ outbox[o] # <<>> /\ x \in Frame /\ InOutbox(o, x)
             /\ outbox' = [outbox EXCEPT ![o] = Tail(outbox[o])]
             /\ UNCHANGED <<table, life, said, heard>>
             /\ \/ /\ ~IsAdvertisement(x) /\ UNCHANGED channel_rx
                   /\ \E pkt \in RibPacket :
                        /\ pkt.payload = x.payload /\ pkt.hit = x.hit
                        /\ rib_rx' = [rib_rx EXCEPT ![At(e)] =
                                        Append(rib_rx[At(e)], pkt)]
                \/ /\ IsAdvertisement(x) /\ UNCHANGED rib_rx
                   /\ channel_rx' = [channel_rx EXCEPT ![At(e)] =
                                       Append(@, <<x.gdpname, e>>)]
<1> DEFINE o == OtherEnd(e)
           q == outbox[o]
           x == Head(q)
<1>1. /\ Typed /\ o \in Session /\ q # <<>> /\ q \in Seq(Frame)
  BY QueueTypes, Sessions DEF LoopInv, SessionRead
<1>2. /\ outbox' = [outbox EXCEPT ![o] = Tail(q)]
      /\ UNCHANGED <<table, life, said, heard>>
      /\ \/ /\ ~IsAdvertisement(x) /\ UNCHANGED channel_rx
            /\ rib_rx' = [rib_rx EXCEPT ![At(e)] = Append(rib_rx[At(e)], From(e, x))]
         \/ /\ IsAdvertisement(x) /\ UNCHANGED rib_rx
            /\ channel_rx' = [channel_rx EXCEPT ![At(e)] =
                                Append(@, <<x.gdpname, e>>)]
  BY DEF SessionRead
<1>3. x \in Frame /\ InOutbox(o, x)
  <2>1. x \in Frame /\ x = q[1] /\ 1 \in 1 .. Len(q)
    <3> HIDE DEF q
    <3> QED  BY <1>1, TailAt
  <2> QED  BY <1>1, <2>1 DEF LoopInv, Directed
<1>4. ~IsAdvertisement(x) =>
        /\ From(e, x) \in RibPacket /\ From(e, x).payload = x.payload
        /\ From(e, x).hit = x.hit
  <2> HIDE DEF x
  <2>1. ~IsAdvertisement(x) => x \in Data
    BY <1>3, DataIsData
  <2> QED  BY <2>1 DEF Data, From, RibPacket
<1> HIDE DEF x
<1>5. ~IsAdvertisement(x) /\ UNCHANGED channel_rx /\
        rib_rx' = [rib_rx EXCEPT ![At(e)] = Append(rib_rx[At(e)], From(e, x))]
      => \E pkt \in RibPacket :
           /\ pkt.payload = x.payload /\ pkt.hit = x.hit
           /\ rib_rx' = [rib_rx EXCEPT ![At(e)] = Append(rib_rx[At(e)], pkt)]
  BY <1>4
<1>6. /\ outbox[o] # <<>> /\ x \in Frame /\ InOutbox(o, x)
      /\ outbox' = [outbox EXCEPT ![o] = Tail(outbox[o])]
      /\ UNCHANGED <<table, life, said, heard>>
      /\ \/ /\ ~IsAdvertisement(x) /\ UNCHANGED channel_rx
            /\ \E pkt \in RibPacket :
                 /\ pkt.payload = x.payload /\ pkt.hit = x.hit
                 /\ rib_rx' = [rib_rx EXCEPT ![At(e)] = Append(rib_rx[At(e)], pkt)]
         \/ /\ IsAdvertisement(x) /\ UNCHANGED rib_rx
            /\ channel_rx' = [channel_rx EXCEPT ![At(e)] =
                                Append(@, <<x.gdpname, e>>)]
  BY <1>1, <1>2, <1>3, <1>5
<1> QED  BY <1>6 DEF x

-----------------------------------------------------------------------------
(* The rest of the steps, for RegistrationInv: the outboxes only lose      *)
(* advertisements, and one that is read becomes a registration.            *)
LEMMA TailHasFewer ==
  ASSUME NEW S, NEW q \in Seq(S), q # <<>>
  PROVE  Fewer(q, Tail(q))
<1>1. /\ Len(Tail(q)) = Len(q) - 1 /\ Len(q) \in Nat \ {0}
      /\ \A i \in 1 .. Len(Tail(q)) : Tail(q)[i] = q[i + 1]
  BY TailAt
<1> DEFINE new == Tail(q)
<1> HIDE DEF new
<1>2. \A i \in 1 .. Len(new) : i + 1 \in 1 .. Len(q) /\ new[i] = q[i + 1]
  BY <1>1 DEF new
<1>3. Fewer(q, new)
  <2>1. 1 \in Nat
    OBVIOUS
  <2> QED  BY <1>2, <2>1, ShiftHasFewer
<1> QED  BY <1>3 DEF new

LEMMA SameHasFewer ==
  ASSUME NEW S, NEW q \in Seq(S)
  PROVE  Fewer(q, q)
<1>1. \A i \in 1 .. Len(q) : i + 0 \in 1 .. Len(q) /\ q[i] = q[i + 0]
  BY LenProperties
<1> QED  BY <1>1, ShiftHasFewer

LEMMA DataHasFewer ==
  ASSUME NEW q, NEW x \in Data, NEW k \in Nat, NEW new, Longer(q, k, x, new)
  PROVE  Fewer(q, new)
<1>1. ASSUME NEW i \in 1 .. Len(new), IsAdvertisement(new[i])
      PROVE  i + 0 \in 1 .. Len(q) /\ new[i] = q[i + 0]
  <2>1. i <= Len(q)
    BY <1>1, DataIsData DEF Longer
  <2> QED  BY <2>1 DEF Longer
<1> QED  BY <1>1, ShiftHasFewer

LEMMA HitHasFewer ==
  ASSUME NEW q, Len(q) \in Nat, NEW new, Hits(q, new)
  PROVE  Fewer(q, new)
<1>1. new[1] \in Data /\ Len(new) = Len(q)
  <2>1. PICK x \in Data : new[1] = [x EXCEPT !.hit = TRUE]
    BY DEF Hits
  <2> QED  BY <2>1 DEF Data, Hits
<1>2. \A i \in 1 .. Len(new) : IsAdvertisement(new[i]) => i \in 2 .. Len(new)
  BY <1>1, DataIsData
<1> DEFINE S == {i \in 1 .. Len(new) : IsAdvertisement(new[i])}
<1>3. S \in SUBSET (2 .. Len(new))
  BY <1>2
<1> HIDE DEF S
<1>4. Retains(q, new, S)
  BY <1>3, HitRetains
<1> QED  BY <1>4 DEF Fewer, S

LEMMA SessionReadRegisters ==
  ASSUME RegistrationInv, LoopInv, LoopInv', NEW e \in Session, SessionRead(e)
  PROVE  RegistrationInv'
<1> DEFINE o == OtherEnd(e)
           x == Head(outbox[o])
<1>1. /\ Typed /\ o \in Session /\ outbox[o] # <<>> /\ x \in Frame /\ InOutbox(o, x)
      /\ outbox' = [outbox EXCEPT ![o] = Tail(outbox[o])]
      /\ UNCHANGED <<table, started, connected, flushed>>
      /\ \/ ~IsAdvertisement(x) /\ UNCHANGED channel_rx
         \/ /\ IsAdvertisement(x)
            /\ channel_rx' = [channel_rx EXCEPT ![At(e)] =
                                Append(@, <<x.gdpname, e>>)]
  BY SessionReadDoes, Sessions DEF LoopInv, life
<1>2. \A d \in Session : Fewer(outbox[d], outbox'[d])
  <2> SUFFICES ASSUME NEW d \in Session PROVE Fewer(outbox[d], outbox'[d])
    OBVIOUS
  <2>1. outbox[d] \in Seq(Frame)
    BY <1>1, QueueTypes
  <2>2. outbox'[d] = outbox[d] \/ (outbox[d] # <<>> /\ outbox'[d] = Tail(outbox[d]))
    BY <1>1 DEF Typed
  <2> QED  BY <2>1, <2>2, TailHasFewer, SameHasFewer
<1>3. CASE ~IsAdvertisement(x) /\ UNCHANGED channel_rx
  BY <1>1, <1>2, <1>3, FewerKeeps
<1>4. CASE /\ IsAdvertisement(x)
           /\ channel_rx' = [channel_rx EXCEPT ![At(e)] =
                               Append(@, <<x.gdpname, e>>)]
  <2>1. PICK n \in Name : n = x.gdpname
    BY <1>1 DEF Frame, Data
  <2> DEFINE r == At(e)
             c == <<n, e>>
             q == outbox[o]
  <2>2. /\ e[2] = "far" /\ o[1] = e[1] /\ e[1] \in Peering
        /\ r \in Router /\ c \in Registration /\ e \notin RosNode
    <3>1. o[1] \in Peering /\ o[2] = "near"
      BY <1>1, <1>4 DEF InOutbox
    <3>2. o[1] = e[1] /\ e[2] = "far" /\ r \in Router
      BY <3>1, Sessions
    <3> QED  BY <3>1, <3>2, FederationAssumption DEF Registration, Enrolled
  <2>3. /\ Len(q) \in Nat \ {0} /\ x = q[1] /\ Len(Tail(q)) = Len(q) - 1
        /\ \A i \in 1 .. Len(Tail(q)) : Tail(q)[i] = q[i + 1]
    <3>1. q \in Seq(Frame) /\ q # <<>>
      BY <1>1, QueueTypes
    <3> HIDE DEF q
    <3> QED  BY <3>1, TailAt DEF q
  <2>4. /\ e[1] \in flushed
        /\ \A i \in 1 .. Len(q) :
             IsAdvertisement(q[i]) /\ q[i].gdpname = n => i = 1
    BY <1>1, <1>4, <2>1, <2>2, <2>3 DEF RegistrationInv, AdvertisedOnce
  <2>5. Advertised(o, n)
    BY <1>4, <2>1, <2>3 DEF Advertised
  <2>6. ~Advertised(o, n)'
    <3> DEFINE rest == Tail(q)
    <3>1. outbox'[o] = rest
      BY <1>1 DEF Typed
    <3> HIDE DEF rest
    <3>2. \A i \in 1 .. Len(rest) : ~(IsAdvertisement(rest[i]) /\ rest[i].gdpname = n)
      BY <2>3, <2>4 DEF rest
    <3> QED  BY <3>1, <3>2 DEF Advertised
  <2>7. channel_rx' = [channel_rx EXCEPT ![r] = Append(@, c)]
    BY <1>4, <2>1
  <2>8. c[1] = n /\ c[2] = e /\ OtherEnd(e) = o /\ r = At(e)
    OBVIOUS
  <2> HIDE DEF x, q, c, r, o
  <2>9. \A y \in Router, d \in Registration : Made(y, d) => Origin(y, d)
    BY DEF RegistrationInv
  <2>10. ~Made(r, c)
    <3>1. e \notin started
      BY <2>2 DEF RegistrationInv
    <3>2. ~Origin(r, c)
      BY <2>2, <2>5, <2>8, <3>1 DEF Origin
    <3> QED  BY <2>2, <2>9, <3>2
  <2>11. /\ MadeOnce'
         /\ \A y \in Router, d \in Registration :
              Made(y, d)' => Made(y, d) \/ (y = r /\ d = c)
    BY <1>1, <2>2, <2>7, <2>10, MadeOnceStep
  <2>12. /\ AdvertisedOnce'
         /\ \A d \in Session, m \in Name : Advertised(d, m)' => Advertised(d, m)
    BY <1>1, <1>2, FewerAdvertised DEF RegistrationInv
  <2>13. Origin(r, c)'
    BY <1>1, <2>2, <2>4, <2>6, <2>8 DEF Origin
  <2>14. ASSUME NEW y \in Router, NEW d \in Registration, Made(y, d)'
         PROVE  Origin(y, d)'
    <3>1. CASE y = r /\ d = c
      BY <2>13, <3>1
    <3>2. CASE Made(y, d)
      <4>1. Origin(y, d)
        BY <2>9, <3>2
      <4>2. d[1] \in Name /\ (d[2] \in Session => OtherEnd(d[2]) \in Session)
        BY Sessions DEF Registration
      <4> QED  BY <1>1, <2>12, <4>1, <4>2, OriginStays
    <3> QED  BY <2>11, <2>14, <3>1, <3>2
  <2> QED  BY <1>1, <2>11, <2>12, <2>14 DEF RegistrationInv
<1> QED  BY <1>1, <1>3, <1>4

LEMMA RegistrationInductive ==
  RegistrationInv /\ LoopInv /\ LoopInv' /\ [Next]_vars => RegistrationInv'
<1> SUFFICES ASSUME RegistrationInv, LoopInv, LoopInv', [Next]_vars
             PROVE  RegistrationInv'
  OBVIOUS
<1>1. Typed /\ \A d \in Session : outbox[d] \in Seq(Frame) /\ Fewer(outbox[d], outbox[d])
  BY QueueTypes, SameHasFewer DEF LoopInv
<1>2. CASE UNCHANGED vars
  BY <1>1, <1>2, FewerKeeps DEF vars, ribs, life
<1>3. ASSUME NEW p \in RosPublisher, RosPublisherFails(p) PROVE RegistrationInv'
  BY <1>1, <1>3, FewerKeeps DEF RosPublisherFails, ribs
<1>4. ASSUME NEW l \in Link, Break(l) PROVE RegistrationInv'
  <2>1. /\ outbox' = [e \in Session |-> IF e[1] = l THEN <<>> ELSE outbox[e]]
        /\ UNCHANGED <<table, channel_rx, started, connected, flushed>>
    BY <1>4 DEF Break, ribs
  <2>2. \A q : Fewer(q, <<>>)
    <3> TAKE q
    <3>1. 0 \in Nat /\ \A i \in 1 .. Len(<<>>) : FALSE
      BY EmptySeq
    <3> QED  BY <3>1, ShiftHasFewer
  <2> QED  BY <1>1, <2>1, <2>2, FewerKeeps
<1>5. ASSUME NEW e \in Session, Lose(e) PROVE RegistrationInv'
  <2>1. /\ outbox[e] # <<>> /\ outbox' = [outbox EXCEPT ![e] = Tail(outbox[e])]
        /\ UNCHANGED <<table, channel_rx, started, connected, flushed>>
    BY <1>5 DEF Lose, ribs
  <2>2. \A d \in Session : Fewer(outbox[d], outbox'[d])
    BY <1>1, <2>1, TailHasFewer DEF Typed
  <2> QED  BY <1>1, <2>1, <2>2, FewerKeeps
<1>6. ASSUME NEW s \in RosSubscriber, RosSubscriberNext(s) PROVE RegistrationInv'
  <2>1. UNCHANGED <<table, channel_rx, started, connected, flushed>>
    BY <1>6 DEF RosSubscriberNext, life
  <2>2. \/ UNCHANGED outbox
        \/ \E x \in Data : outbox' = [outbox EXCEPT ![Near(s)] =
                                        Append(outbox[Near(s)], x)]
    BY <1>6, RosSubscriberDoes
  <2>3. \A d \in Session : Fewer(outbox[d], outbox'[d])
    <3>1. CASE UNCHANGED outbox
      BY <1>1, <3>1
    <3>2. CASE \E x \in Data : outbox' = [outbox EXCEPT ![Near(s)] =
                                            Append(outbox[Near(s)], x)]
      <4>1. PICK x \in Data : outbox' = [outbox EXCEPT ![Near(s)] =
                                           Append(outbox[Near(s)], x)]
        BY <3>2
      <4>2. \A d \in Session :
              outbox'[d] = outbox[d] \/ outbox'[d] = Append(outbox[d], x)
        BY <1>1, <4>1 DEF Typed
      <4>3. \A d \in Session : Longer(outbox[d], 1, x, Append(outbox[d], x))
        BY <1>1, AppendAt DEF Frame
      <4> QED  BY <1>1, <4>2, <4>3, DataHasFewer
    <3> QED  BY <2>2, <3>1, <3>2
  <2> QED  BY <1>1, <2>1, <2>3, FewerKeeps
<1>7. ASSUME NEW r \in Router, RecvPacket(r) PROVE RegistrationInv'
  <2>1. PICK pkt \in RibPacket, frame \in Data :
          /\ rib_rx[r] # <<>> /\ pkt = Head(rib_rx[r]) /\ InRib(r, pkt)
          /\ frame.payload = pkt.payload /\ frame.hit = pkt.hit
          /\ rib_rx' = [rib_rx EXCEPT ![r] = Tail(rib_rx[r])]
          /\ outbox' = [e \in Session |->
                          IF At(e) = r /\ Alive(e)
                          THEN outbox[e] \o Times(CopiesTo(r, pkt, e), frame)
                          ELSE outbox[e]]
          /\ heard' = [p \in RosPublisher |->
                          IF Home[p] = r /\ Publishes(p, pkt) /\ ~pkt.hit
                          THEN heard[p] \o Times(CopiesTo(r, pkt, p), pkt.payload)
                          ELSE heard[p]]
          /\ UNCHANGED <<table, channel_rx, life, said>>
    BY <1>7, RecvPacketDoes
  <2>2. \A d \in Session : Fewer(outbox[d], outbox'[d])
    <3> SUFFICES ASSUME NEW d \in Session PROVE Fewer(outbox[d], outbox'[d])
      OBVIOUS
    <3>1. PICK k \in Nat : k = CopiesTo(r, pkt, d)
      BY <1>1, CopiesCounted
    <3>2. outbox'[d] = outbox[d] \/ outbox'[d] = outbox[d] \o Times(k, frame)
      BY <2>1, <3>1
    <3>3. Longer(outbox[d], k, frame, outbox[d] \o Times(k, frame))
      BY <1>1, TimesAt DEF Frame
    <3> QED  BY <1>1, <3>2, <3>3, DataHasFewer
  <2> QED  BY <1>1, <2>1, <2>2, FewerKeeps DEF life
<1>8. ASSUME NEW e \in Session, Disturb(e) PROVE RegistrationInv'
  <2>1. UNCHANGED <<table, channel_rx, started, connected, flushed>>
    BY <1>8 DEF Disturb, ribs
  <2>2. /\ Hits(outbox[e], outbox'[e])
        /\ \A d \in Session : d # e => outbox'[d] = outbox[d]
    BY <1>1, <1>8, DisturbDoes
  <2>3. \A d \in Session : Fewer(outbox[d], outbox'[d])
    BY <1>1, <2>2, QueueTypes, HitHasFewer
  <2> QED  BY <1>1, <2>1, <2>3, FewerKeeps
<1> QED
  BY <1>1, <1>2, <1>3, <1>4, <1>5, <1>6, <1>7, <1>8, RosStartRegisters, SessionStartRegisters,
     FlushRegisters, RecvChannelRegisters, SessionReadRegisters DEF Next
-----------------------------------------------------------------------------
(* The order of messages.  Number b of subscriber s may follow number a on *)
(* the way to router r: it is newer, or it is the same and nobody at r was *)
(* promised it.  Nothing is repeated ahead of the first RIB.  A packet that*)
(* a connection has disturbed counts for nothing.                          *)
Mine(x, s) == ~IsAdvertisement(x) /\ ~x.hit /\ x.payload[1] = s
Number(x) == x.payload[2]

Promised(h, s, k, r) == \E p \in RosPublisher : Home[p] = r /\ p \in h[s][k]

Follows(h, s, a, b, r) ==
  a < b \/ (a = b /\ r # FirstRib(s) /\ ~Promised(h, s, b, r))

Sorted(q, h, s, r) ==
  \A i, j \in 1 .. Len(q) :
    i < j /\ Mine(q[i], s) /\ Mine(q[j], s) =>
      Follows(h, s, Number(q[i]), Number(q[j]), r)

Precedes(q1, q2, h, s, r) ==
  \A i \in 1 .. Len(q1), j \in 1 .. Len(q2) :
    Mine(q1[i], s) /\ Mine(q2[j], s) =>
      Follows(h, s, Number(q1[i]), Number(q2[j]), r)

Above(q, h, s, r, a) ==
  \A i \in 1 .. Len(q) : Mine(q[i], s) => Follows(h, s, a, Number(q[i]), r)

AtMost(q, s, b) == \A i \in 1 .. Len(q) : Mine(q[i], s) => Number(q[i]) <= b

Inlet(o) == At(OtherEnd(o))

(* With routed[s][r] the last message of s that router r has routed: what  *)
(* a router has routed, has in its queue, and has on its way are in order, *)
(* and the next router is not ahead of the last one.                       *)
RouterOrdered(routed, h, queue, done, s, r) ==
  /\ routed[s][r] <= Len(h[s])
  /\ AtMost(queue[r], s, Len(h[s]))
  /\ Sorted(queue[r], h, s, r)
  /\ Above(queue[r], h, s, r, routed[s][r])
  /\ \A p \in RosPublisher : \A i \in 1 .. Len(done[p]) :
       Home[p] = r /\ done[p][i][1] = s => done[p][i][2] <= routed[s][r]

SessionOrdered(routed, h, queue, sending, s, o) ==
  /\ AtMost(sending[o], s, Len(h[s]))
  /\ Sorted(sending[o], h, s, Inlet(o))
  /\ Above(sending[o], h, s, Inlet(o), routed[s][Inlet(o)])
  /\ Precedes(queue[Inlet(o)], sending[o], h, s, Inlet(o))
  /\ o[1] \in Peering /\ FirstRib(s) \in Side(o) =>
       /\ routed[s][Inlet(o)] <= routed[s][At(o)]
       /\ AtMost(queue[Inlet(o)], s, routed[s][At(o)])
       /\ AtMost(sending[o], s, routed[s][At(o)])

Ordered(routed, h, queue, sending, done, s) ==
  /\ \A r \in Router : RouterOrdered(routed, h, queue, done, s, r)
  /\ \A o \in Session : SessionOrdered(routed, h, queue, sending, s, o)

OrderInv ==
  \E routed \in [RosSubscriber -> [Router -> Nat]] : \A s \in RosSubscriber :
    Ordered(routed, said, rib_rx, outbox, heard, s)

(* What a publisher was promised, it still has a route to.                 *)
PromiseInv ==
  /\ heard \in [RosPublisher -> Seq(Message)]
  /\ \A s \in RosSubscriber : \A k \in 1 .. Len(said[s]) :
       \A p \in said[s][k] : HasRoute(s, p)

(* Only a connection that has disturbed a packet marks one: until then what*)
(* the queues hold is what was put into them.                              *)
CalmFrames == {f \in Frame : IsAdvertisement(f) \/ ~f.hit}
CalmPackets == {pkt \in RibPacket : ~pkt.hit}

Calm ==
  /\ \A e \in Session : \A i \in 1 .. Len(outbox[e]) : outbox[e][i] \in CalmFrames
  /\ \A r \in Router : \A i \in 1 .. Len(rib_rx[r]) : rib_rx[r][i] \in CalmPackets

CalmInv == lossy = {} => Calm

BusInv == LoopInv /\ RegistrationInv /\ PromiseInv /\ OrderInv /\ CalmInv

-----------------------------------------------------------------------------
(* The messages of a subscriber reach each router over one session only,   *)
(* and the RIB that sees them first over none but its own direct session.  *)
LEMMA Ends ==
  ASSUME NEW o \in Session
  PROVE  /\ OtherEnd(OtherEnd(o)) = o /\ o = <<o[1], o[2]>>
         /\ Inlet(o) \in Router /\ Inlet(o) # At(o) /\ Inlet(o) \notin Side(o)
         /\ o[1] \in Peering => At(o) \in Side(o)
         /\ o[2] = "near" => At(o) = Opener(o[1]) /\ Inlet(o) = Gateway[Opener(o[1])]
         /\ o[2] = "far" => At(o) = Gateway[Opener(o[1])] /\ Inlet(o) = Opener(o[1])
<1>1. /\ o = <<o[1], o[2]>> /\ o[2] \in {"near", "far"} /\ o[1] \in Link
      /\ OtherEnd(o) \in Session /\ At(o) \in Router
      /\ OtherEnd(o) = IF o[2] = "near" THEN <<o[1], "far">> ELSE <<o[1], "near">>
  BY Sessions DEF OtherEnd, Near, Far, Session
<1>2. OtherEnd(OtherEnd(o)) = o
  BY <1>1 DEF OtherEnd, Near, Far
<1>3. /\ o[2] = "near" => At(o) = Opener(o[1]) /\ Inlet(o) = Gateway[Opener(o[1])]
      /\ o[2] = "far" => At(o) = Gateway[Opener(o[1])] /\ Inlet(o) = Opener(o[1])
  BY <1>1 DEF At, Inlet
<1>4. /\ \A r \in Peering : /\ r \in Router /\ Gateway[r] \in Router
                            /\ r \in Below[r] /\ Gateway[r] \notin Below[r]
      /\ Opener(o[1]) \in Peering
      /\ o[1] \in Peering => Opener(o[1]) = o[1]
  BY <1>1, BelowIsForest, Sessions DEF IsForest, Opener, Link, Direct
<1>5. Inlet(o) \in Router /\ Inlet(o) # At(o)
  BY <1>1, <1>3, <1>4
<1>6. Inlet(o) \notin Side(o) /\ (o[1] \in Peering => At(o) \in Side(o))
  BY <1>1, <1>3, <1>4 DEF Side
<1> QED  BY <1>1, <1>2, <1>3, <1>5, <1>6

LEMMA OneInlet ==
  ASSUME NEW s \in RosSubscriber, NEW o \in Session, Carries(o, s)
  PROVE  /\ Inlet(o) = FirstRib(s) => o = Near(s)
         /\ o = Near(s) /\ o[1] \notin Peering => s \in Direct /\ Inlet(o) = FirstRib(s)
         /\ \A d \in Session : Carries(d, s) /\ Inlet(d) = Inlet(o) => d = o
<1>1. ASSUME NEW d \in Session, Carries(d, s)
      PROVE  /\ d[1] \in Peering => FirstRib(s) \in Side(d)
             /\ d[1] \notin Peering => d = Near(s) /\ s \in Direct
                                       /\ Inlet(d) = FirstRib(s)
  <2>1. CASE d[1] \in Peering
    BY <1>1, <2>1 DEF Carries
  <2>2. CASE d[1] \notin Peering
    <3>1. d = Near(s) /\ d[1] = s /\ d[2] = "near" /\ d[1] \in Direct
      BY <1>1, <2>2, Sessions DEF Carries, Near, Link
    <3>2. Opener(s) = Home[s]
      BY <2>2, <3>1 DEF Opener
    <3>3. Inlet(d) = Gateway[Home[s]]
      BY <3>1, <3>2, Ends
    <3> QED  BY <2>2, <3>1, <3>3 DEF FirstRib
  <2> QED  BY <2>1, <2>2
<1>2. Inlet(o) = FirstRib(s) => o[1] \notin Peering
  BY <1>1, Ends
<1>3. ASSUME NEW d \in Session, Carries(d, s), Inlet(d) = Inlet(o)
      PROVE  d = o
  <2>1. CASE d[1] \notin Peering
    <3>1. Inlet(o) = FirstRib(s) /\ d = Near(s)
      BY <1>1, <1>3, <2>1
    <3> QED  BY <1>1, <1>2, <3>1
  <2>2. CASE o[1] \notin Peering
    <3>1. Inlet(d) = FirstRib(s) /\ o = Near(s)
      BY <1>1, <1>3, <2>2
    <3>2. d[1] \notin Peering
      BY <1>1, <1>3, <3>1, Ends
    <3> QED  BY <1>1, <1>3, <3>1, <3>2
  <2>3. CASE d[1] \in Peering /\ o[1] \in Peering
    <3> DEFINE l == d[1]
               m == o[1]
    <3>1. /\ d = <<l, d[2]>> /\ o = <<m, o[2]>>
          /\ d[2] \in {"near", "far"} /\ o[2] \in {"near", "far"}
          /\ Opener(l) = l /\ Opener(m) = m
          /\ FirstRib(s) \in Side(d) /\ FirstRib(s) \in Side(o)
      BY <1>1, <1>3, <2>3, Ends, Sessions DEF Opener
    <3>2. /\ d[2] = "near" => Inlet(d) = Gateway[l] /\ Side(d) = Below[l]
          /\ d[2] = "far" => Inlet(d) = l /\ Side(d) = Router \ Below[l]
          /\ o[2] = "near" => Inlet(o) = Gateway[m] /\ Side(o) = Below[m]
          /\ o[2] = "far" => Inlet(o) = m /\ Side(o) = Router \ Below[m]
      BY <2>3, <3>1, Ends DEF Side
    <3>3. /\ Below[l] \subseteq Below[Gateway[l]] /\ Below[m] \subseteq Below[Gateway[m]]
          /\ l # m /\ Gateway[l] = Gateway[m] => Below[l] \cap Below[m] = {}
      BY <2>3, BelowIsForest DEF IsForest
    <3> HIDE DEF l, m
    <3>4. CASE d[2] = "near" /\ o[2] = "near"
      BY <1>3, <3>1, <3>2, <3>3, <3>4
    <3>5. CASE d[2] = "near" /\ o[2] = "far"
      BY <1>3, <3>1, <3>2, <3>3, <3>5
    <3>6. CASE d[2] = "far" /\ o[2] = "near"
      BY <1>3, <3>1, <3>2, <3>3, <3>6
    <3>7. CASE d[2] = "far" /\ o[2] = "far"
      BY <1>3, <3>1, <3>2, <3>7
    <3> QED  BY <3>1, <3>4, <3>5, <3>6, <3>7
  <2> QED  BY <2>1, <2>2, <2>3
<1> QED  BY <1>1, <1>2, <1>3

-----------------------------------------------------------------------------
(* Taking messages out of a queue keeps it in order, and so does adding    *)
(* messages that may follow.                                               *)
Shorter(q, new, s) == Retains(q, new, {i \in 1 .. Len(new) : Mine(new[i], s)})

Until(q, h, s, r, b) ==
  \A i \in 1 .. Len(q) : Mine(q[i], s) => Follows(h, s, Number(q[i]), b, r)

LEMMA ShiftIsShorter ==
  ASSUME NEW q, NEW new, NEW s, NEW d \in Nat,
         \A i \in 1 .. Len(new) :
           Mine(new[i], s) => i + d \in 1 .. Len(q) /\ new[i] = q[i + d]
  PROVE  Shorter(q, new, s)
<1> DEFINE S == {i \in 1 .. Len(new) : Mine(new[i], s)}
<1>1. S \in SUBSET Nat /\ \A i \in S : i + d \in 1 .. Len(q) /\ new[i] = q[i + d]
  OBVIOUS
<1> HIDE DEF S
<1>2. Retains(q, new, S)
  BY <1>1, ShiftRetains
<1> QED  BY <1>2 DEF Shorter, S

LEMMA ShorterInOrder ==
  ASSUME NEW q, NEW new, NEW s, Shorter(q, new, s), Len(new) \in Nat,
         NEW h, NEW r
  PROVE  /\ Sorted(q, h, s, r) => Sorted(new, h, s, r)
         /\ \A a : Above(q, h, s, r, a) => Above(new, h, s, r, a)
         /\ \A b : AtMost(q, s, b) => AtMost(new, s, b)
         /\ \A x : Precedes(q, x, h, s, r) => Precedes(new, x, h, s, r)
         /\ \A x : Precedes(x, q, h, s, r) => Precedes(x, new, h, s, r)
<1> DEFINE S == {i \in 1 .. Len(new) : Mine(new[i], s)}
<1>1. PICK f \in [S -> 1 .. Len(q)] :
        /\ \A i \in S : new[i] = q[f[i]]
        /\ \A i, j \in S : i < j => f[i] < f[j]
  BY DEF Shorter, Retains
<1>2. Sorted(q, h, s, r) => Sorted(new, h, s, r)
  <2> SUFFICES ASSUME Sorted(q, h, s, r),
                      NEW i \in 1 .. Len(new), NEW j \in 1 .. Len(new), i < j,
                      Mine(new[i], s), Mine(new[j], s)
               PROVE  Follows(h, s, Number(new[i]), Number(new[j]), r)
    BY DEF Sorted
  <2>1. /\ f[i] \in 1 .. Len(q) /\ new[i] = q[f[i]]
        /\ f[j] \in 1 .. Len(q) /\ new[j] = q[f[j]] /\ f[i] < f[j]
    BY <1>1
  <2> QED  BY <2>1 DEF Sorted
<1>3. \A a : Above(q, h, s, r, a) => Above(new, h, s, r, a)
  BY <1>1 DEF Above
<1>4. \A b : AtMost(q, s, b) => AtMost(new, s, b)
  BY <1>1 DEF AtMost
<1>5. \A x : Precedes(q, x, h, s, r) => Precedes(new, x, h, s, r)
  BY <1>1 DEF Precedes
<1>6. \A x : Precedes(x, q, h, s, r) => Precedes(x, new, h, s, r)
  BY <1>1 DEF Precedes
<1> QED  BY <1>2, <1>3, <1>4, <1>5, <1>6

LEMMA LongerInOrder ==
  ASSUME NEW q, NEW k \in Nat, NEW x, NEW new, Longer(q, k, x, new),
         NEW h, NEW s, NEW r
  PROVE  /\ /\ Sorted(q, h, s, r)
            /\ k # 0 /\ Mine(x, s) =>
                 /\ Until(q, h, s, r, Number(x))
                 /\ k # 1 => Follows(h, s, Number(x), Number(x), r)
            => Sorted(new, h, s, r)
         /\ \A a :
              Above(q, h, s, r, a) /\ (k # 0 /\ Mine(x, s) => Follows(h, s, a, Number(x), r))
                => Above(new, h, s, r, a)
         /\ \A b :
              AtMost(q, s, b) /\ (k # 0 /\ Mine(x, s) => Number(x) <= b)
                => AtMost(new, s, b)
         /\ \A y :
              Precedes(q, y, h, s, r) /\ (k # 0 /\ Mine(x, s) => Above(y, h, s, r, Number(x)))
                => Precedes(new, y, h, s, r)
         /\ \A y :
              Precedes(y, q, h, s, r) /\ (k # 0 /\ Mine(x, s) => Until(y, h, s, r, Number(x)))
                => Precedes(y, new, h, s, r)
<1>1. /\ Len(q) \in Nat
      /\ \A i \in 1 .. Len(new) :
           \/ i \in 1 .. Len(q) /\ new[i] = q[i]
           \/ k # 0 /\ i > Len(q) /\ new[i] = x
      /\ \A i, j \in 1 .. Len(new) : i < j /\ i > Len(q) => k # 1
  BY DEF Longer
<1>2. ASSUME Sorted(q, h, s, r),
             k # 0 /\ Mine(x, s) =>
                 /\ Until(q, h, s, r, Number(x))
                 /\ k # 1 => Follows(h, s, Number(x), Number(x), r)
      PROVE  Sorted(new, h, s, r)
  <2> SUFFICES ASSUME NEW i \in 1 .. Len(new), NEW j \in 1 .. Len(new), i < j,
                      Mine(new[i], s), Mine(new[j], s)
               PROVE  Follows(h, s, Number(new[i]), Number(new[j]), r)
    BY DEF Sorted
  <2>1. CASE j \in 1 .. Len(q) /\ new[j] = q[j]
    <3>1. i \in 1 .. Len(q) /\ new[i] = q[i]
      BY <1>1, <2>1
    <3> QED  BY <1>2, <2>1, <3>1 DEF Sorted
  <2>2. CASE k # 0 /\ j > Len(q) /\ new[j] = x
    <3>1. CASE i \in 1 .. Len(q) /\ new[i] = q[i]
      BY <1>2, <2>2, <3>1 DEF Until
    <3>2. CASE i > Len(q) /\ new[i] = x
      BY <1>1, <1>2, <2>2, <3>2
    <3> QED  BY <1>1, <3>1, <3>2
  <2> QED  BY <1>1, <2>1, <2>2
<1>3. \A a :
        Above(q, h, s, r, a) /\ (k # 0 /\ Mine(x, s) => Follows(h, s, a, Number(x), r))
          => Above(new, h, s, r, a)
  BY <1>1 DEF Above
<1>4. \A b :
        AtMost(q, s, b) /\ (k # 0 /\ Mine(x, s) => Number(x) <= b) => AtMost(new, s, b)
  BY <1>1 DEF AtMost
<1>5. \A y :
        Precedes(q, y, h, s, r) /\ (k # 0 /\ Mine(x, s) => Above(y, h, s, r, Number(x)))
          => Precedes(new, y, h, s, r)
  BY <1>1 DEF Precedes, Above
<1>6. \A y :
        Precedes(y, q, h, s, r) /\ (k # 0 /\ Mine(x, s) => Until(y, h, s, r, Number(x)))
          => Precedes(y, new, h, s, r)
  BY <1>1 DEF Precedes, Until
<1> QED  BY <1>2, <1>3, <1>4, <1>5, <1>6

-----------------------------------------------------------------------------
(* Only the row of a subscriber matters to the order of its messages.      *)
LEMMA SameRow ==
  ASSUME NEW s \in RosSubscriber, NEW h, NEW routed, NEW queue, NEW sending,
         NEW done, NEW routed2,
         Ordered(routed, h, queue, sending, done, s), routed2[s] = routed[s]
  PROVE  Ordered(routed2, h, queue, sending, done, s)
BY DEF Ordered, RouterOrdered, SessionOrdered

(* A step that only takes messages of s away, or does nothing with them.   *)
Shrinks(queue, sending, done, queue2, sending2, done2, s) ==
  /\ \A r \in Router : Len(queue2[r]) \in Nat /\ Shorter(queue[r], queue2[r], s)
  /\ \A o \in Session : Len(sending2[o]) \in Nat /\ Shorter(sending[o], sending2[o], s)
  /\ \A p \in RosPublisher : \A i \in 1 .. Len(done2[p]) :
       done2[p][i][1] = s =>
         \E j \in 1 .. Len(done[p]) : done[p][j] = done2[p][i]

LEMMA OrderShrinks ==
  ASSUME NEW s \in RosSubscriber, NEW h, NEW routed,
         NEW queue, NEW sending, NEW done, NEW queue2, NEW sending2, NEW done2,
         Ordered(routed, h, queue, sending, done, s),
         Shrinks(queue, sending, done, queue2, sending2, done2, s)
  PROVE  Ordered(routed, h, queue2, sending2, done2, s)
<1> USE DEF Shrinks
<1>1. ASSUME NEW r \in Router PROVE RouterOrdered(routed, h, queue2, done2, s, r)
  <2>1. RouterOrdered(routed, h, queue, done, s, r)
    BY DEF Ordered
  <2>2. /\ AtMost(queue2[r], s, Len(h[s]))
        /\ Sorted(queue2[r], h, s, r)
        /\ Above(queue2[r], h, s, r, routed[s][r])
    BY <2>1, ShorterInOrder DEF RouterOrdered
  <2>3. \A p \in RosPublisher : \A i \in 1 .. Len(done2[p]) :
          Home[p] = r /\ done2[p][i][1] = s => done2[p][i][2] <= routed[s][r]
    BY <2>1 DEF RouterOrdered
  <2> QED  BY <2>1, <2>2, <2>3 DEF RouterOrdered
<1>2. ASSUME NEW o \in Session PROVE SessionOrdered(routed, h, queue2, sending2, s, o)
  <2>1. SessionOrdered(routed, h, queue, sending, s, o) /\ Inlet(o) \in Router
    BY Ends DEF Ordered
  <2> DEFINE r == Inlet(o)
  <2>2. /\ AtMost(sending2[o], s, Len(h[s]))
        /\ Sorted(sending2[o], h, s, r)
        /\ Above(sending2[o], h, s, r, routed[s][r])
        /\ \A b : AtMost(sending[o], s, b) => AtMost(sending2[o], s, b)
        /\ \A b : AtMost(queue[r], s, b) => AtMost(queue2[r], s, b)
    BY <2>1, ShorterInOrder DEF SessionOrdered
  <2>3. Precedes(queue[r], sending2[o], h, s, r)
    BY <2>1, ShorterInOrder DEF SessionOrdered
  <2>4. Precedes(queue2[r], sending2[o], h, s, r)
    BY <2>1, <2>3, ShorterInOrder
  <2> QED  BY <2>1, <2>2, <2>4 DEF SessionOrdered
<1> QED  BY <1>1, <1>2 DEF Ordered

(* What is promised of a message does not depend on those said after it.   *)
Positive(q, s) == \A i \in 1 .. Len(q) : Mine(q[i], s) => Number(q[i]) \in Nat \ {0}

LEMMA QueueSaidGrows ==
  ASSUME NEW h, NEW g, NEW s, NEW r, Len(h[s]) \in Nat,
         \A k \in 1 .. Len(h[s]) : g[s][k] = h[s][k],
         NEW q, Positive(q, s), AtMost(q, s, Len(h[s]))
  PROVE  /\ Sorted(q, h, s, r) => Sorted(q, g, s, r)
         /\ \A a : Above(q, h, s, r, a) => Above(q, g, s, r, a)
         /\ \A x : Precedes(x, q, h, s, r) => Precedes(x, q, g, s, r)
<1>1. ASSUME NEW i \in 1 .. Len(q), Mine(q[i], s), NEW a,
             Follows(h, s, a, Number(q[i]), r)
      PROVE  Follows(g, s, a, Number(q[i]), r)
  <2>1. Number(q[i]) \in 1 .. Len(h[s])
    BY <1>1 DEF Positive, AtMost
  <2>2. Promised(g, s, Number(q[i]), r) <=> Promised(h, s, Number(q[i]), r)
    BY <2>1 DEF Promised
  <2> QED  BY <1>1, <2>2 DEF Follows
<1>2. Sorted(q, h, s, r) => Sorted(q, g, s, r)
  BY <1>1 DEF Sorted
<1>3. \A a : Above(q, h, s, r, a) => Above(q, g, s, r, a)
  BY <1>1 DEF Above
<1>4. \A x : Precedes(x, q, h, s, r) => Precedes(x, q, g, s, r)
  BY <1>1 DEF Precedes
<1> QED  BY <1>2, <1>3, <1>4

LEMMA OrderSaidGrows ==
  ASSUME NEW s \in RosSubscriber, NEW h, NEW g,
         NEW routed \in [RosSubscriber -> [Router -> Nat]],
         NEW queue, NEW sending, NEW done,
         Ordered(routed, h, queue, sending, done, s),
         Len(h[s]) \in Nat, Len(g[s]) \in Nat, Len(h[s]) <= Len(g[s]),
         \A k \in 1 .. Len(h[s]) : g[s][k] = h[s][k],
         \A r \in Router : Positive(queue[r], s),
         \A o \in Session : Positive(sending[o], s)
  PROVE  Ordered(routed, g, queue, sending, done, s)
<1>1. \A q : Positive(q, s) /\ AtMost(q, s, Len(h[s])) => AtMost(q, s, Len(g[s]))
  BY DEF Positive, AtMost
<1>2. ASSUME NEW r \in Router PROVE RouterOrdered(routed, g, queue, done, s, r)
  <2>1. RouterOrdered(routed, h, queue, done, s, r) /\ routed[s][r] \in Nat
    BY DEF Ordered
  <2>2. /\ Sorted(queue[r], g, s, r)
        /\ Above(queue[r], g, s, r, routed[s][r])
    BY <2>1, QueueSaidGrows DEF RouterOrdered
  <2> QED  BY <1>1, <2>1, <2>2 DEF RouterOrdered
<1>3. ASSUME NEW o \in Session PROVE SessionOrdered(routed, g, queue, sending, s, o)
  <2>1. SessionOrdered(routed, h, queue, sending, s, o)
    BY DEF Ordered
  <2>2. /\ Sorted(sending[o], g, s, Inlet(o))
        /\ Above(sending[o], g, s, Inlet(o), routed[s][Inlet(o)])
        /\ Precedes(queue[Inlet(o)], sending[o], g, s, Inlet(o))
    BY <2>1, QueueSaidGrows DEF SessionOrdered
  <2> QED  BY <1>1, <2>1, <2>2 DEF SessionOrdered
<1> QED  BY <1>2, <1>3 DEF Ordered

(* A message of s moves from the session that carries it into the RIB.     *)
Reads(s, o, x, queue, sending, queue2, sending2) ==
  /\ Len(sending[o]) \in Nat \ {0} /\ Len(sending2[o]) = Len(sending[o]) - 1
  /\ \A i \in 1 .. Len(sending2[o]) : sending2[o][i] = sending[o][i + 1]
  /\ \A d \in Session : d # o => sending2[d] = sending[d]
  /\ Longer(queue[Inlet(o)], 1, x, queue2[Inlet(o)])
  /\ \A r \in Router : r # Inlet(o) => queue2[r] = queue[r]
  /\ Mine(sending[o][1], s) /\ Number(x) = Number(sending[o][1])
  /\ \A d \in Session : \A i \in 1 .. Len(sending[d]) :
       Mine(sending[d][i], s) => Carries(d, s)

LEMMA OrderReads ==
  ASSUME NEW s \in RosSubscriber, NEW h, NEW done,
         NEW routed, NEW queue, NEW sending, NEW queue2, NEW sending2,
         Ordered(routed, h, queue, sending, done, s),
         NEW o \in Session, NEW x, Reads(s, o, x, queue, sending, queue2, sending2)
  PROVE  Ordered(routed, h, queue2, sending2, done, s)
<1> USE DEF Reads
<1> DEFINE in == Inlet(o)
           k == Number(x)
<1>1. /\ in \in Router /\ 1 \in 1 .. Len(sending[o]) /\ Carries(o, s)
      /\ \A d \in Session : Carries(d, s) /\ Inlet(d) = in => d = o
      /\ k = Number(sending[o][1])
  BY Ends, OneInlet
<1> HIDE DEF in, k
<1>2. /\ AtMost(sending[o], s, Len(h[s]))
      /\ Sorted(sending[o], h, s, in)
      /\ Above(sending[o], h, s, in, routed[s][in])
      /\ Precedes(queue[in], sending[o], h, s, in)
      /\ o[1] \in Peering /\ FirstRib(s) \in Side(o) =>
           /\ routed[s][in] <= routed[s][At(o)]
           /\ AtMost(queue[in], s, routed[s][At(o)])
           /\ AtMost(sending[o], s, routed[s][At(o)])
  BY DEF Ordered, SessionOrdered, in
<1>3. /\ k <= Len(h[s]) /\ Follows(h, s, routed[s][in], k, in)
      /\ Until(queue[in], h, s, in, k)
      /\ Above(sending2[o], h, s, in, k)
  <2>1. k <= Len(h[s]) /\ Follows(h, s, routed[s][in], k, in)
    BY <1>1, <1>2 DEF AtMost, Above
  <2>2. Until(queue[in], h, s, in, k)
    BY <1>1, <1>2 DEF Precedes, Until
  <2>3. Above(sending2[o], h, s, in, k)
    <3> SUFFICES ASSUME NEW i \in 1 .. Len(sending2[o]), Mine(sending2[o][i], s)
                 PROVE  Follows(h, s, k, Number(sending2[o][i]), in)
      BY DEF Above
    <3>1. i + 1 \in 1 .. Len(sending[o]) /\ 1 < i + 1 /\ sending2[o][i] = sending[o][i + 1]
      OBVIOUS
    <3> QED  BY <1>1, <1>2, <3>1 DEF Sorted
  <2> QED  BY <2>1, <2>2, <2>3
<1>4. Longer(queue[in], 1, x, queue2[in])
  BY DEF in
<1>5. Shorter(sending[o], sending2[o], s) /\ Len(sending2[o]) \in Nat
  <2> DEFINE new == sending2[o]
  <2>1. /\ \A i \in 1 .. Len(new) : i + 1 \in 1 .. Len(sending[o]) /\ new[i] = sending[o][i + 1]
        /\ Len(new) \in Nat
    OBVIOUS
  <2> HIDE DEF new
  <2>2. Shorter(sending[o], new, s) /\ Len(new) \in Nat
    BY <2>1, ShiftIsShorter
  <2> QED  BY <2>2 DEF new
<1>6. ASSUME NEW r \in Router PROVE RouterOrdered(routed, h, queue2, done, s, r)
  <2>1. RouterOrdered(routed, h, queue, done, s, r)
    BY DEF Ordered
  <2>2. CASE r # in
    BY <2>1, <2>2 DEF RouterOrdered, in
  <2>3. CASE r = in
    <3>1. /\ AtMost(queue[in], s, Len(h[s])) /\ Sorted(queue[in], h, s, in)
          /\ Above(queue[in], h, s, in, routed[s][in])
      BY <2>1, <2>3 DEF RouterOrdered
    <3>2. AtMost(queue2[in], s, Len(h[s]))
      BY <1>3, <1>4, <3>1, LongerInOrder DEF k
    <3>3. Sorted(queue2[in], h, s, in)
      BY <1>3, <1>4, <3>1, LongerInOrder DEF k
    <3>4. Above(queue2[in], h, s, in, routed[s][in])
      BY <1>3, <1>4, <3>1, LongerInOrder DEF k
    <3> QED  BY <2>1, <2>3, <3>2, <3>3, <3>4 DEF RouterOrdered
  <2> QED  BY <2>2, <2>3
<1>7. ASSUME NEW d \in Session PROVE SessionOrdered(routed, h, queue2, sending2, s, d)
  <2>1. SessionOrdered(routed, h, queue, sending, s, d) /\ Inlet(d) \in Router
    BY Ends DEF Ordered
  <2>2. CASE Inlet(d) # in
    <3>1. d # o /\ queue2[Inlet(d)] = queue[Inlet(d)] /\ sending2[d] = sending[d]
      BY <2>1, <2>2 DEF in
    <3> QED  BY <2>1, <3>1 DEF SessionOrdered
  <2>3. CASE Inlet(d) = in /\ d # o
    <3>1. ~Carries(d, s) /\ sending2[d] = sending[d]
      BY <1>1, <2>3
    <3>2. \A i \in 1 .. Len(sending[d]) : ~Mine(sending[d][i], s)
      BY <3>1
    <3>3. ~(d[1] \in Peering /\ FirstRib(s) \in Side(d))
      BY <3>1 DEF Carries
    <3>4. Precedes(queue2[in], sending2[d], h, s, in)
      BY <3>1, <3>2 DEF Precedes
    <3> QED  BY <2>1, <2>3, <3>1, <3>3, <3>4 DEF SessionOrdered
  <2>4. CASE d = o
    <3>1. /\ AtMost(sending2[o], s, Len(h[s])) /\ Sorted(sending2[o], h, s, in)
          /\ Above(sending2[o], h, s, in, routed[s][in])
          /\ \A b : AtMost(sending[o], s, b) => AtMost(sending2[o], s, b)
          /\ Precedes(queue[in], sending2[o], h, s, in)
      <4> DEFINE q == sending[o]
                 new == sending2[o]
                 earlier == queue[in]
      <4>1. /\ AtMost(q, s, Len(h[s])) /\ Sorted(q, h, s, in)
            /\ Above(q, h, s, in, routed[s][in]) /\ Precedes(earlier, q, h, s, in)
            /\ Shorter(q, new, s) /\ Len(new) \in Nat
        BY <1>2, <1>5
      <4> HIDE DEF q, new, earlier
      <4>2. /\ AtMost(new, s, Len(h[s])) /\ Sorted(new, h, s, in)
            /\ Above(new, h, s, in, routed[s][in])
            /\ \A b : AtMost(q, s, b) => AtMost(new, s, b)
            /\ Precedes(earlier, new, h, s, in)
        BY <4>1, ShorterInOrder
      <4> QED  BY <4>2 DEF q, new, earlier
    <3>2. Precedes(queue2[in], sending2[o], h, s, in)
      <4> DEFINE q == queue[in]
                 new == queue2[in]
                 later == sending2[o]
      <4>1. /\ Precedes(q, later, h, s, in) /\ Longer(q, 1, x, new)
            /\ Above(later, h, s, in, Number(x))
        BY <1>3, <1>4, <3>1 DEF k
      <4> HIDE DEF q, new, later
      <4>2. Precedes(new, later, h, s, in)
        BY <4>1, LongerInOrder
      <4> QED  BY <4>2 DEF new, later
    <3>3. \A b : AtMost(queue[in], s, b) /\ AtMost(sending[o], s, b) => AtMost(queue2[in], s, b)
      <4>1. \A b : AtMost(sending[o], s, b) => k <= b
        BY <1>1 DEF AtMost
      <4> QED  BY <1>4, <4>1, LongerInOrder DEF k
    <3> QED  BY <1>2, <2>4, <3>1, <3>2, <3>3 DEF SessionOrdered, in
  <2> QED  BY <2>2, <2>3, <2>4
<1> QED  BY <1>6, <1>7 DEF Ordered

LEMMA LongerAtMost ==
  ASSUME NEW q, NEW k \in Nat, NEW x, NEW new, Longer(q, k, x, new),
         NEW s, NEW b, AtMost(q, s, b), Number(x) <= b
  PROVE  AtMost(new, s, b)
BY LongerInOrder

LEMMA LongerSorted ==
  ASSUME NEW q, NEW k \in Nat, NEW x, NEW new, Longer(q, k, x, new),
         NEW h, NEW s, NEW r, Sorted(q, h, s, r), Until(q, h, s, r, Number(x)),
         k = 1 \/ Follows(h, s, Number(x), Number(x), r)
  PROVE  Sorted(new, h, s, r)
BY LongerInOrder

LEMMA LongerAbove ==
  ASSUME NEW q, NEW k \in Nat, NEW x, NEW new, Longer(q, k, x, new),
         NEW h, NEW s, NEW r, NEW a, Above(q, h, s, r, a), Follows(h, s, a, Number(x), r)
  PROVE  Above(new, h, s, r, a)
BY LongerInOrder

LEMMA LongerIsPreceded ==
  ASSUME NEW q, NEW k \in Nat, NEW x, NEW new, Longer(q, k, x, new),
         NEW h, NEW s, NEW r, NEW y, Precedes(y, q, h, s, r),
         Until(y, h, s, r, Number(x))
  PROVE  Precedes(y, new, h, s, r)
BY LongerInOrder

(* A new message of s goes into its direct session, or into its own RIB.   *)
Says(s, k, h, g, x, queue, sending) ==
  /\ k \in Nat \ {0} /\ Len(h[s]) = k - 1 /\ Len(g[s]) = k
  /\ Mine(x, s) /\ Number(x) = k
  /\ \A r \in Router : Positive(queue[r], s)
  /\ \A o \in Session : Positive(sending[o], s)
  /\ \A o \in Session : \A i \in 1 .. Len(sending[o]) :
       Mine(sending[o][i], s) => Carries(o, s)

SaysDirect(s, x, sending, sending2) ==
  /\ s \in Direct /\ Longer(sending[Near(s)], 1, x, sending2[Near(s)])
  /\ \A o \in Session : o # Near(s) => sending2[o] = sending[o]

SaysHome(s, x, queue, queue2) ==
  /\ s \notin Direct /\ Longer(queue[Home[s]], 1, x, queue2[Home[s]])
  /\ \A r \in Router : r # Home[s] => queue2[r] = queue[r]

LEMMA OrderSaysDirect ==
  ASSUME NEW s \in RosSubscriber, NEW h, NEW g, NEW done,
         NEW routed \in [RosSubscriber -> [Router -> Nat]],
         NEW queue, NEW sending, NEW sending2,
         Ordered(routed, h, queue, sending, done, s),
         Ordered(routed, g, queue, sending, done, s),
         NEW k, NEW x, Says(s, k, h, g, x, queue, sending),
         SaysDirect(s, x, sending, sending2)
  PROVE  Ordered(routed, g, queue, sending2, done, s)
<1> USE DEF Says, SaysDirect
<1> DEFINE o == Near(s)
           in == Inlet(o)
           q == sending[o]
           new == sending2[o]
           rq == queue[in]
<1>1. o \in Session /\ o[1] \notin Peering /\ in \in Router /\ s \in RosSubscriber
  BY Sessions, Ends DEF Direct
<1>2. /\ SessionOrdered(routed, g, queue, sending, s, o)
      /\ SessionOrdered(routed, h, queue, sending, s, o)
      /\ RouterOrdered(routed, h, queue, done, s, in)
  BY <1>1 DEF Ordered
<1>3. /\ AtMost(q, s, k) /\ Sorted(q, g, s, in) /\ Above(q, g, s, in, routed[s][in])
      /\ Precedes(rq, q, g, s, in) /\ AtMost(q, s, k - 1) /\ AtMost(rq, s, k - 1)
      /\ routed[s][in] \in Nat /\ routed[s][in] <= k - 1
      /\ Positive(q, s) /\ Positive(rq, s) /\ Longer(q, 1, x, new)
  BY <1>1, <1>2 DEF SessionOrdered, RouterOrdered
<1> HIDE DEF q, new, rq
<1>4. /\ Until(q, g, s, in, k) /\ Until(rq, g, s, in, k)
      /\ Follows(g, s, routed[s][in], k, in)
  BY <1>3 DEF Until, AtMost, Positive, Follows
<1>5. /\ AtMost(new, s, k) /\ Sorted(new, g, s, in)
      /\ Above(new, g, s, in, routed[s][in]) /\ Precedes(rq, new, g, s, in)
  <2>1. /\ Number(x) <= k /\ Until(q, g, s, in, Number(x)) /\ Until(rq, g, s, in, Number(x))
        /\ Follows(g, s, routed[s][in], Number(x), in) /\ 1 \in Nat
    BY <1>4
  <2>2. AtMost(new, s, k) /\ Sorted(new, g, s, in) /\ Above(new, g, s, in, routed[s][in])
    BY <1>3, <2>1, LongerAtMost, LongerSorted, LongerAbove
  <2>3. Precedes(rq, new, g, s, in)
    BY <1>3, <2>1, LongerIsPreceded
  <2> QED  BY <2>2, <2>3
<1>6. SessionOrdered(routed, g, queue, sending2, s, o)
  BY <1>1, <1>2, <1>5 DEF SessionOrdered, new, rq
<1>7. \A d \in Session : d # o => SessionOrdered(routed, g, queue, sending2, s, d)
  BY DEF Ordered, SessionOrdered
<1> QED  BY <1>6, <1>7 DEF Ordered

LEMMA OrderSaysHome ==
  ASSUME NEW s \in RosSubscriber, NEW h, NEW g, NEW done,
         NEW routed \in [RosSubscriber -> [Router -> Nat]],
         NEW queue, NEW sending, NEW queue2,
         Ordered(routed, h, queue, sending, done, s),
         Ordered(routed, g, queue, sending, done, s),
         NEW k, NEW x, Says(s, k, h, g, x, queue, sending),
         SaysHome(s, x, queue, queue2)
  PROVE  Ordered(routed, g, queue2, sending, done, s)
<1> USE DEF Says, SaysHome
<1> DEFINE r == Home[s]
           q == queue[r]
           new == queue2[r]
<1>1. r \in Router /\ FirstRib(s) = r
  BY FederationAssumption DEF FirstRib, RosNode
<1>2. /\ RouterOrdered(routed, g, queue, done, s, r)
      /\ RouterOrdered(routed, h, queue, done, s, r)
  BY <1>1 DEF Ordered
<1>3. /\ AtMost(q, s, k) /\ Sorted(q, g, s, r) /\ Above(q, g, s, r, routed[s][r])
      /\ AtMost(q, s, k - 1) /\ routed[s][r] \in Nat /\ routed[s][r] <= k - 1
      /\ Positive(q, s) /\ Longer(q, 1, x, new)
  BY <1>1, <1>2 DEF RouterOrdered
<1> HIDE DEF q, new
<1>4. Until(q, g, s, r, k) /\ Follows(g, s, routed[s][r], k, r)
  BY <1>3 DEF Until, AtMost, Positive, Follows
<1>5. AtMost(new, s, k) /\ Sorted(new, g, s, r) /\ Above(new, g, s, r, routed[s][r])
  <2>1. /\ Number(x) <= k /\ Until(q, g, s, r, Number(x))
        /\ Follows(g, s, routed[s][r], Number(x), r) /\ 1 \in Nat
    BY <1>4
  <2> QED  BY <1>3, <2>1, LongerAtMost, LongerSorted, LongerAbove
<1>6. \A y \in Router : RouterOrdered(routed, g, queue2, done, s, y)
  <2>1. RouterOrdered(routed, g, queue2, done, s, r)
    BY <1>2, <1>5 DEF RouterOrdered, new
  <2>2. \A y \in Router : y # r => RouterOrdered(routed, g, queue2, done, s, y)
    BY DEF Ordered, RouterOrdered
  <2> QED  BY <2>1, <2>2
<1>7. ASSUME NEW d \in Session PROVE SessionOrdered(routed, g, queue2, sending, s, d)
  <2>1. SessionOrdered(routed, g, queue, sending, s, d) /\ Inlet(d) \in Router
        /\ Inlet(d) \notin Side(d)
    BY Ends DEF Ordered
  <2>2. CASE Inlet(d) # r
    BY <2>1, <2>2 DEF SessionOrdered
  <2>3. CASE Inlet(d) = r
    <3>1. ~Carries(d, s)
      <4>1. d = Near(s) => d[1] = s
        BY DEF Near
      <4>2. d[1] \notin Peering => d[1] \in Direct
        BY Sessions DEF Link
      <4> QED  BY <1>1, <2>1, <2>3, <4>1, <4>2 DEF Carries
    <3>2. Precedes(queue2[r], sending[d], g, s, r)
      BY <3>1 DEF Precedes
    <3>3. ~(d[1] \in Peering /\ FirstRib(s) \in Side(d))
      BY <3>1 DEF Carries
    <3> QED  BY <2>1, <2>3, <3>2, <3>3 DEF SessionOrdered
  <2> QED  BY <2>2, <2>3
<1> QED  BY <1>6, <1>7 DEF Ordered

-----------------------------------------------------------------------------
(* Router r routes message k of s.  Every session o it sends copies to has *)
(* r on the way from s, so the next router is not ahead of r; and if       *)
(* somebody there is promised the message, r is the RIB that sees it first *)
(* and sends one copy.                                                     *)
Routed(s, r, k, h, queue, sending, done, queue2, sending2, done2, copies, x) ==
  /\ Len(queue[r]) \in Nat \ {0} /\ Len(queue2[r]) = Len(queue[r]) - 1
  /\ \A i \in 1 .. Len(queue2[r]) : queue2[r][i] = queue[r][i + 1]
  /\ \A y \in Router : y # r => queue2[y] = queue[y]
  /\ Mine(queue[r][1], s) /\ Number(queue[r][1]) = k
  /\ copies \in [Session -> Nat] /\ Mine(x, s) /\ Number(x) = k
  /\ \A o \in Session :
       IF copies[o] = 0 THEN sending2[o] = sending[o]
       ELSE /\ Longer(sending[o], copies[o], x, sending2[o])
            /\ At(o) = r /\ o[1] \in Peering /\ FirstRib(s) \in Side(o)
            /\ Promised(h, s, k, Inlet(o)) => r = FirstRib(s) /\ copies[o] = 1
  /\ \A o \in Session : Positive(sending[o], s)
  /\ \A y \in Router : Positive(queue[y], s)
  /\ \A p \in RosPublisher : \A i \in 1 .. Len(done2[p]) :
       done2[p][i][1] = s =>
         \/ Home[p] = r /\ done2[p][i][2] = k
         \/ \E j \in 1 .. Len(done[p]) : done[p][j] = done2[p][i]
  /\ \A p \in RosPublisher : \A j \in 1 .. Len(done[p]) : done[p][j][2] \in Nat

LEMMA OrderRoutes ==
  ASSUME NEW s \in RosSubscriber, NEW h,
         NEW routed \in [RosSubscriber -> [Router -> Nat]],
         NEW queue, NEW sending, NEW done, NEW queue2, NEW sending2, NEW done2,
         Ordered(routed, h, queue, sending, done, s),
         NEW r \in Router, NEW k \in Nat \ {0}, NEW copies, NEW x,
         Routed(s, r, k, h, queue, sending, done, queue2, sending2, done2, copies, x)
  PROVE  Ordered([routed EXCEPT ![s][r] = k], h, queue2, sending2, done2, s)
<1>0. /\ Len(queue[r]) \in Nat \ {0} /\ Len(queue2[r]) = Len(queue[r]) - 1
      /\ \A i \in 1 .. Len(queue2[r]) : queue2[r][i] = queue[r][i + 1]
  BY DEF Routed
<1>4. Shorter(queue[r], queue2[r], s) /\ Len(queue2[r]) \in Nat
  <2> DEFINE new == queue2[r]
  <2>1. Len(new) = Len(queue[r]) - 1 /\ \A i \in 1 .. Len(new) : new[i] = queue[r][i + 1]
    BY <1>0
  <2> HIDE DEF new
  <2>2. \A i \in 1 .. Len(new) : i + 1 \in 1 .. Len(queue[r]) /\ new[i] = queue[r][i + 1]
    BY <1>0, <2>1
  <2>3. Shorter(queue[r], new, s)
    BY <2>2, ShiftIsShorter
  <2>4. Len(new) \in Nat
    BY <1>0, <2>1
  <2> QED  BY <2>3, <2>4 DEF new
<1> USE DEF Routed
<1> DEFINE routed2 == [routed EXCEPT ![s][r] = k]
<1>1. /\ routed2[s][r] = k
      /\ \A y \in Router : y # r => routed2[s][y] = routed[s][y]
      /\ \A y \in Router : routed[s][y] \in Nat
  <2> DEFINE row == [routed[s] EXCEPT ![r] = k]
             Row == [Router -> Nat]
  <2>1. routed[s] \in Row /\ row[r] = k /\ \A y \in Router : y # r => row[y] = routed[s][y]
    OBVIOUS
  <2>2. routed2 = [routed EXCEPT ![s] = row]
    OBVIOUS
  <2> HIDE DEF row
  <2>3. routed2[s] = row
    BY <2>2
  <2> QED  BY <2>1, <2>3
<1> HIDE DEF routed2
<1>2. /\ RouterOrdered(routed, h, queue, done, s, r)
      /\ 1 \in 1 .. Len(queue[r])
  BY DEF Ordered
<1>3. /\ k <= Len(h[s]) /\ Follows(h, s, routed[s][r], k, r)
      /\ routed[s][r] <= k /\ (r = FirstRib(s) => routed[s][r] < k)
  BY <1>1, <1>2 DEF RouterOrdered, AtMost, Above, Follows
<1>5. Above(queue2[r], h, s, r, k)
  <2> SUFFICES ASSUME NEW i \in 1 .. Len(queue2[r]), Mine(queue2[r][i], s)
               PROVE  Follows(h, s, k, Number(queue2[r][i]), r)
    BY DEF Above
  <2>1. i + 1 \in 1 .. Len(queue[r]) /\ 1 < i + 1 /\ queue2[r][i] = queue[r][i + 1]
    OBVIOUS
  <2> QED  BY <1>2, <2>1 DEF RouterOrdered, Sorted
<1>6. ASSUME NEW y \in Router PROVE RouterOrdered(routed2, h, queue2, done2, s, y)
  <2>1. RouterOrdered(routed, h, queue, done, s, y)
    BY DEF Ordered
  <2>2. CASE y # r
    <3>1. \A p \in RosPublisher : \A i \in 1 .. Len(done2[p]) :
            Home[p] = y /\ done2[p][i][1] = s => done2[p][i][2] <= routed[s][y]
      <4> SUFFICES ASSUME NEW p \in RosPublisher, NEW i \in 1 .. Len(done2[p]),
                          Home[p] = y, done2[p][i][1] = s
                   PROVE  done2[p][i][2] <= routed[s][y]
        OBVIOUS
      <4>1. PICK j \in 1 .. Len(done[p]) : done[p][j] = done2[p][i]
        BY <2>2
      <4> QED  BY <2>1, <4>1 DEF RouterOrdered
    <3> QED  BY <1>1, <2>1, <2>2, <3>1 DEF RouterOrdered
  <2>3. CASE y = r
    <3>1. AtMost(queue2[r], s, Len(h[s])) /\ Sorted(queue2[r], h, s, r)
      BY <1>2, <1>4, ShorterInOrder DEF RouterOrdered
    <3>2. \A p \in RosPublisher : \A i \in 1 .. Len(done2[p]) :
            Home[p] = r /\ done2[p][i][1] = s => done2[p][i][2] <= k
      <4> SUFFICES ASSUME NEW p \in RosPublisher, NEW i \in 1 .. Len(done2[p]),
                          Home[p] = r, done2[p][i][1] = s, done2[p][i][2] # k
                   PROVE  done2[p][i][2] <= k
        BY <1>1
      <4>1. PICK j \in 1 .. Len(done[p]) : done[p][j] = done2[p][i]
        OBVIOUS
      <4>2. done[p][j][2] <= routed[s][r] /\ done[p][j][2] \in Nat
        BY <1>2, <4>1 DEF RouterOrdered
      <4> QED  BY <1>1, <1>3, <4>1, <4>2
    <3> QED  BY <1>1, <1>3, <1>5, <2>3, <3>1, <3>2 DEF RouterOrdered
  <2> QED  BY <2>2, <2>3
<1>7. ASSUME NEW o \in Session PROVE SessionOrdered(routed2, h, queue2, sending2, s, o)
  <2>1. /\ SessionOrdered(routed, h, queue, sending, s, o)
        /\ Inlet(o) \in Router /\ Inlet(o) # At(o) /\ Inlet(o) \notin Side(o)
        /\ At(o) \in Router
    BY Ends, Sessions DEF Ordered
  <2> DEFINE in == Inlet(o)
  <2>2. CASE in = r
    <3>1. sending2[o] = sending[o] /\ copies[o] = 0
      BY <2>1, <2>2
    <3>2. Precedes(queue2[r], sending[o], h, s, r)
      BY <1>4, <2>1, <2>2, ShorterInOrder DEF SessionOrdered
    <3>3. Above(sending[o], h, s, r, k)
      BY <1>2, <2>1, <2>2 DEF SessionOrdered, Precedes, Above
    <3>4. o[1] \in Peering /\ FirstRib(s) \in Side(o) =>
            /\ k <= routed[s][At(o)]
            /\ AtMost(queue2[r], s, routed[s][At(o)])
      <4>1. \A b : AtMost(queue[r], s, b) => AtMost(queue2[r], s, b) /\ k <= b
        BY <1>2, <1>4, ShorterInOrder DEF AtMost
      <4> QED  BY <2>1, <2>2, <4>1 DEF SessionOrdered
    <3> QED  BY <1>1, <2>1, <2>2, <3>1, <3>2, <3>3, <3>4 DEF SessionOrdered
  <2>3. CASE in # r /\ At(o) # r
    <3>1. sending2[o] = sending[o] /\ queue2[in] = queue[in]
      BY <2>1, <2>3
    <3> QED  BY <1>1, <2>1, <2>3, <3>1 DEF SessionOrdered
  <2>4. CASE in # r /\ At(o) = r
    <3> DEFINE q == sending[o]
               new == sending2[o]
               rq == queue[in]
               a == routed[s][in]
    <3>1. /\ AtMost(q, s, Len(h[s])) /\ Sorted(q, h, s, in) /\ Above(q, h, s, in, a)
          /\ Precedes(rq, q, h, s, in) /\ Positive(q, s) /\ Positive(rq, s)
          /\ queue2[in] = rq /\ a \in Nat /\ routed2[s][in] = a
      BY <1>1, <2>1, <2>4 DEF SessionOrdered
    <3>2. o[1] \in Peering /\ FirstRib(s) \in Side(o) =>
            /\ a <= routed[s][r] /\ AtMost(rq, s, routed[s][r]) /\ AtMost(q, s, routed[s][r])
      BY <2>1, <2>4 DEF SessionOrdered
    <3>3. o[1] \in Peering /\ FirstRib(s) \in Side(o) =>
            a <= k /\ AtMost(rq, s, k) /\ AtMost(q, s, k)
      BY <1>1, <1>3, <3>1, <3>2 DEF AtMost, Positive
    <3>4. copies[o] = 0 => q = new
      BY DEF q
    <3>5. copies[o] # 0 =>
            /\ Longer(q, copies[o], x, new) /\ o[1] \in Peering /\ FirstRib(s) \in Side(o)
            /\ Promised(h, s, k, in) => r = FirstRib(s) /\ copies[o] = 1
      OBVIOUS
    <3> HIDE DEF q, new, rq, a
    <3>6. CASE copies[o] = 0
      <4>1. /\ AtMost(new, s, Len(h[s])) /\ Sorted(new, h, s, in) /\ Above(new, h, s, in, a)
            /\ Precedes(rq, new, h, s, in)
            /\ o[1] \in Peering /\ FirstRib(s) \in Side(o) =>
                 a <= k /\ AtMost(rq, s, k) /\ AtMost(new, s, k)
        BY <3>1, <3>3, <3>4, <3>6
      <4> QED  BY <1>1, <2>4, <3>1, <4>1 DEF SessionOrdered, new
    <3>7. CASE copies[o] # 0
      <4>1. in # FirstRib(s)
        BY <2>1, <3>5, <3>7
      <4>2. \A b \in Nat : b <= routed[s][r] => Follows(h, s, b, k, in)
        BY <1>1, <1>3, <3>5, <3>7, <4>1 DEF Follows
      <4>3. Until(q, h, s, in, k) /\ Until(rq, h, s, in, k) /\ Follows(h, s, a, k, in)
        BY <3>1, <3>2, <3>5, <3>7, <4>2 DEF Until, AtMost, Positive
      <4>4. copies[o] # 1 => Follows(h, s, k, k, in)
        BY <3>5, <3>7, <4>1 DEF Follows
      <4>5. /\ AtMost(new, s, Len(h[s])) /\ Sorted(new, h, s, in) /\ Above(new, h, s, in, a)
            /\ Precedes(rq, new, h, s, in) /\ AtMost(new, s, k)
        <5>1. /\ AtMost(q, s, k) /\ Longer(q, copies[o], x, new)
              /\ Number(x) <= k /\ Number(x) <= Len(h[s])
          BY <1>3, <3>3, <3>5, <3>7
        <5>2. /\ Until(q, h, s, in, Number(x)) /\ Until(rq, h, s, in, Number(x))
              /\ Follows(h, s, a, Number(x), in)
              /\ copies[o] # 1 => Follows(h, s, Number(x), Number(x), in)
          BY <4>3, <4>4
        <5>3. AtMost(new, s, k)
          BY <3>1, <5>1, <5>2, LongerAtMost
        <5> QED  BY <3>1, <5>1, <5>2, <5>3, LongerAtMost, LongerSorted, LongerAbove,
                   LongerIsPreceded
      <4>6. a <= k /\ AtMost(rq, s, k)
        BY <3>3, <3>5, <3>7
      <4> QED  BY <1>1, <2>4, <3>1, <4>5, <4>6 DEF SessionOrdered, new
    <3> QED  BY <3>6, <3>7
  <2> QED  BY <2>2, <2>3, <2>4
<1>8. Ordered(routed2, h, queue2, sending2, done2, s)
  BY <1>6, <1>7 DEF Ordered
<1> QED  BY <1>8 DEF routed2

-----------------------------------------------------------------------------
(* A channel that is registered under one of the names a packet is routed  *)
(* by gets one copy.  So does every publisher, whatever the packet, and the*)
(* session to whoever was promised the message.                            *)
LEMMA CopiesOnce ==
  ASSUME Typed, RegistrationInv, NEW r \in Router, NEW pkt \in RibPacket,
         NEW e \in Channel, NEW m \in Name,
         \A n \in RoutedBy(r, pkt) : Knows(r, n, e) => n = m
  PROVE  /\ CopiesTo(r, pkt, e) \in {0, 1}
         /\ m \in RoutedBy(r, pkt) /\ Knows(r, m, e) /\ e # pkt.source
              => CopiesTo(r, pkt, e) = 1
<1>1. RoutedBy(r, pkt) \subseteq Name
  BY DEF RoutedBy, KnownNames
<1>2. \A n \in Name : table[r][<<n, e>>] \in Nat /\ table[r][<<n, e>>] <= 1
  <2> SUFFICES ASSUME NEW n \in Name
               PROVE  table[r][<<n, e>>] \in Nat /\ table[r][<<n, e>>] <= 1
    OBVIOUS
  <2>1. table[r][<<n, e>>] \in Nat
    BY DEF Typed
  <2>2. table[r][<<n, e>>] > 0 => <<n, e>> \in Registration
    BY DEF Typed, Knows, Registration
  <2> QED  BY <2>1, <2>2 DEF RegistrationInv, MadeOnce
<1>3. ASSUME NEW n \in RoutedBy(r, pkt)
      PROVE  \/ {n} \X (1 .. table[r][<<n, e>>]) = {}
             \/ n = m /\ Knows(r, m, e) /\ {n} \X (1 .. table[r][<<n, e>>]) = {<<m, 1>>}
  <2>1. CASE table[r][<<n, e>>] = 0
    BY <2>1
  <2>2. CASE table[r][<<n, e>>] = 1
    <3>1. n = m /\ Knows(r, m, e)
      BY <1>3, <2>2 DEF Knows
    <3>2. 1 .. table[r][<<n, e>>] = {1}
      BY <2>2
    <3> QED  BY <3>1, <3>2
  <2> QED  BY <1>1, <1>2, <1>3, <2>1, <2>2
<1>4. Routes(r, pkt, e) \subseteq {<<m, 1>>}
  BY <1>3 DEF Routes
<1>5. Routes(r, pkt, e) = {} \/ Routes(r, pkt, e) = {<<m, 1>>}
  BY <1>4
<1>6. ASSUME m \in RoutedBy(r, pkt), Knows(r, m, e)
      PROVE  <<m, 1>> \in Routes(r, pkt, e)
  <2>1. 1 \in 1 .. table[r][<<m, e>>]
    BY <1>1, <1>2, <1>6 DEF Knows
  <2>2. <<m, 1>> \in {m} \X (1 .. table[r][<<m, e>>])
    BY <2>1
  <2> QED  BY <1>6, <2>2 DEF Routes
<1>7. Cardinality({}) = 0 /\ Cardinality({<<m, 1>>}) = 1
  BY FS_EmptySet, FS_Singleton
<1> QED  BY <1>5, <1>6, <1>7 DEF CopiesTo

LEMMA PublisherCopies ==
  ASSUME Typed, RegistrationInv, NEW r \in Router, NEW pkt \in RibPacket,
         NEW p \in RosPublisher
  PROVE  /\ CopiesTo(r, pkt, p) \in {0, 1}
         /\ Knows(r, TopicOf[p], p) /\ pkt.gdpname = TopicOf[p] /\ p # pkt.source
              => CopiesTo(r, pkt, p) = 1
<1>1. p \in RosNode /\ p \in Channel /\ p \notin Session /\ TopicOf[p] \in Name
  BY FederationAssumption DEF RosNode, Channel, Name, Topic
<1>2. ASSUME NEW n \in Name, Knows(r, n, p) PROVE n = TopicOf[p]
  <2>1. <<n, p>> \in Registration
    BY <1>1 DEF Registration, Enrolled
  <2>2. Made(r, <<n, p>>)
    BY <1>2 DEF Made, Knows
  <2>3. Origin(r, <<n, p>>)
    BY <2>1, <2>2 DEF RegistrationInv
  <2> QED  BY <1>1, <2>3 DEF Origin
<1>3. RoutedBy(r, pkt) \subseteq Name
  BY DEF RoutedBy, KnownNames
<1>4. Knows(r, TopicOf[p], p) /\ pkt.gdpname = TopicOf[p]
        => TopicOf[p] \in RoutedBy(r, pkt)
  BY <1>1 DEF RoutedBy, KnownNames
<1>5. \A n \in RoutedBy(r, pkt) : Knows(r, n, p) => n = TopicOf[p]
  BY <1>2, <1>3
<1> QED  BY <1>1, <1>4, <1>5, CopiesOnce

LEMMA PromisedCopies ==
  ASSUME Typed, RegistrationInv, PromiseInv,
         NEW r \in Router, NEW pkt \in RibPacket, NEW s \in RosSubscriber,
         NEW k \in 1 .. Len(said[s]), pkt.gdpname = TopicOf[s],
         NEW o \in Session, At(o) = r, o[1] \in Peering, FirstRib(s) \in Side(o),
         Promised(said, s, k, Inlet(o))
  PROVE  r = FirstRib(s) /\ CopiesTo(r, pkt, o) \in {0, 1}
<1> DEFINE in == Inlet(o)
<1>1. PICK p \in RosPublisher : Home[p] = in /\ p \in said[s][k]
  BY DEF Promised
<1>2. HasRoute(s, p) /\ in \in Router /\ in \notin Side(o)
  BY <1>1, Ends DEF PromiseInv
<1>3. /\ Gateway[in] = FirstRib(s) /\ TopicOf[s] = TopicOf[p]
      /\ Knows(FirstRib(s), TopicOf[p], Far(in))
  BY <1>1, <1>2 DEF HasRoute
<1>4. /\ in \in Peering /\ Far(in) \in Session /\ Far(in)[1] = in /\ Far(in)[2] = "far"
  <2>1. FirstRib(s) \in Router
    <3>1. s \in RosNode
      BY DEF RosNode
    <3>2. s \in Direct => Gateway[Home[s]] \in Router
      BY Sessions DEF Direct
    <3> QED  BY <3>1, <3>2, FederationAssumption DEF FirstRib
  <2>2. in \in Peering
    BY <1>2, <1>3, <2>1, FederationAssumption DEF Peering
  <2> QED  BY <2>2 DEF Far, Session, Link
<1>5. /\ Inlet(Far(in)) = in /\ At(Far(in)) = FirstRib(s)
      /\ FirstRib(s) \in Side(Far(in))
  <2>1. Opener(in) = in
    BY <1>4 DEF Opener
  <2> QED  BY <1>3, <1>4, <2>1, Ends
<1>6. Carries(o, s) /\ Carries(Far(in), s)
  BY <1>4, <1>5 DEF Carries
<1>7. o = Far(in)
  BY <1>4, <1>5, <1>6, OneInlet
<1>8. r = FirstRib(s)
  BY <1>5, <1>7
<1>9. RoutedBy(r, pkt) = {TopicOf[s]} /\ TopicOf[s] \in Name /\ o \in Channel
  BY <1>3, <1>7, <1>8 DEF RoutedBy, KnownNames, Channel, Name, Topic, RosNode
<1>10. CopiesTo(r, pkt, o) \in {0, 1}
  BY <1>9, CopiesOnce
<1> QED  BY <1>8, <1>10

-----------------------------------------------------------------------------
(* Registrations stay, and so does a route.                                *)
LEMMA TableGrows ==
  ASSUME LoopInv, [Next]_vars, NEW r \in Router, NEW n \in Name, NEW e \in Channel,
         Knows(r, n, e)
  PROVE  Knows(r, n, e)'
<1>1. CASE UNCHANGED table
  BY <1>1 DEF Knows
<1>2. ASSUME NEW x \in Router, RecvChannel(x) PROVE Knows(r, n, e)'
  <2> DEFINE c == Head(channel_rx[x])
             Pair == Name \X Channel
             Row == [Pair -> Nat]
             q == channel_rx[x]
  <2>1. table' = [table EXCEPT ![x][c] = @ + 1] /\ q # <<>> /\ q \in Seq(Registration)
    BY <1>2, QueueTypes DEF RecvChannel, LoopInv
  <2>2. c \in Pair
    <3>1. Head(q) \in Registration
      <4> HIDE DEF q
      <4> QED  BY <2>1, TailAt
    <3> QED  BY <3>1 DEF Registration, Enrolled, Channel
  <2>3. table \in [Router -> Row] /\ <<n, e>> \in Pair /\ table[r][<<n, e>>] \in Nat
    BY DEF LoopInv, Typed
  <2> HIDE DEF c, Pair, q
  <2>4. table'[r][<<n, e>>] \in {table[r][<<n, e>>], table[r][<<n, e>>] + 1}
    BY <2>1, <2>2, <2>3
  <2> QED  BY <2>3, <2>4 DEF Knows
<1> QED
  BY <1>1, <1>2 DEF Next, vars, ribs, RosStart, Break, RosSubscriberNext, RecvPacket,
     SessionStart, Flush, SessionRead, Lose, Disturb, RosPublisherFails

LEMMA RouteStays ==
  ASSUME LoopInv, [Next]_vars, NEW s \in RosSubscriber, NEW p \in RosPublisher,
         HasRoute(s, p)
  PROVE  HasRoute(s, p)'
<1>1. /\ Home[p] \in Router /\ TopicOf[p] \in Name /\ p \in Channel
      /\ FirstRib(s) \in Router
  <2>1. s \in RosNode /\ p \in RosNode
    BY DEF RosNode
  <2>2. s \in Direct => Gateway[Home[s]] \in Router
    BY Sessions DEF Direct
  <2> QED  BY <2>1, <2>2, FederationAssumption DEF FirstRib, Channel, Name, Topic
<1>2. Gateway[Home[p]] = FirstRib(s) => Far(Home[p]) \in Channel
  <2>1. Gateway[Home[p]] = FirstRib(s) => Home[p] \in Peering
    BY <1>1, FederationAssumption DEF Peering
  <2> QED  BY <2>1 DEF Far, Session, Link, Channel
<1> QED  BY <1>1, <1>2, TableGrows DEF HasRoute

LEMMA PromiseInductive ==
  ASSUME LoopInv, RegistrationInv, PromiseInv, [Next]_vars
  PROVE  PromiseInv'
<1>1. CASE UNCHANGED said /\ heard' \in [RosPublisher -> Seq(Message)]
  <2>1. ASSUME NEW s \in RosSubscriber, NEW k \in 1 .. Len(said[s]), NEW p \in said[s][k]
        PROVE  HasRoute(s, p)'
    <3>1. said[s] \in Seq(SUBSET RosPublisher)
      BY DEF LoopInv, Typed
    <3>2. said[s][k] \in SUBSET RosPublisher
      BY <3>1, ElementOfSeq
    <3>3. HasRoute(s, p)
      BY DEF PromiseInv
    <3> QED  BY <3>2, <3>3, RouteStays
  <2> QED  BY <1>1, <2>1 DEF PromiseInv
<1>2. ASSUME NEW r \in Router, RecvPacket(r) PROVE PromiseInv'
  <2>1. PICK pkt \in RibPacket, frame \in Data :
          /\ rib_rx[r] # <<>> /\ pkt = Head(rib_rx[r]) /\ InRib(r, pkt)
          /\ frame.payload = pkt.payload /\ frame.hit = pkt.hit
          /\ rib_rx' = [rib_rx EXCEPT ![r] = Tail(rib_rx[r])]
          /\ outbox' = [e \in Session |->
                          IF At(e) = r /\ Alive(e)
                          THEN outbox[e] \o Times(CopiesTo(r, pkt, e), frame)
                          ELSE outbox[e]]
          /\ heard' = [p \in RosPublisher |->
                          IF Home[p] = r /\ Publishes(p, pkt) /\ ~pkt.hit
                          THEN heard[p] \o Times(CopiesTo(r, pkt, p), pkt.payload)
                          ELSE heard[p]]
          /\ UNCHANGED <<table, channel_rx, life, said>>
    BY <1>2, RecvPacketDoes
  <2>2. ASSUME NEW p \in RosPublisher PROVE heard'[p] \in Seq(Message)
    <3>1. heard[p] \in Seq(Message) /\ pkt.payload \in Message
      BY DEF PromiseInv, RibPacket
    <3>2. PICK k \in Nat : k = CopiesTo(r, pkt, p)
      BY PublisherCopies DEF LoopInv
    <3>3. heard'[p] = heard[p] \/ heard'[p] = heard[p] \o Times(k, pkt.payload)
      BY <2>1, <3>2
    <3> QED  BY <3>1, <3>3, TimesAt
  <2>3. heard' \in [RosPublisher -> Seq(Message)]
    BY <2>1, <2>2
  <2> QED  BY <1>1, <2>1, <2>3
<1>3. ASSUME NEW s \in RosSubscriber, RosSubscriberNext(s) PROVE PromiseInv'
  <2>1. PICK promised \in SUBSET RosPublisher :
          /\ promised = {p \in RosPublisher : HasRoute(s, p)}
          /\ said' = [said EXCEPT ![s] = Append(said[s], promised)]
          /\ UNCHANGED heard
    BY <1>3, RosSubscriberDoes
  <2>2. \A x \in RosSubscriber, p \in RosPublisher : HasRoute(x, p) => HasRoute(x, p)'
    BY RouteStays
  <2>3. ASSUME NEW x \in RosSubscriber, NEW k \in 1 .. Len(said'[x]), NEW p \in said'[x][k]
        PROVE  HasRoute(x, p)'
    <3>1. /\ said[s] \in Seq(SUBSET RosPublisher)
          /\ said[x] \in Seq(SUBSET RosPublisher)
          /\ x # s => said'[x] = said[x]
          /\ x = s => said'[x] = Append(said[s], promised)
      BY <2>1 DEF LoopInv, Typed
    <3>2. CASE k \in 1 .. Len(said[x]) /\ said'[x][k] = said[x][k]
      <4>1. p \in said[x][k] /\ HasRoute(x, p)
        BY <2>3, <3>2 DEF PromiseInv
      <4>2. said[x][k] \in SUBSET RosPublisher
        BY <3>1, <3>2, ElementOfSeq
      <4> QED  BY <2>2, <4>1, <4>2
    <3>3. CASE x = s /\ said'[x][k] = promised
      BY <2>1, <2>2, <2>3, <3>3
    <3>4. Longer(said[s], 1, promised, Append(said[s], promised))
      BY <3>1, AppendAt
    <3> QED  BY <3>1, <3>2, <3>3, <3>4 DEF Longer
  <2> QED  BY <2>1, <2>3 DEF PromiseInv
<1> QED
  BY <1>1, <1>2, <1>3 DEF Next, vars, ribs, RosStart, Break, RecvChannel,
     SessionStart, Flush, SessionRead, Lose, Disturb, RosPublisherFails, PromiseInv

-----------------------------------------------------------------------------
(* Each step keeps the order.                                              *)
LEMMA Mined ==
  ASSUME LoopInv, NEW s \in RosSubscriber
  PROVE  /\ \A r \in Router : Positive(rib_rx[r], s)
         /\ \A o \in Session : Positive(outbox[o], s)
         /\ \A o \in Session : \A i \in 1 .. Len(outbox[o]) :
              Mine(outbox[o][i], s) => Carries(o, s)
<1>1. /\ \A r \in Router : \A i \in 1 .. Len(rib_rx[r]) : rib_rx[r][i] \in RibPacket
      /\ \A o \in Session : \A i \in 1 .. Len(outbox[o]) : outbox[o][i] \in Frame
  BY QueueTypes, ElementOfSeq DEF LoopInv
<1>2. /\ \A x \in RibPacket : x.payload[2] \in Nat \ {0}
      /\ \A x \in Frame : Mine(x, s) => x.payload[2] \in Nat \ {0}
  <2>1. /\ \A x \in RibPacket : x.payload \in Message
        /\ \A x \in Data : x.payload \in Message
    BY DEF RibPacket, Data
  <2> QED  BY <2>1, DataIsData DEF Message, Mine
<1>3. /\ \A r \in Router : Positive(rib_rx[r], s)
      /\ \A o \in Session : Positive(outbox[o], s)
  BY <1>1, <1>2 DEF Positive, Number
<1>4. \A o \in Session : \A i \in 1 .. Len(outbox[o]) :
        Mine(outbox[o][i], s) => Carries(o, s)
  BY DEF Mine, LoopInv, Directed, InOutbox
<1> QED  BY <1>3, <1>4

LEMMA SameIsShorter ==
  ASSUME NEW S, NEW q \in Seq(S), NEW s
  PROVE  Shorter(q, q, s) /\ Len(q) \in Nat
<1>1. \A i \in 1 .. Len(q) : i + 0 \in 1 .. Len(q) /\ q[i] = q[i + 0]
  BY LenProperties
<1>2. Len(q) \in Nat
  BY LenProperties
<1> QED  BY <1>1, <1>2, ShiftIsShorter

LEMMA TailIsShorter ==
  ASSUME NEW S, NEW q \in Seq(S), q # <<>>, NEW s
  PROVE  Shorter(q, Tail(q), s) /\ Len(Tail(q)) \in Nat
<1> DEFINE new == Tail(q)
<1>1. /\ Len(new) = Len(q) - 1 /\ Len(q) \in Nat \ {0}
      /\ \A i \in 1 .. Len(new) : new[i] = q[i + 1]
  BY TailAt
<1> HIDE DEF new
<1>2. \A i \in 1 .. Len(new) : i + 1 \in 1 .. Len(q) /\ new[i] = q[i + 1]
  BY <1>1
<1>3. Shorter(q, new, s)
  <2>1. 1 \in Nat
    OBVIOUS
  <2> QED  BY <1>2, <2>1, ShiftIsShorter
<1>4. Len(new) \in Nat
  BY <1>1
<1> QED  BY <1>3, <1>4 DEF new

LEMMA AlienIsShorter ==
  ASSUME NEW q, NEW k \in Nat, NEW x, NEW new, Longer(q, k, x, new), NEW s, ~Mine(x, s)
  PROVE  Shorter(q, new, s) /\ Len(new) \in Nat
<1>1. \A i \in 1 .. Len(new) :
        Mine(new[i], s) => i + 0 \in 1 .. Len(q) /\ new[i] = q[i + 0]
  BY DEF Longer
<1>2. Len(new) \in Nat
  BY DEF Longer
<1> QED  BY <1>1, <1>2, ShiftIsShorter

LEMMA HitIsShorter ==
  ASSUME NEW q, Len(q) \in Nat, NEW new, Hits(q, new), NEW s
  PROVE  Shorter(q, new, s) /\ Len(new) \in Nat
<1>1. ~Mine(new[1], s) /\ Len(new) = Len(q)
  <2>1. PICK x \in Data : new[1] = [x EXCEPT !.hit = TRUE]
    BY DEF Hits
  <2>2. new[1].hit = TRUE
    BY <2>1 DEF Data
  <2> QED  BY <2>2 DEF Mine, Hits
<1>2. \A i \in 1 .. Len(new) : Mine(new[i], s) => i \in 2 .. Len(new)
  BY <1>1
<1> DEFINE S == {i \in 1 .. Len(new) : Mine(new[i], s)}
<1>3. S \in SUBSET (2 .. Len(new))
  BY <1>2
<1> HIDE DEF S
<1>4. Retains(q, new, S)
  BY <1>3, HitRetains
<1>5. Shorter(q, new, s)
  BY <1>4 DEF Shorter, S
<1> QED  BY <1>1, <1>5

LEMMA OrderInit == Init => OrderInv
<1> SUFFICES ASSUME Init PROVE OrderInv
  OBVIOUS
<1> DEFINE routed == [s \in RosSubscriber |-> [r \in Router |-> 0]]
<1>1. /\ routed \in [RosSubscriber -> [Router -> Nat]]
      /\ \A s \in RosSubscriber, r \in Router : routed[s][r] = 0
  OBVIOUS
<1> HIDE DEF routed
<1>2. /\ \A s \in RosSubscriber : Len(said[s]) = 0
      /\ \A r \in Router : Len(rib_rx[r]) = 0
      /\ \A o \in Session : Len(outbox[o]) = 0
      /\ \A p \in RosPublisher : Len(heard[p]) = 0
  BY EmptySeq DEF Init
<1>3. ASSUME NEW s \in RosSubscriber
      PROVE  Ordered(routed, said, rib_rx, outbox, heard, s)
  <2>1. \A r \in Router : RouterOrdered(routed, said, rib_rx, heard, s, r)
    BY <1>1, <1>2 DEF RouterOrdered, AtMost, Sorted, Above
  <2>2. \A o \in Session : SessionOrdered(routed, said, rib_rx, outbox, s, o)
    <3> TAKE o \in Session
    <3>1. Inlet(o) \in Router /\ At(o) \in Router
      BY Ends, Sessions
    <3> QED  BY <1>1, <1>2, <3>1
             DEF SessionOrdered, AtMost, Sorted, Above, Precedes
  <2> QED  BY <2>1, <2>2 DEF Ordered
<1> QED  BY <1>1, <1>3 DEF OrderInv

(* Queues that lose elements, or get some that are no messages.            *)
LEMMA OrderLoses ==
  ASSUME OrderInv, Typed, UNCHANGED <<said, rib_rx, heard>>,
         \A o \in Session, s \in RosSubscriber :
           Len(outbox'[o]) \in Nat /\ Shorter(outbox[o], outbox'[o], s)
  PROVE  OrderInv'
<1>1. PICK routed \in [RosSubscriber -> [Router -> Nat]] :
        \A s \in RosSubscriber : Ordered(routed, said, rib_rx, outbox, heard, s)
  BY DEF OrderInv
<1>2. ASSUME NEW s \in RosSubscriber
      PROVE  Ordered(routed, said, rib_rx, outbox', heard, s)
  <2>1. \A r \in Router : Len(rib_rx[r]) \in Nat /\ Shorter(rib_rx[r], rib_rx[r], s)
    BY QueueTypes, SameIsShorter
  <2>2. \A p \in RosPublisher : \A i \in 1 .. Len(heard[p]) : heard[p][i][1] = s =>
          \E j \in 1 .. Len(heard[p]) : heard[p][j] = heard[p][i]
    OBVIOUS
  <2>3. Ordered(routed, said, rib_rx, outbox, heard, s)
    BY <1>1
  <2>4. Shrinks(rib_rx, outbox, heard, rib_rx, outbox', heard, s)
    BY <2>1, <2>2 DEF Shrinks
  <2> QED  BY <2>3, <2>4, OrderShrinks
<1> QED  BY <1>2 DEF OrderInv

LEMMA FlushOrdered ==
  ASSUME OrderInv, Typed, NEW r \in Peering, Flush(r)
  PROVE  OrderInv'
<1> DEFINE e == Near(r)
<1>1. /\ UNCHANGED <<said, rib_rx, heard>> /\ e \in Session
      /\ \E names \in SetToSeqs(KnownNames(r)) :
           outbox' = [outbox EXCEPT ![e] =
             IF Alive(e)
             THEN @ \o [i \in DOMAIN names |-> Advertisement(names[i])] ELSE @]
  BY Sessions DEF Flush, ribs
<1>2. PICK names \in SetToSeqs(KnownNames(r)) :
        outbox' = [outbox EXCEPT ![e] =
          IF Alive(e)
          THEN @ \o [i \in DOMAIN names |-> Advertisement(names[i])] ELSE @]
  BY <1>1
<1> DEFINE more == [i \in DOMAIN names |-> Advertisement(names[i])]
<1>3. more \in Seq(Frame) /\ \A i \in 1 .. Len(more) : IsAdvertisement(more[i])
  <2>1. KnownNames(r) \in SUBSET Name
    BY DEF KnownNames
  <2>2. PICK k \in Nat : k = Cardinality(KnownNames(r))
    BY <2>1, NamesFinite, FS_Subset, FS_CardinalityType
  <2>3. names \in [1 .. k -> Name]
    BY <2>1, <2>2, <1>2 DEF SetToSeqs
  <2>4. \A n \in Name : Advertisement(n) \in Frame /\ IsAdvertisement(Advertisement(n))
    BY DEF Advertisement, Frame, IsAdvertisement
  <2>5. more \in [1 .. k -> Frame] /\ \A i \in 1 .. k : IsAdvertisement(more[i])
    BY <2>3, <2>4
  <2> HIDE DEF more
  <2>6. more \in Seq(Frame) /\ Len(more) = k
    BY <2>5, SeqDef, LenProperties
  <2> QED  BY <2>5, <2>6
<1>4. /\ \A d \in Session : outbox[d] \in Seq(Frame) /\ Len(outbox[d]) \in Nat
      /\ \A d \in Session : outbox'[d] = outbox[d] \/ outbox'[d] = outbox[d] \o more
  BY <1>1, <1>2, QueueTypes DEF Typed
<1> HIDE DEF more, e
<1>5. ASSUME NEW d \in Session, NEW s \in RosSubscriber
      PROVE  Len(outbox'[d]) \in Nat /\ Shorter(outbox[d], outbox'[d], s)
  <2>1. CASE outbox'[d] = outbox[d]
    BY <1>4, <2>1, SameIsShorter
  <2>2. CASE outbox'[d] = outbox[d] \o more
    <3> DEFINE q == outbox[d]
               new == q \o more
    <3>1. /\ Len(new) = Len(q) + Len(more) /\ Len(q) \in Nat /\ Len(more) \in Nat
          /\ \A i \in 1 .. Len(q) + Len(more) :
               new[i] = IF i <= Len(q) THEN q[i] ELSE more[i - Len(q)]
      BY <1>3, <1>4, ConcatProperties, LenProperties
    <3> HIDE DEF new, q
    <3>2. \A i \in 1 .. Len(new) :
            Mine(new[i], s) => i + 0 \in 1 .. Len(q) /\ new[i] = q[i + 0]
      BY <1>3, <3>1 DEF Mine
    <3>3. Shorter(q, new, s) /\ Len(new) \in Nat
      <4>1. 0 \in Nat /\ Len(new) \in Nat
        BY <3>1
      <4> QED  BY <3>2, <4>1, ShiftIsShorter
    <3> QED  BY <2>2, <3>3 DEF q, new
  <2> QED  BY <1>4, <2>1, <2>2
<1> QED  BY <1>1, <1>5, OrderLoses

LEMMA LoseOrdered ==
  ASSUME OrderInv, Typed, NEW e \in Session, Lose(e)
  PROVE  OrderInv'
<1>1. /\ UNCHANGED <<said, rib_rx, heard>> /\ outbox[e] # <<>>
      /\ outbox' = [outbox EXCEPT ![e] = Tail(outbox[e])]
  BY DEF Lose, ribs
<1>2. \A d \in Session, s \in RosSubscriber :
        Len(outbox'[d]) \in Nat /\ Shorter(outbox[d], outbox'[d], s)
  BY <1>1, QueueTypes, SameIsShorter, TailIsShorter DEF Typed
<1> QED  BY <1>1, <1>2, OrderLoses

LEMMA DisturbOrdered ==
  ASSUME OrderInv, Typed, NEW e \in Session, Disturb(e)
  PROVE  OrderInv'
<1>1. /\ UNCHANGED <<said, rib_rx, heard>> /\ Hits(outbox[e], outbox'[e])
      /\ \A d \in Session : d # e => outbox'[d] = outbox[d]
  BY DisturbDoes DEF Disturb, ribs
<1>2. \A d \in Session, s \in RosSubscriber :
        Len(outbox'[d]) \in Nat /\ Shorter(outbox[d], outbox'[d], s)
  <2>1. \A d \in Session : outbox[d] \in Seq(Frame) /\ Len(outbox[d]) \in Nat
    BY QueueTypes
  <2> QED  BY <1>1, <2>1, SameIsShorter, HitIsShorter
<1> QED  BY <1>1, <1>2, OrderLoses

LEMMA BreakOrdered ==
  ASSUME OrderInv, Typed, NEW l \in Link, Break(l)
  PROVE  OrderInv'
<1>1. /\ UNCHANGED <<said, rib_rx, heard>>
      /\ outbox' = [e \in Session |-> IF e[1] = l THEN <<>> ELSE outbox[e]]
  BY DEF Break, ribs
<1>2. \A q, s : Shorter(q, <<>>, s) /\ Len(<<>>) \in Nat
  <2> TAKE q, s
  <2>1. Len(<<>>) \in Nat /\ 0 \in Nat /\ \A i \in 1 .. Len(<<>>) : FALSE
    BY EmptySeq
  <2>2. Shorter(q, <<>>, s)
    BY <2>1, ShiftIsShorter
  <2> QED  BY <2>1, <2>2
<1>3. \A d \in Session, s \in RosSubscriber :
        Len(outbox'[d]) \in Nat /\ Shorter(outbox[d], outbox'[d], s)
  BY <1>1, <1>2, QueueTypes, SameIsShorter
<1> QED  BY <1>1, <1>3, OrderLoses

LEMMA SessionReadOrdered ==
  ASSUME OrderInv, LoopInv, NEW e \in Session, SessionRead(e)
  PROVE  OrderInv'
<1> DEFINE o == OtherEnd(e)
           x == Head(outbox[o])
           q == outbox[o]
<1>1. /\ Typed /\ o \in Session /\ At(e) = Inlet(o) /\ At(e) \in Router
      /\ q # <<>> /\ q \in Seq(Frame)
  BY Sessions, Ends, QueueTypes, SessionReadDoes DEF LoopInv, Inlet
<1>2. /\ outbox' = [outbox EXCEPT ![o] = Tail(q)]
      /\ UNCHANGED <<said, heard>>
      /\ \/ UNCHANGED rib_rx
         \/ /\ ~IsAdvertisement(x)
            /\ \E pkt \in RibPacket :
                 /\ pkt.payload = x.payload /\ pkt.hit = x.hit
                 /\ rib_rx' = [rib_rx EXCEPT ![At(e)] = Append(rib_rx[At(e)], pkt)]
  BY SessionReadDoes
<1>3. /\ Len(q) \in Nat \ {0} /\ x = q[1] /\ Len(Tail(q)) = Len(q) - 1
      /\ \A i \in 1 .. Len(Tail(q)) : Tail(q)[i] = q[i + 1]
      /\ \A s \in RosSubscriber : Shorter(q, Tail(q), s) /\ Len(Tail(q)) \in Nat
  <2> HIDE DEF q
  <2> QED  BY <1>1, TailAt, TailIsShorter DEF q
<1>4. \A d \in Session : /\ outbox[d] \in Seq(Frame)
                         /\ d # o => outbox'[d] = outbox[d]
                         /\ d = o => outbox'[d] = Tail(q)
  BY <1>1, <1>2, QueueTypes DEF Typed
<1>5. \A d \in Session, s \in RosSubscriber :
        Len(outbox'[d]) \in Nat /\ Shorter(outbox[d], outbox'[d], s)
  <2> SUFFICES ASSUME NEW d \in Session, NEW s \in RosSubscriber
               PROVE  Len(outbox'[d]) \in Nat /\ Shorter(outbox[d], outbox'[d], s)
    OBVIOUS
  <2>1. CASE d = o
    BY <1>3, <1>4, <2>1
  <2>2. CASE d # o
    BY <1>4, <2>2, SameIsShorter
  <2> QED  BY <2>1, <2>2
<1>6. CASE UNCHANGED rib_rx
  BY <1>1, <1>2, <1>5, <1>6, OrderLoses
<1>7. ASSUME NEW pkt \in RibPacket, pkt.payload = x.payload, pkt.hit = x.hit,
             ~IsAdvertisement(x),
             rib_rx' = [rib_rx EXCEPT ![At(e)] = Append(rib_rx[At(e)], pkt)]
      PROVE  OrderInv'
  <2>1. PICK routed \in [RosSubscriber -> [Router -> Nat]] :
          \A s \in RosSubscriber : Ordered(routed, said, rib_rx, outbox, heard, s)
    BY DEF OrderInv
  <2>2. /\ \A r \in Router : rib_rx[r] \in Seq(RibPacket)
        /\ \A r \in Router : r # Inlet(o) => rib_rx'[r] = rib_rx[r]
        /\ Longer(rib_rx[Inlet(o)], 1, pkt, rib_rx'[Inlet(o)])
    <3>1. \A r \in Router : rib_rx[r] \in Seq(RibPacket)
      BY <1>1, QueueTypes
    <3>2. Longer(rib_rx[At(e)], 1, pkt, Append(rib_rx[At(e)], pkt))
      BY <1>1, <3>1, AppendAt
    <3>3. /\ rib_rx'[At(e)] = Append(rib_rx[At(e)], pkt)
          /\ \A r \in Router : r # At(e) => rib_rx'[r] = rib_rx[r]
      BY <1>1, <1>7 DEF Typed
    <3> QED  BY <1>1, <3>1, <3>2, <3>3
  <2>3. ASSUME NEW s \in RosSubscriber
        PROVE  Ordered(routed, said, rib_rx', outbox', heard, s)
    <3>1. Ordered(routed, said, rib_rx, outbox, heard, s)
      BY <2>1
    <3>2. Mine(pkt, s) <=> Mine(x, s)
      BY <1>7, DataIsData DEF Mine
    <3>3. CASE ~Mine(x, s)
      <4>1. \A r \in Router : Len(rib_rx'[r]) \in Nat /\ Shorter(rib_rx[r], rib_rx'[r], s)
        <5>1. \A r \in Router : r # Inlet(o) =>
                Len(rib_rx'[r]) \in Nat /\ Shorter(rib_rx[r], rib_rx'[r], s)
          BY <2>2, SameIsShorter
        <5>2. Len(rib_rx'[Inlet(o)]) \in Nat
              /\ Shorter(rib_rx[Inlet(o)], rib_rx'[Inlet(o)], s)
          BY <2>2, <3>2, <3>3, AlienIsShorter
        <5> QED  BY <5>1, <5>2
      <4>2. \A p \in RosPublisher : \A i \in 1 .. Len(heard[p]) : heard[p][i][1] = s =>
              \E j \in 1 .. Len(heard[p]) : heard[p][j] = heard[p][i]
        OBVIOUS
      <4>3. Shrinks(rib_rx, outbox, heard, rib_rx', outbox', heard, s)
        BY <1>5, <4>1, <4>2 DEF Shrinks
      <4> QED  BY <3>1, <4>3, OrderShrinks
    <3>4. CASE Mine(x, s)
      <4>1. Number(pkt) = Number(x)
        BY <1>7 DEF Number
      <4>2. \A d \in Session : \A i \in 1 .. Len(outbox[d]) :
              Mine(outbox[d][i], s) => Carries(d, s)
        BY Mined
      <4>3. /\ Len(outbox[o]) \in Nat \ {0} /\ Len(outbox'[o]) = Len(outbox[o]) - 1
            /\ \A i \in 1 .. Len(outbox'[o]) : outbox'[o][i] = outbox[o][i + 1]
            /\ Mine(outbox[o][1], s) /\ Number(pkt) = Number(outbox[o][1])
            /\ \A d \in Session : d # o => outbox'[d] = outbox[d]
        <5> DEFINE rest == Tail(q)
        <5>1. outbox'[o] = rest /\ \A d \in Session : d # o => outbox'[d] = outbox[d]
          BY <1>1, <1>4
        <5>2. /\ Len(q) \in Nat \ {0} /\ x = q[1] /\ Len(rest) = Len(q) - 1
              /\ \A i \in 1 .. Len(rest) : rest[i] = q[i + 1]
          BY <1>3
        <5> HIDE DEF rest, x
        <5> QED  BY <3>4, <4>1, <5>1, <5>2
      <4>4. Reads(s, o, pkt, rib_rx, outbox, rib_rx', outbox')
        BY <1>1, <2>2, <4>2, <4>3 DEF Reads
      <4> HIDE DEF o
      <4> QED  BY <1>1, <3>1, <4>4, OrderReads
    <3> QED  BY <3>3, <3>4
  <2> QED  BY <1>2, <2>3 DEF OrderInv
<1> QED  BY <1>2, <1>6, <1>7

LEMMA RosSubscriberOrdered ==
  ASSUME OrderInv, LoopInv, NEW s \in RosSubscriber, RosSubscriberNext(s)
  PROVE  OrderInv'
<1>1. PICK promised \in SUBSET RosPublisher, k \in Nat :
           /\ k = Len(said[s]) + 1
           /\ promised = {p \in RosPublisher : HasRoute(s, p)}
           /\ said' = [said EXCEPT ![s] = Append(said[s], promised)]
           /\ UNCHANGED <<table, channel_rx, life, heard>>
           /\ \/ \E x \in Data :
                   /\ s \in Direct /\ x.payload = <<s, k>> /\ ~x.hit
                   /\ UNCHANGED rib_rx
                   /\ \/ UNCHANGED outbox /\ ~Alive(Near(s))
                      \/ outbox' = [outbox EXCEPT ![Near(s)] =
                                      Append(outbox[Near(s)], x)]
              \/ \E x \in RibPacket :
                   /\ s \notin Direct /\ x.payload = <<s, k>> /\ ~x.hit
                   /\ rib_rx' = [rib_rx EXCEPT ![Home[s]] =
                                   Append(rib_rx[Home[s]], x)]
                   /\ UNCHANGED outbox
  BY RosSubscriberDoes
<1>2. PICK routed \in [RosSubscriber -> [Router -> Nat]] :
        \A t \in RosSubscriber : Ordered(routed, said, rib_rx, outbox, heard, t)
  BY DEF OrderInv
<1>3. /\ Len(said[s]) \in Nat /\ k \in Nat \ {0} /\ Len(said[s]) = k - 1 /\ Len(said'[s]) = k
      /\ \A i \in 1 .. Len(said[s]) : said'[s][i] = said[s][i]
      /\ \A t \in RosSubscriber : t # s => said'[t] = said[t]
      /\ \A t \in RosSubscriber : Len(said[t]) \in Nat
  <2>1. \A t \in RosSubscriber : said[t] \in Seq(SUBSET RosPublisher)
    BY DEF LoopInv, Typed
  <2>2. Longer(said[s], 1, promised, Append(said[s], promised))
    BY <2>1, AppendAt
  <2>3. said'[s] = Append(said[s], promised)
        /\ \A t \in RosSubscriber : t # s => said'[t] = said[t]
    BY <1>1 DEF LoopInv, Typed
  <2>4. \A t \in RosSubscriber : Len(said[t]) \in Nat
    BY <2>1, LenProperties
  <2> QED  BY <1>1, <2>2, <2>3, <2>4 DEF Longer
<1>4. \A t \in RosSubscriber : Ordered(routed, said', rib_rx, outbox, heard, t)
  <2> SUFFICES ASSUME NEW t \in RosSubscriber
               PROVE  Ordered(routed, said', rib_rx, outbox, heard, t)
    OBVIOUS
  <2>1. /\ Len(said[t]) \in Nat /\ Len(said'[t]) \in Nat /\ Len(said[t]) <= Len(said'[t])
        /\ \A i \in 1 .. Len(said[t]) : said'[t][i] = said[t][i]
    BY <1>3
  <2>2. /\ \A r \in Router : Positive(rib_rx[r], t)
        /\ \A o \in Session : Positive(outbox[o], t)
    BY Mined
  <2>3. Ordered(routed, said, rib_rx, outbox, heard, t)
    BY <1>2
  <2> QED  BY <2>1, <2>2, <2>3, OrderSaidGrows
<1>5. /\ \A r \in Router : rib_rx[r] \in Seq(RibPacket)
      /\ \A o \in Session : outbox[o] \in Seq(Frame)
      /\ \A r \in Router : Positive(rib_rx[r], s)
      /\ \A o \in Session : Positive(outbox[o], s)
      /\ \A o \in Session : \A i \in 1 .. Len(outbox[o]) :
              Mine(outbox[o][i], s) => Carries(o, s)
      /\ Typed
  BY Mined, QueueTypes DEF LoopInv
<1>6. \A p \in RosPublisher, t \in RosSubscriber : \A i \in 1 .. Len(heard[p]) :
        heard[p][i][1] = t => \E j \in 1 .. Len(heard[p]) : heard[p][j] = heard[p][i]
  OBVIOUS
<1>7. CASE UNCHANGED <<rib_rx, outbox>>
  BY <1>1, <1>4, <1>7 DEF OrderInv
<1>8. ASSUME NEW x \in Data, s \in Direct, x.payload = <<s, k>>, ~x.hit,
             UNCHANGED rib_rx,
             outbox' = [outbox EXCEPT ![Near(s)] = Append(outbox[Near(s)], x)]
      PROVE  OrderInv'
  <2>1. /\ Near(s) \in Session /\ x \in Frame /\ ~IsAdvertisement(x)
        /\ x.payload[1] = s /\ x.payload[2] = k
    BY <1>8, Sessions, DataIsData DEF Frame
  <2>2. /\ Longer(outbox[Near(s)], 1, x, outbox'[Near(s)])
        /\ \A o \in Session : o # Near(s) => outbox'[o] = outbox[o]
    <3>1. Longer(outbox[Near(s)], 1, x, Append(outbox[Near(s)], x))
      BY <1>5, <2>1, AppendAt
    <3> QED  BY <1>5, <1>8, <2>1, <3>1 DEF Typed
  <2>3. ASSUME NEW t \in RosSubscriber
        PROVE  Ordered(routed, said', rib_rx, outbox', heard, t)
    <3>1. CASE t = s
      <4>1. Mine(x, s) /\ Number(x) = k
        BY <1>8, <2>1 DEF Mine, Number
      <4>2. /\ Ordered(routed, said, rib_rx, outbox, heard, s)
            /\ Ordered(routed, said', rib_rx, outbox, heard, s)
        BY <1>2, <1>4
      <4>3. Ordered(routed, said', rib_rx, outbox', heard, s)
        <5>1. Says(s, k, said, said', x, rib_rx, outbox)
          BY <1>3, <1>5, <4>1 DEF Says
        <5>2. SaysDirect(s, x, outbox, outbox')
          BY <1>8, <2>2 DEF SaysDirect
        <5> QED  BY <4>2, <5>1, <5>2, OrderSaysDirect
      <4> QED  BY <3>1, <4>3
    <3>2. CASE t # s
      <4>1. \A r \in Router : Len(rib_rx[r]) \in Nat /\ Shorter(rib_rx[r], rib_rx[r], t)
        BY <1>5, SameIsShorter
      <4>2. \A o \in Session : Len(outbox'[o]) \in Nat /\ Shorter(outbox[o], outbox'[o], t)
        <5>1. ~Mine(x, t)
          BY <2>1, <3>2 DEF Mine
        <5>2. Len(outbox'[Near(s)]) \in Nat /\ Shorter(outbox[Near(s)], outbox'[Near(s)], t)
          BY <2>2, <5>1, AlienIsShorter
        <5>3. \A o \in Session : o # Near(s) =>
                Len(outbox'[o]) \in Nat /\ Shorter(outbox[o], outbox'[o], t)
          BY <1>5, <2>2, SameIsShorter
        <5> QED  BY <5>2, <5>3
      <4>3. Ordered(routed, said', rib_rx, outbox, heard, t)
        BY <1>4
      <4>4. Shrinks(rib_rx, outbox, heard, rib_rx, outbox', heard, t)
        BY <1>6, <4>1, <4>2 DEF Shrinks
      <4> QED  BY <4>3, <4>4, OrderShrinks
    <3> QED  BY <3>1, <3>2
  <2> QED  BY <1>1, <1>8, <2>3 DEF OrderInv
<1>9. ASSUME NEW x \in RibPacket, s \notin Direct, x.payload = <<s, k>>, ~x.hit,
             UNCHANGED outbox,
             rib_rx' = [rib_rx EXCEPT ![Home[s]] = Append(rib_rx[Home[s]], x)]
      PROVE  OrderInv'
  <2>1. /\ Home[s] \in Router /\ ~IsAdvertisement(x)
        /\ x.payload[1] = s /\ x.payload[2] = k
    BY <1>9, FederationAssumption, DataIsData DEF RosNode
  <2>2. /\ Longer(rib_rx[Home[s]], 1, x, rib_rx'[Home[s]])
        /\ \A r \in Router : r # Home[s] => rib_rx'[r] = rib_rx[r]
    <3>1. Longer(rib_rx[Home[s]], 1, x, Append(rib_rx[Home[s]], x))
      BY <1>5, <2>1, AppendAt
    <3> QED  BY <1>5, <1>9, <2>1, <3>1 DEF Typed
  <2>3. ASSUME NEW t \in RosSubscriber
        PROVE  Ordered(routed, said', rib_rx', outbox, heard, t)
    <3>1. CASE t = s
      <4>1. Mine(x, s) /\ Number(x) = k
        BY <1>9, <2>1 DEF Mine, Number
      <4>2. /\ Ordered(routed, said, rib_rx, outbox, heard, s)
            /\ Ordered(routed, said', rib_rx, outbox, heard, s)
        BY <1>2, <1>4
      <4>3. Ordered(routed, said', rib_rx', outbox, heard, s)
        <5>1. Says(s, k, said, said', x, rib_rx, outbox)
          BY <1>3, <1>5, <4>1 DEF Says
        <5>2. SaysHome(s, x, rib_rx, rib_rx')
          BY <1>9, <2>2 DEF SaysHome
        <5> QED  BY <4>2, <5>1, <5>2, OrderSaysHome
      <4> QED  BY <3>1, <4>3
    <3>2. CASE t # s
      <4>1. \A o \in Session : Len(outbox[o]) \in Nat /\ Shorter(outbox[o], outbox[o], t)
        BY <1>5, SameIsShorter
      <4>2. \A r \in Router : Len(rib_rx'[r]) \in Nat /\ Shorter(rib_rx[r], rib_rx'[r], t)
        <5>1. ~Mine(x, t)
          BY <2>1, <3>2 DEF Mine
        <5>2. Len(rib_rx'[Home[s]]) \in Nat /\ Shorter(rib_rx[Home[s]], rib_rx'[Home[s]], t)
          BY <2>2, <5>1, AlienIsShorter
        <5>3. \A r \in Router : r # Home[s] =>
                Len(rib_rx'[r]) \in Nat /\ Shorter(rib_rx[r], rib_rx'[r], t)
          BY <1>5, <2>2, SameIsShorter
        <5> QED  BY <5>2, <5>3
      <4>3. Ordered(routed, said', rib_rx, outbox, heard, t)
        BY <1>4
      <4>4. Shrinks(rib_rx, outbox, heard, rib_rx', outbox, heard, t)
        BY <1>6, <4>1, <4>2 DEF Shrinks
      <4> QED  BY <4>3, <4>4, OrderShrinks
    <3> QED  BY <3>1, <3>2
  <2> QED  BY <1>1, <1>9, <2>3 DEF OrderInv
<1> QED  BY <1>1, <1>7, <1>8, <1>9

LEMMA RecvPacketOrdered ==
  ASSUME OrderInv, LoopInv, RegistrationInv, PromiseInv, NEW r \in Router, RecvPacket(r)
  PROVE  OrderInv'
<1>1. PICK pkt \in RibPacket, frame \in Data :
           /\ rib_rx[r] # <<>> /\ pkt = Head(rib_rx[r]) /\ InRib(r, pkt)
           /\ frame.payload = pkt.payload /\ frame.hit = pkt.hit
           /\ rib_rx' = [rib_rx EXCEPT ![r] = Tail(rib_rx[r])]
           /\ outbox' = [e \in Session |->
                           IF At(e) = r /\ Alive(e)
                           THEN outbox[e] \o Times(CopiesTo(r, pkt, e), frame)
                           ELSE outbox[e]]
           /\ heard' = [p \in RosPublisher |->
                           IF Home[p] = r /\ Publishes(p, pkt) /\ ~pkt.hit
                           THEN heard[p] \o Times(CopiesTo(r, pkt, p), pkt.payload)
                           ELSE heard[p]]
           /\ UNCHANGED <<table, channel_rx, life, said>>
  BY RecvPacketDoes
<1>2. PICK s \in RosSubscriber, k \in Nat \ {0} :
        /\ pkt.payload = <<s, k>> /\ pkt.gdpname = TopicOf[s]
        /\ pkt.payload[1] = s /\ pkt.payload[2] = k
  <2>1. PICK s \in RosSubscriber, k \in Nat \ {0} : pkt.payload = <<s, k>>
    BY DEF RibPacket, Message
  <2>2. pkt.gdpname = TopicOf[pkt.payload[1]]
    BY <1>1, <2>1 DEF InRib
  <2> QED  BY <2>1, <2>2
<1>3. /\ Typed /\ frame \in Frame /\ frame.payload = <<s, k>>
      /\ ~IsAdvertisement(frame) /\ ~IsAdvertisement(pkt)
      /\ \A y \in Router : rib_rx[y] \in Seq(RibPacket)
      /\ \A o \in Session : outbox[o] \in Seq(Frame)
      /\ heard \in [RosPublisher -> Seq(Message)]
  BY <1>1, <1>2, QueueTypes, DataIsData DEF Frame, LoopInv, PromiseInv
<1>4. PICK routed \in [RosSubscriber -> [Router -> Nat]] :
        \A t \in RosSubscriber : Ordered(routed, said, rib_rx, outbox, heard, t)
  BY DEF OrderInv
<1>5. PICK copies :
        copies = [o \in Session |-> IF At(o) = r /\ Alive(o) THEN CopiesTo(r, pkt, o) ELSE 0]
  OBVIOUS
<1>6. copies \in [Session -> Nat]
  BY <1>3, <1>5, CopiesCounted
<1>7. /\ Len(rib_rx[r]) \in Nat \ {0} /\ Len(rib_rx'[r]) = Len(rib_rx[r]) - 1
      /\ \A i \in 1 .. Len(rib_rx'[r]) : rib_rx'[r][i] = rib_rx[r][i + 1]
      /\ \A y \in Router : y # r => rib_rx'[y] = rib_rx[y]
      /\ rib_rx[r][1] = pkt
      /\ \A t : Len(rib_rx'[r]) \in Nat /\ Shorter(rib_rx[r], rib_rx'[r], t)
  <2> DEFINE q == rib_rx[r]
             rest == Tail(q)
  <2>1. /\ rib_rx'[r] = rest /\ \A y \in Router : y # r => rib_rx'[y] = rib_rx[y]
        /\ q # <<>> /\ q \in Seq(RibPacket) /\ pkt = Head(q)
    BY <1>1, <1>3 DEF Typed
  <2> HIDE DEF q
  <2>2. /\ Len(q) \in Nat \ {0} /\ Len(rest) = Len(q) - 1 /\ q[1] = pkt
        /\ \A i \in 1 .. Len(rest) : rest[i] = q[i + 1]
        /\ \A t : Shorter(q, rest, t) /\ Len(rest) \in Nat
    BY <2>1, TailAt, TailIsShorter
  <2> HIDE DEF rest
  <2> QED  BY <2>1, <2>2 DEF q
<1>8. ASSUME NEW o \in Session
      PROVE  /\ Longer(outbox[o], copies[o], frame, outbox'[o])
             /\ copies[o] = 0 => outbox'[o] = outbox[o]
  <2>1. CASE At(o) = r /\ Alive(o)
    <3>1. outbox'[o] = outbox[o] \o Times(copies[o], frame) /\ copies[o] \in Nat
      BY <1>1, <1>5, <1>6, <2>1
    <3>2. Longer(outbox[o], copies[o], frame, outbox[o] \o Times(copies[o], frame))
      BY <1>3, <3>1, TimesAt
    <3>3. copies[o] = 0 => outbox[o] \o Times(copies[o], frame) = outbox[o]
      <4>1. \A x : Times(0, x) = <<>>
        BY DEF Times
      <4>2. \A q \in Seq(Frame) : q \o <<>> = q
        BY ConcatEmptySeq
      <4> QED  BY <1>3, <4>1, <4>2
    <3> QED  BY <3>1, <3>2, <3>3
  <2>2. CASE ~(At(o) = r /\ Alive(o))
    <3>1. outbox'[o] = outbox[o] /\ copies[o] = 0
      BY <1>1, <1>5, <2>2
    <3>2. Len(outbox[o]) \in Nat
      BY <1>3, LenProperties
    <3> QED  BY <3>1, <3>2 DEF Longer
  <2> QED  BY <2>1, <2>2
<1>9. ASSUME NEW p \in RosPublisher, NEW i \in 1 .. Len(heard'[p])
      PROVE  \/ /\ Home[p] = r /\ heard'[p][i] = <<s, k>>
                /\ heard'[p][i][1] = s /\ heard'[p][i][2] = k
             \/ \E j \in 1 .. Len(heard[p]) : heard[p][j] = heard'[p][i]
  <2>1. CASE heard'[p] = heard[p]
    BY <2>1
  <2>2. CASE /\ Home[p] = r
             /\ heard'[p] = heard[p] \o Times(CopiesTo(r, pkt, p), pkt.payload)
    <3>1. PICK n \in Nat : n = CopiesTo(r, pkt, p)
      BY <1>3, PublisherCopies
    <3>2. pkt.payload \in Message /\ heard[p] \in Seq(Message)
      BY <1>3 DEF RibPacket
    <3>3. Longer(heard[p], n, pkt.payload, heard[p] \o Times(n, pkt.payload))
      BY <3>2, TimesAt
    <3>4. Longer(heard[p], n, pkt.payload, heard'[p])
      BY <2>2, <3>1, <3>3
    <3>5. CASE i \in 1 .. Len(heard[p])
      BY <3>4, <3>5 DEF Longer
    <3>6. CASE i \notin 1 .. Len(heard[p])
      <4>1. i > Len(heard[p]) /\ i \in 1 .. Len(heard'[p])
        BY <1>9, <3>4, <3>6 DEF Longer
      <4>2. heard'[p][i] = pkt.payload
        BY <3>4, <4>1 DEF Longer
      <4>3. Home[p] = r
        BY <2>2
      <4> QED  BY <1>2, <4>2, <4>3
    <3> QED  BY <3>5, <3>6
  <2> QED  BY <1>1, <2>1, <2>2
<1>10. ASSUME ~pkt.hit
       PROVE  Ordered([routed EXCEPT ![s][r] = k], said, rib_rx', outbox', heard', s)
  <2>1. Ordered(routed, said, rib_rx, outbox, heard, s)
    BY <1>4
  <2>2. Mine(pkt, s) /\ Number(pkt) = k /\ Mine(frame, s) /\ Number(frame) = k
    BY <1>1, <1>2, <1>3, <1>10 DEF Mine, Number
  <2>3. k \in 1 .. Len(said[s])
    <3>1. RouterOrdered(routed, said, rib_rx, heard, s, r) /\ 1 \in 1 .. Len(rib_rx[r])
      BY <1>7, <2>1 DEF Ordered
    <3>2. k <= Len(said[s])
      BY <1>7, <2>2, <3>1 DEF RouterOrdered, AtMost
    <3>3. Len(said[s]) \in Nat
      <4>1. said[s] \in Seq(SUBSET RosPublisher)
        BY <1>3 DEF Typed
      <4> QED  BY <4>1, LenProperties
    <3> QED  BY <3>2, <3>3
  <2>4. ASSUME NEW o \in Session
        PROVE  IF copies[o] = 0 THEN outbox'[o] = outbox[o]
               ELSE /\ Longer(outbox[o], copies[o], frame, outbox'[o])
                    /\ At(o) = r /\ o[1] \in Peering /\ FirstRib(s) \in Side(o)
                    /\ Promised(said, s, k, Inlet(o)) => r = FirstRib(s) /\ copies[o] = 1
    <3>1. CASE copies[o] = 0
      BY <1>8, <3>1
    <3>2. CASE copies[o] # 0
      <4>1. At(o) = r /\ copies[o] = CopiesTo(r, pkt, o)
        BY <1>5, <3>2
      <4>2. o \in Enrolled /\ o # pkt.source
        BY <1>3, <3>2, <4>1, CopiesCounted
      <4>3. o[1] \in Peering
        BY <4>2, FederationAssumption DEF Enrolled
      <4>4. FirstRib(s) \in Side(o)
        <5>1. Carries(o, pkt.payload[1])
          BY <1>1, <4>1, <4>2, <4>3, StaysOnSide
        <5> QED  BY <1>2, <4>3, <5>1 DEF Carries
      <4>5. Promised(said, s, k, Inlet(o)) => r = FirstRib(s) /\ copies[o] \in {0, 1}
        BY <1>2, <1>3, <2>3, <4>1, <4>3, <4>4, PromisedCopies
      <4> QED  BY <1>8, <3>2, <4>1, <4>3, <4>4, <4>5
    <3> QED  BY <3>1, <3>2
  <2>5. /\ \A o \in Session : Positive(outbox[o], s)
        /\ \A y \in Router : Positive(rib_rx[y], s)
    BY Mined
  <2>6. \A p \in RosPublisher : \A i \in 1 .. Len(heard'[p]) :
          heard'[p][i][1] = s =>
            \/ Home[p] = r /\ heard'[p][i][2] = k
            \/ \E j \in 1 .. Len(heard[p]) : heard[p][j] = heard'[p][i]
    BY <1>9
  <2>7. \A p \in RosPublisher : \A j \in 1 .. Len(heard[p]) : heard[p][j][2] \in Nat
    <3>1. \A p \in RosPublisher : \A j \in 1 .. Len(heard[p]) : heard[p][j] \in Message
      BY <1>3, ElementOfSeq
    <3> QED  BY <3>1 DEF Message
  <2>8. Routed(s, r, k, said, rib_rx, outbox, heard, rib_rx', outbox', heard', copies, frame)
    BY <1>6, <1>7, <2>2, <2>4, <2>5, <2>6, <2>7 DEF Routed
  <2> QED  BY <2>1, <2>8, OrderRoutes
<1>11. PICK routed2 \in [RosSubscriber -> [Router -> Nat]] :
         routed2 = [routed EXCEPT ![s][r] = k]
  <2> DEFINE Row == [Router -> Nat]
             row == [routed[s] EXCEPT ![r] = k]
  <2>1. row \in Row /\ routed \in [RosSubscriber -> Row]
    OBVIOUS
  <2>2. [routed EXCEPT ![s][r] = k] = [routed EXCEPT ![s] = row]
    OBVIOUS
  <2> HIDE DEF row, Row
  <2>3. [routed EXCEPT ![s] = row] \in [RosSubscriber -> Row]
    BY <2>1
  <2> QED  BY <2>2, <2>3 DEF Row
<1>12. ASSUME NEW t \in RosSubscriber, t # s \/ pkt.hit
       PROVE  Ordered(routed, said, rib_rx', outbox', heard', t)
  <2>1. Ordered(routed, said, rib_rx, outbox, heard, t) /\ ~Mine(frame, t)
    BY <1>1, <1>3, <1>4, <1>12 DEF Mine
  <2>2. \A y \in Router : Len(rib_rx'[y]) \in Nat /\ Shorter(rib_rx[y], rib_rx'[y], t)
    <3>1. \A y \in Router : y # r => Len(rib_rx'[y]) \in Nat /\ Shorter(rib_rx[y], rib_rx'[y], t)
      BY <1>3, <1>7, SameIsShorter
    <3> QED  BY <1>7, <3>1
  <2>3. \A o \in Session : Len(outbox'[o]) \in Nat /\ Shorter(outbox[o], outbox'[o], t)
    BY <1>6, <1>8, <2>1, AlienIsShorter
  <2>4. \A p \in RosPublisher : \A i \in 1 .. Len(heard'[p]) :
          heard'[p][i][1] = t =>
            \E j \in 1 .. Len(heard[p]) : heard[p][j] = heard'[p][i]
    <3>1. CASE pkt.hit
      <4>1. \A p \in RosPublisher : heard'[p] = heard[p]
        BY <1>1, <3>1
      <4> QED  BY <4>1
    <3>2. CASE t # s
      BY <1>9, <3>2
    <3> QED  BY <1>12, <3>1, <3>2
  <2>5. Shrinks(rib_rx, outbox, heard, rib_rx', outbox', heard', t)
    BY <2>2, <2>3, <2>4 DEF Shrinks
  <2> QED  BY <2>1, <2>5, OrderShrinks
<1>13. CASE pkt.hit
  BY <1>1, <1>12, <1>13 DEF OrderInv
<1>14. CASE ~pkt.hit
  <2>1. ASSUME NEW t \in RosSubscriber, t # s
        PROVE  Ordered(routed2, said, rib_rx', outbox', heard', t)
    <3>1. routed2[t] = routed[t]
      <4> DEFINE row == [routed[s] EXCEPT ![r] = k]
      <4>1. routed2 = [routed EXCEPT ![s] = row]
        BY <1>11
      <4> HIDE DEF row
      <4> QED  BY <2>1, <4>1
    <3> QED  BY <1>12, <2>1, <3>1, SameRow
  <2>2. \A t \in RosSubscriber : Ordered(routed2, said', rib_rx', outbox', heard', t)
    BY <1>1, <1>10, <1>11, <1>14, <2>1
  <2> QED  BY <2>2 DEF OrderInv
<1> QED  BY <1>13, <1>14

LEMMA OrderInductive ==
  ASSUME OrderInv, LoopInv, RegistrationInv, PromiseInv, [Next]_vars
  PROVE  OrderInv'
<1>1. CASE UNCHANGED <<said, rib_rx, outbox, heard>>
  BY <1>1 DEF OrderInv
<1>2. Typed
  BY DEF LoopInv
<1> QED
  BY <1>1, <1>2, FlushOrdered, LoseOrdered, DisturbOrdered, BreakOrdered,
     SessionReadOrdered, RosSubscriberOrdered, RecvPacketOrdered
  DEF Next, vars, ribs, RosStart, SessionStart, RecvChannel, RosPublisherFails

-----------------------------------------------------------------------------
(* Packets are marked by Disturb only.                                     *)
LEMMA CalmTypes ==
  ASSUME Typed, Calm
  PROVE  /\ \A e \in Session :
              /\ outbox[e] \in Seq(Frame)
              /\ \A i \in 1 .. Len(outbox[e]) : outbox[e][i] \in CalmFrames
         /\ \A r \in Router :
              /\ rib_rx[r] \in Seq(RibPacket)
              /\ \A i \in 1 .. Len(rib_rx[r]) : rib_rx[r][i] \in CalmPackets
         /\ CalmFrames \subseteq Frame /\ CalmPackets \subseteq RibPacket
BY QueueTypes DEF Calm, CalmFrames, CalmPackets

LEMMA CalmStep ==
  ASSUME Calm,
         \A e \in Session :
           \/ outbox'[e] = outbox[e]
           \/ \A i \in 1 .. Len(outbox'[e]) : outbox'[e][i] \in CalmFrames,
         \A r \in Router :
           \/ rib_rx'[r] = rib_rx[r]
           \/ \A i \in 1 .. Len(rib_rx'[r]) : rib_rx'[r][i] \in CalmPackets
  PROVE  Calm'
<1>1. /\ \A e \in Session : \A i \in 1 .. Len(outbox'[e]) : outbox'[e][i] \in CalmFrames
      /\ \A r \in Router : \A i \in 1 .. Len(rib_rx'[r]) : rib_rx'[r][i] \in CalmPackets
  BY DEF Calm
<1> QED  BY <1>1 DEF Calm, CalmFrames, CalmPackets

LEMMA RosSubscriberCalm ==
  ASSUME LoopInv, Calm, NEW s \in RosSubscriber, RosSubscriberNext(s)
  PROVE  Calm'
<1>1. Typed /\ Near(s) \in Session \cup {Near(s)} /\ Home[s] \in Router
  BY FederationAssumption DEF LoopInv, RosNode
<1>2. CASE \E x \in Data :
             /\ s \in Direct /\ ~x.hit /\ UNCHANGED rib_rx
             /\ outbox' = [outbox EXCEPT ![Near(s)] = Append(outbox[Near(s)], x)]
  <2>1. PICK x \in Data :
          /\ s \in Direct /\ ~x.hit /\ UNCHANGED rib_rx
          /\ outbox' = [outbox EXCEPT ![Near(s)] = Append(outbox[Near(s)], x)]
    BY <1>2
  <2>2. Near(s) \in Session /\ x \in Frame /\ x \in CalmFrames
    BY <2>1, Sessions DEF Frame, CalmFrames
  <2> DEFINE q == outbox[Near(s)]
  <2>3. /\ q \in Seq(Frame) /\ CalmFrames \subseteq Frame
        /\ \A i \in 1 .. Len(q) : q[i] \in CalmFrames
    BY <1>1, <2>2, CalmTypes
  <2>4. outbox'[Near(s)] = Append(q, x) /\ \A d \in Session : d # Near(s) => outbox'[d] = outbox[d]
    BY <1>1, <2>1, <2>2 DEF Typed
  <2> HIDE DEF q
  <2>5. \A i \in 1 .. Len(Append(q, x)) : Append(q, x)[i] \in CalmFrames
    BY <2>2, <2>3, AppendKeeps
  <2> QED  BY <2>1, <2>4, <2>5, CalmStep
<1>3. CASE \E x \in RibPacket :
             /\ ~x.hit /\ UNCHANGED outbox
             /\ rib_rx' = [rib_rx EXCEPT ![Home[s]] = Append(rib_rx[Home[s]], x)]
  <2>1. PICK x \in RibPacket :
          /\ ~x.hit /\ UNCHANGED outbox
          /\ rib_rx' = [rib_rx EXCEPT ![Home[s]] = Append(rib_rx[Home[s]], x)]
    BY <1>3
  <2>2. x \in CalmPackets
    BY <2>1 DEF CalmPackets
  <2> DEFINE q == rib_rx[Home[s]]
  <2>3. /\ q \in Seq(RibPacket) /\ CalmPackets \subseteq RibPacket
        /\ \A i \in 1 .. Len(q) : q[i] \in CalmPackets
    BY <1>1, CalmTypes
  <2>4. rib_rx'[Home[s]] = Append(q, x) /\ \A r \in Router : r # Home[s] => rib_rx'[r] = rib_rx[r]
    BY <1>1, <2>1 DEF Typed
  <2> HIDE DEF q
  <2>5. \A i \in 1 .. Len(Append(q, x)) : Append(q, x)[i] \in CalmPackets
    BY <2>2, <2>3, AppendKeeps
  <2> QED  BY <2>1, <2>4, <2>5, CalmStep
<1>4. CASE UNCHANGED <<outbox, rib_rx>>
  BY <1>4, CalmStep
<1> QED  BY <1>2, <1>3, <1>4, RosSubscriberDoes

LEMMA RecvPacketCalm ==
  ASSUME LoopInv, Calm, NEW r \in Router, RecvPacket(r)
  PROVE  Calm'
<1>1. PICK pkt \in RibPacket, frame \in Data :
           /\ rib_rx[r] # <<>> /\ pkt = Head(rib_rx[r]) /\ InRib(r, pkt)
           /\ frame.payload = pkt.payload /\ frame.hit = pkt.hit
           /\ rib_rx' = [rib_rx EXCEPT ![r] = Tail(rib_rx[r])]
           /\ outbox' = [e \in Session |->
                           IF At(e) = r /\ Alive(e)
                           THEN outbox[e] \o Times(CopiesTo(r, pkt, e), frame)
                           ELSE outbox[e]]
           /\ heard' = [p \in RosPublisher |->
                           IF Home[p] = r /\ Publishes(p, pkt) /\ ~pkt.hit
                           THEN heard[p] \o Times(CopiesTo(r, pkt, p), pkt.payload)
                           ELSE heard[p]]
           /\ misheard' = misheard \cup
                {p \in {q \in RosPublisher : Home[q] = r /\ Publishes(q, pkt)} :
                   pkt.hit /\ CopiesTo(r, pkt, p) > 0}
           /\ UNCHANGED <<table, channel_rx, life, said>>
  BY RecvPacketDoes
<1> DEFINE q == rib_rx[r]
<1>2. /\ Typed /\ q \in Seq(RibPacket) /\ q # <<>>
      /\ \A i \in 1 .. Len(q) : q[i] \in CalmPackets
  BY <1>1, CalmTypes DEF LoopInv
<1>3. /\ rib_rx'[r] = Tail(q) /\ pkt = Head(q)
      /\ \A y \in Router : y # r => rib_rx'[y] = rib_rx[y]
  BY <1>1, <1>2 DEF Typed
<1> HIDE DEF q
<1>4. Head(q) \in CalmPackets /\ \A i \in 1 .. Len(Tail(q)) : Tail(q)[i] \in CalmPackets
  BY <1>2, TailKeeps
<1>5. frame \in Frame /\ frame \in CalmFrames
  BY <1>1, <1>3, <1>4 DEF Frame, CalmFrames, CalmPackets
<1>6. ASSUME NEW e \in Session, At(e) = r, Alive(e)
      PROVE  \A i \in 1 .. Len(outbox'[e]) : outbox'[e][i] \in CalmFrames
  <2> DEFINE k == CopiesTo(r, pkt, e)
             held == outbox[e]
             more == Times(k, frame)
  <2>1. k \in Nat
    BY <1>1, <1>2, CopiesCounted
  <2>2. held \in Seq(Frame) /\ \A i \in 1 .. Len(held) : held[i] \in CalmFrames
    BY <1>2, CalmTypes
  <2>3. outbox'[e] = held \o more
    BY <1>1, <1>6
  <2> HIDE DEF k, held
  <2>4. more \in Seq(Frame) /\ \A i \in 1 .. Len(more) : more[i] \in CalmFrames
    BY <1>5, <2>1, TimesKeeps
  <2> HIDE DEF more
  <2>5. \A i \in 1 .. Len(held \o more) : (held \o more)[i] \in CalmFrames
    BY <2>2, <2>4, ConcatKeeps
  <2> QED  BY <2>3, <2>5
<1>7. \A e \in Session :
        \/ outbox'[e] = outbox[e]
        \/ \A i \in 1 .. Len(outbox'[e]) : outbox'[e][i] \in CalmFrames
  BY <1>1, <1>6
<1> QED  BY <1>3, <1>4, <1>7, CalmStep

LEMMA SessionReadCalm ==
  ASSUME LoopInv, Calm, NEW e \in Session, SessionRead(e)
  PROVE  Calm'
<1> DEFINE o == OtherEnd(e)
           q == outbox[o]
           x == Head(q)
<1>1. /\ q # <<>> /\ outbox' = [outbox EXCEPT ![o] = Tail(q)]
      /\ \/ UNCHANGED rib_rx
         \/ /\ ~IsAdvertisement(x)
            /\ \E pkt \in RibPacket :
                 /\ pkt.hit = x.hit
                 /\ rib_rx' = [rib_rx EXCEPT ![At(e)] = Append(rib_rx[At(e)], pkt)]
  BY SessionReadDoes
<1>2. /\ Typed /\ o \in Session /\ At(e) \in Router /\ q \in Seq(Frame)
      /\ \A i \in 1 .. Len(q) : q[i] \in CalmFrames
  BY CalmTypes, Sessions DEF LoopInv
<1>3. outbox'[o] = Tail(q) /\ \A d \in Session : d # o => outbox'[d] = outbox[d]
  BY <1>1, <1>2 DEF Typed
<1> HIDE DEF o, q
<1>4. x \in CalmFrames /\ \A i \in 1 .. Len(Tail(q)) : Tail(q)[i] \in CalmFrames
  BY <1>1, <1>2, TailKeeps
<1> HIDE DEF x
<1>5. \A d \in Session :
        \/ outbox'[d] = outbox[d]
        \/ \A i \in 1 .. Len(outbox'[d]) : outbox'[d][i] \in CalmFrames
  BY <1>3, <1>4
<1>6. CASE UNCHANGED rib_rx
  BY <1>5, <1>6, CalmStep
<1>7. CASE ~UNCHANGED rib_rx
  <2>1. PICK pkt \in RibPacket :
          /\ ~IsAdvertisement(x) /\ pkt.hit = x.hit
          /\ rib_rx' = [rib_rx EXCEPT ![At(e)] = Append(rib_rx[At(e)], pkt)]
    BY <1>1, <1>7
  <2>2. pkt \in CalmPackets
    BY <1>4, <2>1 DEF CalmFrames, CalmPackets
  <2> DEFINE held == rib_rx[At(e)]
  <2>3. /\ held \in Seq(RibPacket) /\ CalmPackets \subseteq RibPacket
        /\ \A i \in 1 .. Len(held) : held[i] \in CalmPackets
    BY <1>2, CalmTypes
  <2>4. /\ rib_rx'[At(e)] = Append(held, pkt)
        /\ \A r \in Router : r # At(e) => rib_rx'[r] = rib_rx[r]
    BY <1>2, <2>1 DEF Typed
  <2> HIDE DEF held
  <2>5. \A i \in 1 .. Len(Append(held, pkt)) : Append(held, pkt)[i] \in CalmPackets
    BY <2>2, <2>3, AppendKeeps
  <2> QED  BY <1>5, <2>4, <2>5, CalmStep
<1> QED  BY <1>6, <1>7

LEMMA FlushCalm ==
  ASSUME LoopInv, Calm, NEW r \in Peering, Flush(r)
  PROVE  Calm'
<1> DEFINE e == Near(r)
           q == outbox[e]
<1>1. PICK names \in SetToSeqs(KnownNames(r)) :
        /\ UNCHANGED rib_rx
        /\ outbox' = [outbox EXCEPT ![e] =
             IF Alive(e)
             THEN @ \o [i \in DOMAIN names |-> Advertisement(names[i])] ELSE @]
  BY DEF Flush, ribs
<1> DEFINE more == [i \in DOMAIN names |-> Advertisement(names[i])]
<1>2. PICK k \in Nat : names \in [1 .. k -> Name]
  <2>1. KnownNames(r) \in SUBSET Name
    BY DEF KnownNames
  <2>2. Cardinality(KnownNames(r)) \in Nat
    BY <2>1, NamesFinite, FS_Subset, FS_CardinalityType
  <2>3. names \in [1 .. Cardinality(KnownNames(r)) -> Name]
    BY <1>1, <2>1 DEF SetToSeqs
  <2> QED  BY <2>2, <2>3
<1>3. more \in Seq(Frame) /\ \A i \in 1 .. Len(more) : more[i] \in CalmFrames
  <2>1. \A n \in Name : Advertisement(n) \in CalmFrames /\ Advertisement(n) \in Frame
    BY DEF Advertisement, IsAdvertisement, Frame, CalmFrames
  <2>2. more \in [1 .. k -> Frame] /\ \A i \in 1 .. k : more[i] \in CalmFrames
    BY <1>2, <2>1
  <2> HIDE DEF more
  <2>3. more \in Seq(Frame) /\ Len(more) = k
    BY <2>2, SeqDef, LenProperties
  <2> QED  BY <2>2, <2>3
<1>4. /\ Typed /\ e \in Session /\ q \in Seq(Frame)
      /\ \A i \in 1 .. Len(q) : q[i] \in CalmFrames
  BY CalmTypes, Sessions DEF LoopInv
<1>5. /\ \A d \in Session : d # e => outbox'[d] = outbox[d]
      /\ outbox'[e] = q \/ outbox'[e] = q \o more
  BY <1>1, <1>4 DEF Typed
<1> HIDE DEF more, q
<1>6. \A i \in 1 .. Len(q \o more) : (q \o more)[i] \in CalmFrames
  BY <1>3, <1>4, ConcatKeeps
<1>7. \A d \in Session :
        \/ outbox'[d] = outbox[d]
        \/ \A i \in 1 .. Len(outbox'[d]) : outbox'[d][i] \in CalmFrames
  BY <1>5, <1>6 DEF q
<1> QED  BY <1>1, <1>7, CalmStep

LEMMA FaultCalm ==
  ASSUME LoopInv, Calm, (\E e \in Session : Lose(e)) \/ \E l \in Link : Break(l)
  PROVE  Calm'
<1>1. ASSUME NEW e \in Session, Lose(e)
      PROVE  Calm'
  <2> DEFINE q == outbox[e]
  <2>1. UNCHANGED rib_rx /\ q # <<>> /\ outbox' = [outbox EXCEPT ![e] = Tail(q)]
    BY <1>1 DEF Lose, ribs
  <2>2. Typed /\ q \in Seq(Frame) /\ \A i \in 1 .. Len(q) : q[i] \in CalmFrames
    BY CalmTypes DEF LoopInv
  <2>3. outbox'[e] = Tail(q) /\ \A d \in Session : d # e => outbox'[d] = outbox[d]
    BY <2>1, <2>2 DEF Typed
  <2> HIDE DEF q
  <2>4. \A i \in 1 .. Len(Tail(q)) : Tail(q)[i] \in CalmFrames
    BY <2>1, <2>2, TailKeeps
  <2> QED  BY <2>1, <2>3, <2>4, CalmStep
<1>2. ASSUME NEW l \in Link, Break(l)
      PROVE  Calm'
  <2>1. /\ UNCHANGED rib_rx
        /\ outbox' = [e \in Session |-> IF e[1] = l THEN <<>> ELSE outbox[e]]
    BY <1>2 DEF Break, ribs
  <2>2. \A d \in Session :
          \/ outbox'[d] = outbox[d]
          \/ \A i \in 1 .. Len(outbox'[d]) : outbox'[d][i] \in CalmFrames
    BY <2>1, EmptySeq
  <2> QED  BY <2>1, <2>2, CalmStep
<1> QED  BY <1>1, <1>2

LEMMA CalmInit == Init => CalmInv
BY EmptySeq DEF Init, CalmInv, Calm

LEMMA CalmInductive ==
  ASSUME LoopInv, CalmInv, [Next]_vars
  PROVE  CalmInv'
<1> SUFFICES ASSUME lossy' = {} PROVE Calm'
  BY DEF CalmInv
<1>1. lossy \subseteq lossy'
  BY DEF Next, vars, faults, life, ribs, RosStart, SessionStart, RosSubscriberNext,
         RecvPacket, RecvChannel, Flush, SessionRead, Lose, Disturb, Break,
         RosPublisherFails
<1>2. Calm
  BY <1>1 DEF CalmInv
<1>3. CASE UNCHANGED <<rib_rx, outbox>>
  BY <1>2, <1>3, CalmStep
<1>4. ASSUME NEW e \in Session PROVE ~Disturb(e)
  BY DEF Disturb
<1> QED
  BY <1>2, <1>3, <1>4, RosSubscriberCalm, RecvPacketCalm, SessionReadCalm,
     FlushCalm, FaultCalm
  DEF Next, vars, ribs, RosStart, SessionStart, RecvChannel, RosPublisherFails

LEMMA BusInvariant == Spec => []BusInv
<1>1. Init => BusInv
  <2>1. Init => PromiseInv
    <3> SUFFICES ASSUME Init PROVE PromiseInv
      OBVIOUS
    <3>1. heard \in [RosPublisher -> Seq(Message)]
      BY EmptySeq DEF Init
    <3>2. \A s \in RosSubscriber : Len(said[s]) = 0
      BY EmptySeq DEF Init
    <3> QED  BY <3>1, <3>2 DEF PromiseInv
  <2> QED  BY <2>1, LoopInit, RegistrationInit, OrderInit, CalmInit DEF BusInv
<1>2. BusInv /\ [Next]_vars => BusInv'
  <2> SUFFICES ASSUME BusInv, [Next]_vars PROVE BusInv'
    OBVIOUS
  <2>1. LoopInv /\ RegistrationInv /\ PromiseInv /\ OrderInv /\ CalmInv
    BY DEF BusInv
  <2>2. LoopInv'
    BY <2>1, LoopInductive
  <2>3. RegistrationInv'
    BY <2>1, <2>2, RegistrationInductive
  <2>4. PromiseInv'
    BY <2>1, PromiseInductive
  <2>5. OrderInv'
    BY <2>1, OrderInductive
  <2>6. CalmInv'
    BY <2>1, CalmInductive
  <2> QED  BY <2>2, <2>3, <2>4, <2>5, <2>6 DEF BusInv
<1> QED  BY <1>1, <1>2, PTL DEF Spec

-----------------------------------------------------------------------------
(* The routers implement the bus: what a subscriber says is a Say, a packet*)
(* that a RIB routes to a publisher of its topic is a Hear, or a Mishear if*)
(* a connection has disturbed it, a connection that does so for the first  *)
(* time is a Disturb, and every other step of the routers goes unnoticed.  *)
Disturbed == lossy # {}
Unnoticed == UNCHANGED <<said, heard, misheard, Disturbed>>

LEMMA SaysOnTheBus ==
  ASSUME BusInv, NEW s \in RosSubscriber, RosSubscriberNext(s)
  PROVE  Bus!Next
<1> DEFINE promised == {p \in RosPublisher : HasRoute(s, p)}
<1>1. /\ said' = [said EXCEPT ![s] = Append(@, promised)]
      /\ UNCHANGED <<heard, misheard, lossy>>
  BY DEF RosSubscriberNext, life, faults
<1>2. promised \in SUBSET Bus!Listeners(s)
  BY DEF Bus!Listeners, HasRoute
<1> HIDE DEF promised
<1>3. Bus!Say(s)
  BY <1>1, <1>2 DEF Bus!Say
<1> QED  BY <1>3 DEF Bus!Next

(* A router publishes the messages of a subscriber in their order.         *)
LEMMA PublishedInTurn ==
  ASSUME BusInv, NEW r \in Router, NEW s \in RosSubscriber, NEW k \in Nat \ {0},
         rib_rx[r] # <<>>, Head(rib_rx[r]).payload = <<s, k>>,
         ~IsAdvertisement(Head(rib_rx[r])), ~Head(rib_rx[r]).hit,
         NEW p \in RosPublisher, Home[p] = r
  PROVE  k \in DOMAIN said[s] /\ Bus!InTurn(p, s, k)
<1>1. /\ Typed /\ heard \in [RosPublisher -> Seq(Message)]
      /\ rib_rx[r] \in Seq(RibPacket) /\ said[s] \in Seq(SUBSET RosPublisher)
  BY QueueTypes DEF BusInv, LoopInv, PromiseInv, Typed
<1>2. PICK routed \in [RosSubscriber -> [Router -> Nat]] :
        RouterOrdered(routed, said, rib_rx, heard, s, r)
  BY DEF BusInv, OrderInv, Ordered
<1>3. PICK last \in Nat : last = routed[s][r]
  OBVIOUS
<1>4. /\ Mine(rib_rx[r][1], s) /\ Number(rib_rx[r][1]) = k
      /\ 1 \in 1 .. Len(rib_rx[r])
  <2>1. Len(rib_rx[r]) \in Nat \ {0} /\ Head(rib_rx[r]) = rib_rx[r][1]
    BY <1>1, TailAt
  <2>2. Head(rib_rx[r]).payload[1] = s /\ Head(rib_rx[r]).payload[2] = k
    OBVIOUS
  <2> QED  BY <2>1, <2>2 DEF Mine, Number
<1>5. k <= Len(said[s]) /\ Follows(said, s, last, k, r)
  BY <1>2, <1>3, <1>4 DEF RouterOrdered, AtMost, Above
<1>6. k \in DOMAIN said[s]
  <2>1. Len(said[s]) \in Nat /\ DOMAIN said[s] = 1 .. Len(said[s])
    BY <1>1, LenProperties
  <2> QED  BY <1>5, <2>1
<1>7. ASSUME NEW i \in DOMAIN heard[p], heard[p][i][1] = s
      PROVE  heard[p][i][2] < k \/ (heard[p][i][2] = k /\ p \notin said[s][k])
  <2>1. i \in 1 .. Len(heard[p]) /\ heard[p][i] \in Message
    BY <1>1, LenProperties, ElementOfSeq
  <2>2. heard[p][i][2] <= last
    BY <1>2, <1>3, <1>7, <2>1 DEF RouterOrdered
  <2>3. PICK n \in Nat : n = heard[p][i][2]
    BY <2>1 DEF Message
  <2>4. p \in said[s][k] => last < k
    BY <1>5 DEF Follows, Promised
  <2>5. last <= k
    BY <1>5 DEF Follows
  <2> QED  BY <2>2, <2>3, <2>4, <2>5
<1> QED  BY <1>6, <1>7 DEF Bus!InTurn

LEMMA HearsOnTheBus ==
  ASSUME BusInv, NEW r \in Router, RecvPacket(r)
  PROVE  Bus!Next \/ Unnoticed
<1>1. PICK pkt \in RibPacket, frame \in Data :
           /\ rib_rx[r] # <<>> /\ pkt = Head(rib_rx[r]) /\ InRib(r, pkt)
           /\ frame.payload = pkt.payload /\ frame.hit = pkt.hit
           /\ rib_rx' = [rib_rx EXCEPT ![r] = Tail(rib_rx[r])]
           /\ outbox' = [e \in Session |->
                           IF At(e) = r /\ Alive(e)
                           THEN outbox[e] \o Times(CopiesTo(r, pkt, e), frame)
                           ELSE outbox[e]]
           /\ heard' = [p \in RosPublisher |->
                           IF Home[p] = r /\ Publishes(p, pkt) /\ ~pkt.hit
                           THEN heard[p] \o Times(CopiesTo(r, pkt, p), pkt.payload)
                           ELSE heard[p]]
           /\ misheard' = misheard \cup
                {p \in {q \in RosPublisher : Home[q] = r /\ Publishes(q, pkt)} :
                   pkt.hit /\ CopiesTo(r, pkt, p) > 0}
           /\ UNCHANGED <<table, channel_rx, life, said>>
  BY RecvPacketDoes DEF BusInv
<1>2. PICK s \in RosSubscriber, k \in Nat \ {0} :
        /\ pkt.payload = <<s, k>> /\ pkt.gdpname = TopicOf[s]
        /\ pkt.payload[1] = s /\ pkt.payload[2] = k
  <2>1. PICK s \in RosSubscriber, k \in Nat \ {0} : pkt.payload = <<s, k>>
    BY DEF RibPacket, Message
  <2>2. pkt.gdpname = TopicOf[pkt.payload[1]]
    BY <1>1, <2>1 DEF InRib
  <2> QED  BY <2>1, <2>2
<1>3. /\ Typed /\ RegistrationInv /\ ~IsAdvertisement(pkt)
      /\ heard \in [RosPublisher -> Seq(Message)]
  BY <1>1, DataIsData DEF BusInv, LoopInv, PromiseInv
<1>4. pkt.payload \in Message
  BY DEF RibPacket
<1>5. \A p \in RosPublisher : CopiesTo(r, pkt, p) \in {0, 1}
  BY <1>3, PublisherCopies
<1>6. ASSUME NEW p \in RosPublisher
      PROVE  /\ heard[p] \o Times(0, pkt.payload) = heard[p]
             /\ heard[p] \o Times(1, pkt.payload) = Append(heard[p], <<s, k>>)
  <2>1. Times(0, pkt.payload) = <<>> /\ heard[p] \in Seq(Message)
    BY <1>3 DEF Times
  <2>2. heard[p] \o <<>> = heard[p]
    BY <2>1, ConcatEmptySeq
  <2>3. Times(1, pkt.payload) = <<pkt.payload>>
    BY DEF Times
  <2>4. heard[p] \o <<pkt.payload>> = Append(heard[p], pkt.payload)
    BY <1>4, <2>1, AppendIsConcat
  <2> QED  BY <1>2, <2>1, <2>2, <2>3, <2>4
<1>7. /\ UNCHANGED <<said, lossy>>
      /\ (\A p \in RosPublisher : heard'[p] = heard[p]) => UNCHANGED heard
  BY <1>1, <1>3 DEF life, faults
<1>8. ASSUME NEW p \in RosPublisher, Home[p] = r, Publishes(p, pkt),
             NEW q \in RosPublisher, Home[q] = r, Publishes(q, pkt)
      PROVE  p = q
  BY <1>8, FederationAssumption DEF RosNode, Publishes
<1>9. CASE ~pkt.hit /\ \A p \in RosPublisher : heard'[p] = heard[p]
  <2>1. UNCHANGED misheard
    BY <1>1, <1>9
  <2> QED  BY <1>7, <1>9, <2>1 DEF Unnoticed, Disturbed
<1>10. CASE pkt.hit
  <2>1. UNCHANGED heard
    <3>1. \A p \in RosPublisher : heard'[p] = heard[p]
      BY <1>1, <1>10
    <3> QED  BY <1>7, <3>1
  <2>2. Disturbed
    <3>1. rib_rx[r] \in Seq(RibPacket)
      BY <1>3, QueueTypes
    <3>2. 1 \in 1 .. Len(rib_rx[r]) /\ pkt = rib_rx[r][1]
      <4> DEFINE q == rib_rx[r]
      <4>1. q # <<>> /\ q \in Seq(RibPacket) /\ pkt = Head(q)
        BY <1>1, <3>1
      <4> HIDE DEF q
      <4>2. Len(q) \in Nat \ {0} /\ Head(q) = q[1]
        BY <4>1, TailAt
      <4> QED  BY <4>1, <4>2 DEF q
    <3>3. Calm => ~pkt.hit
      BY <3>2 DEF Calm, CalmPackets
    <3> QED  BY <1>10, <3>3 DEF BusInv, CalmInv, Disturbed
  <2>3. CASE UNCHANGED misheard
    BY <1>7, <2>1, <2>3 DEF Unnoticed, Disturbed
  <2>4. CASE ~UNCHANGED misheard
    <3>1. PICK p \in RosPublisher : Home[p] = r /\ Publishes(p, pkt) /\ p \in misheard'
      BY <1>1, <2>4
    <3>2. misheard' = misheard \cup {p}
      BY <1>1, <1>8, <3>1
    <3>3. Bus!Mishear(p)
      BY <1>7, <2>1, <2>2, <3>2 DEF Bus!Mishear, Disturbed
    <3> QED  BY <3>3 DEF Bus!Next
  <2> QED  BY <2>3, <2>4
<1>11. CASE ~pkt.hit /\ \E p \in RosPublisher : heard'[p] # heard[p]
  <2>1. PICK p \in RosPublisher : heard'[p] # heard[p]
    BY <1>11
  <2>2. /\ Home[p] = r /\ TopicOf[p] = TopicOf[s]
        /\ heard'[p] = Append(heard[p], <<s, k>>)
    BY <1>1, <1>2, <1>5, <1>6, <2>1 DEF Publishes
  <2>3. ASSUME NEW q \in RosPublisher, q # p
        PROVE  heard'[q] = heard[q]
    <3>1. Home[q] = r => TopicOf[q] # TopicOf[p]
      BY <2>2, <2>3, FederationAssumption DEF RosNode
    <3> QED  BY <1>1, <1>2, <2>2, <3>1 DEF Publishes
  <2>4. heard' = [heard EXCEPT ![p] = Append(@, <<s, k>>)]
    BY <1>1, <1>3, <2>2, <2>3
  <2>5. k \in DOMAIN said[s] /\ Bus!InTurn(p, s, k)
    BY <1>1, <1>2, <1>3, <1>11, <2>2, PublishedInTurn
  <2>6. p \in Bus!Listeners(s)
    BY <2>2 DEF Bus!Listeners
  <2>7. UNCHANGED misheard
    BY <1>1, <1>11
  <2>8. Bus!Hear(p, s, k)
    BY <1>7, <2>4, <2>5, <2>6, <2>7 DEF Bus!Hear
  <2> QED  BY <2>5, <2>8 DEF Bus!Next
<1> QED  BY <1>9, <1>10, <1>11

(* A fault of a connection is a Disturb, or goes unnoticed.                *)
LEMMA FaultsOnTheBus ==
  ASSUME (\E e \in Session : Lose(e) \/ Disturb(e))
           \/ (\E l \in Link : Break(l)) \/ \E p \in RosPublisher : RosPublisherFails(p)
  PROVE  Bus!Next \/ Unnoticed
<1>1. UNCHANGED <<said, heard, misheard>> /\ lossy \subseteq lossy'
  BY DEF Lose, Disturb, Break, RosPublisherFails
<1>2. CASE Disturbed' = Disturbed
  BY <1>1, <1>2 DEF Unnoticed
<1>3. CASE Disturbed' /\ ~Disturbed
  <2>1. Bus!Disturb
    BY <1>1, <1>3 DEF Bus!Disturb, Disturbed
  <2> QED  BY <2>1 DEF Bus!Next
<1>4. Disturbed => Disturbed'
  BY <1>1 DEF Disturbed
<1> QED  BY <1>2, <1>3, <1>4 DEF Disturbed

(* Every federation of routers is a bus.  A message that no connection     *)
(* disturbs is not invented, crosses no topics, does not overtake another  *)
(* of its subscriber, and is not published twice by a publisher it had a   *)
(* route to when it was said, whatever is lost, broadcast, flushed or ended*)
(* meanwhile, and whatever connections do to other messages.               *)
THEOREM FederationIsBus == Spec => ImplementsBus
<1>1. Init => Bus!Init
  BY DEF Init, Bus!Init
<1>2. BusInv /\ [Next]_vars => [Bus!Next]_<<said, heard, misheard, Disturbed>>
  <2> SUFFICES ASSUME BusInv, [Next]_vars
               PROVE  Bus!Next \/ Unnoticed
    BY DEF Unnoticed
  <2>1. CASE UNCHANGED <<said, heard, misheard, lossy>>
    BY <2>1 DEF Unnoticed, Disturbed
  <2> QED
    BY <2>1, SaysOnTheBus, HearsOnTheBus, FaultsOnTheBus
    DEF Next, vars, life, faults, RosStart, SessionStart, RecvChannel, Flush,
        SessionRead
<1> QED
  BY <1>1, <1>2, BusInvariant, PTL
  DEF Spec, ImplementsBus, Bus!Spec, Bus!bus_vars, Disturbed

-----------------------------------------------------------------------------
(* A message that is promised to a publisher is heard, or it is in one of  *)
(* the queues on its way, as long as nothing on that way has failed.       *)
Holds(q, m) ==
  \E i \in 1 .. Len(q) :
    ~IsAdvertisement(q[i]) /\ ~q[i].hit /\ q[i].payload = m

Waits(queue, sending, m, s, p) ==
  \/ Holds(queue[FirstRib(s)], m)
  \/ Holds(queue[Home[p]], m)
  \/ s \in Direct /\ Holds(sending[Near(s)], m)
  \/ Home[p] \in Peering /\ Holds(sending[Far(Home[p])], m)

HeardInv ==
  \A s \in RosSubscriber : \A k \in 1 .. Len(said[s]) : \A p \in said[s][k] :
    Faultless(s, p) =>
      Heard(s, k, p) \/ Waits(rib_rx, outbox, <<s, k>>, s, p)

LEMMA Places ==
  ASSUME NEW s \in RosSubscriber, NEW p \in RosPublisher
  PROVE  /\ FirstRib(s) \in Router /\ Home[p] \in Router
         /\ s \in Direct =>
              /\ Near(s) \in Session /\ Near(s)[1] = s /\ s \in Way(s, p)
              /\ Near(s)[1] \in Way(s, p) /\ At(OtherEnd(Near(s))) = FirstRib(s)
         /\ Home[p] \in Peering =>
              /\ Far(Home[p]) \in Session /\ Far(Home[p])[1] = Home[p]
              /\ Home[p] \in Way(s, p) /\ Far(Home[p])[1] \in Way(s, p)
              /\ At(OtherEnd(Far(Home[p]))) = Home[p]
              /\ At(Far(Home[p])) = Gateway[Home[p]]
         /\ HasRoute(s, p) =>
              \/ Home[p] = FirstRib(s)
              \/ /\ Home[p] \in Peering /\ At(Far(Home[p])) = FirstRib(s)
                 /\ Knows(FirstRib(s), TopicOf[p], Far(Home[p]))
<1>1. s \in RosNode /\ p \in RosNode /\ Home[s] \in Router /\ Home[p] \in Router
  BY FederationAssumption DEF RosNode
<1>2. s \notin Router
  BY <1>1, FederationAssumption
<1>3. s \in Direct => Home[s] \in Peering /\ Gateway[Home[s]] \in Router /\ s \notin Peering
  BY <1>2, Sessions DEF Direct
<1>4. FirstRib(s) \in Router
  BY <1>1, <1>3 DEF FirstRib
<1>5. ASSUME s \in Direct
      PROVE  /\ Near(s) \in Session /\ Near(s)[1] = s /\ s \in Way(s, p)
             /\ At(OtherEnd(Near(s))) = FirstRib(s)
  <2>1. Near(s) \in Session /\ Near(s)[1] = s /\ Near(s)[2] = "near"
    BY <1>5, Sessions DEF Near
  <2>2. At(OtherEnd(Near(s))) = Gateway[Opener(s)]
    BY <2>1, Ends DEF Inlet
  <2> QED  BY <1>3, <1>5, <2>1, <2>2 DEF Opener, FirstRib, Way, Link
<1>6. ASSUME Home[p] \in Peering
      PROVE  /\ Far(Home[p]) \in Session /\ Far(Home[p])[1] = Home[p]
             /\ Home[p] \in Way(s, p)
             /\ At(OtherEnd(Far(Home[p]))) = Home[p]
             /\ At(Far(Home[p])) = Gateway[Home[p]]
  <2>1. /\ Far(Home[p]) \in Session /\ Far(Home[p])[1] = Home[p]
        /\ Far(Home[p])[2] = "far"
    BY <1>6 DEF Far, Session, Link
  <2>2. Opener(Home[p]) = Home[p]
    BY <1>6 DEF Opener
  <2> QED  BY <1>6, <2>1, <2>2, Ends DEF Inlet, Way, Link
<1>7. Gateway[Home[p]] = FirstRib(s) => Home[p] \in Peering
  BY <1>1, <1>4, FederationAssumption DEF Peering
<1> QED  BY <1>1, <1>4, <1>5, <1>6, <1>7 DEF HasRoute

LEMMA HoldsLonger ==
  ASSUME NEW q, NEW k \in Nat, NEW x, NEW new, Longer(q, k, x, new), NEW m
  PROVE  /\ Holds(q, m) => Holds(new, m)
         /\ k # 0 /\ ~IsAdvertisement(x) /\ ~x.hit /\ x.payload = m => Holds(new, m)
<1>1. /\ Len(q) \in Nat /\ Len(new) = Len(q) + k
      /\ \A i \in 1 .. Len(q) : new[i] = q[i]
      /\ k # 0 => new[Len(q) + 1] = x
  BY DEF Longer
<1>2. ASSUME NEW i \in 1 .. Len(q) PROVE i \in 1 .. Len(new) /\ new[i] = q[i]
  BY <1>1
<1>3. k # 0 => Len(q) + 1 \in 1 .. Len(new)
  BY <1>1
<1> QED  BY <1>1, <1>2, <1>3 DEF Holds

LEMMA HoldsTail ==
  ASSUME NEW S, NEW q \in Seq(S), q # <<>>, NEW m, Holds(q, m)
  PROVE  \/ Holds(Tail(q), m)
         \/ ~IsAdvertisement(Head(q)) /\ ~Head(q).hit /\ Head(q).payload = m
<1> DEFINE rest == Tail(q)
<1>1. /\ Len(rest) = Len(q) - 1 /\ Len(q) \in Nat \ {0} /\ Head(q) = q[1]
      /\ \A i \in 1 .. Len(rest) : rest[i] = q[i + 1]
  BY TailAt
<1> HIDE DEF rest
<1>2. PICK i \in 1 .. Len(q) :
        ~IsAdvertisement(q[i]) /\ ~q[i].hit /\ q[i].payload = m
  BY DEF Holds
<1>3. CASE i = 1
  BY <1>1, <1>2, <1>3
<1>4. CASE i # 1
  <2>1. i - 1 \in 1 .. Len(rest) /\ rest[i - 1] = q[i]
    BY <1>1, <1>4
  <2>2. Holds(rest, m)
    BY <1>2, <2>1 DEF Holds
  <2> QED  BY <2>2 DEF rest
<1> QED  BY <1>3, <1>4

LEMMA WaitsOn ==
  ASSUME NEW s \in RosSubscriber, NEW p \in RosPublisher, NEW m,
         NEW queue, NEW sending, NEW queue2, NEW sending2,
         Waits(queue, sending, m, s, p),
         \A r \in {FirstRib(s), Home[p]} : Holds(queue[r], m) =>
           Holds(queue2[r], m) \/ Waits(queue2, sending2, m, s, p),
         \A o \in Session \cap {Near(s), Far(Home[p])} : Holds(sending[o], m) =>
           Holds(sending2[o], m) \/ Waits(queue2, sending2, m, s, p)
  PROVE  Waits(queue2, sending2, m, s, p)
<1>1. /\ s \in Direct => Near(s) \in Session
      /\ Home[p] \in Peering => Far(Home[p]) \in Session
  BY Places
<1> QED  BY <1>1 DEF Waits

(* A publisher gets the copy of a packet that is routed at its home, and   *)
(* the router next to it gets one for it.                                  *)
LEMMA RecvPacketWaits ==
  ASSUME LoopInv, RegistrationInv, PromiseInv, NEW r \in Router, RecvPacket(r),
         NEW s \in RosSubscriber, NEW k \in Nat \ {0}, NEW p \in RosPublisher,
         HasRoute(s, p), Faultless(s, p), Waits(rib_rx, outbox, <<s, k>>, s, p)
  PROVE  Waits(rib_rx', outbox', <<s, k>>, s, p) \/ Contains(heard'[p], <<s, k>>)
<1>1. PICK pkt \in RibPacket, frame \in Data :
           /\ rib_rx[r] # <<>> /\ pkt = Head(rib_rx[r]) /\ InRib(r, pkt)
           /\ frame.payload = pkt.payload /\ frame.hit = pkt.hit
           /\ rib_rx' = [rib_rx EXCEPT ![r] = Tail(rib_rx[r])]
           /\ outbox' = [e \in Session |->
                           IF At(e) = r /\ Alive(e)
                           THEN outbox[e] \o Times(CopiesTo(r, pkt, e), frame)
                           ELSE outbox[e]]
           /\ heard' = [q \in RosPublisher |->
                           IF Home[q] = r /\ Publishes(q, pkt) /\ ~pkt.hit
                           THEN heard[q] \o Times(CopiesTo(r, pkt, q), pkt.payload)
                           ELSE heard[q]]
           /\ UNCHANGED <<table, channel_rx, life, said>>
  BY RecvPacketDoes
<1>2. PICK m \in Message : m = <<s, k>> /\ m[1] = s
  BY DEF Message
<1>3. /\ Typed /\ rib_rx[r] \in Seq(RibPacket)
      /\ \A o \in Session : outbox[o] \in Seq(Frame)
      /\ heard[p] \in Seq(Message) /\ frame \in Frame /\ ~IsAdvertisement(frame)
      /\ TopicOf[p] = TopicOf[s] /\ Knows(Home[p], TopicOf[p], p)
  BY QueueTypes, DataIsData DEF LoopInv, PromiseInv, Frame, HasRoute
<1>4. ASSUME NEW o \in Session
      PROVE  \E n \in Nat :
               /\ Longer(outbox[o], n, frame, outbox'[o])
               /\ At(o) = r /\ Alive(o) => n = CopiesTo(r, pkt, o)
  <2>1. CASE At(o) = r /\ Alive(o)
    <3>1. PICK n \in Nat : n = CopiesTo(r, pkt, o)
      BY <1>3, CopiesCounted
    <3>2. Longer(outbox[o], n, frame, outbox[o] \o Times(n, frame))
      BY <1>3, TimesAt
    <3>3. outbox'[o] = outbox[o] \o Times(n, frame)
      BY <1>1, <2>1, <3>1
    <3> QED  BY <3>1, <3>2, <3>3
  <2>2. CASE ~(At(o) = r /\ Alive(o))
    <3>1. outbox'[o] = outbox[o] /\ Len(outbox[o]) \in Nat
      BY <1>1, <1>3, <2>2, LenProperties
    <3>2. Longer(outbox[o], 0, frame, outbox[o])
      BY <3>1 DEF Longer
    <3> QED  BY <2>2, <3>1, <3>2
  <2> QED  BY <2>1, <2>2
<1>5. \A o \in Session : Holds(outbox[o], m) => Holds(outbox'[o], m)
  BY <1>4, HoldsLonger
<1>6. ASSUME pkt.payload = m, ~pkt.hit, r = Home[p]
      PROVE  Contains(heard'[p], m)
  <2>1. pkt.gdpname = TopicOf[p] /\ p \notin ended
    BY <1>1, <1>2, <1>3, <1>6 DEF InRib, Faultless
  <2>2. p # pkt.source
    <3>1. p \in RosNode /\ p \notin Session /\ p # s
      BY FederationAssumption DEF RosNode
    <3> QED  BY <1>1, <1>2, <1>6, <3>1 DEF InRib
  <2>3. CopiesTo(r, pkt, p) = 1
    BY <1>3, <1>6, <2>1, <2>2, PublisherCopies
  <2>4. heard'[p] = heard[p] \o Times(1, m)
    BY <1>1, <1>6, <2>1, <2>3 DEF Publishes
  <2>5. Longer(heard[p], 1, m, heard[p] \o Times(1, m))
    BY <1>3, TimesAt
  <2>6. Longer(heard[p], 1, m, heard'[p])
    BY <2>4, <2>5
  <2>7. PICK n \in Nat : n = Len(heard[p])
    BY <2>6 DEF Longer
  <2>8. n + 1 \in 1 .. Len(heard'[p]) /\ heard'[p][n + 1] = m
    BY <2>6, <2>7 DEF Longer
  <2> QED  BY <2>8 DEF Contains
<1>7. ASSUME pkt.payload = m, ~pkt.hit, r = FirstRib(s), r # Home[p]
      PROVE  Waits(rib_rx', outbox', m, s, p)
  <2> DEFINE o == Far(Home[p])
  <2>1. /\ Home[p] \in Peering /\ At(o) = r /\ o \in Session /\ o[1] = Home[p]
        /\ Knows(r, TopicOf[p], o) /\ Home[p] \in Way(s, p)
    BY <1>7, Places
  <2>2. Alive(o)
    BY <2>1 DEF Alive, Faultless
  <2>3. o # pkt.source
    <3>1. ASSUME o = pkt.source PROVE FALSE
      <4>1. Carries(OtherEnd(o), s)
        <5>1. s \in RosNode /\ o \notin RosNode
          BY <2>1, FederationAssumption DEF RosNode
        <5> QED  BY <1>1, <1>2, <1>7, <3>1, <5>1 DEF InRib
      <4>2. OtherEnd(o) \in Session /\ OtherEnd(o)[1] \in Peering
        BY <2>1, Sessions
      <4>3. r \in Side(OtherEnd(o))
        BY <1>7, <4>1, <4>2 DEF Carries
      <4>4. Inlet(OtherEnd(o)) \notin Side(OtherEnd(o)) /\ Inlet(OtherEnd(o)) = At(o)
        BY <2>1, <4>2, Ends DEF Inlet
      <4> QED  BY <2>1, <4>3, <4>4
    <3> QED  BY <3>1
  <2>4. pkt.gdpname = TopicOf[p] /\ TopicOf[p] \in Name /\ o \in Channel
    <3>1. p \in RosNode
      BY DEF RosNode
    <3> QED  BY <1>1, <1>2, <1>3, <1>7, <2>1, <3>1 DEF InRib, Name, Topic, Channel
  <2> HIDE DEF o
  <2>5. RoutedBy(r, pkt) = {TopicOf[p]}
    BY <2>1, <2>4 DEF RoutedBy, KnownNames
  <2>6. CopiesTo(r, pkt, o) = 1
    BY <1>3, <2>1, <2>3, <2>4, <2>5, CopiesOnce
  <2>7. Longer(outbox[o], 1, frame, outbox'[o])
    BY <1>4, <2>1, <2>2, <2>6
  <2>8. Holds(outbox'[o], m)
    BY <1>1, <1>3, <1>7, <2>7, HoldsLonger
  <2> QED  BY <2>1, <2>8 DEF Waits, o
<1>8. ASSUME NEW y \in {FirstRib(s), Home[p]}, Holds(rib_rx[y], m)
      PROVE  \/ Holds(rib_rx'[y], m) \/ Waits(rib_rx', outbox', m, s, p)
             \/ Contains(heard'[p], m)
  <2>1. y \in Router
    BY Places
  <2>2. CASE y # r
    BY <1>1, <1>3, <1>8, <2>1, <2>2 DEF Typed
  <2>3. CASE y = r
    <3>1. rib_rx'[r] = Tail(rib_rx[r])
      BY <1>1, <1>3 DEF Typed
    <3>2. Holds(Tail(rib_rx[r]), m) \/ (pkt.payload = m /\ ~pkt.hit)
      BY <1>1, <1>3, <1>8, <2>3, HoldsTail
    <3> QED  BY <1>6, <1>7, <1>8, <2>3, <3>1, <3>2
  <2> QED  BY <2>2, <2>3
<1>9. CASE ~Contains(heard'[p], m)
  <2>1. Waits(rib_rx, outbox, m, s, p)
    BY <1>2
  <2>2. Waits(rib_rx', outbox', m, s, p)
    BY <1>5, <1>8, <1>9, <2>1, WaitsOn
  <2> QED  BY <1>2, <2>2
<1> QED  BY <1>2, <1>9

(* A frame that is read at the end of a session is next in the RIB there.  *)
LEMMA SessionReadWaits ==
  ASSUME LoopInv, NEW e \in Session, SessionRead(e),
         NEW s \in RosSubscriber, NEW p \in RosPublisher, NEW m,
         Waits(rib_rx, outbox, m, s, p)
  PROVE  Waits(rib_rx', outbox', m, s, p)
<1> DEFINE o == OtherEnd(e)
           x == Head(outbox[o])
           q == outbox[o]
<1>1. /\ Typed /\ o \in Session /\ OtherEnd(o) = e /\ At(e) \in Router
      /\ q # <<>> /\ q \in Seq(Frame)
  BY Sessions, Ends, QueueTypes, SessionReadDoes DEF LoopInv
<1>2. /\ outbox' = [outbox EXCEPT ![o] = Tail(q)]
      /\ \/ UNCHANGED rib_rx /\ IsAdvertisement(x)
         \/ \E pkt \in RibPacket :
              /\ pkt.payload = x.payload /\ pkt.hit = x.hit
              /\ rib_rx' = [rib_rx EXCEPT ![At(e)] = Append(rib_rx[At(e)], pkt)]
  BY SessionReadDoes
<1>3. outbox'[o] = Tail(q) /\ \A d \in Session : d # o => outbox'[d] = outbox[d]
  BY <1>1, <1>2 DEF Typed
<1>4. ASSUME NEW r \in Router
      PROVE  /\ Holds(rib_rx[r], m) => Holds(rib_rx'[r], m)
             /\ r = At(e) /\ ~IsAdvertisement(x) /\ ~x.hit /\ x.payload = m
                  => Holds(rib_rx'[r], m)
  <2>1. CASE UNCHANGED rib_rx /\ IsAdvertisement(x)
    BY <2>1
  <2>2. CASE \E pkt \in RibPacket :
               /\ pkt.payload = x.payload /\ pkt.hit = x.hit
               /\ rib_rx' = [rib_rx EXCEPT ![At(e)] = Append(rib_rx[At(e)], pkt)]
    <3>1. PICK pkt \in RibPacket :
            /\ pkt.payload = x.payload /\ pkt.hit = x.hit
            /\ rib_rx' = [rib_rx EXCEPT ![At(e)] = Append(rib_rx[At(e)], pkt)]
      BY <2>2
    <3>2. rib_rx[r] \in Seq(RibPacket) /\ ~IsAdvertisement(pkt)
      BY <1>1, QueueTypes, DataIsData
    <3> HIDE DEF x
    <3>3. CASE r = At(e)
      <4>1. rib_rx'[r] = Append(rib_rx[r], pkt)
        BY <1>1, <3>1, <3>3 DEF Typed
      <4>2. Longer(rib_rx[r], 1, pkt, Append(rib_rx[r], pkt))
        BY <3>2, AppendAt
      <4>3. /\ Holds(rib_rx[r], m) => Holds(Append(rib_rx[r], pkt), m)
            /\ ~pkt.hit /\ pkt.payload = m => Holds(Append(rib_rx[r], pkt), m)
        BY <3>2, <4>2, HoldsLonger
      <4> QED  BY <3>1, <4>1, <4>3
    <3>4. CASE r # At(e)
      BY <1>1, <3>1, <3>4 DEF Typed
    <3> QED  BY <3>3, <3>4
  <2> QED  BY <1>2, <2>1, <2>2
<1>5. ASSUME NEW d \in Session \cap {Near(s), Far(Home[p])}, Holds(outbox[d], m)
      PROVE  Holds(outbox'[d], m) \/ Waits(rib_rx', outbox', m, s, p)
  <2>1. CASE d # o
    BY <1>3, <1>5, <2>1
  <2>2. CASE d = o
    <3>1. At(e) = FirstRib(s) \/ At(e) = Home[p]
      <4>1. d = Near(s) => s \in Direct
        <5>1. s \in RosNode /\ s \notin Peering
          BY FederationAssumption DEF RosNode, Peering
        <5> QED  BY <1>5, <5>1 DEF Near, Session, Link
      <4>2. d = Far(Home[p]) => Home[p] \in Peering
        <5>1. Home[p] \in Router /\ Direct \cap Router = {}
          BY Places, FederationAssumption DEF Direct, RosNode
        <5> QED  BY <1>5, <5>1 DEF Far, Session, Link
      <4> QED  BY <1>1, <1>5, <2>2, <4>1, <4>2, Places
    <3>2. Holds(Tail(q), m) \/ (~IsAdvertisement(x) /\ ~x.hit /\ x.payload = m)
      BY <1>1, <1>5, <2>2, HoldsTail
    <3>3. CASE Holds(Tail(q), m)
      BY <1>3, <2>2, <3>3
    <3>4. CASE ~IsAdvertisement(x) /\ ~x.hit /\ x.payload = m
      <4>1. Holds(rib_rx'[At(e)], m)
        BY <1>1, <1>4, <3>4
      <4> QED  BY <3>1, <4>1 DEF Waits
    <3> QED  BY <3>2, <3>3, <3>4
  <2> QED  BY <2>1, <2>2
<1>6. \A r \in {FirstRib(s), Home[p]} : Holds(rib_rx[r], m) => Holds(rib_rx'[r], m)
  BY <1>4, Places
<1> QED  BY <1>5, <1>6, WaitsOn

(* What a task says waits where it has put it.                             *)
LEMMA RosSubscriberWaits ==
  ASSUME LoopInv, NEW t \in RosSubscriber, RosSubscriberNext(t),
         NEW s \in RosSubscriber, NEW p \in RosPublisher, NEW m
  PROVE  /\ Waits(rib_rx, outbox, m, s, p) => Waits(rib_rx', outbox', m, s, p)
         /\ t = s /\ m = <<s, Len(said[s]) + 1>> /\ Faultless(s, p)
              => Waits(rib_rx', outbox', m, s, p)
<1>1. PICK k \in Nat :
           /\ k = Len(said[t]) + 1
           /\ \/ \E x \in Data :
                   /\ t \in Direct /\ x.payload = <<t, k>> /\ ~x.hit
                   /\ UNCHANGED rib_rx
                   /\ \/ UNCHANGED outbox /\ ~Alive(Near(t))
                      \/ outbox' = [outbox EXCEPT ![Near(t)] =
                                      Append(outbox[Near(t)], x)]
              \/ \E x \in RibPacket :
                   /\ t \notin Direct /\ x.payload = <<t, k>> /\ ~x.hit
                   /\ rib_rx' = [rib_rx EXCEPT ![Home[t]] =
                                   Append(rib_rx[Home[t]], x)]
                   /\ UNCHANGED outbox
  BY RosSubscriberDoes
<1>2. PICK new : new = <<t, k>>
  OBVIOUS
<1>3. Typed /\ FirstRib(t) \in Router /\ Home[t] \in Router
  BY Places, FederationAssumption DEF LoopInv, RosNode
<1>4. ASSUME NEW x \in Data, t \in Direct, x.payload = new, ~x.hit, UNCHANGED rib_rx,
             \/ UNCHANGED outbox /\ ~Alive(Near(t))
             \/ outbox' = [outbox EXCEPT ![Near(t)] = Append(outbox[Near(t)], x)]
      PROVE  /\ \A o \in Session : Holds(outbox[o], m) => Holds(outbox'[o], m)
             /\ m = new /\ Alive(Near(t)) => Holds(outbox'[Near(t)], m)
  <2> DEFINE n == Near(t)
  <2>1. /\ n \in Session /\ outbox[n] \in Seq(Frame) /\ x \in Frame
        /\ ~IsAdvertisement(x)
    BY <1>3, <1>4, Sessions, QueueTypes, DataIsData DEF Frame
  <2> HIDE DEF n
  <2>2. Longer(outbox[n], 1, x, Append(outbox[n], x))
    BY <2>1, AppendAt
  <2>3. /\ Holds(outbox[n], m) => Holds(Append(outbox[n], x), m)
        /\ m = new => Holds(Append(outbox[n], x), m)
    BY <1>4, <2>1, <2>2, HoldsLonger
  <2>4. CASE outbox' = [outbox EXCEPT ![n] = Append(outbox[n], x)]
    <3>1. /\ outbox'[n] = Append(outbox[n], x)
          /\ \A o \in Session : o # n => outbox'[o] = outbox[o]
      BY <1>3, <2>1, <2>4 DEF Typed
    <3> QED  BY <2>3, <3>1 DEF n
  <2>5. CASE UNCHANGED outbox /\ ~Alive(n)
    BY <2>5 DEF n
  <2> QED  BY <1>4, <2>4, <2>5 DEF n
<1>5. ASSUME NEW x \in RibPacket, t \notin Direct, x.payload = new, ~x.hit,
             rib_rx' = [rib_rx EXCEPT ![Home[t]] = Append(rib_rx[Home[t]], x)]
      PROVE  /\ \A r \in Router : Holds(rib_rx[r], m) => Holds(rib_rx'[r], m)
             /\ m = new => Holds(rib_rx'[FirstRib(t)], m)
  <2>1. /\ rib_rx[Home[t]] \in Seq(RibPacket) /\ ~IsAdvertisement(x)
        /\ FirstRib(t) = Home[t]
    BY <1>3, <1>5, QueueTypes, DataIsData DEF FirstRib
  <2>2. Longer(rib_rx[Home[t]], 1, x, Append(rib_rx[Home[t]], x))
    BY <2>1, AppendAt
  <2>3. /\ Holds(rib_rx[Home[t]], m) => Holds(Append(rib_rx[Home[t]], x), m)
        /\ m = new => Holds(Append(rib_rx[Home[t]], x), m)
    BY <1>5, <2>1, <2>2, HoldsLonger
  <2>4. /\ rib_rx'[Home[t]] = Append(rib_rx[Home[t]], x)
        /\ \A r \in Router : r # Home[t] => rib_rx'[r] = rib_rx[r]
    BY <1>3, <1>5 DEF Typed
  <2> QED  BY <2>1, <2>3, <2>4
<1>6. /\ \A r \in Router : Holds(rib_rx[r], m) => Holds(rib_rx'[r], m)
      /\ \A o \in Session : Holds(outbox[o], m) => Holds(outbox'[o], m)
      /\ m = new =>
           \/ t \in Direct /\ (Alive(Near(t)) => Holds(outbox'[Near(t)], m))
           \/ Holds(rib_rx'[FirstRib(t)], m)
  BY <1>1, <1>2, <1>4, <1>5
<1>7. Waits(rib_rx, outbox, m, s, p) => Waits(rib_rx', outbox', m, s, p)
  <2>1. \A r \in {FirstRib(s), Home[p]} : Holds(rib_rx[r], m) => Holds(rib_rx'[r], m)
    BY <1>6, Places
  <2> QED  BY <1>6, <2>1, WaitsOn
<1>8. ASSUME t = s, m = <<s, Len(said[s]) + 1>>, Faultless(s, p)
      PROVE  Waits(rib_rx', outbox', m, s, p)
  <2>1. t \in Direct => Alive(Near(t))
    BY <1>8, Places DEF Alive, Faultless
  <2>2. m = new
    BY <1>1, <1>2, <1>8
  <2> QED  BY <1>6, <1>8, <2>1, <2>2 DEF Waits
<1> QED  BY <1>7, <1>8

(* What is lost or ends on the way is a fault of the way; a flush adds to  *)
(* the queue of a session.                                                 *)
LEMMA FaultWaits ==
  ASSUME Typed, NEW s \in RosSubscriber, NEW p \in RosPublisher, NEW m,
         Waits(rib_rx, outbox, m, s, p), Faultless(s, p)',
         \/ \E e \in Session : Lose(e) \/ Disturb(e)
         \/ \E l \in Link : Break(l)
  PROVE  Waits(rib_rx', outbox', m, s, p)
<1>1. UNCHANGED rib_rx
  BY DEF Lose, Disturb, Break, ribs
<1>2. Way(s, p) \cap (broken' \cup lossy') = {}
  BY DEF Faultless, Way
<1>3. ASSUME NEW d \in Session \cap {Near(s), Far(Home[p])}
      PROVE  outbox'[d] = outbox[d]
  <2>1. d[1] \in Way(s, p)
    <3>1. d[1] \in Link
      BY Sessions
    <3> QED  BY <1>3, <3>1 DEF Way, Near, Far
  <2>2. ASSUME NEW e \in Session, Lose(e) PROVE outbox'[d] = outbox[d]
    <3>1. e[1] \in lossy' /\ outbox' = [outbox EXCEPT ![e] = Tail(@)]
      BY <2>2 DEF Lose
    <3>2. d # e
      BY <1>2, <2>1, <3>1
    <3> QED  BY <3>1, <3>2 DEF Typed
  <2>3. ASSUME NEW e \in Session, Disturb(e) PROVE outbox'[d] = outbox[d]
    <3>1. e[1] \in lossy'
      BY <2>3 DEF Disturb
    <3>2. d # e
      BY <1>2, <2>1, <3>1
    <3> QED  BY <2>3, <3>2, DisturbDoes
  <2>4. ASSUME NEW l \in Link, Break(l) PROVE outbox'[d] = outbox[d]
    <3>1. l \in broken' /\ outbox' = [e \in Session |-> IF e[1] = l THEN <<>> ELSE outbox[e]]
      BY <2>4 DEF Break
    <3>2. d[1] # l
      BY <1>2, <2>1, <3>1
    <3> QED  BY <3>1, <3>2
  <2> QED  BY <2>2, <2>3, <2>4
<1> QED  BY <1>1, <1>3, WaitsOn

LEMMA FlushWaits ==
  ASSUME Typed, NEW r \in Peering, Flush(r),
         NEW s \in RosSubscriber, NEW p \in RosPublisher, NEW m,
         Waits(rib_rx, outbox, m, s, p)
  PROVE  Waits(rib_rx', outbox', m, s, p)
<1> DEFINE e == Near(r)
<1>1. UNCHANGED rib_rx /\ e \in Session
  BY Sessions DEF Flush, ribs
<1>2. PICK names \in SetToSeqs(KnownNames(r)) :
        outbox' = [outbox EXCEPT ![e] =
          IF Alive(e)
          THEN @ \o [i \in DOMAIN names |-> Advertisement(names[i])] ELSE @]
  BY DEF Flush
<1> DEFINE more == [i \in DOMAIN names |-> Advertisement(names[i])]
<1>3. more \in Seq(Frame)
  <2>1. KnownNames(r) \in SUBSET Name
    BY DEF KnownNames
  <2>2. PICK k \in Nat : k = Cardinality(KnownNames(r))
    BY <2>1, NamesFinite, FS_Subset, FS_CardinalityType
  <2>3. names \in [1 .. k -> Name]
    BY <2>1, <2>2, <1>2 DEF SetToSeqs
  <2>4. \A n \in Name : Advertisement(n) \in Frame
    BY DEF Advertisement, Frame
  <2>5. more \in [1 .. k -> Frame]
    BY <2>3, <2>4
  <2> HIDE DEF more
  <2> QED  BY <2>5, SeqDef
<1>4. /\ \A d \in Session : outbox[d] \in Seq(Frame)
      /\ \A d \in Session : outbox'[d] = outbox[d] \/ outbox'[d] = outbox[d] \o more
  BY <1>1, <1>2, QueueTypes DEF Typed
<1> HIDE DEF more, e
<1>5. \A d \in Session : Holds(outbox[d], m) => Holds(outbox[d] \o more, m)
  <2> SUFFICES ASSUME NEW d \in Session, Holds(outbox[d], m)
               PROVE  Holds(outbox[d] \o more, m)
    OBVIOUS
  <2> DEFINE q == outbox[d]
             new == q \o more
  <2>1. /\ Len(new) = Len(q) + Len(more) /\ Len(q) \in Nat /\ Len(more) \in Nat
        /\ \A i \in 1 .. Len(q) : new[i] = q[i]
    BY <1>3, <1>4, ConcatProperties, LenProperties
  <2> HIDE DEF new
  <2>2. \A i \in 1 .. Len(q) : i \in 1 .. Len(new)
    BY <2>1
  <2>3. Holds(new, m)
    BY <2>1, <2>2 DEF Holds
  <2> QED  BY <2>3 DEF new
<1>6. \A d \in Session : Holds(outbox[d], m) => Holds(outbox'[d], m)
  BY <1>4, <1>5
<1>7. \A y \in {FirstRib(s), Home[p]} : Holds(rib_rx[y], m) => Holds(rib_rx'[y], m)
  BY <1>1
<1> QED  BY <1>6, <1>7, WaitsOn

(* Faults are never undone, and what is heard stays heard.                 *)
LEMMA FaultsStay ==
  ASSUME [Next]_vars, NEW s \in RosSubscriber, NEW p \in RosPublisher, Faultless(s, p)'
  PROVE  Faultless(s, p)
<1>1. ended \subseteq ended' /\ broken \subseteq broken' /\ lossy \subseteq lossy'
  BY DEF Next, vars, ribs, life, faults, RosStart, Break, RosSubscriberNext, RecvPacket,
     RecvChannel, SessionStart, Flush, SessionRead, Lose, Disturb, RosPublisherFails
<1>2. p \notin ended' /\ Way(s, p) \cap (broken' \cup lossy') = {}
  BY DEF Faultless, Way
<1> QED  BY <1>1, <1>2 DEF Faultless

LEMMA HeardStays ==
  ASSUME LoopInv, RegistrationInv, PromiseInv, [Next]_vars, NEW p \in RosPublisher,
         NEW m, Contains(heard[p], m)
  PROVE  Contains(heard'[p], m)
<1>1. CASE UNCHANGED heard
  BY <1>1
<1>2. ASSUME NEW r \in Router, RecvPacket(r) PROVE Contains(heard'[p], m)
  <2>1. PICK pkt \in RibPacket :
          heard' = [q \in RosPublisher |->
                      IF Home[q] = r /\ Publishes(q, pkt) /\ ~pkt.hit
                      THEN heard[q] \o Times(CopiesTo(r, pkt, q), pkt.payload)
                      ELSE heard[q]]
    BY <1>2, RecvPacketDoes
  <2>2. PICK n \in Nat : n = CopiesTo(r, pkt, p)
    BY PublisherCopies DEF LoopInv
  <2>3. heard[p] \in Seq(Message) /\ pkt.payload \in Message
    BY DEF PromiseInv, RibPacket
  <2>4. Longer(heard[p], n, pkt.payload, heard[p] \o Times(n, pkt.payload))
    BY <2>3, TimesAt
  <2>5. heard'[p] = heard[p] \/ heard'[p] = heard[p] \o Times(n, pkt.payload)
    BY <2>1, <2>2
  <2>6. CASE heard'[p] = heard[p] \o Times(n, pkt.payload)
    <3>1. Longer(heard[p], n, pkt.payload, heard'[p])
      BY <2>4, <2>6
    <3>2. \A i \in 1 .. Len(heard[p]) :
            i \in 1 .. Len(heard'[p]) /\ heard'[p][i] = heard[p][i]
      BY <3>1 DEF Longer
    <3> QED  BY <3>2 DEF Contains
  <2> QED  BY <2>5, <2>6
<1> QED
  BY <1>1, <1>2 DEF Next, vars, ribs, RosStart, Break, RosSubscriberNext, RecvChannel,
     SessionStart, Flush, SessionRead, Lose, Disturb, RosPublisherFails

LEMMA WaitsOrHeard ==
  ASSUME LoopInv, RegistrationInv, PromiseInv, [Next]_vars,
         NEW s \in RosSubscriber, NEW k \in Nat \ {0}, NEW p \in RosPublisher,
         HasRoute(s, p), Faultless(s, p)', Waits(rib_rx, outbox, <<s, k>>, s, p)
  PROVE  Waits(rib_rx', outbox', <<s, k>>, s, p) \/ Contains(heard'[p], <<s, k>>)
<1>1. Typed /\ Faultless(s, p)
  BY FaultsStay DEF LoopInv
<1>2. CASE UNCHANGED <<rib_rx, outbox>>
  BY <1>2
<1>3. ASSUME NEW r \in Router, RecvPacket(r)
      PROVE  Waits(rib_rx', outbox', <<s, k>>, s, p) \/ Contains(heard'[p], <<s, k>>)
  BY <1>1, <1>3, RecvPacketWaits
<1>4. ASSUME NEW r \in Peering, Flush(r) PROVE Waits(rib_rx', outbox', <<s, k>>, s, p)
  BY <1>1, <1>4, FlushWaits
<1>5. ASSUME NEW e \in Session, SessionRead(e)
      PROVE  Waits(rib_rx', outbox', <<s, k>>, s, p)
  BY <1>5, SessionReadWaits
<1>6. ASSUME NEW t \in RosSubscriber, RosSubscriberNext(t)
      PROVE  Waits(rib_rx', outbox', <<s, k>>, s, p)
  BY <1>6, RosSubscriberWaits
<1>7. CASE (\E e \in Session : Lose(e) \/ Disturb(e)) \/ (\E l \in Link : Break(l))
  BY <1>1, <1>7, FaultWaits
<1> QED
  BY <1>2, <1>3, <1>4, <1>5, <1>6, <1>7
  DEF Next, vars, ribs, RosStart, SessionStart, RecvChannel, RosPublisherFails

LEMMA HeardInductive ==
  ASSUME LoopInv, RegistrationInv, PromiseInv, HeardInv, [Next]_vars
  PROVE  HeardInv'
<1>1. ASSUME NEW s \in RosSubscriber, NEW k \in 1 .. Len(said'[s]), NEW p \in said'[s][k],
             Faultless(s, p)'
      PROVE  Waits(rib_rx', outbox', <<s, k>>, s, p) \/ Contains(heard'[p], <<s, k>>)
  <2>1. said[s] \in Seq(SUBSET RosPublisher) /\ k \in Nat \ {0}
    BY DEF LoopInv, Typed
  <2>2. CASE k \in 1 .. Len(said[s]) /\ said'[s][k] = said[s][k]
    <3>1. p \in said[s][k] /\ p \in RosPublisher /\ HasRoute(s, p)
      <4>1. said[s][k] \in SUBSET RosPublisher
        BY <2>1, <2>2, ElementOfSeq
      <4> QED  BY <1>1, <2>2, <4>1 DEF PromiseInv
    <3>2. Faultless(s, p)
      BY <1>1, <3>1, FaultsStay
    <3>3. Heard(s, k, p) \/ Waits(rib_rx, outbox, <<s, k>>, s, p)
      BY <2>2, <3>1, <3>2 DEF HeardInv
    <3>4. CASE Heard(s, k, p)
      BY <3>1, <3>4, HeardStays DEF Heard
    <3>5. CASE Waits(rib_rx, outbox, <<s, k>>, s, p)
      BY <1>1, <2>1, <3>1, <3>5, WaitsOrHeard
    <3> QED  BY <3>3, <3>4, <3>5
  <2>3. CASE said'[s] = said[s]
    BY <2>2, <2>3
  <2>4. ASSUME NEW t \in RosSubscriber, RosSubscriberNext(t)
        PROVE  Waits(rib_rx', outbox', <<s, k>>, s, p) \/ Contains(heard'[p], <<s, k>>)
    <3>1. PICK promised \in SUBSET RosPublisher :
            said' = [said EXCEPT ![t] = Append(said[t], promised)]
      BY <2>4, RosSubscriberDoes
    <3>2. CASE s # t
      BY <2>3, <3>1, <3>2 DEF LoopInv, Typed
    <3>3. CASE s = t
      <4>1. said'[s] = Append(said[s], promised)
        BY <3>1, <3>3 DEF LoopInv, Typed
      <4>2. Longer(said[s], 1, promised, said'[s])
        BY <2>1, <4>1, AppendAt
      <4>3. CASE k \in 1 .. Len(said[s])
        BY <2>2, <4>2, <4>3 DEF Longer
      <4>4. CASE k \notin 1 .. Len(said[s])
        <5>1. k = Len(said[s]) + 1 /\ p \in promised
          BY <1>1, <4>2, <4>4 DEF Longer
        <5>2. p \in RosPublisher
          BY <5>1
        <5>3. Faultless(s, p)
          BY <1>1, <5>2, FaultsStay
        <5>4. <<s, k>> = <<s, Len(said[s]) + 1>>
          BY <5>1
        <5> QED  BY <2>4, <3>3, <5>2, <5>3, <5>4, RosSubscriberWaits
      <4> QED  BY <4>3, <4>4
    <3> QED  BY <3>2, <3>3
  <2> QED
    BY <2>3, <2>4 DEF Next, vars, ribs, RosStart, Break, RecvPacket, RecvChannel,
       SessionStart, Flush, SessionRead, Lose, Disturb, RosPublisherFails
<1> QED  BY <1>1 DEF HeardInv, Heard

(* Whoever had a route to it when it was said publishes a message, however *)
(* the routers are joined, unless it is still on its way, or a session of  *)
(* the way has lost something or ended, or the publisher has: no router    *)
(* drops it, sends it elsewhere, or takes its source for its destination.  *)
THEOREM RoutedMessagesAreHeard == Spec => []RoutedIsHeard
<1>1. Init => HeardInv
  <2>1. Init => \A s \in RosSubscriber : Len(said[s]) = 0
    BY EmptySeq DEF Init
  <2> QED  BY <2>1 DEF HeardInv
<1>2. BusInv /\ HeardInv /\ [Next]_vars => HeardInv'
  BY HeardInductive DEF BusInv
<1>3. BusInv /\ HeardInv => RoutedIsHeard
  <2> SUFFICES ASSUME BusInv, HeardInv,
                      NEW s \in RosSubscriber, NEW k \in DOMAIN said[s],
                      NEW p \in said[s][k], Faultless(s, p)
               PROVE  Heard(s, k, p) \/ OnItsWay(s, k, p)
    BY DEF RoutedIsHeard
  <2>1. /\ Typed /\ k \in 1 .. Len(said[s]) /\ p \in RosPublisher
    <3>1. Typed /\ said[s] \in Seq(SUBSET RosPublisher)
      BY DEF BusInv, LoopInv, Typed
    <3>2. k \in 1 .. Len(said[s])
      BY <3>1, LenProperties
    <3>3. said[s][k] \in SUBSET RosPublisher
      BY <3>1, <3>2, ElementOfSeq
    <3> QED  BY <3>1, <3>2, <3>3
  <2>2. Heard(s, k, p) \/ Waits(rib_rx, outbox, <<s, k>>, s, p)
    BY <2>1 DEF HeardInv
  <2>3. CASE Waits(rib_rx, outbox, <<s, k>>, s, p)
    <3> DEFINE queues == {rib_rx[FirstRib(s)], rib_rx[Home[p]]} \cup
                         {outbox[e] : e \in Session \cap {Near(s), Far(Home[p])}}
    <3>1. /\ DOMAIN rib_rx[FirstRib(s)] = 1 .. Len(rib_rx[FirstRib(s)])
          /\ DOMAIN rib_rx[Home[p]] = 1 .. Len(rib_rx[Home[p]])
          /\ \A e \in Session : DOMAIN outbox[e] = 1 .. Len(outbox[e])
      BY <2>1, Places, QueueTypes, LenProperties
    <3>2. \E queue \in queues : DOMAIN queue = 1 .. Len(queue) /\ Holds(queue, <<s, k>>)
      BY <2>1, <2>3, <3>1, Places DEF Waits
    <3>3. \E queue \in queues : \E i \in DOMAIN queue :
            ~IsAdvertisement(queue[i]) /\ ~queue[i].hit /\ queue[i].payload = <<s, k>>
      BY <3>2 DEF Holds
    <3> QED  BY <3>3 DEF OnItsWay
  <2> QED  BY <2>2, <2>3
<1> QED  BY <1>1, <1>2, <1>3, BusInvariant, PTL DEF Spec
=============================================================================

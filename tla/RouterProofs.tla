---------------------------- MODULE RouterProofs ----------------------------
(* Theorems about Router, for every set of tasks, topics and names: its    *)
(* variables are well typed, its publishers publish once and in order.     *)
(* Its actions are built from those of ConnectionRib, so that what is      *)
(* proved there holds in a router.                                         *)
EXTENDS Router, ConnectionRibProofs

-----------------------------------------------------------------------------
(* The actions of a router are actions of ConnectionRib.                   *)

LEMMA AdvertisesOrForwards ==
  ASSUME NEW e \in Endpoint, NEW n \in Routable, Advertise(e, n) \/ Forward(e, n)
  PROVE  Next
BY DEF Next

LEMMA StepImplements == [RouterNext]_router_vars => [Next]_vars
<1> SUFFICES ASSUME [RouterNext]_router_vars PROVE [Next]_vars
  OBVIOUS
<1> USE RouterAssumption
<1>1. CASE RecvPacket \/ RecvPacketOverflow \/ RecvChannel \/ RecvStatus
  BY <1>1 DEF Next
<1>2. ASSUME NEW e \in Endpoint, Close(e) PROVE Next
  BY <1>2 DEF Next
<1>3. ASSUME NEW e \in RosNode, RosStart(e) \/ RosNodeFails(e) PROVE Next
  <2>1. e \in Endpoint /\ TopicOf[e] \in Routable
    OBVIOUS
  <2>2. CASE RosStart(e)
    BY <2>1, <2>2, AdvertisesOrForwards DEF RosStart
  <2>3. CASE RosNodeFails(e)
    BY <1>2, <2>1, <2>3 DEF RosNodeFails
  <2> QED  BY <1>3, <2>2, <2>3
<1>4. ASSUME NEW e \in RosSubscriber, RosSubscriberNext(e) PROVE Next
  <2>1. e \in Endpoint /\ TopicOf[e] \in Routable
    BY DEF RosNode
  <2> QED  BY <1>4, <2>1, AdvertisesOrForwards DEF RosSubscriberNext
<1>5. ASSUME NEW e \in RosPublisher, RosPublisherRecv(e) PROVE [Next]_vars
  <2>1. e \in Endpoint
    BY DEF RosNode
  <2> QED
    BY <1>2, <1>5, <2>1
       DEF RosPublisherRecv, RosPublish, RosPublisherSkip, RosPublisherPanic
<1>6. ASSUME NEW s \in Session,
             SessionStart(s) \/ SessionWrite(s) \/ SessionEnd(s)
      PROVE  [Next]_vars
  <2>1. s \in Endpoint
    OBVIOUS
  <2>2. CASE SessionStart(s)
    <3>1. CASE s \in GatewaySession /\ Advertise(s, SourceName[s])
      <4>1. SourceName[s] \in Routable
        BY <3>1
      <4> QED  BY <2>1, <3>1, <4>1, AdvertisesOrForwards
    <3> QED  BY <2>2, <3>1 DEF SessionStart
  <2> QED  BY <1>2, <1>6, <2>1, <2>2 DEF SessionWrite, SessionEnd
<1>7. ASSUME NEW s \in Session, NEW n \in Routable,
             SessionReadForward(s, n) \/ SessionReadAdvertise(s, n)
      PROVE  Next
  <2>1. s \in Endpoint
    OBVIOUS
  <2> QED
    BY <1>7, <2>1, AdvertisesOrForwards
       DEF SessionReadForward, SessionReadAdvertise
<1>8. ASSUME NEW s \in GatewaySession, FlushTimer(s) PROVE Next
  BY <1>8 DEF FlushTimer, Next
<1>9. CASE UNCHANGED router_vars
  BY <1>9 DEF router_vars
<1> QED
  BY <1>1, <1>3, <1>4, <1>5, <1>6, <1>7, <1>8, <1>9 DEF RouterNext

LEMMA RouterRuns == RouterSpec => Spec
<1>1. RouterInit => Init
  BY DEF RouterInit
<1> QED
  BY <1>1, StepImplements, PTL DEF RouterSpec, Spec

-----------------------------------------------------------------------------
(* What a step does to a publisher's log, to the registrations, and to the *)
(* variables of the tasks.                                                 *)

(* A publisher is registered at most once, and not before it runs.         *)
Unregistered(p) ==
  /\ \A i \in 1 .. Len(channel_rx) : channel_rx[i].channel # p
  /\ \A n \in GDPName : \A i \in 1 .. Len(coonection_rib_table[n]) :
       coonection_rib_table[n][i].channel # p

QueuedOnce(p) ==
  \A i, j \in 1 .. Len(channel_rx) :
    channel_rx[i].channel = p /\ channel_rx[j].channel = p => i = j

EnteredOnce(p) ==
  \A n, k \in GDPName :
    \A i \in 1 .. Len(coonection_rib_table[n]),
       j \in 1 .. Len(coonection_rib_table[k]) :
      /\ coonection_rib_table[n][i].channel = p
      /\ coonection_rib_table[k][j].channel = p
      => n = k /\ i = j

QueuedOrEntered(p) ==
  \A i \in 1 .. Len(channel_rx), n \in GDPName :
    channel_rx[i].channel = p =>
      \A j \in 1 .. Len(coonection_rib_table[n]) :
        coonection_rib_table[n][j].channel # p

RegisteredOnce(p) == QueuedOnce(p) /\ EnteredOnce(p) /\ QueuedOrEntered(p)

OneRegistration ==
  \A p \in RosPublisher :
    RegisteredOnce(p) /\ (p \notin running => Unregistered(p))

(* The log of a publisher is in strict order, and what it has published    *)
(* was read from there.                                                    *)
StrictlyOrdered ==
  \A p \in RosPublisher : \A i, j \in 1 .. Len(m_rx[p]) :
    /\ i < j
    /\ IsForward(m_rx[p][i]) /\ IsForward(m_rx[p][j])
    /\ Origin(m_rx[p][i]) = Origin(m_rx[p][j])
    => Number(m_rx[p][i]) < Number(m_rx[p][j])

PublishedRead ==
  \A p \in RosPublisher : \A i \in 1 .. Len(published[p]) :
    \E k \in 1 .. read[p] :
      IsForward(m_rx[p][k]) /\ m_rx[p][k].payload = published[p][i]

RouterInv ==
  /\ RouterTypeOK /\ OneRegistration
  /\ StrictlyOrdered /\ PublishedRead /\ PublishOnceInOrder

LEMMA PublisherIsEndpoint ==
  ASSUME NEW p \in RosPublisher
  PROVE  /\ p \in Endpoint /\ p \notin Session /\ p \notin FlushSink
         /\ \A e \in Endpoint : NextHop[e] # p
BY RouterAssumption, ConstantsAssumption DEF RosNode

(* A publisher has one registration, so at most one route leads to it.     *)
LEMMA OneRoute ==
  ASSUME TypeOK, NEW p \in RosPublisher, EnteredOnce(p), NEW pkt \in GDPPacket
  PROVE  Cardinality(RoutesTo(p, pkt)) \in {0, 1}
<1>1. pkt.gdpname \in GDPName
  BY DEF GDPPacket
<1>2. \A n \in GDPName :
        DOMAIN coonection_rib_table[n] = 1 .. Len(coonection_rib_table[n])
  BY LenProperties DEF TypeOK
<1>3. ASSUME NEW r \in RoutesTo(p, pkt)
      PROVE  /\ r[1] \in GDPName /\ r = <<r[1], r[2]>>
             /\ r[2] \in 1 .. Len(coonection_rib_table[r[1]])
             /\ coonection_rib_table[r[1]][r[2]].channel = p
  BY <1>1, <1>2 DEF RoutesTo, RoutingDsts
<1>4. \A r, q \in RoutesTo(p, pkt) : r = q
  <2> TAKE r, q \in RoutesTo(p, pkt)
  <2>1. r[1] = q[1] /\ r[2] = q[2]
    BY <1>3 DEF EnteredOnce
  <2>2. r = <<r[1], r[2]>> /\ q = <<q[1], q[2]>>
    BY <1>3
  <2> QED  BY <2>1, <2>2
<1>5. CASE RoutesTo(p, pkt) = {}
  BY <1>5, FS_EmptySet
<1>6. CASE RoutesTo(p, pkt) # {}
  <2>1. PICK r : r \in RoutesTo(p, pkt)
    BY <1>6
  <2>2. RoutesTo(p, pkt) = {r}
    BY <1>4, <2>1
  <2> QED  BY <2>2, FS_Singleton
<1> QED  BY <1>5, <1>6

LEMMA PublisherLogStep ==
  ASSUME TypeOK, OneRegistration, [Next]_vars, NEW p \in RosPublisher
  PROVE  \/ m_rx'[p] = m_rx[p]
         \/ /\ rib_rx # <<>> /\ Head(rib_rx) \in GDPPacket
            /\ m_rx'[p] = Append(m_rx[p], Head(rib_rx))
<1>0. p \in Endpoint /\ m_rx \in [Endpoint -> Seq(GDPPacket)]
  BY PublisherIsEndpoint DEF TypeOK
<1>1. CASE RecvPacket
  <2> DEFINE pkt == Head(rib_rx)
             n == Cardinality(RoutesTo(p, pkt))
  <2>1. pkt \in GDPPacket /\ rib_rx # <<>>
    BY <1>1, HeadTailProperties DEF TypeOK, RecvPacket
  <2>2. n \in {0, 1}
    BY <2>1, OneRoute DEF OneRegistration, RegisteredOnce
  <2>3. m_rx'[p] = IF p \in open THEN m_rx[p] \o [i \in 1 .. n |-> pkt]
                   ELSE m_rx[p]
    BY <1>0, <1>1 DEF RecvPacket, SendToDestination, Copies
  <2>4. m_rx[p] \in Seq(GDPPacket)
    BY <1>0
  <2> HIDE DEF n, pkt
  <2>5. CASE n = 0
    <3>1. [i \in 1 .. n |-> pkt] = <<>>
      BY <2>5
    <3>2. m_rx[p] \o <<>> = m_rx[p]
      BY <2>4
    <3> QED  BY <2>3, <3>1, <3>2
  <2>6. CASE n = 1
    <3>1. [i \in 1 .. n |-> pkt] = <<pkt>>
      BY <2>6
    <3>2. m_rx[p] \o <<pkt>> = Append(m_rx[p], pkt)
      BY <2>1, <2>4
    <3> QED  BY <2>1, <2>3, <3>1, <3>2 DEF pkt
  <2> QED  BY <2>2, <2>5, <2>6
<1>2. CASE RecvStatus
  <2>1. Head(stat_rs) # p
    BY <1>2, PublisherIsEndpoint, HeadTailProperties DEF TypeOK, RecvStatus
  <2> QED  BY <1>0, <1>2, <2>1 DEF RecvStatus, Deliver
<1>3. ASSUME NEW e \in Endpoint, NEW n \in Routable, Forward(e, n)
      PROVE  m_rx'[p] = m_rx[p]
  <2>1. NextHop[e] # p
    BY PublisherIsEndpoint
  <2> QED  BY <1>0, <1>3, <2>1 DEF Forward, ProcForward, Deliver
<1> QED
  BY <1>1, <1>2, <1>3
     DEF Next, RecvPacketOverflow, RecvChannel, Close, RequestFlush, Advertise,
         ProcAdvertise, vars

(* Logs only grow.                                                         *)
LEMMA LogsGrow ==
  ASSUME TypeOK, [Next]_vars, NEW e \in Endpoint
  PROVE  /\ Len(m_rx[e]) \in Nat /\ Len(m_rx'[e]) \in Nat
         /\ Len(m_rx[e]) <= Len(m_rx'[e])
         /\ \A i \in 1 .. Len(m_rx[e]) : m_rx'[e][i] = m_rx[e][i]
<1>1. PICK pkts : GrowsBy(e, pkts)
  BY LogStep
<1>2. Len(m_rx[e]) \in Nat /\ Len(m_rx'[e]) \in Nat
  BY <1>1, LenProperties DEF GrowsBy, TypeOK
<1> QED  BY <1>1, <1>2 DEF GrowsBy

(* Only RosStart registers a publisher.                                    *)
LEMMA RegistrationStep ==
  ASSUME TypeOK, [RouterNext]_router_vars
  PROVE  \/ /\ UNCHANGED <<channel_rx, coonection_rib_table>>
            /\ running \subseteq running'
         \/ RecvPacketOverflow /\ running' = running
         \/ RecvChannel /\ running' = running
         \/ \E e \in Endpoint, c \in GDPChannel :
              /\ channel_rx' = Append(channel_rx, c) /\ c.channel = e
              /\ coonection_rib_table' = coonection_rib_table
              /\ running \subseteq running'
              /\ e \in RosPublisher => e \notin running /\ e \in running'
<1> USE RouterAssumption
<1>1. ASSUME NEW e \in Endpoint, NEW n \in Routable, Advertise(e, n)
      PROVE  \/ UNCHANGED <<channel_rx, coonection_rib_table>>
             \/ \E c \in GDPChannel :
                  /\ channel_rx' = Append(channel_rx, c) /\ c.channel = e
                  /\ coonection_rib_table' = coonection_rib_table
  <2> DEFINE pkt == construct_gdp_advertisement_from_bytes(n, SourceName[e])
             c == [gdpname |-> n, channel |-> e, advertisement |-> pkt]
  <2>1. c \in GDPChannel /\ c.channel = e
    BY ConstantsAssumption, PacketTypes DEF GDPChannel
  <2>2. coonection_rib_table' = coonection_rib_table
    BY <1>1 DEF Advertise
  <2>3. channel_rx' = Append(channel_rx, c) \/ channel_rx' = channel_rx
    BY <1>1 DEF Advertise, ProcAdvertise, construct_gdp_advertisement_from_bytes
  <2> HIDE DEF c
  <2> QED  BY <2>1, <2>2, <2>3
<1>2. ASSUME NEW e \in RosNode, RosStart(e)
      PROVE  \/ /\ UNCHANGED <<channel_rx, coonection_rib_table>>
                /\ running \subseteq running'
             \/ \E c \in GDPChannel :
                  /\ channel_rx' = Append(channel_rx, c) /\ c.channel = e
                  /\ coonection_rib_table' = coonection_rib_table
                  /\ running \subseteq running'
                  /\ e \notin running /\ e \in running'
  <2>1. e \in Endpoint /\ TopicOf[e] \in Routable /\ Advertise(e, TopicOf[e])
    BY <1>2 DEF RosStart
  <2>2. running \subseteq running' /\ e \notin running /\ e \in running'
    BY <1>2 DEF RosStart
  <2> QED  BY <1>1, <2>1, <2>2
<1>3. ASSUME NEW s \in Session, NEW n \in Routable, Advertise(s, n),
             running \subseteq running'
      PROVE  \/ /\ UNCHANGED <<channel_rx, coonection_rib_table>>
                /\ running \subseteq running'
             \/ \E e \in Endpoint, c \in GDPChannel :
                  /\ channel_rx' = Append(channel_rx, c) /\ c.channel = e
                  /\ coonection_rib_table' = coonection_rib_table
                  /\ running \subseteq running'
                  /\ e \in RosPublisher => e \notin running /\ e \in running'
  <2>1. s \in Endpoint /\ s \notin RosPublisher
    BY DEF RosNode
  <2> QED  BY <1>1, <1>3, <2>1
<1>4. ASSUME NEW s \in Session, SessionStart(s)
      PROVE  \/ UNCHANGED <<channel_rx, coonection_rib_table>>
             \/ \E n \in Routable : Advertise(s, n)
  <2>1. CASE s \in GatewaySession /\ Advertise(s, SourceName[s])
    BY <2>1
  <2> QED  BY <1>4, <2>1 DEF SessionStart, vars, queues
<1>5. ASSUME NEW s \in Session, SessionStart(s) PROVE running \subseteq running'
  BY <1>5 DEF SessionStart
<1>6. ASSUME NEW s \in Session, NEW n \in Routable, SessionReadAdvertise(s, n)
      PROVE  Advertise(s, n) /\ running' = running
  BY <1>6 DEF SessionReadAdvertise, tasks
<1>7. \/ \E e \in RosNode : RosStart(e)
      \/ \E s \in Session : SessionStart(s)
      \/ \E s \in Session, n \in Routable : SessionReadAdvertise(s, n)
      \/ RecvPacketOverflow /\ running' = running
      \/ RecvChannel /\ running' = running
      \/ UNCHANGED <<channel_rx, coonection_rib_table, running>>
  <2>1. \A e : Close(e) => UNCHANGED <<channel_rx, coonection_rib_table>>
    BY DEF Close, queues
  <2>2. UNCHANGED vars => UNCHANGED <<channel_rx, coonection_rib_table>>
    BY DEF vars, queues
  <2>3. \A e, n : Forward(e, n) => UNCHANGED <<channel_rx, coonection_rib_table>>
    BY DEF Forward, ProcForward
  <2>4. /\ RecvPacket => UNCHANGED <<channel_rx, coonection_rib_table>>
        /\ RecvStatus => UNCHANGED <<channel_rx, coonection_rib_table>>
        /\ \A e : RequestFlush(e) => UNCHANGED <<channel_rx, coonection_rib_table>>
    BY DEF RecvPacket, RecvStatus, RequestFlush
  <2>5. UNCHANGED tasks => running' = running
    BY DEF tasks
  <2> QED
    BY <2>1, <2>2, <2>3, <2>4, <2>5
       DEF RouterNext, router_vars, RosNodeFails, RosSubscriberNext,
           RosPublisherRecv, RosPublish, RosPublisherSkip, RosPublisherPanic,
           SessionWrite, SessionEnd, SessionReadForward, FlushTimer
<1> QED  BY <1>2, <1>3, <1>4, <1>5, <1>6, <1>7

(* Only receiving moves a reader, and only RosPublish publishes.           *)
LEMMA TaskStep ==
  ASSUME [RouterNext]_router_vars
  PROVE  \/ UNCHANGED <<read, published>>
         \/ \E e \in Endpoint :
              /\ TakeOne(e) /\ m_rx' = m_rx
              /\ \/ published' = published
                 \/ /\ e \in RosPublisher /\ IsForTopic(e, Received(e))
                    /\ published' =
                         [published EXCEPT
                            ![e] = Append(@, Received(e).payload)]
<1>1. RosPublisher \subseteq Endpoint /\ Session \subseteq Endpoint
  BY RouterAssumption DEF RosNode
<1>2. UNCHANGED tasks => UNCHANGED <<read, published>>
  BY DEF tasks
<1>3. ASSUME NEW e \in RosPublisher, RosPublisherRecv(e)
      PROVE  /\ TakeOne(e) /\ m_rx' = m_rx
             /\ \/ published' = published
                \/ /\ IsForTopic(e, Received(e))
                   /\ published' =
                        [published EXCEPT ![e] = Append(@, Received(e).payload)]
  BY <1>3 DEF RosPublisherRecv, RosPublish, RosPublisherSkip,
              RosPublisherPanic, Close, vars
<1>4. ASSUME NEW s \in Session, SessionWrite(s)
      PROVE  TakeOne(s) /\ m_rx' = m_rx /\ published' = published
  BY <1>4 DEF SessionWrite, vars
<1>5. \/ UNCHANGED <<read, published>>
      \/ \E e \in RosPublisher : RosPublisherRecv(e)
      \/ \E s \in Session : SessionWrite(s)
  BY <1>2 DEF RouterNext, router_vars, RosStart, RosNodeFails,
     RosSubscriberNext, SessionStart, SessionEnd, SessionReadForward,
     SessionReadAdvertise, FlushTimer
<1> QED  BY <1>1, <1>3, <1>4, <1>5

-----------------------------------------------------------------------------
(* The parts of the invariant                                              *)

LEMMA RouterTypeInductive ==
  TypeOK /\ RouterTypeOK /\ [RouterNext]_router_vars => RouterTypeOK'
<1> SUFFICES ASSUME TypeOK, RouterTypeOK, [RouterNext]_router_vars
             PROVE  RouterTypeOK'
  OBVIOUS
<1>1. [Next]_vars
  BY StepImplements
<1>2. running' \subseteq Endpoint
  <2>1. RosNode \subseteq Endpoint /\ Session \subseteq Endpoint
    BY RouterAssumption
  <2>2. \/ running' = running
        \/ \E e \in Endpoint : running' = running \cup {e}
    BY <2>1 DEF RouterNext, router_vars, tasks, RosStart, RosNodeFails,
       RosSubscriberNext, RosPublisherRecv, RosPublish, RosPublisherSkip,
       RosPublisherPanic, SessionStart, SessionWrite, SessionEnd,
       SessionReadForward, SessionReadAdvertise, FlushTimer
  <2> QED  BY <2>2 DEF RouterTypeOK
<1>3. CASE UNCHANGED <<read, published>>
  <2>1. \A e \in Endpoint : read'[e] <= Len(m_rx'[e])
    <3> TAKE e \in Endpoint
    <3>1. /\ Len(m_rx[e]) \in Nat /\ Len(m_rx'[e]) \in Nat
          /\ Len(m_rx[e]) <= Len(m_rx'[e])
      BY <1>1, LogsGrow
    <3> QED  BY <1>3, <3>1 DEF RouterTypeOK
  <2> QED  BY <1>2, <1>3, <2>1 DEF RouterTypeOK
<1>4. ASSUME NEW e \in Endpoint, TakeOne(e), m_rx' = m_rx,
             \/ published' = published
             \/ /\ e \in RosPublisher /\ IsForTopic(e, Received(e))
                /\ published' =
                     [published EXCEPT ![e] = Append(@, Received(e).payload)]
      PROVE  RouterTypeOK'
  <2>1. read[e] \in Nat /\ Len(m_rx[e]) \in Nat /\ read[e] + 1 <= Len(m_rx[e])
    BY <1>4, LenProperties DEF TypeOK, RouterTypeOK, TakeOne
  <2>2. read' \in [Endpoint -> Nat]
        /\ \A x \in Endpoint : read'[x] <= Len(m_rx'[x])
    BY <1>4, <2>1 DEF RouterTypeOK, TakeOne
  <2>3. Received(e) \in GDPPacket
    <3>1. read[e] + 1 \in 1 .. Len(m_rx[e]) /\ m_rx[e] \in Seq(GDPPacket)
      BY <2>1 DEF TypeOK
    <3> QED  BY <3>1, ElementOfSeq DEF Received
  <2>4. ASSUME e \in RosPublisher, IsForTopic(e, Received(e)),
               published' =
                 [published EXCEPT ![e] = Append(@, Received(e).payload)]
        PROVE  published' \in [RosPublisher -> Seq(Payload)]
    <3>1. Received(e).payload \in Payload
      BY <2>3, <2>4 DEF IsForTopic, IsForward, GDPPacket
    <3>2. published[e] \in Seq(Payload)
      BY <2>4 DEF RouterTypeOK
    <3>3. Append(published[e], Received(e).payload) \in Seq(Payload)
      BY <3>1, <3>2, AppendProperties
    <3> QED  BY <2>4, <3>3 DEF RouterTypeOK
  <2> QED  BY <1>2, <1>4, <2>2, <2>4 DEF RouterTypeOK
<1> QED  BY <1>3, <1>4, TaskStep

LEMMA OneRegistrationInductive ==
  TypeOK /\ OneRegistration /\ [RouterNext]_router_vars => OneRegistration'
<1> SUFFICES ASSUME TypeOK, OneRegistration, [RouterNext]_router_vars,
                    NEW p \in RosPublisher
             PROVE  RegisteredOnce(p)' /\ (p \notin running' => Unregistered(p)')
  BY DEF OneRegistration
<1>0. RegisteredOnce(p) /\ (p \notin running => Unregistered(p))
  BY DEF OneRegistration
<1>t. /\ channel_rx \in Seq(GDPChannel) /\ Len(channel_rx) \in Nat
      /\ coonection_rib_table \in [GDPName -> Seq(GDPChannel)]
      /\ \A n \in GDPName : Len(coonection_rib_table[n]) \in Nat
  BY LenProperties DEF TypeOK
<1>1. CASE UNCHANGED <<channel_rx, coonection_rib_table>>
           /\ running \subseteq running'
  BY <1>0, <1>1 DEF RegisteredOnce, QueuedOnce, EnteredOnce, QueuedOrEntered,
                    Unregistered
<1>2. CASE RecvPacketOverflow
  <2>1. channel_rx' = <<>> /\ coonection_rib_table' = [n \in GDPName |-> <<>>]
    BY <1>2 DEF RecvPacketOverflow
  <2> QED  BY <2>1 DEF RegisteredOnce, QueuedOnce, EnteredOnce,
                       QueuedOrEntered, Unregistered
(* The head of the queue moves to the end of its entry.                    *)
<1>3. CASE RecvChannel /\ running' = running
  <2> DEFINE c == Head(channel_rx)
             old == coonection_rib_table
             new == coonection_rib_table'
  <2>1. channel_rx # <<>> /\ channel_rx' = Tail(channel_rx)
    BY <1>3 DEF RecvChannel
  <2>2. /\ c \in GDPChannel /\ c = channel_rx[1] /\ 1 \in 1 .. Len(channel_rx)
        /\ Len(channel_rx') = Len(channel_rx) - 1
        /\ \A i \in 1 .. Len(channel_rx') : channel_rx'[i] = channel_rx[i + 1]
    BY <1>t, <2>1, HeadTailProperties
  <2>3. c.gdpname \in GDPName
    BY <2>2 DEF GDPChannel
  <2>4. new = [old EXCEPT ![c.gdpname] = Append(old[c.gdpname], c)]
    BY <1>3 DEF RecvChannel
  <2>5. /\ Len(Append(old[c.gdpname], c)) = Len(old[c.gdpname]) + 1
        /\ Append(old[c.gdpname], c)[Len(old[c.gdpname]) + 1] = c
        /\ \A i \in 1 .. Len(old[c.gdpname]) :
             Append(old[c.gdpname], c)[i] = old[c.gdpname][i]
    <3>1. old[c.gdpname] \in Seq(GDPChannel)
      BY <1>t, <2>3
    <3> HIDE DEF c, old
    <3> QED  BY <2>2, <3>1, AppendProperties
  <2>6. \A n \in GDPName : \A i \in 1 .. Len(new[n]) :
          \/ i \in 1 .. Len(old[n]) /\ new[n][i] = old[n][i]
          \/ n = c.gdpname /\ i = Len(old[n]) + 1 /\ new[n][i] = c
    <3> HIDE DEF c, old, new
    <3> TAKE n \in GDPName
    <3> TAKE i \in 1 .. Len(new[n])
    <3>1. old \in [GDPName -> Seq(GDPChannel)] /\ Len(old[n]) \in Nat
      BY <1>t DEF old
    <3>2. CASE n = c.gdpname
      <4>1. new[n] = Append(old[n], c)
        BY <2>3, <2>4, <3>1, <3>2
      <4>2. i \in 1 .. Len(old[n]) \/ i = Len(old[n]) + 1
        BY <2>5, <3>1, <3>2, <4>1
      <4> QED  BY <2>5, <3>2, <4>1, <4>2
    <3>3. CASE n # c.gdpname
      BY <2>3, <2>4, <3>1, <3>3
    <3> QED  BY <3>2, <3>3
  <2>7. \A i \in 1 .. Len(channel_rx') :
          /\ i + 1 \in 1 .. Len(channel_rx) /\ i + 1 # 1
          /\ channel_rx'[i] = channel_rx[i + 1]
    BY <1>t, <2>2
  <2>q. QueuedOnce(p)'
    BY <1>0, <2>7 DEF RegisteredOnce, QueuedOnce
  <2> HIDE DEF c, old, new
  <2>8. CASE c.channel = p
    <3>1. \A n \in GDPName : \A i \in 1 .. Len(old[n]) : old[n][i].channel # p
      BY <1>0, <2>2, <2>8 DEF RegisteredOnce, QueuedOrEntered, old
    <3>2. \A i \in 1 .. Len(channel_rx') : channel_rx'[i].channel # p
      BY <1>0, <2>2, <2>7, <2>8 DEF RegisteredOnce, QueuedOnce
    <3>3. \A n \in GDPName : \A i \in 1 .. Len(new[n]) :
            new[n][i].channel = p => n = c.gdpname /\ i = Len(old[n]) + 1
      BY <2>6, <3>1
    <3>4. EnteredOnce(p)' /\ QueuedOrEntered(p)'
      BY <3>2, <3>3 DEF EnteredOnce, QueuedOrEntered, new
    <3>5. p \in running
      BY <1>0, <2>2, <2>8 DEF Unregistered
    <3> QED  BY <1>3, <2>q, <3>4, <3>5 DEF RegisteredOnce
  <2>9. CASE c.channel # p
    <3>1. \A n \in GDPName : \A i \in 1 .. Len(new[n]) :
            new[n][i].channel = p =>
              i \in 1 .. Len(old[n]) /\ old[n][i].channel = p
      BY <2>6, <2>9
    <3>2. EnteredOnce(p)'
      BY <1>0, <3>1 DEF RegisteredOnce, EnteredOnce, old, new
    <3>3. QueuedOrEntered(p)'
      BY <1>0, <2>7, <3>1 DEF RegisteredOnce, QueuedOrEntered, old, new
    <3>4. Unregistered(p) => Unregistered(p)'
      BY <2>7, <3>1 DEF Unregistered, old, new
    <3> QED  BY <1>0, <1>3, <2>q, <3>2, <3>3, <3>4 DEF RegisteredOnce
  <2> QED  BY <2>8, <2>9
<1>4. ASSUME NEW e \in Endpoint, NEW c \in GDPChannel,
             channel_rx' = Append(channel_rx, c), c.channel = e,
             coonection_rib_table' = coonection_rib_table,
             running \subseteq running',
             e \in RosPublisher => e \notin running /\ e \in running'
      PROVE  RegisteredOnce(p)' /\ (p \notin running' => Unregistered(p)')
  <2>1. \A i \in 1 .. Len(channel_rx') :
          \/ i \in 1 .. Len(channel_rx) /\ channel_rx'[i] = channel_rx[i]
          \/ i = Len(channel_rx) + 1 /\ channel_rx'[i] = c
    <3>1. /\ Len(channel_rx') = Len(channel_rx) + 1
          /\ channel_rx'[Len(channel_rx) + 1] = c
          /\ \A i \in 1 .. Len(channel_rx) : channel_rx'[i] = channel_rx[i]
      BY <1>t, <1>4, AppendProperties
    <3> QED  BY <1>t, <3>1
  <2>2. CASE e = p
    <3>1. Unregistered(p) /\ p \in running'
      BY <1>0, <1>4, <2>2
    <3>2. \A i \in 1 .. Len(channel_rx') :
            channel_rx'[i].channel = p => i = Len(channel_rx) + 1
      BY <2>1, <3>1 DEF Unregistered
    <3> QED
      BY <1>4, <3>1, <3>2 DEF Unregistered, RegisteredOnce, QueuedOnce,
                              EnteredOnce, QueuedOrEntered
  <2>3. CASE e # p
    <3>1. \A i \in 1 .. Len(channel_rx') : channel_rx'[i].channel = p =>
            i \in 1 .. Len(channel_rx) /\ channel_rx[i].channel = p
      BY <1>4, <2>1, <2>3
    <3> QED
      BY <1>0, <1>4, <3>1 DEF Unregistered, RegisteredOnce, QueuedOnce,
                              EnteredOnce, QueuedOrEntered
  <2> QED  BY <2>2, <2>3
<1> QED  BY <1>1, <1>2, <1>3, <1>4, RegistrationStep

(* A packet that reaches a publisher's log comes from the head of the      *)
(* queue, and whatever the log holds of its origin is older.               *)
LEMMA StrictlyOrderedInductive ==
  /\ TypeOK /\ OrderInv /\ OneRegistration /\ StrictlyOrdered /\ [Next]_vars
  => StrictlyOrdered'
<1> SUFFICES ASSUME TypeOK, OrderInv, OneRegistration, StrictlyOrdered,
                    [Next]_vars, NEW p \in RosPublisher,
                    NEW i \in 1 .. Len(m_rx'[p]), NEW j \in 1 .. Len(m_rx'[p]),
                    i < j,
                    IsForward(m_rx'[p][i]), IsForward(m_rx'[p][j]),
                    Origin(m_rx'[p][i]) = Origin(m_rx'[p][j])
             PROVE  Number(m_rx'[p][i]) < Number(m_rx'[p][j])
  BY DEF StrictlyOrdered, IsForward, Origin, Number
<1>1. p \in Endpoint /\ m_rx[p] \in Seq(GDPPacket) /\ Len(m_rx[p]) \in Nat
  BY PublisherIsEndpoint, LenProperties DEF TypeOK
<1>2. CASE m_rx'[p] = m_rx[p]
  BY <1>2 DEF StrictlyOrdered, IsForward, Origin, Number
<1>3. CASE /\ rib_rx # <<>> /\ Head(rib_rx) \in GDPPacket
           /\ m_rx'[p] = Append(m_rx[p], Head(rib_rx))
  <2>1. /\ Len(m_rx'[p]) = Len(m_rx[p]) + 1
        /\ m_rx'[p][Len(m_rx[p]) + 1] = Head(rib_rx)
        /\ \A k \in 1 .. Len(m_rx[p]) : m_rx'[p][k] = m_rx[p][k]
    BY <1>1, <1>3, AppendProperties
  <2>2. i \in 1 .. Len(m_rx[p]) /\ m_rx'[p][i] = m_rx[p][i]
    BY <1>1, <2>1
  <2>3. CASE j \in 1 .. Len(m_rx[p])
    <3>1. m_rx'[p][j] = m_rx[p][j]
      BY <2>1, <2>3
    <3> QED  BY <2>2, <2>3, <3>1 DEF StrictlyOrdered, IsForward, Origin, Number
  <2>4. CASE j \notin 1 .. Len(m_rx[p])
    <3>1. m_rx'[p][j] = Head(rib_rx)
      BY <1>1, <2>1, <2>4
    <3>2. Head(rib_rx) = rib_rx[1] /\ 1 \in 1 .. Len(rib_rx)
      BY <1>3, HeadTailProperties, LenProperties DEF TypeOK
    <3> QED
      BY <1>1, <2>2, <3>1, <3>2
         DEF OrderInv, LogBehind, IsForward, Origin, Number
  <2> QED  BY <2>3, <2>4
<1> QED  BY <1>2, <1>3, PublisherLogStep

LEMMA PublishedReadInductive ==
  /\ TypeOK /\ RouterTypeOK /\ PublishedRead /\ [RouterNext]_router_vars
  => PublishedRead'
<1> SUFFICES ASSUME TypeOK, RouterTypeOK, PublishedRead,
                    [RouterNext]_router_vars,
                    NEW p \in RosPublisher, NEW i \in 1 .. Len(published'[p])
             PROVE  \E k \in 1 .. read'[p] :
                      /\ IsForward(m_rx'[p][k])
                      /\ m_rx'[p][k].payload = published'[p][i]
  BY DEF PublishedRead, IsForward
<1>1. /\ p \in Endpoint /\ read \in [Endpoint -> Nat] /\ read[p] \in Nat
      /\ read[p] <= Len(m_rx[p]) /\ Len(m_rx[p]) \in Nat
      /\ published[p] \in Seq(Payload) /\ Len(published[p]) \in Nat
  BY PublisherIsEndpoint, LenProperties DEF TypeOK, RouterTypeOK
<1>2. \A k \in 1 .. Len(m_rx[p]) : m_rx'[p][k] = m_rx[p][k]
  BY <1>1, StepImplements, LogsGrow
(* What has been published before is still in the part that has been read. *)
<1>3. ASSUME read[p] <= read'[p], read'[p] \in Nat,
             i \in 1 .. Len(published[p]), published'[p][i] = published[p][i]
      PROVE  \E k \in 1 .. read'[p] :
               /\ IsForward(m_rx'[p][k])
               /\ m_rx'[p][k].payload = published'[p][i]
  <2>1. PICK k \in 1 .. read[p] :
          IsForward(m_rx[p][k]) /\ m_rx[p][k].payload = published[p][i]
    BY <1>3 DEF PublishedRead
  <2>2. k \in 1 .. read'[p] /\ m_rx'[p][k] = m_rx[p][k]
    BY <1>1, <1>2, <1>3, <2>1
  <2> QED  BY <1>3, <2>1, <2>2 DEF IsForward
<1>4. CASE UNCHANGED <<read, published>>
  BY <1>1, <1>3, <1>4
<1>5. ASSUME NEW e \in Endpoint, TakeOne(e), m_rx' = m_rx,
             \/ published' = published
             \/ /\ e \in RosPublisher /\ IsForTopic(e, Received(e))
                /\ published' =
                     [published EXCEPT ![e] = Append(@, Received(e).payload)]
      PROVE  \E k \in 1 .. read'[p] :
               /\ IsForward(m_rx'[p][k])
               /\ m_rx'[p][k].payload = published'[p][i]
  <2>1. /\ read'[p] \in Nat /\ read[p] <= read'[p]
        /\ e = p => read'[p] = read[p] + 1
    BY <1>1, <1>5 DEF TakeOne
  <2>2. CASE published'[p] = published[p]
    BY <1>3, <2>1, <2>2
  <2>3. CASE published'[p] # published[p]
    <3>1. /\ e = p /\ IsForTopic(p, Received(p))
          /\ published'[p] = Append(published[p], Received(p).payload)
      BY <1>5, <2>3 DEF RouterTypeOK
    <3>2. Received(p) = m_rx'[p][read[p] + 1] /\ read[p] + 1 \in 1 .. read'[p]
      BY <1>1, <1>5, <2>1, <3>1 DEF Received
    <3>3. Received(p).payload \in Payload
      <4>1. read[p] + 1 \in 1 .. Len(m_rx[p]) /\ m_rx[p] \in Seq(GDPPacket)
        BY <1>1, <1>5, <3>1 DEF TypeOK, TakeOne
      <4>2. Received(p) \in GDPPacket
        BY <4>1, ElementOfSeq DEF Received
      <4> QED  BY <3>1, <4>2 DEF IsForTopic, IsForward, GDPPacket
    <3>4. /\ Len(published'[p]) = Len(published[p]) + 1
          /\ published'[p][Len(published[p]) + 1] = Received(p).payload
          /\ \A k \in 1 .. Len(published[p]) : published'[p][k] = published[p][k]
      BY <1>1, <3>1, <3>3, AppendProperties
    <3>5. CASE i \in 1 .. Len(published[p])
      BY <1>3, <2>1, <3>4, <3>5
    <3>6. CASE i \notin 1 .. Len(published[p])
      <4>1. published'[p][i] = Received(p).payload
        BY <1>1, <3>4, <3>6
      <4> QED  BY <3>1, <3>2, <4>1 DEF IsForTopic, IsForward
    <3> QED  BY <3>5, <3>6
  <2> QED  BY <2>2, <2>3
<1> QED  BY <1>4, <1>5, TaskStep

LEMMA PublishOnceInductive ==
  /\ TypeOK /\ RouterTypeOK /\ StrictlyOrdered /\ PublishedRead
  /\ PublishOnceInOrder /\ [RouterNext]_router_vars
  => PublishOnceInOrder'
<1> SUFFICES ASSUME TypeOK, RouterTypeOK, StrictlyOrdered, PublishedRead,
                    PublishOnceInOrder, [RouterNext]_router_vars,
                    NEW p \in RosPublisher,
                    NEW i \in DOMAIN published'[p],
                    NEW j \in DOMAIN published'[p],
                    i < j, published'[p][i][1] = published'[p][j][1]
             PROVE  published'[p][i][2] < published'[p][j][2]
  BY DEF PublishOnceInOrder
<1>1. /\ p \in Endpoint /\ read[p] \in Nat
      /\ m_rx[p] \in Seq(GDPPacket) /\ Len(m_rx[p]) \in Nat
      /\ published[p] \in Seq(Payload) /\ Len(published[p]) \in Nat
      /\ DOMAIN published[p] = 1 .. Len(published[p])
  BY PublisherIsEndpoint, LenProperties DEF TypeOK, RouterTypeOK
<1>2. CASE published'[p] = published[p]
  BY <1>2 DEF PublishOnceInOrder
<1>3. CASE published'[p] # published[p]
  <2>1. /\ TakeOne(p) /\ IsForTopic(p, Received(p))
        /\ published'[p] = Append(published[p], Received(p).payload)
    BY <1>3, TaskStep DEF RouterTypeOK
  <2>2. read[p] + 1 \in 1 .. Len(m_rx[p]) /\ Received(p) = m_rx[p][read[p] + 1]
    BY <1>1, <2>1 DEF TakeOne, Received
  <2>3. Received(p).payload \in Payload
    <3>1. Received(p) \in GDPPacket
      BY <1>1, <2>2, ElementOfSeq
    <3> QED  BY <2>1, <3>1 DEF IsForTopic, IsForward, GDPPacket
  <2>4. /\ DOMAIN published'[p] = 1 .. Len(published[p]) + 1
        /\ published'[p][Len(published[p]) + 1] = Received(p).payload
        /\ \A k \in 1 .. Len(published[p]) : published'[p][k] = published[p][k]
    BY <1>1, <2>1, <2>3, AppendProperties, LenProperties
  <2>5. i \in 1 .. Len(published[p]) /\ published'[p][i] = published[p][i]
    BY <1>1, <2>4
  <2>6. CASE j \in 1 .. Len(published[p])
    BY <1>1, <2>4, <2>5, <2>6 DEF PublishOnceInOrder
  <2>7. CASE j \notin 1 .. Len(published[p])
    <3>1. published'[p][j] = m_rx[p][read[p] + 1].payload
      BY <1>1, <2>2, <2>4, <2>7
    <3>2. PICK k \in 1 .. read[p] :
            IsForward(m_rx[p][k]) /\ m_rx[p][k].payload = published[p][i]
      BY <2>5 DEF PublishedRead
    <3>3. k \in 1 .. Len(m_rx[p]) /\ k < read[p] + 1
      BY <1>1, <2>2, <3>2
    <3>4. IsForward(m_rx[p][read[p] + 1])
      BY <2>1, <2>2 DEF IsForTopic
    <3> QED
      BY <2>2, <2>5, <3>1, <3>2, <3>3, <3>4 DEF StrictlyOrdered, Origin, Number
  <2> QED  BY <2>6, <2>7
<1> QED  BY <1>2, <1>3

-----------------------------------------------------------------------------
LEMMA RouterInitInv == RouterInit => TypeOK /\ OrderInv /\ RouterInv
<1> SUFFICES ASSUME RouterInit PROVE TypeOK /\ OrderInv /\ RouterInv
  OBVIOUS
<1>1. Init
  BY DEF RouterInit
<1>2. TypeOK /\ OrderInv
  BY <1>1, TypeInit, OrderInit
<1>3. published \in [RosPublisher -> Seq(Payload)]
  BY EmptySeq DEF RouterInit
<1>4. RouterTypeOK
  BY <1>1, <1>3 DEF RouterInit, RouterTypeOK, Init
<1>5. OneRegistration
  BY <1>1 DEF Init, OneRegistration, RegisteredOnce, QueuedOnce, EnteredOnce,
              QueuedOrEntered, Unregistered
<1>6. StrictlyOrdered
  BY <1>1, PublisherIsEndpoint DEF Init, StrictlyOrdered
<1>7. PublishedRead /\ PublishOnceInOrder
  BY DEF RouterInit, PublishedRead, PublishOnceInOrder
<1> QED  BY <1>2, <1>4, <1>5, <1>6, <1>7 DEF RouterInv

LEMMA RouterInvariant == RouterSpec => [](TypeOK /\ OrderInv /\ RouterInv)
<1>1. /\ TypeOK /\ OrderInv /\ RouterInv /\ [RouterNext]_router_vars
      => (TypeOK /\ OrderInv /\ RouterInv)'
  <2> SUFFICES ASSUME TypeOK, OrderInv, RouterInv, [RouterNext]_router_vars
               PROVE  (TypeOK /\ OrderInv /\ RouterInv)'
    OBVIOUS
  <2>1. [Next]_vars
    BY StepImplements
  <2>2. TypeOK' /\ OrderInv'
    BY <2>1, TypeInductive, OrderInductive
  <2> QED
    BY <2>1, <2>2, RouterTypeInductive, OneRegistrationInductive,
       StrictlyOrderedInductive, PublishedReadInductive, PublishOnceInductive
       DEF RouterInv
<1> QED  BY <1>1, RouterInitInv, PTL DEF RouterSpec

(* The tasks' variables keep their types; no task reads past the end of    *)
(* its channel.                                                            *)
THEOREM RouterTypeCorrect == RouterSpec => []RouterTypeOK
<1>1. RouterInv => RouterTypeOK
  BY DEF RouterInv
<1> QED  BY <1>1, RouterInvariant, PTL

(* A publisher publishes each packet at most once and those of one origin  *)
(* in order, for every set of tasks, names and topics: it advertises once, *)
(* before its loop, and the RIB sends one copy per registration.           *)
THEOREM PublishedOnce == RouterSpec => []PublishOnceInOrder
<1>1. RouterInv => PublishOnceInOrder
  BY DEF RouterInv
<1> QED  BY <1>1, RouterInvariant, PTL

(* No task of a router is ever sent its own packets, and each sees those   *)
(* of one origin in order.                                                 *)
THEOREM RouterDelivers == RouterSpec => [](NoEcho /\ InOrder)
BY RouterRuns, SplitHorizon, FifoPerOrigin, PTL
=============================================================================

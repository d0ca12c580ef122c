------------------------ MODULE ConnectionRibProofs ------------------------
(* Theorems about ConnectionRib, for every set of endpoints and names, and *)
(* every value of the bounds.                                              *)
EXTENDS ConnectionRib, FiniteSetTheorems, SequenceTheorems, TLAPS

-----------------------------------------------------------------------------
(* What a step does to an endpoint's log: it keeps the log as a prefix and *)
(* adds packets that satisfy a condition.                                  *)

GrowsBy(e, pkts) ==
  /\ m_rx'[e] \in Seq(GDPPacket)
  /\ Len(m_rx[e]) <= Len(m_rx'[e])
  /\ \A i \in 1 .. Len(m_rx[e]) : m_rx'[e][i] = m_rx[e][i]
  /\ \A i \in Len(m_rx[e]) + 1 .. Len(m_rx'[e]) : m_rx'[e][i] \in pkts

(* The routes of a packet are finitely many, as names are.                 *)
Table == UNION {{n} \X DOMAIN coonection_rib_table[n] : n \in GDPName}

LEMMA TableFinite ==
  ASSUME TypeOK
  PROVE  IsFiniteSet(Table)
<1> DEFINE Pairs == [n \in GDPName |-> {n} \X DOMAIN coonection_rib_table[n]]
           Img == {Pairs[n] : n \in GDPName}
<1>1. \A n \in GDPName : IsFiniteSet(Pairs[n])
  <2> TAKE n \in GDPName
  <2>1. coonection_rib_table[n] \in Seq(GDPChannel)
    BY DEF TypeOK
  <2>2. DOMAIN coonection_rib_table[n] = 1 .. Len(coonection_rib_table[n])
        /\ Len(coonection_rib_table[n]) \in Nat
    BY <2>1, LenProperties
  <2>3. IsFiniteSet(DOMAIN coonection_rib_table[n])
    BY <2>2, FS_Interval
  <2>4. IsFiniteSet({n})
    BY FS_Singleton
  <2> QED  BY <2>3, <2>4, FS_Product
<1>2. IsFiniteSet(Img)
  <2>1. Pairs \in Surjection(GDPName, Img)
    BY DEF Surjection
  <2> HIDE DEF Pairs, Img
  <2> QED  BY <2>1, ConstantsAssumption, FS_Surjection
<1>3. IsFiniteSet(UNION Img)
  <2>1. \A T \in Img : IsFiniteSet(T)
    BY <1>1
  <2> HIDE DEF Img
  <2> QED  BY <1>2, <2>1, FS_UNION
<1>4. Table \in SUBSET (UNION Img)
  BY DEF Table
<1> HIDE DEF Img
<1> QED  BY <1>3, <1>4, FS_Subset

LEMMA RoutesFinite ==
  ASSUME TypeOK, NEW pkt \in GDPPacket, NEW e \in Endpoint
  PROVE  /\ IsFiniteSet(RoutesTo(e, pkt))
         /\ Cardinality(RoutesTo(e, pkt)) \in Nat
<1>1. pkt.gdpname \in GDPName
  BY DEF GDPPacket
<1>2. RoutesTo(e, pkt) \in SUBSET Table
  BY <1>1 DEF RoutesTo, RoutingDsts, Table
<1> QED  BY <1>2, TableFinite, FS_Subset, FS_CardinalityType

LEMMA ConcatGrows ==
  ASSUME TypeOK, NEW e \in Endpoint, NEW pkts, NEW q \in Seq(GDPPacket),
         \A i \in 1 .. Len(q) : q[i] \in pkts,
         m_rx'[e] = m_rx[e] \o q
  PROVE  GrowsBy(e, pkts)
<1>1. m_rx[e] \in Seq(GDPPacket)
  BY DEF TypeOK
<1>2. Len(m_rx[e]) \in Nat /\ Len(q) \in Nat
  BY <1>1, LenProperties
<1>3. /\ m_rx'[e] \in Seq(GDPPacket)
      /\ Len(m_rx'[e]) = Len(m_rx[e]) + Len(q)
      /\ \A i \in 1 .. Len(m_rx[e]) + Len(q) :
           m_rx'[e][i] = IF i <= Len(m_rx[e]) THEN m_rx[e][i]
                         ELSE q[i - Len(m_rx[e])]
  BY <1>1, ConcatProperties
<1>4. \A i \in Len(m_rx[e]) + 1 .. Len(m_rx'[e]) : m_rx'[e][i] \in pkts
  <2> TAKE i \in Len(m_rx[e]) + 1 .. Len(m_rx'[e])
  <2>1. i - Len(m_rx[e]) \in 1 .. Len(q)
    BY <1>2, <1>3
  <2>2. m_rx'[e][i] = q[i - Len(m_rx[e])]
    BY <1>2, <1>3
  <2> QED  BY <2>1, <2>2
<1> QED  BY <1>2, <1>3, <1>4 DEF GrowsBy

LEMMA SameGrows ==
  ASSUME TypeOK, NEW e \in Endpoint, NEW pkts, m_rx'[e] = m_rx[e]
  PROVE  GrowsBy(e, pkts)
<1>1. m_rx[e] \in Seq(GDPPacket) /\ Len(m_rx[e]) \in Nat
  BY LenProperties DEF TypeOK
<1> QED  BY <1>1 DEF GrowsBy

(* send_to_destination only adds copies of its packet, and only where some *)
(* route leads.                                                            *)
LEMMA SendGrows ==
  ASSUME TypeOK, NEW pkt \in GDPPacket, SendToDestination(pkt)
  PROVE  /\ m_rx' \in [Endpoint -> Seq(GDPPacket)]
         /\ \A e \in Endpoint :
              GrowsBy(e, {p \in {pkt} : RoutesTo(e, pkt) # {}})
<1>1. \A e \in Endpoint : GrowsBy(e, {p \in {pkt} : RoutesTo(e, pkt) # {}})
  <2> TAKE e \in Endpoint
  <2> DEFINE n == Cardinality(RoutesTo(e, pkt))
             q == [i \in 1 .. n |-> pkt]
  <2>1. n \in Nat
    BY RoutesFinite
  <2>2. q \in Seq(GDPPacket) /\ Len(q) = n
    <3> HIDE DEF n
    <3> QED  BY <2>1
  <2>3. \A i \in 1 .. Len(q) : q[i] \in {p \in {pkt} : RoutesTo(e, pkt) # {}}
    <3>1. RoutesTo(e, pkt) = {} => n = 0
      BY FS_EmptySet
    <3> HIDE DEF n
    <3> QED  BY <3>1, <2>1, <2>2
  <2>4. CASE e \in open
    <3>1. m_rx'[e] = m_rx[e] \o q
      BY <2>4 DEF SendToDestination, Copies
    <3> HIDE DEF q
    <3> QED  BY <2>2, <2>3, <3>1, ConcatGrows
  <2>5. CASE e \notin open
    <3>1. m_rx'[e] = m_rx[e]
      BY <2>5 DEF SendToDestination
    <3> QED  BY <3>1, SameGrows
  <2> QED  BY <2>4, <2>5
<1>2. \A e \in Endpoint : m_rx'[e] \in Seq(GDPPacket)
  BY <1>1 DEF GrowsBy
<1>3. m_rx' = [e \in Endpoint |-> m_rx'[e]]
  BY DEF SendToDestination
<1> QED  BY <1>1, <1>2, <1>3

LEMMA DeliverGrows ==
  ASSUME TypeOK, NEW x \in Endpoint, NEW pkts, NEW q \in Seq(GDPPacket),
         \A i \in 1 .. Len(q) : q[i] \in pkts,
         Deliver(x, q)
  PROVE  /\ m_rx' \in [Endpoint -> Seq(GDPPacket)]
         /\ \A e \in Endpoint : GrowsBy(e, {p \in pkts : e = x})
<1>0. m_rx \in [Endpoint -> Seq(GDPPacket)]
  BY DEF TypeOK
<1>1. \A e \in Endpoint : GrowsBy(e, {p \in pkts : e = x})
  <2> TAKE e \in Endpoint
  <2>1. CASE e = x /\ x \in open
    <3>1. m_rx'[e] = m_rx[e] \o q
      BY <1>0, <2>1 DEF Deliver
    <3>2. \A i \in 1 .. Len(q) : q[i] \in {p \in pkts : e = x}
      BY <2>1
    <3> QED  BY <3>1, <3>2, ConcatGrows
  <2>2. CASE ~(e = x /\ x \in open)
    <3>1. m_rx'[e] = m_rx[e]
      BY <1>0, <2>2 DEF Deliver
    <3> QED  BY <3>1, SameGrows
  <2> QED  BY <2>1, <2>2
<1>2. \A e \in Endpoint : m_rx'[e] \in Seq(GDPPacket)
  BY <1>1 DEF GrowsBy
<1>3. m_rx' = [e \in Endpoint |-> m_rx'[e]]
  BY <1>0 DEF Deliver
<1> QED  BY <1>1, <1>2, <1>3

-----------------------------------------------------------------------------
(* The inductive invariant.  A packet carries the source name of the       *)
(* endpoint it came from, and so does every registration: the comparison   *)
(* of the two source names then compares the endpoints.  Along the way of  *)
(* a packet, numbers only grow: log before queue before what is unsent.    *)

Owned(c) == c.advertisement.source = SourceName[c.channel]

RegistrationsOwned ==
  /\ \A i \in 1 .. Len(channel_rx) : Owned(channel_rx[i])
  /\ \A n \in GDPName : \A i \in 1 .. Len(coonection_rib_table[n]) :
       Owned(coonection_rib_table[n][i])

Origin(pkt) == pkt.payload[1]
Number(pkt) == pkt.payload[2]

QueueOwned ==
  \A i \in 1 .. Len(rib_rx) :
    /\ IsForward(rib_rx[i])
    /\ rib_rx[i].source = SourceName[Origin(rib_rx[i])]
    /\ NextHop[Origin(rib_rx[i])] = Rib
    /\ Number(rib_rx[i]) <= sent[Origin(rib_rx[i])]

QueueOrdered ==
  \A i, j \in 1 .. Len(rib_rx) :
    i < j /\ Origin(rib_rx[i]) = Origin(rib_rx[j])
      => Number(rib_rx[i]) < Number(rib_rx[j])

LogBehind ==
  \A e \in Endpoint : \A i \in 1 .. Len(m_rx[e]) :
    IsForward(m_rx[e][i]) =>
      /\ Number(m_rx[e][i]) <= sent[Origin(m_rx[e][i])]
      /\ \A j \in 1 .. Len(rib_rx) :
           Origin(rib_rx[j]) = Origin(m_rx[e][i])
             => Number(m_rx[e][i]) < Number(rib_rx[j])

EchoInv == RegistrationsOwned /\ QueueOwned /\ NoEcho

OrderInv == QueueOwned /\ QueueOrdered /\ LogBehind /\ InOrder

-----------------------------------------------------------------------------
(* Type correctness                                                        *)

LEMMA PacketTypes ==
  /\ \A n \in GDPName, x \in GDPName :
       construct_gdp_advertisement_from_bytes(n, x) \in GDPPacket
  /\ \A n \in GDPName, x \in GDPName, b \in Payload :
       construct_gdp_forward_from_bytes(n, x, b) \in GDPPacket
BY DEF construct_gdp_advertisement_from_bytes, construct_gdp_forward_from_bytes,
       GDPPacket

LEMMA ForwardPayload ==
  ASSUME NEW pkt \in GDPPacket, IsForward(pkt)
  PROVE  /\ Origin(pkt) \in Endpoint
         /\ Number(pkt) \in 1 .. MaxSent[Origin(pkt)]
BY DEF GDPPacket, Payload, IsForward, Origin, Number

LEMMA NextPayload ==
  ASSUME TypeOK, NEW e \in Endpoint, sent[e] < MaxSent[e]
  PROVE  /\ sent[e] \in Nat /\ sent[e] + 1 \in 1 .. MaxSent[e]
         /\ <<e, sent[e] + 1>> \in Payload
BY ConstantsAssumption DEF TypeOK, Payload

(* What each action does to the logs, in the terms of GrowsBy.             *)
LEMMA ForwardGrows ==
  ASSUME TypeOK, NEW e \in Endpoint, NEW pkt \in GDPPacket, ProcForward(e, pkt)
  PROVE  /\ m_rx' \in [Endpoint -> Seq(GDPPacket)]
         /\ \A x \in Endpoint : GrowsBy(x, {p \in {pkt} : x = NextHop[e]})
<1>1. CASE NextHop[e] = Rib
  <2>1. m_rx' = m_rx
    BY <1>1 DEF ProcForward
  <2> QED  BY <2>1, SameGrows DEF TypeOK
<1>2. CASE NextHop[e] # Rib
  <2>1. Deliver(NextHop[e], <<pkt>>) /\ NextHop[e] \in Endpoint
    BY <1>2, ConstantsAssumption DEF ProcForward
  <2>2. <<pkt>> \in Seq(GDPPacket)
        /\ \A i \in 1 .. Len(<<pkt>>) : <<pkt>>[i] \in {pkt}
    OBVIOUS
  <2> QED  BY <2>1, <2>2, DeliverGrows
<1> QED  BY <1>1, <1>2

LEMMA StatusGrows ==
  ASSUME TypeOK, RecvStatus
  PROVE  /\ m_rx' \in [Endpoint -> Seq(GDPPacket)]
         /\ \A e \in Endpoint :
              GrowsBy(e, {p \in GDPPacket : p.action = "Advertise"})
<1> DEFINE Adv == {p \in GDPPacket : p.action = "Advertise"}
           AdvSeq(names) == [i \in DOMAIN names |->
                  construct_gdp_advertisement_from_bytes(names[i], names[i])]
<1>1. Head(stat_rs) \in Endpoint
  BY ConstantsAssumption, HeadTailProperties DEF TypeOK, RecvStatus
<1>2. PICK names \in SetToSeqs(KnownNames) :
         Deliver(Head(stat_rs), AdvSeq(names))
  BY DEF RecvStatus
<1>3. IsFiniteSet(KnownNames) /\ Cardinality(KnownNames) \in Nat
  BY ConstantsAssumption, FS_Subset, FS_CardinalityType DEF KnownNames
<1>4. names \in [1 .. Cardinality(KnownNames) -> KnownNames]
  BY <1>2 DEF SetToSeqs
<1>5. DOMAIN names = 1 .. Cardinality(KnownNames)
      /\ \A i \in DOMAIN names : names[i] \in GDPName
  BY <1>4 DEF KnownNames
<1>6. \A i \in DOMAIN names :
        construct_gdp_advertisement_from_bytes(names[i], names[i]) \in Adv
  BY <1>5, PacketTypes DEF construct_gdp_advertisement_from_bytes
<1>7. AdvSeq(names) \in Seq(GDPPacket)
      /\ \A i \in 1 .. Len(AdvSeq(names)) : AdvSeq(names)[i] \in Adv
  BY <1>3, <1>5, <1>6
<1>8. /\ m_rx' \in [Endpoint -> Seq(GDPPacket)]
      /\ \A e \in Endpoint : GrowsBy(e, {p \in Adv : e = Head(stat_rs)})
  <2> HIDE DEF AdvSeq, Adv
  <2> QED  BY <1>1, <1>2, <1>7, DeliverGrows
<1> QED  BY <1>8 DEF GrowsBy

(* Every variable keeps its type, and the packet counter its width,        *)
(* whatever the endpoints send, register and close.                        *)
LEMMA TypeInductive == TypeOK /\ [Next]_vars => TypeOK'
<1> SUFFICES ASSUME TypeOK, [Next]_vars PROVE TypeOK'
  OBVIOUS
<1> USE ConstantsAssumption
<1>1. CASE RecvPacket
  <2>1. Head(rib_rx) \in GDPPacket /\ Tail(rib_rx) \in Seq(GDPPacket)
    BY <1>1, HeadTailProperties DEF TypeOK, RecvPacket
  <2>2. m_rx' \in [Endpoint -> Seq(GDPPacket)]
    BY <1>1, <2>1, SendGrows DEF RecvPacket
  <2>3. counter' \in -MaxCounter - 1 .. MaxCounter
    BY <1>1 DEF TypeOK, RecvPacket, CounterOverflows
  <2> QED  BY <1>1, <2>1, <2>2, <2>3 DEF TypeOK, RecvPacket, history
<1>2. CASE RecvPacketOverflow
  <2>1. /\ rib_rx' \in Seq(GDPPacket) /\ channel_rx' \in Seq(GDPChannel)
        /\ stat_rs' \in Seq(FlushSink)
    BY <1>2, EmptySeq DEF RecvPacketOverflow
  <2>2. coonection_rib_table' \in [GDPName -> Seq(GDPChannel)]
    BY <1>2, EmptySeq DEF RecvPacketOverflow
  <2> QED  BY <1>2, <2>1, <2>2 DEF TypeOK, RecvPacketOverflow, history
<1>3. CASE RecvChannel
  <2>1. Head(channel_rx) \in GDPChannel /\ Tail(channel_rx) \in Seq(GDPChannel)
    BY <1>3, HeadTailProperties DEF TypeOK, RecvChannel
  <2>2. coonection_rib_table' \in [GDPName -> Seq(GDPChannel)]
    <3> DEFINE n == Head(channel_rx).gdpname
               q == Append(coonection_rib_table[n], Head(channel_rx))
    <3>1. n \in GDPName
      BY <2>1 DEF GDPChannel
    <3>2. q \in Seq(GDPChannel)
      BY <2>1, <3>1, AppendProperties DEF TypeOK
    <3>3. coonection_rib_table' = [coonection_rib_table EXCEPT ![n] = q]
      BY <1>3 DEF RecvChannel
    <3> HIDE DEF n, q
    <3> QED  BY <3>1, <3>2, <3>3 DEF TypeOK
  <2> QED  BY <1>3, <2>1, <2>2 DEF TypeOK, RecvChannel, history
<1>4. CASE RecvStatus
  <2>1. Tail(stat_rs) \in Seq(FlushSink)
    BY <1>4, HeadTailProperties DEF TypeOK, RecvStatus
  <2>2. m_rx' \in [Endpoint -> Seq(GDPPacket)]
    BY <1>4, StatusGrows
  <2> QED  BY <1>4, <2>1, <2>2 DEF TypeOK, RecvStatus, history
<1>5. ASSUME NEW e \in Endpoint, Close(e) PROVE TypeOK'
  BY <1>5 DEF TypeOK, Close, queues, history
<1>6. ASSUME NEW e \in FlushSink, RequestFlush(e) PROVE TypeOK'
  BY <1>6 DEF TypeOK, RequestFlush
<1>7. ASSUME NEW e \in Endpoint, NEW n \in Routable, Advertise(e, n)
      PROVE  TypeOK'
  <2> DEFINE pkt == construct_gdp_advertisement_from_bytes(n, SourceName[e])
             c == [gdpname |-> pkt.gdpname, channel |-> e, advertisement |-> pkt]
  <2>1. pkt \in GDPPacket /\ pkt.gdpname = n
    BY PacketTypes DEF construct_gdp_advertisement_from_bytes
  <2>2. c \in GDPChannel
    <3> HIDE DEF pkt
    <3> QED  BY <2>1 DEF GDPChannel
  <2>3. channel_rx' \in Seq(GDPChannel) /\ open' \subseteq Endpoint
    <3>1. channel_rx' = Append(channel_rx, c) \/ channel_rx' = channel_rx
      BY <1>7 DEF Advertise, ProcAdvertise
    <3>2. open' \subseteq Endpoint
      BY <1>7 DEF TypeOK, Advertise, ProcAdvertise
    <3>3. channel_rx \in Seq(GDPChannel)
      BY DEF TypeOK
    <3>4. Append(channel_rx, c) \in Seq(GDPChannel)
      BY <2>2, <3>3, AppendProperties
    <3> HIDE DEF c
    <3> QED  BY <3>1, <3>2, <3>3, <3>4
  <2>4. /\ advertised' \in [Endpoint -> Nat]
        /\ \A x \in Endpoint : advertised'[x] <= MaxAdvertised[x]
    BY <1>7, ConstantsAssumption DEF TypeOK, Advertise
  <2> QED  BY <1>7, <2>3, <2>4 DEF TypeOK, Advertise, ProcAdvertise
<1>8. ASSUME NEW e \in Endpoint, NEW n \in Routable, Forward(e, n)
      PROVE  TypeOK'
  <2> DEFINE pkt == construct_gdp_forward_from_bytes(n, SourceName[e],
                                                     <<e, sent[e] + 1>>)
  <2>1. pkt \in GDPPacket
    BY <1>8, PacketTypes, NextPayload DEF Forward
  <2>2. ProcForward(e, pkt)
    BY <1>8 DEF Forward
  <2>3. rib_rx' \in Seq(GDPPacket)
    <3>1. rib_rx' = Append(rib_rx, pkt) \/ rib_rx' = rib_rx
      BY <2>2 DEF ProcForward
    <3>2. rib_rx \in Seq(GDPPacket)
      BY DEF TypeOK
    <3>3. Append(rib_rx, pkt) \in Seq(GDPPacket)
      BY <2>1, <3>2, AppendProperties
    <3> HIDE DEF pkt
    <3> QED  BY <3>1, <3>2, <3>3
  <2>4. m_rx' \in [Endpoint -> Seq(GDPPacket)]
    BY <2>1, <2>2, ForwardGrows
  <2>5. /\ sent' \in [Endpoint -> Nat]
        /\ \A x \in Endpoint : sent'[x] <= MaxSent[x]
    BY <1>8, ConstantsAssumption DEF TypeOK, Forward
  <2> QED  BY <1>8, <2>3, <2>4, <2>5 DEF TypeOK, Forward, ProcForward
<1>9. CASE UNCHANGED vars
  BY <1>9 DEF TypeOK, vars, queues, history
<1> QED  BY <1>1, <1>2, <1>3, <1>4, <1>5, <1>6, <1>7, <1>8, <1>9 DEF Next

LEMMA TypeInit == Init => TypeOK
<1> SUFFICES ASSUME Init PROVE TypeOK
  OBVIOUS
<1>1. /\ rib_rx \in Seq(GDPPacket) /\ channel_rx \in Seq(GDPChannel)
      /\ stat_rs \in Seq(FlushSink)
  BY EmptySeq DEF Init
<1>2. /\ coonection_rib_table \in [GDPName -> Seq(GDPChannel)]
      /\ m_rx \in [Endpoint -> Seq(GDPPacket)]
  BY EmptySeq DEF Init
<1>3. /\ counter \in -MaxCounter - 1 .. MaxCounter
      /\ sent \in [Endpoint -> Nat] /\ advertised \in [Endpoint -> Nat]
      /\ \A e \in Endpoint :
           sent[e] <= MaxSent[e] /\ advertised[e] <= MaxAdvertised[e]
  BY ConstantsAssumption DEF Init
<1> QED  BY <1>1, <1>2, <1>3 DEF Init, TypeOK

(* Type correctness of the RIB: Spec keeps TypeOK.                         *)
THEOREM TypeCorrect == Spec => []TypeOK
BY TypeInit, TypeInductive, PTL DEF Spec

-----------------------------------------------------------------------------
(* Split horizon                                                           *)

LEMMA RegistrationsOwnedInductive ==
  TypeOK /\ RegistrationsOwned /\ [Next]_vars => RegistrationsOwned'
<1> SUFFICES ASSUME TypeOK, RegistrationsOwned, [Next]_vars
             PROVE  RegistrationsOwned'
  OBVIOUS
<1>1. CASE UNCHANGED <<channel_rx, coonection_rib_table>>
  BY <1>1 DEF RegistrationsOwned, Owned
<1>2. CASE RecvPacketOverflow
  BY <1>2 DEF RecvPacketOverflow, RegistrationsOwned
<1>3. CASE RecvChannel
  <2> DEFINE c == Head(channel_rx)
  <2>1. /\ channel_rx \in Seq(GDPChannel) /\ channel_rx # <<>>
        /\ coonection_rib_table \in [GDPName -> Seq(GDPChannel)]
    BY <1>3 DEF TypeOK, RecvChannel
  <2>2. /\ c \in GDPChannel /\ c = channel_rx[1] /\ 1 \in 1 .. Len(channel_rx)
        /\ Len(Tail(channel_rx)) = Len(channel_rx) - 1
        /\ \A i \in 1 .. Len(Tail(channel_rx)) :
             Tail(channel_rx)[i] = channel_rx[i + 1]
    BY <2>1, HeadTailProperties, LenProperties
  <2>3. Owned(c) /\ c.gdpname \in GDPName
    BY <2>2 DEF RegistrationsOwned, GDPChannel
  <2>4. \A i \in 1 .. Len(channel_rx') : Owned(channel_rx'[i])
    <3> TAKE i \in 1 .. Len(channel_rx')
    <3>1. channel_rx' = Tail(channel_rx)
      BY <1>3 DEF RecvChannel
    <3>2. i + 1 \in 1 .. Len(channel_rx) /\ channel_rx'[i] = channel_rx[i + 1]
      BY <2>1, <2>2, <3>1, LenProperties
    <3> QED  BY <3>2 DEF RegistrationsOwned
  <2>5. ASSUME NEW n \in GDPName,
               NEW i \in 1 .. Len(coonection_rib_table'[n])
        PROVE  Owned(coonection_rib_table'[n][i])
    <3>1. CASE n = c.gdpname
      <4>1. coonection_rib_table'[n] = Append(coonection_rib_table[n], c)
        BY <1>3, <2>1, <3>1 DEF RecvChannel
      <4>2. coonection_rib_table[n] \in Seq(GDPChannel)
            /\ Len(coonection_rib_table[n]) \in Nat
        BY <2>1, LenProperties
      <4>3. /\ Len(coonection_rib_table'[n]) = Len(coonection_rib_table[n]) + 1
            /\ coonection_rib_table'[n][Len(coonection_rib_table[n]) + 1] = c
            /\ \A j \in 1 .. Len(coonection_rib_table[n]) :
                 coonection_rib_table'[n][j] = coonection_rib_table[n][j]
        <5> HIDE DEF c
        <5> QED  BY <2>2, <4>1, <4>2, AppendProperties
      <4>4. CASE i \in 1 .. Len(coonection_rib_table[n])
        BY <4>3, <4>4 DEF RegistrationsOwned
      <4>5. CASE i \notin 1 .. Len(coonection_rib_table[n])
        <5>1. i = Len(coonection_rib_table[n]) + 1
          BY <4>2, <4>3, <4>5
        <5> HIDE DEF c
        <5> QED  BY <2>3, <4>3, <5>1
      <4> QED  BY <4>4, <4>5
    <3>2. CASE n # c.gdpname
      <4>1. coonection_rib_table'[n] = coonection_rib_table[n]
        BY <1>3, <2>1, <3>2 DEF RecvChannel
      <4> QED  BY <4>1 DEF RegistrationsOwned
    <3> QED  BY <3>1, <3>2
  <2> QED  BY <2>4, <2>5 DEF RegistrationsOwned
<1>4. ASSUME NEW e \in Endpoint, NEW n \in Routable, Advertise(e, n)
      PROVE  RegistrationsOwned'
  <2> DEFINE pkt == construct_gdp_advertisement_from_bytes(n, SourceName[e])
             c == [gdpname |-> n, channel |-> e, advertisement |-> pkt]
  <2>1. coonection_rib_table' = coonection_rib_table
    BY <1>4 DEF Advertise
  <2>2. channel_rx' = Append(channel_rx, c) \/ channel_rx' = channel_rx
    BY <1>4 DEF Advertise, ProcAdvertise, construct_gdp_advertisement_from_bytes
  <2>3. c \in GDPChannel /\ Owned(c)
    BY ConstantsAssumption, PacketTypes
       DEF GDPChannel, Owned, construct_gdp_advertisement_from_bytes
  <2>4. channel_rx \in Seq(GDPChannel) /\ Len(channel_rx) \in Nat
    BY LenProperties DEF TypeOK
  <2>5. \A i \in 1 .. Len(channel_rx') : Owned(channel_rx'[i])
    <3> HIDE DEF c
    <3>1. CASE channel_rx' = channel_rx
      BY <3>1 DEF RegistrationsOwned
    <3>2. CASE channel_rx' = Append(channel_rx, c)
      <4>1. /\ Len(channel_rx') = Len(channel_rx) + 1
            /\ channel_rx'[Len(channel_rx) + 1] = c
            /\ \A j \in 1 .. Len(channel_rx) : channel_rx'[j] = channel_rx[j]
        BY <2>3, <2>4, <3>2, AppendProperties
      <4> TAKE i \in 1 .. Len(channel_rx')
      <4>2. i \in 1 .. Len(channel_rx) \/ i = Len(channel_rx) + 1
        BY <2>4, <4>1
      <4> QED  BY <2>3, <4>1, <4>2 DEF RegistrationsOwned
    <3> QED  BY <2>2, <3>1, <3>2
  <2> QED  BY <2>1, <2>5 DEF RegistrationsOwned
<1> QED
  BY <1>1, <1>2, <1>3, <1>4
     DEF Next, RecvPacket, RecvStatus, Close, RequestFlush, Forward,
         ProcForward, vars, queues

(* What Forward appends to the queue, in the terms of the invariant.       *)
LEMMA ForwardStep ==
  ASSUME TypeOK, NEW e \in Endpoint, NEW n \in Routable, Forward(e, n)
  PROVE  \E pkt \in GDPPacket :
           /\ IsForward(pkt) /\ pkt.source = SourceName[e]
           /\ Origin(pkt) = e /\ Number(pkt) = sent[e] + 1
           /\ ProcForward(e, pkt)
           /\ \/ NextHop[e] = Rib /\ rib_rx' = Append(rib_rx, pkt)
              \/ rib_rx' = rib_rx
           /\ sent' = [sent EXCEPT ![e] = @ + 1]
<1> DEFINE pkt == construct_gdp_forward_from_bytes(n, SourceName[e],
                                                   <<e, sent[e] + 1>>)
<1>1. pkt \in GDPPacket
  BY ConstantsAssumption, PacketTypes, NextPayload DEF Forward
<1>2. /\ IsForward(pkt) /\ pkt.source = SourceName[e]
      /\ Origin(pkt) = e /\ Number(pkt) = sent[e] + 1
  BY DEF construct_gdp_forward_from_bytes, IsForward, Origin, Number
<1>3. ProcForward(e, pkt) /\ sent' = [sent EXCEPT ![e] = @ + 1]
  BY DEF Forward
<1>4. \/ NextHop[e] = Rib /\ rib_rx' = Append(rib_rx, pkt)
      \/ rib_rx' = rib_rx
  BY <1>3 DEF ProcForward
<1> HIDE DEF pkt
<1> QED  BY <1>1, <1>2, <1>3, <1>4

(* The three things a step can do to the queue of packets.                 *)
LEMMA QueueStep ==
  ASSUME TypeOK, [Next]_vars
  PROVE  \/ rib_rx' = rib_rx /\ sent' = sent
         \/ rib_rx' = <<>> /\ sent' = sent /\ m_rx' = m_rx
         \/ rib_rx # <<>> /\ rib_rx' = Tail(rib_rx) /\ sent' = sent
         \/ \E e \in Endpoint, n \in Routable : Forward(e, n)
BY DEF Next, RecvPacket, RecvPacketOverflow, RecvChannel, RecvStatus, Close,
       RequestFlush, Advertise, ProcAdvertise, vars, queues, history

LEMMA TailElements ==
  ASSUME TypeOK, rib_rx # <<>>, rib_rx' = Tail(rib_rx)
  PROVE  /\ Len(rib_rx) \in Nat /\ Len(rib_rx') = Len(rib_rx) - 1
         /\ \A i \in 1 .. Len(rib_rx') :
              i + 1 \in 1 .. Len(rib_rx) /\ rib_rx'[i] = rib_rx[i + 1]
<1>1. rib_rx \in Seq(GDPPacket)
  BY DEF TypeOK
<1>2. Len(rib_rx) \in Nat /\ Len(rib_rx') = Len(rib_rx) - 1
      /\ \A i \in 1 .. Len(rib_rx') : rib_rx'[i] = rib_rx[i + 1]
  BY <1>1, HeadTailProperties, LenProperties
<1> QED  BY <1>2

LEMMA AppendElements ==
  ASSUME TypeOK, NEW pkt \in GDPPacket, rib_rx' = Append(rib_rx, pkt)
  PROVE  /\ Len(rib_rx) \in Nat /\ Len(rib_rx') = Len(rib_rx) + 1
         /\ \A i \in 1 .. Len(rib_rx) : rib_rx'[i] = rib_rx[i]
         /\ \A i \in 1 .. Len(rib_rx') :
              i \in 1 .. Len(rib_rx) \/ (i = Len(rib_rx) + 1 /\ rib_rx'[i] = pkt)
<1>1. rib_rx \in Seq(GDPPacket)
  BY DEF TypeOK
<1>2. Len(rib_rx) \in Nat /\ Len(rib_rx') = Len(rib_rx) + 1
      /\ \A i \in 1 .. Len(rib_rx) : rib_rx'[i] = rib_rx[i]
      /\ rib_rx'[Len(rib_rx) + 1] = pkt
  BY <1>1, AppendProperties, LenProperties
<1> QED  BY <1>2

LEMMA QueueOwnedInductive ==
  TypeOK /\ QueueOwned /\ [Next]_vars => QueueOwned'
<1> SUFFICES ASSUME TypeOK, QueueOwned, [Next]_vars PROVE QueueOwned'
  OBVIOUS
<1>1. CASE rib_rx' = rib_rx /\ sent' = sent
  BY <1>1 DEF QueueOwned
<1>2. CASE rib_rx' = <<>>
  BY <1>2 DEF QueueOwned
<1>3. CASE rib_rx # <<>> /\ rib_rx' = Tail(rib_rx) /\ sent' = sent
  BY <1>3, TailElements DEF QueueOwned
<1>4. ASSUME NEW e \in Endpoint, NEW n \in Routable, Forward(e, n)
      PROVE  QueueOwned'
  <2>1. PICK pkt \in GDPPacket :
           /\ IsForward(pkt) /\ pkt.source = SourceName[e]
           /\ Origin(pkt) = e /\ Number(pkt) = sent[e] + 1
           /\ \/ NextHop[e] = Rib /\ rib_rx' = Append(rib_rx, pkt)
              \/ rib_rx' = rib_rx
           /\ sent' = [sent EXCEPT ![e] = @ + 1]
    BY <1>4, ForwardStep
  <2>2. sent \in [Endpoint -> Nat]
    BY ConstantsAssumption DEF TypeOK
  <2>3. \A i \in 1 .. Len(rib_rx) :
          /\ Origin(rib_rx[i]) \in Endpoint /\ Number(rib_rx[i]) \in Nat
    BY ForwardPayload, ElementOfSeq DEF TypeOK, QueueOwned
  <2>4. \A i \in 1 .. Len(rib_rx) :
          Number(rib_rx[i]) <= sent'[Origin(rib_rx[i])]
    BY <2>1, <2>2, <2>3 DEF QueueOwned
  <2>5. CASE rib_rx' = rib_rx
    BY <2>4, <2>5 DEF QueueOwned
  <2>6. CASE NextHop[e] = Rib /\ rib_rx' = Append(rib_rx, pkt)
    <3>1. Number(pkt) <= sent'[Origin(pkt)]
      BY <2>1, <2>2
    <3> SUFFICES ASSUME NEW i \in 1 .. Len(rib_rx')
                 PROVE  /\ IsForward(rib_rx'[i])
                        /\ rib_rx'[i].source = SourceName[Origin(rib_rx'[i])]
                        /\ NextHop[Origin(rib_rx'[i])] = Rib
                        /\ Number(rib_rx'[i]) <= sent'[Origin(rib_rx'[i])]
      BY DEF QueueOwned
    <3>2. CASE i \in 1 .. Len(rib_rx)
      <4>1. rib_rx'[i] = rib_rx[i]
        BY <2>6, <3>2, AppendElements
      <4> QED  BY <2>4, <3>2, <4>1 DEF QueueOwned
    <3>3. CASE rib_rx'[i] = pkt
      BY <2>1, <2>6, <3>1, <3>3
    <3> QED  BY <2>6, <3>2, <3>3, AppendElements
  <2> QED  BY <2>1, <2>5, <2>6
<1> QED  BY <1>1, <1>2, <1>3, <1>4, QueueStep

LEMMA NoEchoInductive ==
  TypeOK /\ EchoInv /\ [Next]_vars => NoEcho'
<1> SUFFICES ASSUME TypeOK, EchoInv, [Next]_vars,
                    NEW e \in Endpoint
             PROVE  \A i \in DOMAIN m_rx'[e] :
                      IsForward(m_rx'[e][i]) => Origin(m_rx'[e][i]) # e
  BY DEF NoEcho, Origin, IsForward
<1>0. /\ m_rx[e] \in Seq(GDPPacket) /\ Len(m_rx[e]) \in Nat
      /\ \A i \in 1 .. Len(m_rx[e]) :
           IsForward(m_rx[e][i]) => Origin(m_rx[e][i]) # e
  BY LenProperties DEF TypeOK, EchoInv, NoEcho, Origin
<1>1. ASSUME NEW pkts, GrowsBy(e, pkts),
             \A p \in pkts : IsForward(p) => Origin(p) # e
      PROVE  \A i \in DOMAIN m_rx'[e] :
               IsForward(m_rx'[e][i]) => Origin(m_rx'[e][i]) # e
  <2>1. /\ DOMAIN m_rx'[e] = 1 .. Len(m_rx'[e])
        /\ Len(m_rx'[e]) \in Nat
    BY <1>1, LenProperties DEF GrowsBy
  <2> TAKE i \in DOMAIN m_rx'[e]
  <2>2. CASE i \in 1 .. Len(m_rx[e])
    BY <1>0, <1>1, <2>2 DEF GrowsBy
  <2>3. CASE i \in Len(m_rx[e]) + 1 .. Len(m_rx'[e])
    BY <1>1, <2>3 DEF GrowsBy
  <2> QED  BY <1>0, <2>1, <2>2, <2>3
<1>2. CASE m_rx' = m_rx
  BY <1>2 DEF EchoInv, NoEcho, Origin
<1>3. CASE RecvPacket
  <2> DEFINE pkt == Head(rib_rx)
  <2>1. /\ rib_rx \in Seq(GDPPacket) /\ rib_rx # <<>>
        /\ SendToDestination(pkt)
    BY <1>3 DEF TypeOK, RecvPacket
  <2>2. pkt \in GDPPacket /\ pkt = rib_rx[1] /\ 1 \in 1 .. Len(rib_rx)
    BY <2>1, HeadTailProperties, LenProperties
  <2>3. pkt.source = SourceName[Origin(pkt)] /\ pkt.gdpname \in GDPName
    BY <2>2 DEF EchoInv, QueueOwned, GDPPacket
  <2> HIDE DEF pkt
  <2>4. GrowsBy(e, {p \in {pkt} : RoutesTo(e, pkt) # {}})
    BY <2>1, <2>2, SendGrows
  <2>5. ASSUME RoutesTo(e, pkt) # {} PROVE Origin(pkt) # e
    <3>1. PICK n \in GDPName :
            \E i \in DOMAIN coonection_rib_table[n] :
              /\ coonection_rib_table[n][i].channel = e
              /\ coonection_rib_table[n][i].advertisement.source # pkt.source
      BY <2>3, <2>5 DEF RoutesTo, RoutingDsts
    <3>2. DOMAIN coonection_rib_table[n] = 1 .. Len(coonection_rib_table[n])
      BY LenProperties DEF TypeOK
    <3>3. SourceName[e] # pkt.source
      BY <3>1, <3>2 DEF EchoInv, RegistrationsOwned, Owned
    <3> QED  BY <2>3, <3>3
  <2> QED  BY <1>1, <2>4, <2>5
<1>4. CASE RecvStatus
  <2>1. GrowsBy(e, {p \in GDPPacket : p.action = "Advertise"})
    BY <1>4, StatusGrows
  <2>2. \A p \in {p \in GDPPacket : p.action = "Advertise"} : ~IsForward(p)
    BY DEF IsForward
  <2> QED  BY <1>1, <2>1, <2>2
<1>5. ASSUME NEW x \in Endpoint, NEW n \in Routable, Forward(x, n)
      PROVE  \A i \in DOMAIN m_rx'[e] :
               IsForward(m_rx'[e][i]) => Origin(m_rx'[e][i]) # e
  <2>1. PICK pkt \in GDPPacket : Origin(pkt) = x /\ ProcForward(x, pkt)
    BY <1>5, ForwardStep
  <2>2. GrowsBy(e, {p \in {pkt} : e = NextHop[x]})
    BY <2>1, ForwardGrows
  <2>3. e = NextHop[x] => Origin(pkt) # e
    BY <2>1, ConstantsAssumption
  <2> QED  BY <1>1, <2>2, <2>3
<1> QED
  BY <1>2, <1>3, <1>4, <1>5
     DEF Next, RecvPacketOverflow, RecvChannel, Close, RequestFlush, Advertise,
         ProcAdvertise, vars

(* Split horizon holds for every set of endpoints, names and next hops:    *)
(* no packet comes back to the endpoint that sent it.                      *)
THEOREM SplitHorizon == Spec => []NoEcho
<1>1. Init => EchoInv
  BY DEF Init, EchoInv, RegistrationsOwned, QueueOwned, NoEcho
<1>2. TypeOK /\ EchoInv /\ [Next]_vars => EchoInv'
  BY RegistrationsOwnedInductive, QueueOwnedInductive, NoEchoInductive
     DEF EchoInv
<1>3. EchoInv => NoEcho
  BY DEF EchoInv
<1> QED  BY <1>1, <1>2, <1>3, TypeCorrect, PTL DEF Spec

-----------------------------------------------------------------------------
(* Order                                                                   *)

(* The three things a step can do to the log of endpoint e, as seen by the *)
(* packets it adds: advertisements only, the head of the queue, or a packet*)
(* straight from its origin.                                               *)
LEMMA LogStep ==
  ASSUME TypeOK, [Next]_vars, NEW e \in Endpoint
  PROVE  \E pkts :
           /\ GrowsBy(e, pkts)
           /\ \/ \A p \in pkts : ~IsForward(p)
              \/ RecvPacket /\ pkts \subseteq {Head(rib_rx)}
              \/ \E x \in Endpoint, n \in Routable :
                   /\ Forward(x, n) /\ NextHop[x] # Rib
                   /\ \A p \in pkts : p \in GDPPacket /\ Origin(p) = x
                                        /\ Number(p) = sent[x] + 1
<1>1. CASE m_rx' = m_rx
  <2>1. GrowsBy(e, {})
    BY <1>1, SameGrows
  <2> QED  BY <2>1
<1>2. CASE RecvPacket
  <2>1. Head(rib_rx) \in GDPPacket /\ SendToDestination(Head(rib_rx))
    BY <1>2, HeadTailProperties DEF TypeOK, RecvPacket
  <2> QED  BY <1>2, <2>1, SendGrows
<1>3. CASE RecvStatus
  <2>1. GrowsBy(e, {p \in GDPPacket : p.action = "Advertise"})
    BY <1>3, StatusGrows
  <2>2. \A p \in {p \in GDPPacket : p.action = "Advertise"} : ~IsForward(p)
    BY DEF IsForward
  <2> QED  BY <2>1, <2>2
<1>4. ASSUME NEW x \in Endpoint, NEW n \in Routable, Forward(x, n),
             m_rx' # m_rx
      PROVE  \E pkts :
           /\ GrowsBy(e, pkts)
           /\ \E y \in Endpoint, k \in Routable :
                /\ Forward(y, k) /\ NextHop[y] # Rib
                /\ \A p \in pkts : p \in GDPPacket /\ Origin(p) = y
                                     /\ Number(p) = sent[y] + 1
  <2>1. PICK pkt \in GDPPacket :
          /\ Origin(pkt) = x /\ Number(pkt) = sent[x] + 1
          /\ ProcForward(x, pkt)
    BY <1>4, ForwardStep
  <2>2. NextHop[x] # Rib
    BY <1>4, <2>1 DEF ProcForward
  <2>3. GrowsBy(e, {p \in {pkt} : e = NextHop[x]})
    BY <2>1, ForwardGrows
  <2>4. \A p \in {p \in {pkt} : e = NextHop[x]} :
          p \in GDPPacket /\ Origin(p) = x /\ Number(p) = sent[x] + 1
    BY <2>1
  <2> QED  BY <1>4, <2>2, <2>3, <2>4
<1>5. \/ m_rx' = m_rx \/ RecvPacket \/ RecvStatus
      \/ \E x \in Endpoint, n \in Routable : Forward(x, n) /\ m_rx' # m_rx
  BY DEF Next, RecvPacketOverflow, RecvChannel, Close, RequestFlush, Advertise,
         ProcAdvertise, vars
<1> QED  BY <1>1, <1>2, <1>3, <1>4, <1>5

(* The data of queue and log, typed.                                       *)
LEMMA Numbers ==
  ASSUME TypeOK, QueueOwned
  PROVE  /\ sent \in [Endpoint -> Nat]
         /\ Len(rib_rx) \in Nat
         /\ \A i \in 1 .. Len(rib_rx) :
              /\ rib_rx[i] \in GDPPacket
              /\ Origin(rib_rx[i]) \in Endpoint /\ Number(rib_rx[i]) \in Nat
         /\ \A e \in Endpoint :
              /\ Len(m_rx[e]) \in Nat /\ DOMAIN m_rx[e] = 1 .. Len(m_rx[e])
              /\ \A i \in 1 .. Len(m_rx[e]) : IsForward(m_rx[e][i]) =>
                   /\ Origin(m_rx[e][i]) \in Endpoint
                   /\ Number(m_rx[e][i]) \in Nat
<1>1. sent \in [Endpoint -> Nat]
  BY ConstantsAssumption DEF TypeOK
<1>2. Len(rib_rx) \in Nat
      /\ \A i \in 1 .. Len(rib_rx) : rib_rx[i] \in GDPPacket
  BY ElementOfSeq, LenProperties DEF TypeOK
<1>3. \A i \in 1 .. Len(rib_rx) :
        Origin(rib_rx[i]) \in Endpoint /\ Number(rib_rx[i]) \in Nat
  BY <1>2, ForwardPayload DEF QueueOwned
<1>4. ASSUME NEW e \in Endpoint
      PROVE  /\ Len(m_rx[e]) \in Nat /\ DOMAIN m_rx[e] = 1 .. Len(m_rx[e])
             /\ \A i \in 1 .. Len(m_rx[e]) : m_rx[e][i] \in GDPPacket
  BY ElementOfSeq, LenProperties DEF TypeOK
<1> QED  BY <1>1, <1>2, <1>3, <1>4, ForwardPayload

LEMMA QueueOrderedInductive ==
  TypeOK /\ QueueOwned /\ QueueOrdered /\ [Next]_vars => QueueOrdered'
<1> SUFFICES ASSUME TypeOK, QueueOwned, QueueOrdered, [Next]_vars
             PROVE  QueueOrdered'
  OBVIOUS
<1>1. CASE rib_rx' = rib_rx
  BY <1>1 DEF QueueOrdered
<1>2. CASE rib_rx' = <<>>
  BY <1>2 DEF QueueOrdered
<1>3. CASE rib_rx # <<>> /\ rib_rx' = Tail(rib_rx)
  BY <1>3, TailElements DEF QueueOrdered
<1>4. ASSUME NEW e \in Endpoint, NEW n \in Routable, Forward(e, n),
             rib_rx' # rib_rx
      PROVE  QueueOrdered'
  <2>1. PICK pkt \in GDPPacket :
          /\ Origin(pkt) = e /\ Number(pkt) = sent[e] + 1
          /\ rib_rx' = Append(rib_rx, pkt)
    BY <1>4, ForwardStep
  <2> SUFFICES ASSUME NEW i \in 1 .. Len(rib_rx'), NEW j \in 1 .. Len(rib_rx'),
                      i < j, Origin(rib_rx'[i]) = Origin(rib_rx'[j])
               PROVE  Number(rib_rx'[i]) < Number(rib_rx'[j])
    BY DEF QueueOrdered
  <2>2. i \in 1 .. Len(rib_rx) /\ rib_rx'[i] = rib_rx[i]
    BY <2>1, AppendElements
  <2>3. CASE j \in 1 .. Len(rib_rx)
    BY <2>1, <2>2, <2>3, AppendElements DEF QueueOrdered
  <2>4. CASE rib_rx'[j] = pkt
    <3>1. Origin(rib_rx[i]) = e /\ Number(rib_rx[i]) <= sent[e]
      BY <2>1, <2>2, <2>4 DEF QueueOwned
    <3>2. Number(rib_rx[i]) \in Nat /\ sent[e] \in Nat
      BY <2>2, Numbers
    <3> QED  BY <2>1, <2>2, <2>4, <3>1, <3>2
  <2> QED  BY <2>1, <2>3, <2>4, AppendElements
<1> QED  BY <1>1, <1>2, <1>3, <1>4, QueueStep

LEMMA LogBehindInductive ==
  TypeOK /\ QueueOwned /\ QueueOrdered /\ LogBehind /\ [Next]_vars => LogBehind'
<1> SUFFICES ASSUME TypeOK, QueueOwned, QueueOrdered, LogBehind, [Next]_vars,
                    NEW e \in Endpoint,
                    NEW i \in 1 .. Len(m_rx'[e]), IsForward(m_rx'[e][i])
             PROVE  /\ Number(m_rx'[e][i]) <= sent'[Origin(m_rx'[e][i])]
                    /\ \A j \in 1 .. Len(rib_rx') :
                         Origin(rib_rx'[j]) = Origin(m_rx'[e][i])
                           => Number(m_rx'[e][i]) < Number(rib_rx'[j])
  BY DEF LogBehind, IsForward
<1> DEFINE new == m_rx'[e][i]
(* A packet that was behind the queue and within sent stays so.            *)
<1>1. ASSUME NEW pkt, Origin(pkt) \in Endpoint, Number(pkt) \in Nat,
             Number(pkt) <= sent[Origin(pkt)],
             \A j \in 1 .. Len(rib_rx) :
               Origin(rib_rx[j]) = Origin(pkt) => Number(pkt) < Number(rib_rx[j])
      PROVE  /\ Number(pkt) <= sent'[Origin(pkt)]
             /\ \A j \in 1 .. Len(rib_rx') :
                  Origin(rib_rx'[j]) = Origin(pkt)
                    => Number(pkt) < Number(rib_rx'[j])
  <2>1. CASE rib_rx' = rib_rx /\ sent' = sent
    BY <1>1, <2>1
  <2>2. CASE rib_rx' = <<>> /\ sent' = sent
    BY <1>1, <2>2
  <2>3. CASE rib_rx # <<>> /\ rib_rx' = Tail(rib_rx) /\ sent' = sent
    BY <1>1, <2>3, TailElements
  <2>4. ASSUME NEW x \in Endpoint, NEW n \in Routable, Forward(x, n)
        PROVE  /\ Number(pkt) <= sent'[Origin(pkt)]
               /\ \A j \in 1 .. Len(rib_rx') :
                    Origin(rib_rx'[j]) = Origin(pkt)
                      => Number(pkt) < Number(rib_rx'[j])
    <3>1. PICK f \in GDPPacket :
            /\ Origin(f) = x /\ Number(f) = sent[x] + 1
            /\ rib_rx' = Append(rib_rx, f) \/ rib_rx' = rib_rx
            /\ sent' = [sent EXCEPT ![x] = @ + 1]
      BY <2>4, ForwardStep
    <3>2. Number(pkt) <= sent'[Origin(pkt)]
      BY <1>1, <3>1, Numbers
    <3>3. CASE rib_rx' = rib_rx
      BY <1>1, <3>2, <3>3
    <3>4. CASE rib_rx' = Append(rib_rx, f)
      <4> SUFFICES ASSUME NEW j \in 1 .. Len(rib_rx'),
                          Origin(rib_rx'[j]) = Origin(pkt)
                   PROVE  Number(pkt) < Number(rib_rx'[j])
        BY <3>2
      <4>1. CASE j \in 1 .. Len(rib_rx)
        BY <1>1, <3>4, <4>1, AppendElements
      <4>2. CASE rib_rx'[j] = f
        BY <1>1, <3>1, <4>2, Numbers
      <4> QED  BY <3>4, <4>1, <4>2, AppendElements
    <3> QED  BY <3>1, <3>3, <3>4
  <2> QED  BY <2>1, <2>2, <2>3, <2>4, QueueStep
<1>2. PICK pkts :
        /\ GrowsBy(e, pkts)
        /\ \/ \A p \in pkts : ~IsForward(p)
           \/ RecvPacket /\ pkts \subseteq {Head(rib_rx)}
           \/ \E x \in Endpoint, n \in Routable :
                /\ Forward(x, n) /\ NextHop[x] # Rib
                /\ \A p \in pkts : p \in GDPPacket /\ Origin(p) = x
                                     /\ Number(p) = sent[x] + 1
  BY LogStep
<1>3. CASE i \in 1 .. Len(m_rx[e])
  <2>1. new = m_rx[e][i]
    BY <1>2, <1>3 DEF GrowsBy
  <2>2. /\ Origin(new) \in Endpoint /\ Number(new) \in Nat
        /\ Number(new) <= sent[Origin(new)]
        /\ \A j \in 1 .. Len(rib_rx) :
             Origin(rib_rx[j]) = Origin(new) => Number(new) < Number(rib_rx[j])
    BY <1>3, <2>1, Numbers DEF LogBehind, IsForward
  <2> QED  BY <1>1, <2>2
<1>4. CASE i \notin 1 .. Len(m_rx[e])
  <2>1. new \in pkts
    <3>1. i \in Len(m_rx[e]) + 1 .. Len(m_rx'[e])
      BY <1>2, <1>4, Numbers, LenProperties DEF GrowsBy
    <3> QED  BY <1>2, <3>1 DEF GrowsBy
  <2>2. CASE RecvPacket /\ pkts \subseteq {Head(rib_rx)}
    <3>1. /\ new = rib_rx[1] /\ 1 \in 1 .. Len(rib_rx)
          /\ rib_rx # <<>> /\ rib_rx' = Tail(rib_rx) /\ sent' = sent
      <4>1. rib_rx # <<>> /\ rib_rx' = Tail(rib_rx) /\ sent' = sent
        BY <2>2 DEF RecvPacket, history
      <4>2. Len(rib_rx) \in Nat /\ Len(rib_rx) # 0 /\ Head(rib_rx) = rib_rx[1]
        BY <4>1, Numbers, HeadTailProperties, LenProperties, EmptySeq DEF TypeOK
      <4>3. new = Head(rib_rx)
        BY <2>1, <2>2
      <4> QED  BY <4>1, <4>2, <4>3
    <3>2. Number(new) <= sent'[Origin(new)]
      BY <3>1 DEF QueueOwned
    <3>3. ASSUME NEW j \in 1 .. Len(rib_rx'), Origin(rib_rx'[j]) = Origin(new)
          PROVE  Number(new) < Number(rib_rx'[j])
      <4>1. j + 1 \in 1 .. Len(rib_rx) /\ 1 < j + 1
            /\ rib_rx'[j] = rib_rx[j + 1]
        BY <3>1, <3>3, TailElements
      <4> HIDE DEF new
      <4> QED  BY <3>1, <3>3, <4>1 DEF QueueOrdered
    <3> QED  BY <3>2, <3>3
  <2>3. CASE \E x \in Endpoint, n \in Routable :
                /\ Forward(x, n) /\ NextHop[x] # Rib
                /\ \A p \in pkts : p \in GDPPacket /\ Origin(p) = x
                                     /\ Number(p) = sent[x] + 1
    <3>1. PICK x \in Endpoint, n \in Routable :
            /\ Forward(x, n) /\ NextHop[x] # Rib
            /\ Origin(new) = x /\ Number(new) = sent[x] + 1
      BY <2>1, <2>3
    <3>2. sent' = [sent EXCEPT ![x] = @ + 1] /\ rib_rx' = rib_rx
      BY <3>1, ForwardStep
    <3>3. Number(new) <= sent'[Origin(new)]
      BY <3>1, <3>2, Numbers
    <3>4. \A j \in 1 .. Len(rib_rx) : Origin(rib_rx[j]) # x
      BY <3>1 DEF QueueOwned
    <3> QED  BY <3>1, <3>2, <3>3, <3>4
  <2> QED  BY <1>2, <2>1, <2>2, <2>3
<1> QED  BY <1>3, <1>4

LEMMA InOrderInductive ==
  TypeOK /\ QueueOwned /\ LogBehind /\ InOrder /\ [Next]_vars => InOrder'
<1> SUFFICES ASSUME TypeOK, QueueOwned, LogBehind, InOrder, [Next]_vars,
                    NEW e \in Endpoint,
                    NEW i \in DOMAIN m_rx'[e], NEW j \in DOMAIN m_rx'[e],
                    i < j,
                    IsForward(m_rx'[e][i]), IsForward(m_rx'[e][j]),
                    Origin(m_rx'[e][i]) = Origin(m_rx'[e][j])
             PROVE  Number(m_rx'[e][i]) <= Number(m_rx'[e][j])
  BY DEF InOrder, IsForward, Origin, Number
<1> DEFINE one == m_rx'[e][i]
           two == m_rx'[e][j]
<1>1. PICK pkts :
        /\ GrowsBy(e, pkts)
        /\ \/ \A p \in pkts : ~IsForward(p)
           \/ RecvPacket /\ pkts \subseteq {Head(rib_rx)}
           \/ \E x \in Endpoint, n \in Routable :
                /\ Forward(x, n) /\ NextHop[x] # Rib
                /\ \A p \in pkts : p \in GDPPacket /\ Origin(p) = x
                                     /\ Number(p) = sent[x] + 1
  BY LogStep
<1>2. /\ DOMAIN m_rx'[e] = 1 .. Len(m_rx'[e]) /\ Len(m_rx'[e]) \in Nat
      /\ DOMAIN m_rx[e] = 1 .. Len(m_rx[e]) /\ Len(m_rx[e]) \in Nat
  BY <1>1, Numbers, LenProperties DEF GrowsBy
<1>3. CASE j \in 1 .. Len(m_rx[e])
  <2>1. i \in 1 .. Len(m_rx[e])
    BY <1>2, <1>3
  <2>2. one = m_rx[e][i] /\ two = m_rx[e][j]
    BY <1>1, <1>3, <2>1 DEF GrowsBy
  <2> QED  BY <1>2, <1>3, <2>1, <2>2 DEF InOrder, Origin, Number
<1>4. CASE j \notin 1 .. Len(m_rx[e])
  <2>1. two \in pkts
    BY <1>1, <1>2, <1>4 DEF GrowsBy
  (* What is already in the log is behind a packet that is added.          *)
  <2>2. CASE i \in 1 .. Len(m_rx[e])
    <3>1. /\ one = m_rx[e][i]
          /\ Origin(one) \in Endpoint /\ Number(one) \in Nat
          /\ Number(one) <= sent[Origin(one)]
          /\ \A k \in 1 .. Len(rib_rx) :
               Origin(rib_rx[k]) = Origin(one)
                 => Number(one) < Number(rib_rx[k])
      BY <1>1, <2>2, Numbers DEF GrowsBy, LogBehind, IsForward
    <3>2. CASE RecvPacket /\ pkts \subseteq {Head(rib_rx)}
      <4>1. two = rib_rx[1] /\ 1 \in 1 .. Len(rib_rx)
        BY <2>1, <3>2, Numbers, HeadTailProperties, LenProperties
           DEF RecvPacket, TypeOK
      <4> QED  BY <3>1, <4>1, Numbers
    <3>3. CASE \E x \in Endpoint, n \in Routable :
                 /\ Forward(x, n) /\ NextHop[x] # Rib
                 /\ \A p \in pkts : p \in GDPPacket /\ Origin(p) = x
                                      /\ Number(p) = sent[x] + 1
      BY <2>1, <3>1, <3>3, Numbers
    <3> QED  BY <1>1, <2>1, <3>2, <3>3
  (* The packets one step adds to a log are copies of one packet.          *)
  <2>3. CASE i \notin 1 .. Len(m_rx[e])
    <3>1. one \in pkts
      BY <1>1, <1>2, <2>3 DEF GrowsBy
    <3>2. CASE RecvPacket /\ pkts \subseteq {Head(rib_rx)}
      <4>1. one = two
        BY <2>1, <3>1, <3>2
      <4>2. two = rib_rx[1] /\ 1 \in 1 .. Len(rib_rx)
        BY <2>1, <3>2, Numbers, HeadTailProperties, LenProperties
           DEF RecvPacket, TypeOK
      <4> QED  BY <4>1, <4>2, Numbers
    <3>3. CASE \E x \in Endpoint, n \in Routable :
                 /\ Forward(x, n) /\ NextHop[x] # Rib
                 /\ \A p \in pkts : p \in GDPPacket /\ Origin(p) = x
                                      /\ Number(p) = sent[x] + 1
      BY <2>1, <3>1, <3>3, Numbers
    <3> QED  BY <1>1, <2>1, <3>2, <3>3
  <2> QED  BY <2>2, <2>3
<1> QED  BY <1>3, <1>4

LEMMA OrderInit == Init => OrderInv
BY DEF Init, OrderInv, QueueOwned, QueueOrdered, LogBehind, InOrder

LEMMA OrderInductive == TypeOK /\ OrderInv /\ [Next]_vars => OrderInv'
BY QueueOwnedInductive, QueueOrderedInductive, LogBehindInductive,
   InOrderInductive DEF OrderInv

(* FIFO per origin holds for every set of endpoints, names and next hops,  *)
(* however registrations, broadcasts and closings interleave.              *)
THEOREM FifoPerOrigin == Spec => []InOrder
<1>1. OrderInv => InOrder
  BY DEF OrderInv
<1> QED  BY <1>1, OrderInit, OrderInductive, TypeCorrect, PTL DEF Spec
-----------------------------------------------------------------------------
(* Copies.  An advertisement is one registration, queued or in the table,  *)
(* and every route that leads to an endpoint is one of its registrations;  *)
(* a packet is routed once, when no log has a copy of it yet.              *)

Entries(e) == {r \in Table : coonection_rib_table[r[1]][r[2]].channel = e}

Pending(e) == {i \in 1 .. Len(channel_rx) : channel_rx[i].channel = e}

RegistrationsCounted ==
  \A e \in Endpoint :
    Cardinality(Entries(e)) + Cardinality(Pending(e)) <= advertised[e]

CopiesOf(e, p) == {i \in 1 .. Len(m_rx[e]) : m_rx[e][i].payload = p}

MostCopies(e, p) ==
  IF NextHop[p[1]] = Rib THEN advertised[e]
  ELSE IF NextHop[p[1]] = e THEN 1 ELSE 0

CopiesBounded ==
  \A e \in Endpoint, p \in Payload :
    Cardinality(CopiesOf(e, p)) <= MostCopies(e, p)

CopiesInv == RegistrationsCounted /\ CopiesBounded

LEMMA RegistrationsFinite ==
  ASSUME TypeOK, NEW e \in Endpoint
  PROVE  /\ IsFiniteSet(Entries(e)) /\ Cardinality(Entries(e)) \in Nat
         /\ IsFiniteSet(Pending(e)) /\ Cardinality(Pending(e)) \in Nat
<1>1. Entries(e) \in SUBSET Table
  BY DEF Entries
<1>6. IsFiniteSet(Entries(e)) /\ Cardinality(Entries(e)) \in Nat
  BY <1>1, TableFinite, FS_Subset, FS_CardinalityType
<1>7. Len(channel_rx) \in Nat /\ Pending(e) \in SUBSET (1 .. Len(channel_rx))
  BY LenProperties DEF TypeOK, Pending
<1>8. IsFiniteSet(1 .. Len(channel_rx))
  BY <1>7, FS_Interval
<1>9. IsFiniteSet(Pending(e)) /\ Cardinality(Pending(e)) \in Nat
  BY <1>7, <1>8, FS_Subset, FS_CardinalityType
<1> QED  BY <1>6, <1>9

(* A registration joins the queue.                                         *)
LEMMA AdvertiseCounted ==
  ASSUME TypeOK, RegistrationsCounted,
         NEW x \in Endpoint, NEW n \in Routable, Advertise(x, n)
  PROVE  RegistrationsCounted'
<1> SUFFICES ASSUME NEW e \in Endpoint
             PROVE  Cardinality(Entries(e)') + Cardinality(Pending(e)')
                      <= advertised'[e]
  BY DEF RegistrationsCounted
<1>1. PICK c : c = [gdpname |-> n, channel |-> x,
                    advertisement |->
                      construct_gdp_advertisement_from_bytes(n, SourceName[x])]
  OBVIOUS
<1>2. channel_rx' = Append(channel_rx, c) \/ channel_rx' = channel_rx
  BY <1>1 DEF Advertise, ProcAdvertise, construct_gdp_advertisement_from_bytes
<1>3. c \in GDPChannel /\ c.channel = x
  BY <1>1, ConstantsAssumption, PacketTypes DEF GDPChannel
<1>4. /\ Entries(e)' = Entries(e)
      /\ advertised' = [advertised EXCEPT ![x] = advertised[x] + 1]
      /\ advertised \in [Endpoint -> Nat]
  BY DEF Advertise, Entries, Table, TypeOK
<1>5. /\ IsFiniteSet(Entries(e)) /\ Cardinality(Entries(e)) \in Nat
      /\ IsFiniteSet(Pending(e)) /\ Cardinality(Pending(e)) \in Nat
      /\ Cardinality(Entries(e)) + Cardinality(Pending(e)) <= advertised[e]
  BY RegistrationsFinite DEF RegistrationsCounted
<1>6. CASE channel_rx' = channel_rx
  <2>1. Pending(e)' = Pending(e)
    BY <1>6 DEF Pending
  <2> QED  BY <1>4, <1>5, <2>1
<1>7. CASE channel_rx' = Append(channel_rx, c)
  <2>1. PICK k : k = Len(channel_rx) + 1 /\ Len(channel_rx) \in Nat
    BY LenProperties DEF TypeOK
  <2>2. /\ Len(channel_rx') = Len(channel_rx) + 1 /\ channel_rx'[k] = c
        /\ \A i \in 1 .. Len(channel_rx) : channel_rx'[i] = channel_rx[i]
    BY <1>3, <1>7, <2>1, AppendProperties DEF TypeOK
  <2>3. \A i \in 1 .. Len(channel_rx') : i \in 1 .. Len(channel_rx) \/ i = k
    BY <2>1, <2>2
  <2>4. CASE e = x
    <3>1. Pending(e)' = Pending(e) \cup {k} /\ k \notin Pending(e)
      BY <1>3, <2>1, <2>2, <2>3, <2>4 DEF Pending
    <3>2. Cardinality(Pending(e)') = Cardinality(Pending(e)) + 1
      BY <1>5, <3>1, FS_AddElement
    <3> QED  BY <1>4, <1>5, <2>4, <3>2
  <2>5. CASE e # x
    <3>1. Pending(e)' = Pending(e)
      BY <1>3, <2>1, <2>2, <2>3, <2>5 DEF Pending
    <3> QED  BY <1>4, <1>5, <2>5, <3>1
  <2> QED  BY <2>4, <2>5
<1> QED  BY <1>2, <1>6, <1>7

(* A registration moves from the queue to the table.                       *)
LEMMA RecvChannelCounted ==
  ASSUME TypeOK, RegistrationsCounted, RecvChannel
  PROVE  RegistrationsCounted'
<1> SUFFICES ASSUME NEW e \in Endpoint
             PROVE  Cardinality(Entries(e)') + Cardinality(Pending(e)')
                      <= advertised'[e]
  BY DEF RegistrationsCounted
<1>1. PICK c : c = Head(channel_rx)
  OBVIOUS
<1>2. /\ c \in GDPChannel /\ c = channel_rx[1] /\ 1 \in 1 .. Len(channel_rx)
      /\ Len(channel_rx) \in Nat /\ Len(channel_rx') = Len(channel_rx) - 1
      /\ \A i \in 1 .. Len(channel_rx') : channel_rx'[i] = channel_rx[i + 1]
  BY <1>1, HeadTailProperties, LenProperties DEF TypeOK, RecvChannel
<1>3. PICK t, name : t = coonection_rib_table[name] /\ name = c.gdpname
  OBVIOUS
<1>4. /\ name \in GDPName /\ t \in Seq(GDPChannel) /\ Len(t) \in Nat
      /\ DOMAIN t = 1 .. Len(t)
  BY <1>2, <1>3, LenProperties DEF TypeOK, GDPChannel
<1>5. coonection_rib_table' = [coonection_rib_table EXCEPT ![name] = Append(t, c)]
  BY <1>1, <1>3 DEF RecvChannel
<1>6. /\ DOMAIN Append(t, c) = 1 .. Len(t) + 1 /\ Append(t, c)[Len(t) + 1] = c
      /\ \A i \in 1 .. Len(t) : Append(t, c)[i] = t[i]
  <2>1. Append(t, c) \in Seq(GDPChannel) /\ Len(Append(t, c)) = Len(t) + 1
    BY <1>2, <1>4, AppendProperties
  <2> QED  BY <1>2, <1>4, <2>1, AppendProperties, LenProperties
<1>7. PICK r : r = <<name, Len(t) + 1>>
  OBVIOUS
<1>8. r[1] = name /\ r[2] = Len(t) + 1
  BY <1>7
<1>9. /\ Table' = Table \cup {r} /\ r \notin Table
  <2>1. \A s : s \in Table <=> \E n \in GDPName :
                 s \in {n} \X DOMAIN coonection_rib_table[n]
    BY DEF Table
  <2>2. \A s : s \in Table' <=> \E n \in GDPName :
                 s \in {n} \X DOMAIN coonection_rib_table'[n]
    BY DEF Table
  <2>3. \A n \in GDPName \ {name} :
          coonection_rib_table'[n] = coonection_rib_table[n]
    BY <1>4, <1>5 DEF TypeOK
  <2>4. coonection_rib_table'[name] = Append(t, c)
    BY <1>4, <1>5 DEF TypeOK
  <2>5. DOMAIN Append(t, c) = (1 .. Len(t)) \cup {Len(t) + 1}
    BY <1>4, <1>6
  <2>6. {name} \X DOMAIN Append(t, c) = ({name} \X DOMAIN t) \cup {r}
    BY <1>4, <1>7, <2>5
  <2>7. \A s : s \in Table' <=> s \in Table \/ s = r
    <3>1. \A s : (s \in {name} \X DOMAIN coonection_rib_table'[name])
                   <=> s \in {name} \X DOMAIN coonection_rib_table[name] \/ s = r
      BY <1>3, <2>4, <2>6
    <3>2. \A n \in GDPName \ {name} : \A s :
            (s \in {n} \X DOMAIN coonection_rib_table'[n])
              <=> s \in {n} \X DOMAIN coonection_rib_table[n]
      BY <2>3
    <3> QED  BY <1>4, <2>1, <2>2, <3>1, <3>2
  <2>8. r \notin Table
    <3>1. \A n \in GDPName : r \in {n} \X DOMAIN coonection_rib_table[n]
                               => n = name /\ Len(t) + 1 \in DOMAIN t
      BY <1>3, <1>7
    <3> QED  BY <1>4, <2>1, <3>1
  <2> QED  BY <2>7, <2>8
<1>10. \A s \in Table :
         coonection_rib_table'[s[1]][s[2]] = coonection_rib_table[s[1]][s[2]]
  <2> SUFFICES ASSUME NEW n \in GDPName,
                      NEW i \in DOMAIN coonection_rib_table[n]
               PROVE  coonection_rib_table'[n][i] = coonection_rib_table[n][i]
    BY DEF Table
  <2>1. CASE n = name
    BY <1>3, <1>4, <1>5, <1>6, <2>1 DEF TypeOK
  <2>2. CASE n # name
    BY <1>4, <1>5, <2>2 DEF TypeOK
  <2> QED  BY <2>1, <2>2
<1>11. coonection_rib_table'[r[1]][r[2]] = c
  BY <1>4, <1>5, <1>6, <1>8 DEF TypeOK
<1>12. /\ IsFiniteSet(Entries(e)) /\ Cardinality(Entries(e)) \in Nat
       /\ IsFiniteSet(Pending(e)) /\ Cardinality(Pending(e)) \in Nat
       /\ Cardinality(Entries(e)) + Cardinality(Pending(e)) <= advertised[e]
       /\ advertised[e] \in Nat /\ advertised' = advertised
  BY RegistrationsFinite DEF RegistrationsCounted, TypeOK, RecvChannel, history
<1>13. Cardinality(Pending(e)') <= Cardinality(Pending(e) \ {1})
  <2>1. PICK later, now : later = Pending(e)' /\ now = Pending(e) \ {1}
    OBVIOUS
  <2>2. \A i \in later : i \in Nat /\ i + 1 \in now
    BY <1>2, <2>1 DEF Pending
  <2>3. [i \in later |-> i + 1] \in Injection(later, now)
    BY <2>2 DEF Injection, IsInjective
  <2>4. IsFiniteSet(now)
    BY <1>12, <2>1, FS_RemoveElement
  <2>5. Cardinality(later) <= Cardinality(now)
    BY <2>3, <2>4, FS_Injection
  <2> QED  BY <2>1, <2>5
<1>14. Cardinality(Pending(e)') \in Nat
  <2>1. PICK later : later = Pending(e)'
    OBVIOUS
  <2>2. IsFiniteSet(1 .. Len(channel_rx'))
    BY <1>2, FS_Interval
  <2>3. later \in SUBSET (1 .. Len(channel_rx'))
    BY <2>1 DEF Pending
  <2> QED  BY <2>1, <2>2, <2>3, FS_Subset, FS_CardinalityType
<1>15. CASE e = c.channel
  <2>1. Entries(e)' = Entries(e) \cup {r} /\ r \notin Entries(e)
    BY <1>9, <1>10, <1>11, <1>15 DEF Entries
  <2>2. Cardinality(Entries(e)') = Cardinality(Entries(e)) + 1
    BY <1>12, <2>1, FS_AddElement
  <2>3. 1 \in Pending(e)
    BY <1>2, <1>15 DEF Pending
  <2>4. Cardinality(Pending(e) \ {1}) = Cardinality(Pending(e)) - 1
    BY <1>12, <2>3, FS_RemoveElement
  <2> QED  BY <1>12, <1>13, <1>14, <2>2, <2>4
<1>16. CASE e # c.channel
  <2>1. Entries(e)' = Entries(e)
    BY <1>9, <1>10, <1>11, <1>16 DEF Entries
  <2>2. 1 \notin Pending(e)
    BY <1>2, <1>16 DEF Pending
  <2>3. Cardinality(Pending(e) \ {1}) = Cardinality(Pending(e))
    BY <1>12, <2>2, FS_RemoveElement
  <2> QED  BY <1>12, <1>13, <1>14, <2>1, <2>3
<1> QED  BY <1>15, <1>16

LEMMA RegistrationsCountedInductive ==
  TypeOK /\ RegistrationsCounted /\ [Next]_vars => RegistrationsCounted'
<1> SUFFICES ASSUME TypeOK, RegistrationsCounted, [Next]_vars
             PROVE  RegistrationsCounted'
  OBVIOUS
<1>1. CASE UNCHANGED <<channel_rx, coonection_rib_table, advertised>>
  <2>1. \A e \in Endpoint : Entries(e)' = Entries(e) /\ Pending(e)' = Pending(e)
    BY <1>1 DEF Entries, Table, Pending
  <2> QED  BY <1>1, <2>1 DEF RegistrationsCounted
<1>2. CASE RecvPacketOverflow
  <2> SUFFICES ASSUME NEW e \in Endpoint
               PROVE  Cardinality(Entries(e)') + Cardinality(Pending(e)')
                        <= advertised'[e]
    BY DEF RegistrationsCounted
  <2>1. channel_rx' = <<>> /\ coonection_rib_table' = [n \in GDPName |-> <<>>]
        /\ advertised' = advertised
    BY <1>2 DEF RecvPacketOverflow, history
  <2>2. Entries(e)' = {} /\ Pending(e)' = {}
    BY <2>1 DEF Entries, Table, Pending
  <2>3. advertised[e] \in Nat
    BY DEF TypeOK
  <2> QED  BY <2>1, <2>2, <2>3, FS_EmptySet
<1>3. CASE RecvChannel
  BY <1>3, RecvChannelCounted
<1>4. ASSUME NEW e \in Endpoint, NEW n \in Routable, Advertise(e, n)
      PROVE  RegistrationsCounted'
  BY <1>4, AdvertiseCounted
<1> QED
  BY <1>1, <1>2, <1>3, <1>4
     DEF Next, RecvPacket, RecvStatus, Close, RequestFlush, Forward,
         ProcForward, vars, queues, history

(* A payload is a pair, and an advertisement carries none.                 *)
LEMMA PayloadForwarded ==
  ASSUME NEW pkt \in GDPPacket, NEW p \in Payload, pkt.payload = p
  PROVE  /\ IsForward(pkt) /\ Origin(pkt) = p[1] /\ Number(pkt) = p[2]
<1>1. p # <<>>
  BY DEF Payload
<1> QED  BY <1>1 DEF GDPPacket, IsForward, Origin, Number

(* Copies of a payload come only with packets that carry it; the first of  *)
(* them are as many as the log grows by.                                   *)
LEMMA NoNewCopies ==
  ASSUME TypeOK, NEW e \in Endpoint, NEW pkts, GrowsBy(e, pkts), NEW p,
         \A pkt \in pkts : pkt.payload # p
  PROVE  CopiesOf(e, p)' = CopiesOf(e, p)
<1>1. /\ Len(m_rx[e]) \in Nat /\ Len(m_rx'[e]) \in Nat
      /\ Len(m_rx[e]) <= Len(m_rx'[e])
      /\ \A i \in 1 .. Len(m_rx[e]) : m_rx'[e][i] = m_rx[e][i]
      /\ \A i \in Len(m_rx[e]) + 1 .. Len(m_rx'[e]) : m_rx'[e][i] \in pkts
  BY LenProperties DEF GrowsBy, TypeOK
<1>2. \A i \in 1 .. Len(m_rx'[e]) :
        i \in 1 .. Len(m_rx[e]) \/ i \in Len(m_rx[e]) + 1 .. Len(m_rx'[e])
  BY <1>1
<1> QED  BY <1>1, <1>2 DEF CopiesOf

LEMMA FirstCopies ==
  ASSUME TypeOK, NEW e \in Endpoint, NEW pkts, GrowsBy(e, pkts), NEW p,
         CopiesOf(e, p) = {}, NEW n \in Nat,
         Len(m_rx'[e]) <= Len(m_rx[e]) + n
  PROVE  /\ Cardinality(CopiesOf(e, p)') \in Nat
         /\ Cardinality(CopiesOf(e, p)') <= n
<1>1. PICK k, l : k = Len(m_rx[e]) /\ l = Len(m_rx'[e])
  OBVIOUS
<1>2. /\ k \in Nat /\ l \in Nat /\ k <= l /\ l <= k + n
      /\ \A i \in 1 .. k : m_rx'[e][i] = m_rx[e][i]
  BY <1>1, LenProperties DEF GrowsBy, TypeOK
<1>3. CopiesOf(e, p)' \in SUBSET (k + 1 .. l)
  <2> SUFFICES ASSUME NEW i \in 1 .. l, m_rx'[e][i].payload = p
               PROVE  i \in k + 1 .. l
    BY <1>1 DEF CopiesOf
  <2>1. i \notin 1 .. k
    BY <1>1, <1>2 DEF CopiesOf
  <2> QED  BY <1>2, <2>1
<1>4. PICK copies, new : copies = CopiesOf(e, p)' /\ new = k + 1 .. l
  OBVIOUS
<1>5. IsFiniteSet(new) /\ Cardinality(new) <= n
  <2>1. PICK first : first = k + 1 /\ first \in Int /\ l \in Int
    BY <1>2
  <2>2. /\ IsFiniteSet(first .. l)
        /\ Cardinality(first .. l) = IF first > l THEN 0 ELSE l - first + 1
    BY <2>1, FS_Interval
  <2> QED  BY <1>2, <1>4, <2>1, <2>2
<1>6. copies \in SUBSET new
  BY <1>3, <1>4
<1>7. /\ IsFiniteSet(copies) /\ Cardinality(copies) \in Nat
      /\ Cardinality(copies) <= Cardinality(new) /\ Cardinality(new) \in Nat
  BY <1>5, <1>6, FS_Subset, FS_CardinalityType
<1> QED  BY <1>4, <1>5, <1>7

(* The log of an endpoint grows by one copy for each of its routes.        *)
LEMMA RoutedCopies ==
  ASSUME TypeOK, RecvPacket, NEW e \in Endpoint
  PROVE  /\ GrowsBy(e, {Head(rib_rx)})
         /\ Cardinality(Entries(e)) \in Nat
         /\ Len(m_rx'[e]) <= Len(m_rx[e]) + Cardinality(Entries(e))
<1>1. PICK pkt \in GDPPacket : pkt = Head(rib_rx) /\ SendToDestination(pkt)
  BY HeadTailProperties DEF TypeOK, RecvPacket
<1>2. GrowsBy(e, {pkt})
  BY <1>1, SendGrows DEF GrowsBy
<1>3. PICK n : n = Cardinality(RoutesTo(e, pkt))
  OBVIOUS
<1>4. n \in Nat /\ n <= Cardinality(Entries(e)) /\ Cardinality(Entries(e)) \in Nat
  <2>1. RoutesTo(e, pkt) \in SUBSET Entries(e)
    <3>1. pkt.gdpname \in GDPName
      BY DEF GDPPacket
    <3> QED  BY <3>1 DEF RoutesTo, RoutingDsts, Entries, Table
  <2> QED  BY <1>3, <2>1, RegistrationsFinite, FS_Subset, FS_CardinalityType
<1>5. PICK q : q = [i \in 1 .. n |-> pkt]
  OBVIOUS
<1>6. q \in Seq(GDPPacket) /\ Len(q) = n
  BY <1>4, <1>5
<1>7. m_rx'[e] = m_rx[e] \o q \/ m_rx'[e] = m_rx[e]
  BY <1>1, <1>3, <1>5 DEF SendToDestination, Copies
<1>8. m_rx[e] \in Seq(GDPPacket) /\ Len(m_rx[e]) \in Nat
  BY LenProperties DEF TypeOK
<1>9. Len(m_rx[e] \o q) = Len(m_rx[e]) + n
  BY <1>6, <1>8, ConcatProperties
<1> QED  BY <1>1, <1>2, <1>4, <1>7, <1>8, <1>9

(* What is queued or unsent is in no log: numbers in the logs are behind.  *)
LEMMA NoCopyYet ==
  ASSUME TypeOK, OrderInv, NEW e \in Endpoint, NEW p \in Payload,
         \/ \E j \in 1 .. Len(rib_rx) : rib_rx[j].payload = p
         \/ p[2] > sent[p[1]]
  PROVE  CopiesOf(e, p) = {}
<1> SUFFICES ASSUME NEW i \in 1 .. Len(m_rx[e]), m_rx[e][i].payload = p
             PROVE  FALSE
  BY DEF CopiesOf
<1>1. m_rx[e][i] \in GDPPacket
  BY ElementOfSeq DEF TypeOK
<1>2. /\ IsForward(m_rx[e][i]) /\ Origin(m_rx[e][i]) = p[1]
      /\ Number(m_rx[e][i]) = p[2]
  BY <1>1, PayloadForwarded
<1>3. p[1] \in Endpoint /\ p[2] \in Nat /\ sent[p[1]] \in Nat
  <2>1. PICK x \in Endpoint : p \in {x} \X (1 .. MaxSent[x])
    BY DEF Payload
  <2> QED  BY <2>1 DEF TypeOK
<1>4. /\ p[2] <= sent[p[1]]
      /\ \A j \in 1 .. Len(rib_rx) :
           Origin(rib_rx[j]) = p[1] => p[2] < Number(rib_rx[j])
  BY <1>2 DEF OrderInv, LogBehind
<1>5. CASE \E j \in 1 .. Len(rib_rx) : rib_rx[j].payload = p
  <2>1. PICK j \in 1 .. Len(rib_rx) : rib_rx[j].payload = p
    BY <1>5
  <2>2. Origin(rib_rx[j]) = p[1] /\ Number(rib_rx[j]) = p[2]
    BY <2>1 DEF Origin, Number
  <2> QED  BY <1>3, <1>4, <2>2
<1> QED  BY <1>3, <1>4, <1>5

LEMMA CopiesBoundedInductive ==
  TypeOK /\ OrderInv /\ CopiesInv /\ [Next]_vars => CopiesBounded'
<1> SUFFICES ASSUME TypeOK, OrderInv, CopiesInv, [Next]_vars,
                    NEW e \in Endpoint, NEW p \in Payload
             PROVE  Cardinality(CopiesOf(e, p)') <= MostCopies(e, p)'
  BY DEF CopiesBounded
<1>1. /\ advertised[e] \in Nat /\ advertised'[e] \in Nat
      /\ advertised[e] <= advertised'[e]
  <2>1. advertised \in [Endpoint -> Nat]
    BY DEF TypeOK
  <2>2. \/ advertised' = advertised
        \/ \E x \in Endpoint : advertised' = [advertised EXCEPT ![x] = @ + 1]
    BY DEF Next, RecvPacket, RecvPacketOverflow, RecvChannel, RecvStatus,
           Close, RequestFlush, Advertise, Forward, vars, history
  <2> QED  BY <2>1, <2>2
<1>2. /\ MostCopies(e, p) \in Nat /\ MostCopies(e, p)' \in Nat
      /\ MostCopies(e, p) <= MostCopies(e, p)'
  BY <1>1 DEF MostCopies
<1>3. /\ Cardinality(CopiesOf(e, p)) <= MostCopies(e, p)
      /\ Cardinality(CopiesOf(e, p)) \in Nat
  <2>1. Len(m_rx[e]) \in Nat /\ CopiesOf(e, p) \in SUBSET (1 .. Len(m_rx[e]))
    BY LenProperties DEF TypeOK, CopiesOf
  <2>2. IsFiniteSet(1 .. Len(m_rx[e]))
    BY <2>1, FS_Interval
  <2> QED
    BY <2>1, <2>2, FS_Subset, FS_CardinalityType DEF CopiesInv, CopiesBounded
<1>4. CASE CopiesOf(e, p)' = CopiesOf(e, p)
  BY <1>2, <1>3, <1>4
<1>5. CASE RecvPacket
  <2>1. PICK pkt : pkt = Head(rib_rx)
    OBVIOUS
  <2>2. pkt = rib_rx[1] /\ 1 \in 1 .. Len(rib_rx)
    BY <1>5, <2>1, HeadTailProperties, LenProperties DEF TypeOK, RecvPacket
  <2>3. /\ GrowsBy(e, {pkt}) /\ Cardinality(Entries(e)) \in Nat
        /\ Len(m_rx'[e]) <= Len(m_rx[e]) + Cardinality(Entries(e))
    BY <1>5, <2>1, RoutedCopies
  <2>4. CASE pkt.payload # p
    BY <1>4, <2>3, <2>4, NoNewCopies
  <2>5. CASE pkt.payload = p
    <3>1. CopiesOf(e, p) = {}
      BY <2>2, <2>5, NoCopyYet
    <3>2. /\ Cardinality(CopiesOf(e, p)') \in Nat
          /\ Cardinality(CopiesOf(e, p)') <= Cardinality(Entries(e))
      BY <2>3, <3>1, FirstCopies
    <3>3. Cardinality(Entries(e)) <= advertised[e]
      <4>1. /\ Cardinality(Pending(e)) \in Nat
            /\ Cardinality(Entries(e)) + Cardinality(Pending(e)) <= advertised[e]
        BY RegistrationsFinite DEF CopiesInv, RegistrationsCounted
      <4> QED  BY <1>1, <2>3, <4>1
    <3>4. NextHop[p[1]] = Rib
      BY <2>2, <2>5 DEF OrderInv, QueueOwned, Origin
    <3>5. MostCopies(e, p)' = advertised'[e]
      BY <3>4 DEF MostCopies
    <3> QED  BY <1>1, <2>3, <3>2, <3>3, <3>5
  <2> QED  BY <2>4, <2>5
<1>6. CASE RecvStatus
  <2>1. GrowsBy(e, {pkt \in GDPPacket : pkt.action = "Advertise"})
    BY <1>6, StatusGrows
  <2>2. \A pkt \in {pkt \in GDPPacket : pkt.action = "Advertise"} :
          pkt.payload # p
    BY PayloadForwarded DEF IsForward
  <2> QED  BY <1>4, <2>1, <2>2, NoNewCopies
<1>7. ASSUME NEW x \in Endpoint, NEW n \in Routable, Forward(x, n)
      PROVE  Cardinality(CopiesOf(e, p)') <= MostCopies(e, p)'
  <2>1. PICK pkt \in GDPPacket :
          /\ IsForward(pkt) /\ Origin(pkt) = x /\ Number(pkt) = sent[x] + 1
          /\ ProcForward(x, pkt)
    BY <1>7, ForwardStep
  <2>2. GrowsBy(e, {q \in {pkt} : e = NextHop[x]})
    BY <2>1, ForwardGrows
  <2>3. CASE pkt.payload # p \/ e # NextHop[x]
    BY <1>4, <2>2, <2>3, NoNewCopies
  <2>4. CASE pkt.payload = p /\ e = NextHop[x]
    <3>1. p[1] = x /\ p[2] = sent[x] + 1 /\ sent[x] \in Nat
      BY <2>1, <2>4, ConstantsAssumption DEF Origin, Number, TypeOK
    <3>2. CopiesOf(e, p) = {}
      BY <3>1, NoCopyYet
    <3>3. NextHop[x] # Rib
      BY <2>4, ConstantsAssumption
    <3>4. m_rx'[e] = m_rx[e] \o <<pkt>> \/ m_rx'[e] = m_rx[e]
      BY <2>1, <2>4, <3>3 DEF ProcForward, Deliver, TypeOK
    <3>5. m_rx[e] \in Seq(GDPPacket) /\ Len(m_rx[e]) \in Nat
      BY LenProperties DEF TypeOK
    <3>6. <<pkt>> \in Seq(GDPPacket) /\ Len(<<pkt>>) = 1
      OBVIOUS
    <3>7. Len(m_rx[e] \o <<pkt>>) = Len(m_rx[e]) + 1
      BY <3>5, <3>6, ConcatProperties
    <3>8. Len(m_rx'[e]) <= Len(m_rx[e]) + 1
      BY <3>4, <3>5, <3>7
    <3>9. /\ Cardinality(CopiesOf(e, p)') \in Nat
          /\ Cardinality(CopiesOf(e, p)') <= 1
      BY <2>2, <3>2, <3>8, FirstCopies
    <3>10. MostCopies(e, p)' = 1
      BY <2>4, <3>1, <3>3 DEF MostCopies
    <3> QED  BY <3>9, <3>10
  <2> QED  BY <2>3, <2>4
<1>8. \/ m_rx' = m_rx \/ RecvPacket \/ RecvStatus
      \/ \E x \in Endpoint, n \in Routable : Forward(x, n)
  BY DEF Next, RecvPacketOverflow, RecvChannel, Close, RequestFlush, Advertise,
         ProcAdvertise, vars
<1>9. CASE m_rx' = m_rx
  BY <1>4, <1>9 DEF CopiesOf
<1> QED  BY <1>5, <1>6, <1>7, <1>8, <1>9

LEMMA CopiesInit == Init => CopiesInv
<1> SUFFICES ASSUME Init PROVE CopiesInv
  OBVIOUS
<1>1. ASSUME NEW e \in Endpoint
      PROVE  Cardinality(Entries(e)) + Cardinality(Pending(e)) <= advertised[e]
  <2>1. Entries(e) = {} /\ Pending(e) = {} /\ advertised[e] = 0
    BY DEF Init, Entries, Table, Pending
  <2> QED  BY <2>1, FS_EmptySet
<1>2. ASSUME NEW e \in Endpoint, NEW p \in Payload
      PROVE  Cardinality(CopiesOf(e, p)) <= MostCopies(e, p)
  <2>1. CopiesOf(e, p) = {} /\ advertised[e] = 0
    BY DEF Init, CopiesOf
  <2> QED  BY <2>1, FS_EmptySet DEF MostCopies
<1> QED  BY <1>1, <1>2 DEF CopiesInv, RegistrationsCounted, CopiesBounded

LEMMA CopiesInductive ==
  TypeOK /\ OrderInv /\ CopiesInv /\ [Next]_vars => CopiesInv'
BY RegistrationsCountedInductive, CopiesBoundedInductive DEF CopiesInv

LEMMA CopiesAreBounded == TypeOK /\ CopiesInv => BoundedCopies
<1> SUFFICES ASSUME TypeOK, CopiesInv, NEW e \in Endpoint, NEW p \in Payload
             PROVE  Cardinality({i \in DOMAIN m_rx[e] : m_rx[e][i].payload = p})
                      <= CASE NextHop[p[1]] = Rib -> advertised[e]
                           [] NextHop[p[1]] = e   -> 1
                           [] OTHER               -> 0
  BY DEF BoundedCopies
<1>1. DOMAIN m_rx[e] = 1 .. Len(m_rx[e])
  BY LenProperties DEF TypeOK
<1>2. {i \in DOMAIN m_rx[e] : m_rx[e][i].payload = p} = CopiesOf(e, p)
  BY <1>1 DEF CopiesOf
<1>3. Cardinality(CopiesOf(e, p)) <= MostCopies(e, p)
  BY DEF CopiesInv, CopiesBounded
<1>4. MostCopies(e, p) = CASE NextHop[p[1]] = Rib -> advertised[e]
                           [] NextHop[p[1]] = e   -> 1
                           [] OTHER               -> 0
  BY ConstantsAssumption DEF MostCopies
<1> QED  BY <1>2, <1>3, <1>4

(* A receiver gets at most one copy of a packet for each advertisement it  *)
(* made, and one of a packet sent to it directly, although registrations   *)
(* pile up in the table and closed channels stay there.                    *)
THEOREM CopiesPerAdvertisement == Spec => []BoundedCopies
<1> QED
  BY TypeCorrect, OrderInit, OrderInductive, CopiesInit, CopiesInductive,
     CopiesAreBounded, PTL DEF Spec
=============================================================================

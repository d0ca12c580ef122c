--------------------------- MODULE ConnectionRib ---------------------------
(***************************************************************************)
(* The connection RIB of one router: the task connection_router            *)
(* (core/src/connection_rib.rs), the three mpsc queues that feed it, and   *)
(* proc_gdp_packet (core/src/pipeline.rs), the only way the other tasks of *)
(* the router reach it.                                                    *)
(*                                                                         *)
(* The other tasks (ROS publishers and subscribers, TCP and DTLS sessions) *)
(* appear here only as endpoints: each owns an unbounded channel           *)
(* (m_tx, m_rx), may advertise and forward any name, and may end at any    *)
(* moment.  Module Router gives them the behaviour of the code.            *)
(*                                                                         *)
(* A handler of the RIB's select! loop contains no await that can suspend  *)
(* (unbounded sends never block), so each handler is one atomic action.    *)
(***************************************************************************)
EXTENDS Integers, Sequences, SequencesExt

CONSTANTS
  GDPName,         \* all names: topics, node names, session names
  Routable,        \* the names that are advertised and sent to
  Endpoint,        \* the tasks that own a channel (m_tx, m_rx)
  SourceName,      \* the name an endpoint puts in the source field
  Rib,             \* the next hop of an endpoint that sends to the RIB
  NextHop,         \* where an endpoint's Forward packets go
  FlushSink,       \* the sessions a flush can be requested for
  MaxCounter,      \* largest value of the RIB's packet counter (i32)
  OverflowChecks,  \* whether the build panics on integer overflow
  MaxSent,         \* bound: the Forward packets of each endpoint
  MaxAdvertised    \* bound: the Advertise packets of each endpoint

ASSUME ConstantsAssumption ==
  /\ IsFiniteSet(GDPName)
  /\ Routable \subseteq GDPName
  /\ SourceName \in [Endpoint -> GDPName]
  /\ Rib \notin Endpoint
  /\ NextHop \in [Endpoint -> Endpoint \cup {Rib}]
  /\ \A e \in Endpoint : NextHop[e] # e
  /\ FlushSink \subseteq Endpoint
  /\ MaxCounter \in Nat
  /\ OverflowChecks \in BOOLEAN
  /\ MaxSent \in [Endpoint -> Nat] /\ MaxAdvertised \in [Endpoint -> Nat]

VARIABLES
  rib_rx,               \* queue of packets to route
  channel_rx,           \* queue of channels to register
  stat_rs,              \* queue of flush requests (their sinks)
  coonection_rib_table, \* name -> Vec of channels; no entry is <<>>
  counter,              \* packets routed, an i32 in the code
  rib_up,               \* the RIB task has not panicked
  m_rx,                 \* everything ever sent into an endpoint's channel
  open,                 \* endpoints whose receiving half still exists
  flush_requested,      \* stat_tx.send has been called (once per process)
  sent,                 \* history: Forward packets produced per endpoint
  advertised            \* history: Advertise packets produced per endpoint

queues == <<rib_rx, channel_rx, stat_rs>>
history == <<flush_requested, sent, advertised>>
vars == <<queues, coonection_rib_table, counter, rib_up, m_rx, open, history>>

-----------------------------------------------------------------------------
(* Data: a payload is abstracted to the endpoint that produced it and the  *)
(* running number of the packet, the two things the properties tell apart. *)

Payload == UNION {{e} \X (1 .. MaxSent[e]) : e \in Endpoint}

GDPPacket ==
  [action : {"Forward"}, gdpname : GDPName, source : GDPName, payload : Payload]
    \cup
  [action : {"Advertise"}, gdpname : GDPName, source : GDPName, payload : {<<>>}]

GDPChannel ==
  [gdpname : GDPName, channel : Endpoint, advertisement : GDPPacket]

construct_gdp_forward_from_bytes(destination, source, buffer) ==
  [action |-> "Forward", gdpname |-> destination, source |-> source,
   payload |-> buffer]

(* mutant: the action is not changed with the name of the function         *)
construct_gdp_advertisement_from_bytes_Forward(destination, source) ==
  [action |-> "Forward", gdpname |-> destination, source |-> source,
   payload |-> <<>>]

construct_gdp_advertisement_from_bytes(destination, source) ==
  [action |-> "Advertise", gdpname |-> destination, source |-> source,
   payload |-> <<>>]

-----------------------------------------------------------------------------
Init ==
  /\ rib_rx = <<>> /\ channel_rx = <<>> /\ stat_rs = <<>>
  /\ coonection_rib_table = [n \in GDPName |-> <<>>]
  /\ counter = 0
  /\ rib_up = TRUE
  /\ m_rx = [e \in Endpoint |-> <<>>]
  /\ open = Endpoint
  /\ flush_requested = FALSE
  /\ sent = [e \in Endpoint |-> 0]
  /\ advertised = [e \in Endpoint |-> 0]

(* An unbounded send: delivered while the receiver exists, else Err.       *)
Deliver(e, pkts) ==
  m_rx' = [m_rx EXCEPT ![e] = IF e \in open THEN @ \o pkts ELSE @]

(***************************************************************************)
(* proc_gdp_packet on behalf of endpoint e.  Its parameter rib_tx is the   *)
(* next hop of e: the RIB's queue or, for a ROS node that peers with the   *)
(* gateway, the channel of its own session.  A failed send of an           *)
(* advertisement panics the calling task, whose m_rx is dropped with it; a *)
(* failed send of a packet is only logged.  Packets with any other action  *)
(* change nothing.                                                         *)
(***************************************************************************)
ProcAdvertise(e, pkt) ==
  /\ UNCHANGED <<rib_rx, m_rx>>
  /\ \/ /\ rib_up
        /\ channel_rx' = Append(channel_rx,
             [gdpname |-> pkt.gdpname, channel |-> e, advertisement |-> pkt])
        /\ UNCHANGED open
     \/ /\ ~rib_up
        /\ open' = open \ {e}
        /\ UNCHANGED channel_rx

ProcForward(e, pkt) ==
  /\ UNCHANGED <<channel_rx, open>>
  /\ \/ /\ NextHop[e] = Rib
        /\ rib_rx' = IF rib_up THEN Append(rib_rx, pkt) ELSE rib_rx
        /\ UNCHANGED m_rx
     \/ /\ NextHop[e] # Rib
        /\ Deliver(NextHop[e], <<pkt>>)
        /\ UNCHANGED rib_rx

Advertise(e, n) ==
  /\ e \in open
  /\ advertised[e] < MaxAdvertised[e]
  /\ ProcAdvertise(e, construct_gdp_advertisement_from_bytes(n, SourceName[e]))
  /\ advertised' = [advertised EXCEPT ![e] = @ + 1]
  /\ UNCHANGED <<stat_rs, coonection_rib_table, counter, rib_up,
                 flush_requested, sent>>

Forward(e, n) ==
  /\ e \in open
  /\ sent[e] < MaxSent[e]
  /\ ProcForward(e, construct_gdp_forward_from_bytes(n, SourceName[e],
                                                     <<e, sent[e] + 1>>))
  /\ sent' = [sent EXCEPT ![e] = @ + 1]
  /\ UNCHANGED <<stat_rs, coonection_rib_table, counter, rib_up,
                 flush_requested, advertised>>

(* The task of e returns or panics: its receiving half is dropped.         *)
Close(e) ==
  /\ e \in open
  /\ open' = open \ {e}
  /\ UNCHANGED <<queues, coonection_rib_table, counter, rib_up, m_rx, history>>

(* The router asks once, when it peers with a gateway, for a flush.        *)
RequestFlush(e) ==
  /\ rib_up /\ ~flush_requested
  /\ flush_requested' = TRUE
  /\ stat_rs' = Append(stat_rs, e)
  /\ UNCHANGED <<rib_rx, channel_rx, coonection_rib_table, counter, rib_up,
                 m_rx, open, sent, advertised>>

-----------------------------------------------------------------------------
(* The routes consulted for a packet: the entry of its name or, when there *)
(* is none, every entry.  A route is a pair of a name and an index.        *)
RoutingDsts(pkt) ==
  LET found == coonection_rib_table[pkt.gdpname] # <<>>
  IN  UNION {{n} \X DOMAIN coonection_rib_table[n] :
               n \in IF found THEN {pkt.gdpname} ELSE GDPName}

RoutesTo_NoSourceCheck(e, pkt) ==   \* mutant: the skip of line 14 is lost
  {r \in RoutingDsts(pkt) : coonection_rib_table[r[1]][r[2]].channel = e}

RoutesTo(e, pkt) ==
  {r \in RoutingDsts(pkt) :
     LET dst == coonection_rib_table[r[1]][r[2]]
     IN  /\ dst.channel = e
         /\ dst.advertisement.source # pkt.source}

Copies(e, pkt) == [i \in 1 .. Cardinality(RoutesTo(e, pkt)) |-> pkt]

SendToDestination_Abort(pkt) ==     \* mutant: a failed send ends the handler
  m_rx' = [e \in Endpoint |->
             IF \A x \in Endpoint : RoutesTo(x, pkt) # {} => x \in open
             THEN m_rx[e] \o Copies(e, pkt) ELSE m_rx[e]]

(* One copy per route; a closed channel only loses its own copies.         *)
SendToDestination(pkt) ==
  m_rx' = [e \in Endpoint |->
             IF e \in open THEN m_rx[e] \o Copies(e, pkt) ELSE m_rx[e]]

CounterOverflows == counter = MaxCounter

RecvPacket_Lifo ==                  \* mutant: the newest packet is taken first
  /\ rib_up /\ rib_rx # <<>>
  /\ CounterOverflows => ~OverflowChecks
  /\ counter' = IF CounterOverflows THEN -MaxCounter - 1 ELSE counter + 1
  /\ rib_rx' = Front(rib_rx)
  /\ SendToDestination(Last(rib_rx))
  /\ UNCHANGED <<channel_rx, stat_rs, coonection_rib_table, rib_up, open,
                 history>>

RecvPacket ==
  /\ rib_up /\ rib_rx # <<>>
  /\ CounterOverflows => ~OverflowChecks
  /\ counter' = IF CounterOverflows THEN -MaxCounter - 1 ELSE counter + 1
  /\ rib_rx' = Tail(rib_rx)
  /\ SendToDestination(Head(rib_rx))
  /\ UNCHANGED <<channel_rx, stat_rs, coonection_rib_table, rib_up, open,
                 history>>

(* counter += 1 overflows: the RIB task panics and drops all it owns.      *)
RecvPacketOverflow ==
  /\ rib_up /\ rib_rx # <<>>
  /\ CounterOverflows /\ OverflowChecks
  /\ rib_up' = FALSE
  /\ rib_rx' = <<>> /\ channel_rx' = <<>> /\ stat_rs' = <<>>
  /\ coonection_rib_table' = [n \in GDPName |-> <<>>]
  /\ UNCHANGED <<counter, m_rx, open, history>>

RecvChannel_InsertAndPush ==        \* mutant: the insert arm falls through
  /\ rib_up /\ channel_rx # <<>>
  /\ LET channel == Head(channel_rx)
     IN  coonection_rib_table' =
           [coonection_rib_table EXCEPT ![channel.gdpname] =
              IF @ = <<>> THEN <<channel, channel>> ELSE Append(@, channel)]
  /\ channel_rx' = Tail(channel_rx)
  /\ UNCHANGED <<rib_rx, stat_rs, counter, rib_up, m_rx, open, history>>

RecvChannel ==
  /\ rib_up /\ channel_rx # <<>>
  /\ LET channel == Head(channel_rx)
     IN  coonection_rib_table' =
           [coonection_rib_table EXCEPT ![channel.gdpname] = Append(@, channel)]
  /\ channel_rx' = Tail(channel_rx)
  /\ UNCHANGED <<rib_rx, stat_rs, counter, rib_up, m_rx, open, history>>

(* Flush: one advertisement per known name, in the order of the hash map.  *)
KnownNames_Shared ==                \* mutant: only names with several channels
  {n \in GDPName : Len(coonection_rib_table[n]) > 1}

KnownNames == {n \in GDPName : coonection_rib_table[n] # <<>>}

RecvStatus ==
  /\ rib_up /\ stat_rs # <<>>
  /\ \E names \in SetToSeqs(KnownNames) :
       Deliver(Head(stat_rs),
               [i \in DOMAIN names |->
                  construct_gdp_advertisement_from_bytes(names[i], names[i])])
  /\ stat_rs' = Tail(stat_rs)
  /\ UNCHANGED <<rib_rx, channel_rx, coonection_rib_table, counter, rib_up,
                 open, history>>

ConnectionRouter == RecvPacket \/ RecvPacketOverflow \/ RecvChannel \/ RecvStatus

Next ==
  \/ RecvPacket
  \/ RecvPacketOverflow
  \/ RecvChannel
  \/ RecvStatus
  \/ \E e \in Endpoint : Close(e)
  \/ \E e \in FlushSink : RequestFlush(e)
  \/ \E e \in Endpoint, n \in Routable : Advertise(e, n) \/ Forward(e, n)

Spec == Init /\ [][Next]_vars

(* select! polls its ready branches in random order: each branch that      *)
(* stays ready is taken eventually.                                        *)
RibFairness ==
  /\ WF_vars(RecvPacket) /\ WF_vars(RecvPacketOverflow)
  /\ WF_vars(RecvChannel) /\ WF_vars(RecvStatus)

FairSpec == Spec /\ RibFairness

-----------------------------------------------------------------------------
(* Properties                                                              *)

(* Every variable has the type its Rust declaration gives it; the counter  *)
(* stays an i32.                                                           *)
TypeOK ==
  /\ rib_rx \in Seq(GDPPacket)
  /\ channel_rx \in Seq(GDPChannel)
  /\ stat_rs \in Seq(FlushSink)
  /\ coonection_rib_table \in [GDPName -> Seq(GDPChannel)]
  /\ counter \in -MaxCounter - 1 .. MaxCounter
  /\ rib_up \in BOOLEAN
  /\ m_rx \in [Endpoint -> Seq(GDPPacket)]
  /\ open \subseteq Endpoint
  /\ flush_requested \in BOOLEAN
  /\ sent \in [Endpoint -> Nat] /\ advertised \in [Endpoint -> Nat]
  /\ \A e \in Endpoint :
       sent[e] <= MaxSent[e] /\ advertised[e] <= MaxAdvertised[e]

IsForward(pkt) == pkt.action = "Forward"

Got(e, payload) == \E i \in DOMAIN m_rx[e] : m_rx[e][i].payload = payload

(* Split horizon: no packet ever comes back to the endpoint it came from,  *)
(* whatever was registered and broadcast (send_to_destination compares the *)
(* source of the packet with the source of the advertisement).             *)
NoEcho ==
  \A e \in Endpoint : \A i \in DOMAIN m_rx[e] :
    IsForward(m_rx[e][i]) => m_rx[e][i].payload[1] # e

(* A receiver sees the packets of one origin in the order the origin sent  *)
(* them, on every path: RIB lookup, broadcast, or direct to a session.     *)
InOrder ==
  \A e \in Endpoint : \A i, j \in DOMAIN m_rx[e] :
    /\ i < j
    /\ IsForward(m_rx[e][i]) /\ IsForward(m_rx[e][j])
    /\ m_rx[e][i].payload[1] = m_rx[e][j].payload[1]
    => m_rx[e][i].payload[2] <= m_rx[e][j].payload[2]

(* A receiver gets at most one copy of a packet per advertisement it made  *)
(* (registrations are pushed without a check for duplicates), and exactly  *)
(* the one direct copy when the origin bypasses the RIB.                   *)
BoundedCopies ==
  \A e \in Endpoint, p \in Payload :
    Cardinality({i \in DOMAIN m_rx[e] : m_rx[e][i].payload = p}) <=
      CASE NextHop[p[1]] = Rib -> advertised[e]
        [] NextHop[p[1]] = e   -> 1
        [] OTHER               -> 0

(* A queued packet reaches every endpoint registered for its name under    *)
(* another source, however many of the other destinations have ended,      *)
(* unless that endpoint or the RIB ends first.                             *)
Registered(e, pkt) ==
  \E i \in DOMAIN coonection_rib_table[pkt.gdpname] :
    LET dst == coonection_rib_table[pkt.gdpname][i]
    IN  dst.channel = e /\ dst.advertisement.source # pkt.source

Delivery ==
  \A e \in Endpoint, p \in Payload :
    (\E i \in DOMAIN rib_rx : rib_rx[i].payload = p /\ Registered(e, rib_rx[i]))
      ~> (Got(e, p) \/ e \notin open \/ ~rib_up)

(* Each name known when a flush is pending is advertised to the sink of    *)
(* the flush, whatever is registered and routed before the flush is served.*)
FlushCovers ==
  \A e \in FlushSink, n \in GDPName :
    (Contains(stat_rs, e) /\ coonection_rib_table[n] # <<>>)
      ~> \/ \E i \in DOMAIN m_rx[e] :
               m_rx[e][i].action = "Advertise" /\ m_rx[e][i].gdpname = n
         \/ e \notin open \/ ~rib_up
=============================================================================

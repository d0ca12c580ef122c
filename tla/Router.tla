------------------------------- MODULE Router -------------------------------
(***************************************************************************)
(* One router process (core/src/commands.rs): the RIB of ConnectionRib     *)
(* together with the tasks that use it.                                    *)
(*                                                                         *)
(*   - ROS publishers and subscribers (core/src/network/ros.rs), one per   *)
(*     remote topic, created by topic_creator (core/src/topic_manager.rs). *)
(*     A "publisher" publishes into the local ROS graph what the RIB sends *)
(*     it, a "subscriber" forwards what it hears in the local ROS graph.   *)
(*   - Sessions with other routers (core/src/network/tcp.rs, dtls.rs):     *)
(*     accepted ones, the direct session of each ROS node of a router that *)
(*     peers with a gateway, and the gateway session proper.               *)
(*                                                                         *)
(* Only the handlers' use of the channels is modelled here; how a session  *)
(* turns bytes into packets is the subject of TcpSession.  Each action is  *)
(* an action of ConnectionRib with its part in the variables of the task,  *)
(* or leaves the variables of ConnectionRib alone.                         *)
(***************************************************************************)
EXTENDS ConnectionRib

CONSTANTS
  RosPublisher,    \* tasks running ros_publisher(_image)
  RosSubscriber,   \* tasks running ros_subscriber(_image)
  Session,         \* tasks running handle_tcp_stream / handle_dtls_stream
  GatewaySession,  \* the session of tcp_to_peer / dtls_to_peer, if any
  TopicOf          \* the topic name of a ROS task

RosNode == RosPublisher \cup RosSubscriber

ASSUME RouterAssumption ==
  /\ Endpoint = RosNode \cup Session
  /\ RosPublisher \cap RosSubscriber = {}
  /\ RosNode \cap Session = {}
  /\ GatewaySession \subseteq Session
  /\ FlushSink = GatewaySession
  /\ TopicOf \in [RosNode -> Routable]
  /\ \A s \in GatewaySession : SourceName[s] \in Routable
  (* topic_creator: a ROS node sends to its own session or to the RIB;     *)
  (* a session always sends to the RIB.                                    *)
  /\ \A r \in RosNode : NextHop[r] \in Session \cup {Rib}
  /\ \A s \in Session : NextHop[s] = Rib

VARIABLES
  running,    \* tasks that are past their set-up
  read,       \* how much of its channel m_rx a task has taken
  published   \* payloads a ROS publisher has published, in order

tasks == <<running, read, published>>
router_vars == <<vars, tasks>>

RouterTypeOK ==
  /\ running \subseteq Endpoint
  /\ read \in [Endpoint -> Nat]
  /\ \A e \in Endpoint : read[e] <= Len(m_rx[e])
  /\ published \in [RosPublisher -> Seq(Payload)]

RouterInit ==
  /\ Init
  /\ running = {}
  /\ read = [e \in Endpoint |-> 0]
  /\ published = [p \in RosPublisher |-> <<>>]

Active(e) == e \in running /\ e \in open

-----------------------------------------------------------------------------
(* ROS tasks.  Each advertises its topic ahead of its loop, publishers and *)
(* subscribers alike.                                                      *)
RosStart_EachTurn(e) ==   \* mutant: the advertisement is inside the loop
  /\ Advertise(e, TopicOf[e])
  /\ running' = running \cup {e}
  /\ UNCHANGED <<read, published>>

RosStart(e) ==
  /\ e \notin running
  /\ Advertise(e, TopicOf[e])
  /\ running' = running \cup {e}
  /\ UNCHANGED <<read, published>>

(* A message of the local ROS graph is forwarded to the next hop.          *)
RosSubscriberNext(e) ==
  /\ Active(e)
  /\ Forward(e, TopicOf[e])
  /\ UNCHANGED tasks

Received(e) == m_rx[e][read[e] + 1]

TakeOne_Twice(e) ==                \* mutant: recv is called once more
  /\ Active(e)
  /\ read[e] < Len(m_rx[e])
  /\ read' = [read EXCEPT ![e] = @ + 2]

TakeOne(e) ==
  /\ Active(e)
  /\ read[e] < Len(m_rx[e])
  /\ read' = [read EXCEPT ![e] = @ + 1]

IsForTopic_Source(e, pkt) ==       \* mutant: the wrong field is compared
  IsForward(pkt) /\ pkt.source = TopicOf[e]

IsForTopic(e, pkt) == IsForward(pkt) /\ pkt.gdpname = TopicOf[e]

(* A packet for the topic is published; any other packet is dropped.  The  *)
(* payload of a packet that came in over a session may fail to decode      *)
(* (.expect("json parsing failure")), which ends the task.                 *)
RosPublish(e) ==
  /\ TakeOne(e)
  /\ IsForTopic(e, Received(e))
  /\ published' = [published EXCEPT ![e] = Append(@, Received(e).payload)]
  /\ UNCHANGED <<vars, running>>

RosPublisherSkip(e) ==
  /\ TakeOne(e)
  /\ ~IsForTopic(e, Received(e))
  /\ UNCHANGED <<vars, running, published>>

RosPublisherPanic(e) ==
  /\ TakeOne(e)
  /\ IsForTopic(e, Received(e))
  /\ Received(e).payload[1] \in Session
  /\ Close(e)
  /\ UNCHANGED <<running, published>>

(* r2r fails: node creation before the loop, publish or decode in it.      *)
RosNodeFails(e) == Close(e) /\ UNCHANGED tasks

-----------------------------------------------------------------------------
(* Sessions                                                                *)

(* Only the gateway session advertises itself to the RIB, under its own    *)
(* random name; tcp_to_peer_direct and tcp_listener enter the loop at once.*)
SessionStart(s) ==
  /\ s \notin running
  /\ \/ s \in GatewaySession /\ Advertise(s, SourceName[s])
     \/ s \in Session \ GatewaySession /\ s \in open /\ UNCHANGED vars
  /\ running' = running \cup {s}
  /\ UNCHANGED <<read, published>>

(* A decoded frame is handed to the RIB under the name of the session.     *)
SessionReadForward(s, n) == Active(s) /\ Forward(s, n) /\ UNCHANGED tasks
SessionReadAdvertise(s, n) == Active(s) /\ Advertise(s, n) /\ UNCHANGED tasks

SessionWrite(s) ==
  /\ TakeOne(s)
  /\ UNCHANGED <<vars, running, published>>

(* The connection could not be made, was closed by the peer, or failed.    *)
SessionEnd(s) == Close(s) /\ UNCHANGED tasks

(* One second after the gateway session was spawned, connected or not.     *)
FlushTimer(s) == RequestFlush(s) /\ UNCHANGED tasks

-----------------------------------------------------------------------------
RosPublisherRecv(e) ==
  RosPublish(e) \/ RosPublisherSkip(e) \/ RosPublisherPanic(e)

RouterNext ==
  \/ RecvPacket /\ UNCHANGED tasks
  \/ RecvPacketOverflow /\ UNCHANGED tasks
  \/ RecvChannel /\ UNCHANGED tasks
  \/ RecvStatus /\ UNCHANGED tasks
  \/ \E e \in RosNode : RosStart(e) \/ RosNodeFails(e)
  \/ \E e \in RosSubscriber : RosSubscriberNext(e)
  \/ \E e \in RosPublisher : RosPublisherRecv(e)
  \/ \E s \in Session : SessionStart(s) \/ SessionWrite(s) \/ SessionEnd(s)
  \/ \E s \in Session, n \in Routable :
       SessionReadForward(s, n) \/ SessionReadAdvertise(s, n)
  \/ \E s \in GatewaySession : FlushTimer(s)

RouterSpec == RouterInit /\ [][RouterNext]_router_vars

(* The runtime keeps polling a task whose channel or socket is ready.      *)
TaskFairness ==
  /\ WF_router_vars(RecvPacket /\ UNCHANGED tasks)
  /\ WF_router_vars(RecvPacketOverflow /\ UNCHANGED tasks)
  /\ WF_router_vars(RecvChannel /\ UNCHANGED tasks)
  /\ \A e \in RosPublisher : WF_router_vars(RosPublisherRecv(e))

RouterFairSpec == RouterSpec /\ TaskFairness

-----------------------------------------------------------------------------
(* Properties                                                              *)

(* A publisher publishes each packet at most once and the packets of one   *)
(* origin in order, although the RIB delivers one copy per registration    *)
(* and broadcasts packets of unknown names.                                *)
PublishOnceInOrder ==
  \A p \in RosPublisher : \A i, j \in DOMAIN published[p] :
    /\ i < j
    /\ published[p][i][1] = published[p][j][1]
    => published[p][i][2] < published[p][j][2]

(* Once a publisher is registered, a packet queued for its topic by another*)
(* source is published, unless the publisher or the RIB ends.              *)
PublishEventually ==
  \A p \in RosPublisher, b \in Payload :
    (\E i \in DOMAIN rib_rx : rib_rx[i].payload = b /\ Registered(p, rib_rx[i]))
      ~> (Contains(published[p], b) \/ p \notin open \/ ~rib_up)
=============================================================================

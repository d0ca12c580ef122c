----------------------------- MODULE Federation -----------------------------
(***************************************************************************)
(* Several routers joined into a tree, each peering with at most one       *)
(* gateway (core/src/commands.rs, GATEWAY_IP).  A router that peers has    *)
(*   - one gateway session, over which it advertises once, about a second  *)
(*     after its start, every name its RIB knows then, and which the       *)
(*     gateway uses to send it packets;                                    *)
(*   - one direct session per ROS subscriber, which takes the messages of  *)
(*     that subscriber past its own RIB to the gateway (topic_creator; a   *)
(*     ROS publisher has one too, and never uses it).                      *)
(*                                                                         *)
(* RIBs and tasks are those of ConnectionRib and Router, cut down to what  *)
(* the routes of a message depend on: the order of a queue, the number of  *)
(* registrations of a channel, and the source a packet carries, which each *)
(* session replaces by its own name.  A session with its connection is one *)
(* queue per direction; it may lose packets and it may end, and it is never*)
(* made again.  Its reader may be put out of step (TcpSession after half a *)
(* header, DtlsSession after a lost datagram) and hand a packet on with the*)
(* bytes of another; over DTLS packets may also overtake each other.       *)
(***************************************************************************)
EXTENDS Naturals, Sequences, FiniteSets, SequencesExt

CONSTANTS
  Router,         \* the router processes
  Gateway,        \* the router that a router peers with, or NoRouter
  NoRouter,
  RosSubscriber,  \* tasks running ros_subscriber(_image)
  RosPublisher,   \* tasks running ros_publisher(_image)
  Home,           \* the router of a task
  TopicOf,        \* the topic of a task
  MaxSaid,        \* bound: messages per subscriber
  Datagram,       \* the connections over DTLS; the others are over TCP
  Unreliable,     \* the connections and publishers that may fail
  MaxFaults       \* bound: how many of them do

RosNode == RosSubscriber \cup RosPublisher
Peering == {r \in Router : Gateway[r] # NoRouter}

(* A connection is named after the task or the router that opened it.      *)
Direct == {s \in RosSubscriber : Home[s] \in Peering}
Link == Peering \cup Direct
Opener(l) == IF l \in Peering THEN l ELSE Home[l]

(* The two sessions of a connection, and the router each belongs to.       *)
Near(l) == <<l, "near">>
Far(l) == <<l, "far">>
Session == Link \X {"near", "far"}
At(e) == IF e[2] = "near" THEN Opener(e[1]) ELSE Gateway[Opener(e[1])]
OtherEnd(e) == IF e[2] = "near" THEN Far(e[1]) ELSE Near(e[1])

(* Everything a RIB may hold a channel of.                                 *)
Channel == RosNode \cup Session

(* The names in use: topics, and the random name of each gateway session,  *)
(* which stands for the name of its router.                                *)
Topic == {TopicOf[e] : e \in RosNode}
Name == Topic \cup Peering

(* One ROS task per topic and router: ros_topic_manager skips the topics it*)
(* has a task for, unless its configuration names one of them twice.       *)
ASSUME FederationAssumption ==
  /\ Gateway \in [Router -> Router \cup {NoRouter}] /\ NoRouter \notin Router
  /\ Home \in [RosNode -> Router]
  /\ RosSubscriber \cap RosPublisher = {}
  /\ Router \cap (RosNode \cup Topic) = {} /\ RosNode \cap Session = {}
  /\ \A e, f \in RosNode :
       e # f /\ Home[e] = Home[f] => TopicOf[e] # TopicOf[f]
  /\ Datagram \subseteq Link /\ Unreliable \subseteq Link \cup RosPublisher
  /\ MaxSaid \in Nat /\ MaxFaults \in Nat
  /\ IsFiniteSet(Router) /\ IsFiniteSet(RosNode)

(* The routers form a forest: Below[r] are those that reach r over         *)
(* gateways, r included.  The configuration sees to it, the code does not. *)
IsForest(Below) ==
  /\ \A r \in Router : r \in Below[r]
  /\ \A r \in Peering :
       Below[r] \subseteq Below[Gateway[r]] /\ Gateway[r] \notin Below[r]
  /\ \A q, r \in Peering :
       q # r /\ Gateway[q] = Gateway[r] => Below[q] \cap Below[r] = {}

ASSUME ForestAssumption == \E Below \in [Router -> SUBSET Router] : IsForest(Below)

VARIABLES
  table,       \* per router: how often <<name, channel>> is registered
  rib_rx,      \* per router: packets to route
  channel_rx,  \* per router: registrations to enter
  outbox,      \* per session: sent to it, not yet read at the other end
  started,     \* tasks that are past their set-up
  connected,   \* routers whose gateway session has its connection
  ended,       \* publishers that have ended
  broken,      \* connections that have ended
  lossy,       \* connections that have lost or disturbed a packet
  flushed,     \* routers that have flushed their RIB to the gateway
  said,        \* history: per message, the publishers it had a route to
  heard,       \* messages each publisher has published
  misheard     \* publishers that have published a disturbed packet

ribs == <<table, rib_rx, channel_rx>>
faults == <<ended, broken, lossy>>
life == <<started, connected, flushed, faults>>
vars == <<ribs, outbox, life, said, heard, misheard>>

Init ==
  /\ table = [r \in Router |-> [c \in Name \X Channel |-> 0]]
  /\ rib_rx = [r \in Router |-> <<>>]
  /\ channel_rx = [r \in Router |-> <<>>]
  /\ outbox = [e \in Session |-> <<>>]
  /\ started = {} /\ connected = {} /\ flushed = {}
  /\ ended = {} /\ broken = {} /\ lossy = {}
  /\ said = [s \in RosSubscriber |-> <<>>]
  /\ heard = [p \in RosPublisher |-> <<>>] /\ misheard = {}

Knows(r, n, e) == table[r][<<n, e>>] > 0
KnownNames(r) == {n \in Name : \E e \in Channel : Knows(r, n, e)}

(* A session can be sent to until its connection ends: its queue goes too. *)
Alive(e) == e[1] \notin broken

-----------------------------------------------------------------------------
(* Frames on a connection: a packet, or the advertisement of a name.  The  *)
(* path of a packet is history, the routers that have routed it, and so is *)
(* whether a connection has disturbed it: it overtook another, or the bytes*)
(* after its header are not its own.                                       *)
Packet(s, k) ==
  [gdpname |-> TopicOf[s], payload |-> <<s, k>>, path |-> <<>>, hit |-> FALSE]
Advertisement(n) == [gdpname |-> n]
IsAdvertisement(frame) == DOMAIN frame = {"gdpname"}

(* What the reader of a frame hands to its RIB: its own name is the source.*)
From(e, frame) ==
  [gdpname |-> frame.gdpname, payload |-> frame.payload, path |-> frame.path,
   hit |-> frame.hit, source |-> e]

-----------------------------------------------------------------------------
(* A task advertises its topic to the RIB of its own router.               *)
RosStart(e) ==
  /\ e \notin started
  /\ started' = started \cup {e}
  /\ channel_rx' =
       [channel_rx EXCEPT ![Home[e]] = Append(@, <<TopicOf[e], e>>)]
  /\ UNCHANGED <<table, rib_rx, outbox, connected, flushed, faults, said,
                 heard, misheard>>

(* A gateway session has its connection and advertises itself, to its own  *)
(* RIB.  Direct and accepted sessions go straight to their loop: what they *)
(* are sent before waits in their queue, which is all there is to see.     *)
SessionStart(r) ==
  /\ r \notin connected \cup broken
  /\ connected' = connected \cup {r}
  /\ channel_rx' = [channel_rx EXCEPT ![r] = Append(@, <<r, Near(r)>>)]
  /\ UNCHANGED <<table, rib_rx, outbox, started, flushed, faults, said, heard,
                 misheard>>

(* The RIB that sees a message of s first, and whether the routes from     *)
(* there to p are complete.                                                *)
FirstRib(s) == IF s \in Direct THEN Gateway[Home[s]] ELSE Home[s]

HasRoute(s, p) ==
  /\ TopicOf[s] = TopicOf[p]
  /\ Knows(Home[p], TopicOf[p], p)
  /\ \/ Home[p] = FirstRib(s)
     \/ /\ Gateway[Home[p]] = FirstRib(s)
        /\ Knows(FirstRib(s), TopicOf[p], Far(Home[p]))

(* A message of the local graph goes into the direct session, else to the  *)
(* RIB.                                                                    *)
RosSubscriberNext(s) ==
  LET packet == Packet(s, Len(said[s]) + 1)
  IN  /\ s \in started
      /\ Len(said[s]) < MaxSaid
      /\ said' = [said EXCEPT ![s] =
                    Append(@, {p \in RosPublisher : HasRoute(s, p)})]
      /\ \/ /\ s \in Direct
            /\ outbox' = [outbox EXCEPT ![Near(s)] =
                            IF Alive(Near(s)) THEN Append(@, packet) ELSE @]
            /\ UNCHANGED rib_rx
         \/ /\ s \notin Direct
            /\ rib_rx' = [rib_rx EXCEPT ![Home[s]] =
                            Append(@, From(s, packet))]
            /\ UNCHANGED outbox
      /\ UNCHANGED <<table, channel_rx, life, heard, misheard>>

-----------------------------------------------------------------------------
(* The RIB of a router                                                     *)

(* Copies of a packet for a channel: one per registration under its name   *)
(* or, when the name is unknown, one per registration under any name.  A   *)
(* channel whose registration names the source of the packet is skipped.   *)
RoutedBy(r, pkt) ==
  IF pkt.gdpname \in KnownNames(r) THEN {pkt.gdpname} ELSE Name

Routes(r, pkt, e) ==
  UNION {{n} \X (1 .. table[r][<<n, e>>]) : n \in RoutedBy(r, pkt)}

CopiesTo_Source(r, pkt, e) ==      \* mutant: the source is sent a copy too
  Cardinality(Routes(r, pkt, e))

CopiesTo(r, pkt, e) ==
  IF e = pkt.source THEN 0 ELSE Cardinality(Routes(r, pkt, e))

Times(k, x) == [i \in 1 .. k |-> x]

(* A publisher publishes the packets of its topic and drops all others.    *)
Publishes_Any(p, pkt) == p \notin ended   \* mutant: the name is not compared

Publishes(p, pkt) == p \notin ended /\ pkt.gdpname = TopicOf[p]

RecvPacket(r) ==
  /\ rib_rx[r] # <<>>
  /\ LET pkt == Head(rib_rx[r])
         frame == [gdpname |-> pkt.gdpname, payload |-> pkt.payload,
                   path |-> Append(pkt.path, r), hit |-> pkt.hit]
         publishers == {p \in RosPublisher : Home[p] = r /\ Publishes(p, pkt)}
     IN  /\ outbox' = [e \in Session |->
              IF At(e) = r /\ Alive(e)
              THEN outbox[e] \o Times(CopiesTo(r, pkt, e), frame)
              ELSE outbox[e]]
         /\ heard' = [p \in RosPublisher |->
              IF p \in publishers /\ ~pkt.hit
              THEN heard[p] \o Times(CopiesTo(r, pkt, p), pkt.payload)
              ELSE heard[p]]
         /\ misheard' = misheard \cup
              {p \in publishers : pkt.hit /\ CopiesTo(r, pkt, p) > 0}
  /\ rib_rx' = [rib_rx EXCEPT ![r] = Tail(@)]
  /\ UNCHANGED <<table, channel_rx, life, said>>

RecvChannel_Insert(r) ==           \* mutant: a new channel replaces the old
  /\ channel_rx[r] # <<>>
  /\ LET new == Head(channel_rx[r])
     IN  table' = [table EXCEPT ![r] =
                     [c \in Name \X Channel |->
                        IF c = new THEN 1 ELSE IF c[1] = new[1] THEN 0 ELSE @[c]]]
  /\ channel_rx' = [channel_rx EXCEPT ![r] = Tail(@)]
  /\ UNCHANGED <<rib_rx, outbox, life, said, heard, misheard>>

RecvChannel(r) ==
  /\ channel_rx[r] # <<>>
  /\ table' = [table EXCEPT ![r][Head(channel_rx[r])] = @ + 1]
  /\ channel_rx' = [channel_rx EXCEPT ![r] = Tail(@)]
  /\ UNCHANGED <<rib_rx, outbox, life, said, heard, misheard>>

(* The one flush: every name known now, in the order of the hash map, is   *)
(* sent to the gateway session, connected or not.                          *)
Flush(r) ==
  /\ r \notin flushed
  /\ flushed' = flushed \cup {r}
  /\ \E names \in SetToSeqs(KnownNames(r)) :
       outbox' = [outbox EXCEPT ![Near(r)] =
         IF Alive(Near(r))
         THEN @ \o [i \in DOMAIN names |-> Advertisement(names[i])] ELSE @]
  /\ UNCHANGED <<ribs, started, connected, faults, said, heard, misheard>>

-----------------------------------------------------------------------------
(* Sessions and connections                                                *)

(* Session e reads a frame from the other end: a packet goes to the RIB    *)
(* under the name of e, an advertisement registers e itself.               *)
SessionRead(e) ==
  LET frame == Head(outbox[OtherEnd(e)])
  IN  /\ e[1] \in connected \cup Direct
      /\ outbox[OtherEnd(e)] # <<>>
      /\ outbox' = [outbox EXCEPT ![OtherEnd(e)] = Tail(@)]
      /\ \/ /\ ~IsAdvertisement(frame)
            /\ rib_rx' = [rib_rx EXCEPT ![At(e)] = Append(@, From(e, frame))]
            /\ UNCHANGED channel_rx
         \/ /\ IsAdvertisement(frame)
            /\ channel_rx' =
                 [channel_rx EXCEPT ![At(e)] = Append(@, <<frame.gdpname, e>>)]
            /\ UNCHANGED rib_rx
      /\ UNCHANGED <<table, life, said, heard, misheard>>

MayFail(x) ==
  /\ x \in Unreliable
  /\ x \in lossy \/ Cardinality(lossy \cup broken \cup ended) < MaxFaults

(* A frame is lost: its header would block, or the reader is out of step,  *)
(* or DTLS has lost its datagrams or that of its header.                   *)
Lose(e) ==
  /\ MayFail(e[1])
  /\ lossy' = lossy \cup {e[1]}
  /\ outbox[e] # <<>>
  /\ outbox' = [outbox EXCEPT ![e] = Tail(@)]
  /\ UNCHANGED <<ribs, started, connected, flushed, ended, broken, said, heard,
                 misheard>>

(* A packet is handed over with the bytes of another: its header lacks its *)
(* last byte, or the datagram of its payload is late or lost.  Over DTLS it*)
(* may also overtake the packets before it.                                *)
Disturb(e) ==
  /\ MayFail(e[1])
  /\ lossy' = lossy \cup {e[1]}
  /\ \E i \in DOMAIN outbox[e] :
       /\ ~IsAdvertisement(outbox[e][i])
       /\ i > 1 => e[1] \in Datagram
       /\ outbox' = [outbox EXCEPT ![e] =
                        <<[@[i] EXCEPT !.hit = TRUE]>> \o RemoveAt(@, i)]
  /\ UNCHANGED <<ribs, started, connected, flushed, ended, broken, said, heard,
                 misheard>>

(* A connection cannot be made, or ends, with all that is in its queues.   *)
Break(l) ==
  /\ l \notin broken /\ MayFail(l)
  /\ broken' = broken \cup {l}
  /\ outbox' = [e \in Session |-> IF e[1] = l THEN <<>> ELSE outbox[e]]
  /\ UNCHANGED <<ribs, started, connected, flushed, ended, lossy, said, heard,
                 misheard>>

RosPublisherFails(p) ==
  /\ p \notin ended /\ MayFail(p)
  /\ ended' = ended \cup {p}
  /\ UNCHANGED <<ribs, outbox, started, connected, flushed, broken, lossy,
                 said, heard, misheard>>

-----------------------------------------------------------------------------
Next ==
  \/ \E e \in RosNode : RosStart(e)
  \/ \E l \in Link : Break(l)
  \/ \E s \in RosSubscriber : RosSubscriberNext(s)
  \/ \E r \in Router : RecvPacket(r) \/ RecvChannel(r)
  \/ \E r \in Peering : SessionStart(r) \/ Flush(r)
  \/ \E e \in Session : SessionRead(e) \/ Lose(e) \/ Disturb(e)
  \/ \E p \in RosPublisher : RosPublisherFails(p)

Spec == Init /\ [][Next]_vars

(* RIBs and sessions are polled while their queues hold something.         *)
Fairness ==
  /\ \A r \in Router : WF_vars(RecvPacket(r)) /\ WF_vars(RecvChannel(r))
  /\ \A e \in Session : WF_vars(SessionRead(e))

FairSpec == Spec /\ Fairness

-----------------------------------------------------------------------------
(* Properties                                                              *)

(* The federation is a bus: no message is invented, crosses topics or      *)
(* overtakes another, and none is repeated to a publisher it had a route   *)
(* to, whatever is registered, flushed, broadcast, lost or ended meanwhile.*)
(* Only a packet that a connection has disturbed may be published in       *)
(* another order or with other bytes, and what is done to it is done to no *)
(* other.                                                                  *)
Bus == INSTANCE TopicBus WITH
         RosSubscriber <- RosSubscriber, RosPublisher <- RosPublisher,
         TopicOf <- TopicOf, said <- said, heard <- heard,
         misheard <- misheard, disturbed <- lossy # {}
ImplementsBus == Bus!Spec

(* No packet is routed twice by one router.  There is no hop count; and the*)
(* source name that keeps a packet from going back is replaced at each hop.*)
NoLoop ==
  \A r \in Router : \A i \in DOMAIN rib_rx[r] : ~Contains(rib_rx[r][i].path, r)

(* The connections on the way from s to p.                                 *)
Way(s, p) == {s, Home[p]} \cap Link

Faultless(s, p) ==
  p \notin ended /\ Way(s, p) \cap (broken \cup lossy) = {}

Heard(s, k, p) == Contains(heard[p], <<s, k>>)

(* A message that had a route when it was said is heard, or it is still in *)
(* one of the queues on its way, unless a session on its way has lost      *)
(* something or ended, or the publisher has ended.                         *)
OnItsWay(s, k, p) ==
  LET queues == {rib_rx[FirstRib(s)], rib_rx[Home[p]]} \cup
                {outbox[e] : e \in Session \cap {Near(s), Far(Home[p])}}
  IN  \E queue \in queues : \E i \in DOMAIN queue :
        ~IsAdvertisement(queue[i]) /\ ~queue[i].hit /\ queue[i].payload = <<s, k>>

RoutedIsHeard ==
  \A s \in RosSubscriber : \A k \in DOMAIN said[s] : \A p \in said[s][k] :
    Heard(s, k, p) \/ OnItsWay(s, k, p) \/ ~Faultless(s, p)

(* README.md: two machines that both peer with a third exchange messages.  *)
(* So a message that has yet to reach a RIB when everything is in place is *)
(* heard: its publisher is registered at home, and its router has flushed  *)
(* its RIB to the gateway, which knows the router.  It fails for a topic   *)
(* that was registered after the flush, if the gateway has heard of the    *)
(* topic from somebody else.                                               *)
Unrouted(s, k) == s \in Direct /\ Contains(outbox[Near(s)], Packet(s, k))

LateListener ==
  \A s \in RosSubscriber : \A p \in Bus!Listeners(s), k \in 1 .. MaxSaid :
    (/\ Unrouted(s, k)
     /\ Gateway[Home[p]] = FirstRib(s)
     /\ Knows(Home[p], TopicOf[p], p)
     /\ Knows(FirstRib(s), Home[p], Far(Home[p])))
      ~> Heard(s, k, p) \/ ~Faultless(s, p)
=============================================================================

------------------------------ MODULE MCRouter ------------------------------
(* Instances of Router for TLC: ROS tasks of topic t, and sessions g and h.*)
EXTENDS Router

CONSTANTS p, q, h, g, t, u

MCGDPName == {t, u, p, q, h, g}
MCRoutable == {t, g}
MCRoutablePeer == {t, u, g}
MCPublisher == {p}
MCNone == {}

(* A router without a gateway: p publishes, q subscribes, g is accepted.   *)
MCEndpoint == {p, q, g}
MCSourceName == [e \in MCEndpoint |-> e]
MCNextHop == [e \in MCEndpoint |-> Rib]
MCSubscriber == {q}
MCSession == {g}
MCTopicOf == [e \in {p, q} |-> t]
MCTwice == [e \in MCEndpoint |-> 2]

(* A router that peers: p and q publish t and u, h stands for the direct   *)
(* sessions, g is the gateway session, over which packets come in.         *)
MCPublishers == {p, q}
MCEndpointPeer == {p, q, h, g}
MCSourcePeer == [e \in MCEndpointPeer |-> e]
MCNextHopPeer == [e \in MCEndpointPeer |-> IF e \in {p, q} THEN h ELSE Rib]
MCSessionPeer == {h, g}
MCGateway == {g}
MCTopicOfPeer == [e \in MCPublishers |-> IF e = p THEN t ELSE u]
MCSentPeer == [e \in MCEndpointPeer |-> IF e = g THEN 1 ELSE 0]
MCAdvertisedPeer == [e \in MCEndpointPeer |-> IF e = h THEN 0 ELSE 1]
=============================================================================

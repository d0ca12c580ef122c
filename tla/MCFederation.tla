---------------------------- MODULE MCFederation ----------------------------
(* Instances of Federation for TLC.  Routers A and B peer with gateway C.  *)
EXTENDS Federation

CONSTANTS A, B, C, s, p, q, t, u

MCRouter == {A, B, C}
MCGateway == [r \in MCRouter |-> IF r = C THEN NoRouter ELSE C]

(* s hears topic t at A; p publishes it at B, and q topic u at the gateway.*)
MCSubscriber == {s}
MCPublisher == {p, q}
MCHome == [e \in {s, p, q} |-> CASE e = s -> A [] e = p -> B [] OTHER -> C]
MCTopicOf == [e \in {s, p, q} |-> IF e = q THEN u ELSE t]

(* B peers over DTLS, A and the direct session of s over TCP.              *)
MCDatagram == {B}
MCUnreliable == {B, p}
MCNone == {}
=============================================================================

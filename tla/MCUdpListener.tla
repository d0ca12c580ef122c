---------------------------- MODULE MCUdpListener ----------------------------
(* Instances of UdpListener for TLC: two peers, channels of two datagrams. *)
EXTENDS UdpListener

CONSTANTS a, b, nothing

MCAddr == {a, b}
=============================================================================

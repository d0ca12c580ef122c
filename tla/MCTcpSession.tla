---------------------------- MODULE MCTcpSession ----------------------------
(* Instances of TcpSession for TLC.  x carries a payload with a null byte, *)
(* y is an advertisement, z carries binary data.                           *)
EXTENDS TcpSession

CONSTANTS L, R, x, y, z

MCSide == {L, R}
MCPacket == {x, y, z}
MCPayloadOf == (x :> <<Text, Null, Text>>) @@ (y :> <<>>) @@ (z :> <<Binary, Text>>)

(* One way: only L sends.                                                  *)
MCOneWay == (L :> <<x, y, z, x>>) @@ (R :> <<>>)
MCBothWays == (L :> <<x, z, y>>) @@ (R :> <<x, y>>)
(* L sends, and R answers with one advertisement.                          *)
MCAnswered == (L :> <<x, z, y>>) @@ (R :> <<y>>)
MCNobody == {}
MCBothExit == {L, R}
=============================================================================

---------------------------- MODULE MCDtlsSession ----------------------------
(* Instances of DtlsSession for TLC.  x and w are messages with text       *)
(* payloads, v has a payload with a null byte, z a binary one, y is an     *)
(* advertisement.                                                          *)
EXTENDS DtlsSession

CONSTANTS v, w, x, y, z

MCPacket == {v, w, x, y, z}
MCPayloadOf == (v :> <<Text, Null, Text>>) @@ (w :> <<Text, Text>>)
                 @@ (x :> <<Text>>) @@ (y :> <<>>)
                 @@ (z :> <<Binary>>)

(* Six records; six with advertisements; five with binary data; seven.      *)
MCMixed == {<<x, w, v>>, <<y, v, y, w>>, <<v, z, y>>, <<x, w, y, v>>}
=============================================================================

-------------------------- MODULE MCConnectionRib --------------------------
(* Instances of ConnectionRib for TLC.  Endpoints a and b send through the *)
(* RIB, s is a session that may ask for a flush, d sends straight into s.  *)
(* Each endpoint's source name is its own; t and u are topics.             *)
EXTENDS ConnectionRib

CONSTANTS a, b, d, s, t, u

MCGDPName == {t, u, a, b, d, s}
MCTwoNames == {t, u}
MCFlushSink == {s}

(* s sends twice and d registers twice, so that packets can overtake and   *)
(* copies multiply; with two names a broadcast finds somebody.             *)
MCNamesAlike == Permutations(MCTwoNames)
MCEndpointDirect == {a, d, s}
MCSourceDirect == [e \in MCEndpointDirect |-> e]
MCNextHopDirect == [e \in MCEndpointDirect |-> IF e = d THEN s ELSE Rib]
MCSentDirect == [e \in MCEndpointDirect |-> IF e = s THEN 2 ELSE 1]
MCAdvertisedDirect ==
  [e \in MCEndpointDirect |-> CASE e = a -> 0 [] e = d -> 2 [] OTHER -> 1]

MCEndpointRib == {a, b, s}
MCSourceRib == [e \in MCEndpointRib |-> e]
MCNextHopRib == [e \in MCEndpointRib |-> Rib]
MCSentRib == [e \in MCEndpointRib |-> IF e = a THEN 2 ELSE 0]
MCAdvertisedRib == [e \in MCEndpointRib |-> 1]
=============================================================================

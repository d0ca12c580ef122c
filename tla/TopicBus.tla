------------------------------ MODULE TopicBus ------------------------------
(***************************************************************************)
(* What a federation of routers promises to the ROS graphs it joins: a bus *)
(* with one subject per topic.  A ROS subscriber task says what it hears in*)
(* its own graph, a ROS publisher task publishes into its graph what the   *)
(* bus lets it hear.                                                       *)
(*                                                                         *)
(* The bus may lose messages, and may repeat one as long as nobody has told*)
(* it where the message should go.  It never invents a message, never      *)
(* crosses topics, never overtakes, and never repeats a message to a       *)
(* publisher that it had a route to when the message was said.             *)
(*                                                                         *)
(* A connection of the bus may be disturbed.  From then on a listener may  *)
(* also hear something else: a message out of its turn, or bytes that      *)
(* nobody said; all that is promised of it is that it is not taken for one *)
(* of the others, which keep their order and their number.                 *)
(***************************************************************************)
EXTENDS Naturals, Sequences

CONSTANTS
  RosSubscriber,  \* the tasks that say
  RosPublisher,   \* the tasks that hear
  TopicOf         \* the topic of each

VARIABLES
  said,   \* per subscriber and message: the publishers it is promised to
  heard,  \* per publisher: the messages <<subscriber, number>> published
  misheard,   \* the publishers that have published something else
  disturbed   \* whether a connection has been disturbed

bus_vars == <<said, heard, misheard, disturbed>>

Init ==
  /\ said = [s \in RosSubscriber |-> <<>>]
  /\ heard = [p \in RosPublisher |-> <<>>]
  /\ misheard = {} /\ disturbed = FALSE

Listeners(s) == {p \in RosPublisher : TopicOf[p] = TopicOf[s]}

Say(s) ==
  /\ \E promised \in SUBSET Listeners(s) :
       said' = [said EXCEPT ![s] = Append(@, promised)]
  /\ UNCHANGED <<heard, misheard, disturbed>>

(* Message k of s is not behind a message of s that p has heard already.   *)
InTurn(p, s, k) ==
  \A i \in DOMAIN heard[p] :
    heard[p][i][1] = s =>
      \/ heard[p][i][2] < k
      \/ heard[p][i][2] = k /\ p \notin said[s][k]

Hear(p, s, k) ==
  /\ p \in Listeners(s)
  /\ InTurn(p, s, k)
  /\ heard' = [heard EXCEPT ![p] = Append(@, <<s, k>>)]
  /\ UNCHANGED <<said, misheard, disturbed>>

Disturb ==
  /\ disturbed' = TRUE
  /\ UNCHANGED <<said, heard, misheard>>

Mishear(p) ==
  /\ disturbed
  /\ misheard' = misheard \cup {p}
  /\ UNCHANGED <<said, heard, disturbed>>

Next ==
  \/ \E s \in RosSubscriber :
       \/ Say(s)
       \/ \E p \in RosPublisher, k \in DOMAIN said[s] : Hear(p, s, k)
  \/ Disturb
  \/ \E p \in RosPublisher : Mishear(p)

Spec == Init /\ [][Next]_bus_vars
=============================================================================

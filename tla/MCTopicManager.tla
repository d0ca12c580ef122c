--------------------------- MODULE MCTopicManager ---------------------------
(* Instances of TopicManager for TLC: a topic c that three entries name,   *)
(* the last of which excludes it from discovery, and a topic t to discover.*)
EXTENDS TopicManager

CONSTANTS c, t

MCTopic == {c, t}
MCConfig == <<[topic |-> c, action |-> "pub"], [topic |-> c, action |-> "pub"],
              [topic |-> c, action |-> "noop"]>>
=============================================================================

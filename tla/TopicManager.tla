---------------------------- MODULE TopicManager ----------------------------
(***************************************************************************)
(* ros_topic_manager of one router (core/src/topic_manager.rs): it creates *)
(* the ROS tasks of the configured topics and then, if automatic discovery *)
(* is on, looks at the local ROS graph every five seconds and decides once *)
(* per new topic whether to publish it, to subscribe to it or to leave it  *)
(* alone.                                                                  *)
(*                                                                         *)
(* Whether a topic has local publishers or subscribers is asked of the     *)
(* program `ros2 topic info', which counts first the publishers and then   *)
(* the subscriptions, the router's own tasks included, while local nodes   *)
(* come and go.  The list of topics is older still: it is taken once per   *)
(* round.                                                                  *)
(***************************************************************************)
EXTENDS Naturals, Sequences, FiniteSets, SequencesExt

CONSTANTS
  Topic,       \* the topics of the local graph
  Config,      \* the configured topics: a sequence of [topic, action]
  Discovery,   \* automatic_topic_discovery
  MaxNodes     \* bound: local publishers, and local subscribers, of a topic

Action == {"pub", "sub", "noop"}

(* Nothing keeps a configuration from naming a topic more than once.       *)
ASSUME TopicManagerAssumption ==
  /\ IsFiniteSet(Topic)
  /\ Config \in Seq([topic : Topic, action : Action])
  /\ Discovery \in BOOLEAN
  /\ MaxNodes \in Nat

Undecided == "undecided"

VARIABLES
  publishers,     \* local publishers of each topic, the router's own not counted
  subscribers,    \* local subscribers, the router's own not counted
  topic_status,   \* topic -> its action, or Undecided
  config_read,    \* the number of configured topics that it has gone through
  tasks,          \* the ROS tasks spawned: a sequence of [topic, action, state]
  pc,             \* where the manager is
  current_topics, \* the topics of this round that it has not looked at yet
  counted,        \* the number of publishers that ros2 topic info has counted
  disturbed       \* history: topics whose nodes have changed since the round began

graph == <<publishers, subscribers>>
manager == <<topic_status, pc, config_read, current_topics, counted>>
vars == <<graph, manager, tasks, disturbed>>

Init ==
  /\ publishers = [t \in Topic |-> 0] /\ subscribers = [t \in Topic |-> 0]
  /\ topic_status = [t \in Topic |-> Undecided]
  /\ tasks = <<>>
  /\ pc = "config" /\ config_read = 0
  /\ current_topics = <<>> /\ counted = 0
  /\ disturbed = {}

-----------------------------------------------------------------------------
(* The ROS graph: other nodes, and the router's tasks.                     *)
Own(t, action) ==
  Cardinality({i \in DOMAIN tasks :
                 tasks[i] = [topic |-> t, action |-> action, state |-> "up"]})

PublisherCount(t) == publishers[t] + Own(t, "pub")
SubscriptionCount(t) == subscribers[t] + Own(t, "sub")
Visible(t) == PublisherCount(t) + SubscriptionCount(t) > 0

(* A local publisher or subscriber of t comes or goes.                     *)
Changes(count, t) ==
  \E n \in 0 .. MaxNodes : n # count[t] /\ count' = [count EXCEPT ![t] = n]

NodeChanges(t) ==
  /\ \/ Changes(publishers, t) /\ UNCHANGED subscribers
     \/ Changes(subscribers, t) /\ UNCHANGED publishers
  /\ disturbed' = disturbed \cup {t}
  /\ UNCHANGED <<manager, tasks>>

(* A spawned task creates its node, or panics before or after.             *)
TaskStarts(i) ==
  /\ tasks[i].state = "spawned"
  /\ tasks' = [tasks EXCEPT ![i].state = "up"]
  /\ UNCHANGED <<graph, manager, disturbed>>

TaskFails(i) ==
  /\ tasks[i].state # "failed"
  /\ tasks' = [tasks EXCEPT ![i].state = "failed"]
  /\ UNCHANGED <<graph, manager, disturbed>>

-----------------------------------------------------------------------------
(* topic_creator spawns one task unless the action is noop.                *)
topic_creator_Noop(t, action) ==   \* mutant: noop does not return early
  tasks' = Append(tasks,
                  [topic |-> t, action |-> action, state |-> "spawned"])

topic_creator(t, action) ==
  tasks' = IF action = "noop" THEN tasks
           ELSE Append(tasks,
                       [topic |-> t, action |-> action, state |-> "spawned"])

Decide_Forget(t, action) ==        \* mutant: the status is not entered
  topic_creator(t, action) /\ UNCHANGED topic_status

Decide(t, action) ==
  /\ topic_creator(t, action)
  /\ topic_status' = [topic_status EXCEPT ![t] = action]

(* The configured topics, in order.  A topic that is named again gets one  *)
(* more task; the last of its actions is the one that is remembered.       *)
ConfigTopic ==
  /\ pc = "config" /\ config_read < Len(Config)
  /\ config_read' = config_read + 1
  /\ Decide(Config[config_read'].topic, Config[config_read'].action)
  /\ UNCHANGED <<graph, pc, current_topics, counted, disturbed>>

ConfigDone ==
  /\ pc = "config" /\ config_read = Len(Config)
  /\ pc' = IF Discovery THEN "scan" ELSE "off"
  /\ UNCHANGED <<graph, topic_status, config_read, current_topics, counted, tasks,
                 disturbed>>

(* A round of discovery: the names of all topics, in the order of a map.   *)
Scan ==
  /\ pc = "scan"
  /\ current_topics' \in SetToSeqs({t \in Topic : Visible(t)})
  /\ pc' = "topic"
  /\ disturbed' = {}
  /\ UNCHANGED <<graph, topic_status, config_read, counted, tasks>>

NextTopic_HasTask ==               \* mutant: only topics with a task are known
  /\ pc = "topic" /\ current_topics # <<>>
  /\ \/ /\ topic_status[Head(current_topics)] \in {Undecided, "noop"}
        /\ pc' = "query"
        /\ UNCHANGED current_topics
     \/ /\ topic_status[Head(current_topics)] \in {"pub", "sub"}
        /\ current_topics' = Tail(current_topics)
        /\ UNCHANGED pc
  /\ UNCHANGED <<graph, topic_status, config_read, counted, tasks, disturbed>>

NextTopic_Break ==                 \* mutant: a known topic ends the round
  /\ pc = "topic" /\ current_topics # <<>>
  /\ \/ /\ topic_status[Head(current_topics)] = Undecided
        /\ pc' = "query"
        /\ UNCHANGED current_topics
     \/ /\ topic_status[Head(current_topics)] # Undecided
        /\ current_topics' = <<>>
        /\ UNCHANGED pc
  /\ UNCHANGED <<graph, topic_status, config_read, counted, tasks, disturbed>>

NextTopic ==
  /\ pc = "topic" /\ current_topics # <<>>
  /\ \/ /\ topic_status[Head(current_topics)] = Undecided
        /\ pc' = "query"
        /\ UNCHANGED current_topics
     \/ /\ topic_status[Head(current_topics)] # Undecided
        /\ current_topics' = Tail(current_topics)
        /\ UNCHANGED pc
  /\ UNCHANGED <<graph, topic_status, config_read, counted, tasks, disturbed>>

(* ros2 topic info finds the topic and counts its publishers, ...          *)
CountPublishers ==
  /\ pc = "query" /\ Visible(Head(current_topics))
  /\ counted' = PublisherCount(Head(current_topics))
  /\ pc' = "count"
  /\ UNCHANGED <<graph, topic_status, config_read, current_topics, tasks,
                 disturbed>>

(* ... then its subscriptions, and determine_topic_action reads the output.*)
determine_topic_action_AnyZero(p, s) ==   \* mutant: any "count: 0" will do
  IF p = 0 \/ s = 0 THEN "pub" ELSE "noop"

determine_topic_action(p, s) ==
  IF p = 0 THEN "pub" ELSE IF s = 0 THEN "sub" ELSE "noop"

TopicDone(action) ==
  /\ Decide(Head(current_topics), action)
  /\ current_topics' = Tail(current_topics)
  /\ counted' = 0
  /\ pc' = "topic"
  /\ UNCHANGED <<graph, config_read, disturbed>>

CountSubscriptions ==
  /\ pc = "count"
  /\ TopicDone(determine_topic_action(
       counted, SubscriptionCount(Head(current_topics))))

(* A topic that is gone is reported on stderr only: the output is empty.   *)
UnknownTopic ==
  /\ pc = "query" /\ ~Visible(Head(current_topics))
  /\ TopicDone("noop")

Sleep ==
  /\ pc = "topic" /\ current_topics = <<>>
  /\ pc' = "scan"
  /\ UNCHANGED <<graph, topic_status, config_read, current_topics, counted, tasks,
                 disturbed>>

(* No configuration, no certificate, an unknown action; later the unwrap of *)
(* the graph query or of the command: the manager is gone, its tasks not.  *)
Panic ==
  /\ pc \in {"config", "scan", "query", "count"}
  /\ pc' = "panicked"
  /\ UNCHANGED <<graph, topic_status, config_read, current_topics, counted, tasks,
                 disturbed>>

Manager ==
  \/ ConfigTopic \/ ConfigDone \/ Scan \/ NextTopic
  \/ CountPublishers \/ CountSubscriptions \/ UnknownTopic \/ Sleep

Next ==
  \/ Manager \/ Panic
  \/ \E t \in Topic : NodeChanges(t)
  \/ \E i \in DOMAIN tasks : TaskStarts(i) \/ TaskFails(i)

Spec == Init /\ [][Next]_vars

(* Timers fire and the command returns.                                    *)
FairSpec == Spec /\ WF_vars(Manager)

-----------------------------------------------------------------------------
(* Properties                                                              *)

TypeOK ==
  /\ publishers \in [Topic -> 0 .. MaxNodes]
  /\ subscribers \in [Topic -> 0 .. MaxNodes]
  /\ topic_status \in [Topic -> Action \cup {Undecided}]
  /\ tasks \in Seq([topic : Topic, action : {"pub", "sub"},
                    state : {"spawned", "up", "failed"}])
  /\ pc \in {"config", "scan", "topic", "query", "count", "off", "panicked"}
  /\ config_read \in 0 .. Len(Config)
  /\ current_topics \in Seq(Topic)
  /\ counted \in Nat
  /\ disturbed \subseteq Topic

(* The entries of the configuration that name t, and those of them that    *)
(* ask for a task.                                                         *)
Named(t) == {j \in DOMAIN Config : Config[j].topic = t}
Wanted(t) == {j \in Named(t) : Config[j].action # "noop"}

(* Discovery never gives a router a second live task for a topic, which    *)
(* would feed the first through the local graph: it adds none to the tasks *)
(* that the configuration asks for, one per entry, and runs one at most for*)
(* a topic that is not configured, although the router's own tasks show up *)
(* in the graph it scans, and although they fail and topics come back.     *)
Live(i) == tasks[i].state # "failed"

OneTaskPerTopic ==
  \A t \in Topic :
    Cardinality({i \in DOMAIN tasks : Live(i) /\ tasks[i].topic = t})
      <= IF Named(t) = {} THEN 1 ELSE Cardinality(Wanted(t))

(* resources/README.md: a configured noop excludes a topic from discovery. *)
(* A task of a configured topic does what one of its entries says, also    *)
(* when another entry says otherwise and is the one remembered.            *)
ConfigurationWins ==
  \A i \in DOMAIN tasks :
    Named(tasks[i].topic) # {} =>
      \E j \in Named(tasks[i].topic) : Config[j].action = tasks[i].action

(* A discovered topic gets the task its local nodes call for (the missing  *)
(* side comes from the network), if these did not change between the list  *)
(* of the round and the answer of the command.                             *)
Missing(t) ==
  {side \in {"pub", "sub"} :
     IF side = "pub" THEN publishers[t] = 0 ELSE subscribers[t] = 0}

DecidedByTheGraph ==
  [][\A t \in Topic \ disturbed :
       /\ pc # "config"
       /\ topic_status[t] = Undecided /\ topic_status'[t] # Undecided
       => IF Missing(t) = {} THEN topic_status'[t] = "noop"
          ELSE topic_status'[t] \in Missing(t)]_vars

(* A topic that stays in the graph is decided in the end, whatever other   *)
(* topics come and go, unless the manager panics or discovery is off.      *)
DiscoveredEventually ==
  \A t \in Topic :
    <>[](publishers[t] + subscribers[t] > 0)
      => <>(topic_status[t] # Undecided \/ pc \in {"panicked", "off"})
=============================================================================

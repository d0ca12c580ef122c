------------------------- MODULE TopicManagerProofs -------------------------
(* Theorems about TopicManager, for every set of topics, configuration and *)
(* number of local nodes.                                                  *)
EXTENDS TopicManager, FiniteSetTheorems, SequenceTheorems, TLAPS

-----------------------------------------------------------------------------
(* The inductive invariant.  A topic with a task, failed ones included, is *)
(* decided, and so are the topics of the entries gone through.             *)

TasksDecided ==
  \A i \in 1 .. Len(tasks) : topic_status[tasks[i].topic] # Undecided

ConfiguredDecided ==
  \A j \in 1 .. config_read : topic_status[Config[j].topic] # Undecided

(* A configured topic has a task for each entry gone through that asks for *)
(* one, another topic at most one.                                         *)
TasksOf(t) == {i \in 1 .. Len(tasks) : tasks[i].topic = t}
WantedSoFar(t, k) ==
  {j \in 1 .. k : Config[j].topic = t /\ Config[j].action # "noop"}

TasksCounted ==
  \A t \in Topic :
    Cardinality(TasksOf(t))
      <= IF Named(t) = {} THEN 1 ELSE Cardinality(WantedSoFar(t, config_read))

(* Discovery begins when the configuration has been gone through.          *)
ConfigRead == pc \notin {"config", "panicked"} => config_read = Len(Config)

(* ros2 topic info is asked about an undecided topic.                      *)
QueriesUndecided ==
  pc \in {"query", "count"} =>
    current_topics # <<>> /\ topic_status[Head(current_topics)] = Undecided

ManagerInv ==
  /\ TypeOK /\ TasksDecided /\ ConfiguredDecided /\ TasksCounted /\ ConfigRead
  /\ QueriesUndecided /\ ConfigurationWins

-----------------------------------------------------------------------------
LEMMA ConfigFacts ==
  /\ Len(Config) \in Nat
  /\ DOMAIN Config = 1 .. Len(Config)
  /\ \A i \in 1 .. Len(Config) :
       Config[i].topic \in Topic /\ Config[i].action \in Action
<1>1. Config \in Seq([topic : Topic, action : Action])
  BY TopicManagerAssumption
<1>2. /\ Len(Config) \in Nat /\ DOMAIN Config = 1 .. Len(Config)
      /\ \A i \in 1 .. Len(Config) :
           Config[i] \in [topic : Topic, action : Action]
  BY <1>1, LenProperties, ElementOfSeq
<1> QED  BY <1>2

LEMMA TaskFacts ==
  ASSUME TypeOK
  PROVE  /\ Len(tasks) \in Nat /\ DOMAIN tasks = 1 .. Len(tasks)
         /\ \A i \in 1 .. Len(tasks) :
              /\ tasks[i] \in [topic : Topic, action : {"pub", "sub"},
                               state : {"spawned", "up", "failed"}]
              /\ tasks[i].topic \in Topic /\ tasks[i].action \in {"pub", "sub"}
<1>1. /\ Len(tasks) \in Nat /\ DOMAIN tasks = 1 .. Len(tasks)
      /\ \A i \in 1 .. Len(tasks) :
           tasks[i] \in [topic : Topic, action : {"pub", "sub"},
                         state : {"spawned", "up", "failed"}]
  BY LenProperties, ElementOfSeq DEF TypeOK
<1> QED  BY <1>1

(* The tasks of a topic, and the entries that ask for one, are finitely    *)
(* many.                                                                   *)
LEMMA CountsFinite ==
  ASSUME TypeOK, NEW t, NEW k \in Nat
  PROVE  /\ IsFiniteSet(TasksOf(t)) /\ Cardinality(TasksOf(t)) \in Nat
         /\ IsFiniteSet(WantedSoFar(t, k))
         /\ Cardinality(WantedSoFar(t, k)) \in Nat
<1>1. IsFiniteSet(1 .. Len(tasks)) /\ TasksOf(t) \in SUBSET (1 .. Len(tasks))
  <2>1. Len(tasks) \in Nat
    BY TaskFacts
  <2> QED  BY <2>1, FS_Interval DEF TasksOf
<1>2. IsFiniteSet(1 .. k) /\ WantedSoFar(t, k) \in SUBSET (1 .. k)
  BY FS_Interval DEF WantedSoFar
<1> QED  BY <1>1, <1>2, FS_Subset, FS_CardinalityType

(* One more entry is one more that asks for a task, if it does.            *)
LEMMA WantedGrows ==
  ASSUME TypeOK, NEW k \in Nat, NEW t
  PROVE  Cardinality(WantedSoFar(t, k + 1))
           = IF Config[k + 1].topic = t /\ Config[k + 1].action # "noop"
             THEN Cardinality(WantedSoFar(t, k)) + 1
             ELSE Cardinality(WantedSoFar(t, k))
<1> DEFINE wants == Config[k + 1].topic = t /\ Config[k + 1].action # "noop"
<1>1. WantedSoFar(t, k + 1)
        = IF wants THEN WantedSoFar(t, k) \cup {k + 1} ELSE WantedSoFar(t, k)
  BY DEF WantedSoFar
<1>2. k + 1 \notin WantedSoFar(t, k)
  BY DEF WantedSoFar
<1>3. IsFiniteSet(WantedSoFar(t, k))
  BY CountsFinite
<1> HIDE DEF wants
<1>4. Cardinality(WantedSoFar(t, k + 1))
        = IF wants THEN Cardinality(WantedSoFar(t, k)) + 1
          ELSE Cardinality(WantedSoFar(t, k))
  BY <1>1, <1>2, <1>3, FS_AddElement
<1> QED  BY <1>4 DEF wants

(* What one decision does: the topic gets its status and, unless it is     *)
(* noop, one more task.                                                    *)
LEMMA DecideStep ==
  ASSUME TypeOK, TasksDecided, ConfigurationWins, NEW t \in Topic,
         NEW action \in Action,
         Named(t) # {} => \E j \in Named(t) : Config[j].action = action,
         Decide(t, action)
  PROVE  /\ topic_status' \in [Topic -> Action \cup {Undecided}]
         /\ topic_status'[t] = action /\ action # Undecided
         /\ \A x \in Topic \ {t} : topic_status'[x] = topic_status[x]
         /\ tasks' \in Seq([topic : Topic, action : {"pub", "sub"},
                            state : {"spawned", "up", "failed"}])
         /\ TasksDecided' /\ ConfigurationWins'
         /\ \A x \in Topic :
              Cardinality(TasksOf(x)')
                = IF x = t /\ action # "noop" THEN Cardinality(TasksOf(x)) + 1
                  ELSE Cardinality(TasksOf(x))
<1> DEFINE Task == [topic : Topic, action : {"pub", "sub"},
                    state : {"spawned", "up", "failed"}]
           new == [topic |-> t, action |-> action, state |-> "spawned"]
<1>1. /\ topic_status' \in [Topic -> Action \cup {Undecided}]
      /\ topic_status'[t] = action
      /\ \A x \in Topic \ {t} : topic_status'[x] = topic_status[x]
  BY DEF TypeOK, Decide
<1>2. action # Undecided
  BY DEF Action, Undecided
<1>3. \A x \in Topic : topic_status[x] # Undecided => topic_status'[x] # Undecided
  BY <1>1, <1>2
<1>4. CASE action = "noop" /\ tasks' = tasks
  <2>1. TasksDecided'
    BY <1>3, <1>4, TaskFacts DEF TasksDecided
  <2>2. \A x \in Topic : TasksOf(x)' = TasksOf(x)
    BY <1>4 DEF TasksOf
  <2> QED  BY <1>1, <1>2, <1>4, <2>1, <2>2 DEF TypeOK, ConfigurationWins, Named
<1>5. CASE action \in {"pub", "sub"} /\ tasks' = Append(tasks, new)
  <2>1. new \in Task
    BY <1>5
  <2>2. /\ tasks' \in Seq(Task) /\ Len(tasks) \in Nat
        /\ DOMAIN tasks = 1 .. Len(tasks)
        /\ DOMAIN tasks' = 1 .. Len(tasks) + 1
        /\ Len(tasks') = Len(tasks) + 1 /\ tasks'[Len(tasks) + 1] = new
        /\ \A i \in 1 .. Len(tasks) : tasks'[i] = tasks[i]
    <3>1. tasks \in Seq(Task)
      BY DEF TypeOK
    <3> HIDE DEF new, Task
    <3> QED  BY <1>5, <2>1, <3>1, AppendProperties, LenProperties
  <2>3. \A i \in 1 .. Len(tasks') :
          \/ i \in 1 .. Len(tasks) /\ tasks'[i] = tasks[i]
          \/ i = Len(tasks) + 1 /\ tasks'[i].topic = t
             /\ tasks'[i].action = action
    BY <2>2
  <2>4. TasksDecided'
    BY <1>1, <1>2, <1>3, <2>3, TaskFacts DEF TasksDecided
  <2>5. ConfigurationWins'
    BY <2>2, <2>3 DEF ConfigurationWins, Named
  <2>6. ASSUME NEW x \in Topic
        PROVE  Cardinality(TasksOf(x)')
                 = IF x = t /\ action # "noop" THEN Cardinality(TasksOf(x)) + 1
                   ELSE Cardinality(TasksOf(x))
    <3>1. TasksOf(x)' = IF x = t THEN TasksOf(x) \cup {Len(tasks) + 1}
                        ELSE TasksOf(x)
      BY <2>2, <2>3 DEF TasksOf
    <3>2. Len(tasks) + 1 \notin TasksOf(x)
      BY <2>2 DEF TasksOf
    <3>3. IsFiniteSet(TasksOf(x))
      BY CountsFinite
    <3>4. action # "noop"
      BY <1>5
    <3> QED  BY <3>1, <3>2, <3>3, <3>4, FS_AddElement
  <2> QED  BY <1>1, <1>2, <2>2, <2>4, <2>5, <2>6
<1>6. \/ action = "noop" /\ tasks' = tasks
      \/ action \in {"pub", "sub"} /\ tasks' = Append(tasks, new)
  BY DEF Decide, topic_creator, Action
<1> QED  BY <1>4, <1>5, <1>6

-----------------------------------------------------------------------------
LEMMA ManagerInit == Init => ManagerInv
<1> SUFFICES ASSUME Init PROVE ManagerInv
  OBVIOUS
<1>1. TypeOK
  <2>1. /\ publishers \in [Topic -> 0 .. MaxNodes]
        /\ subscribers \in [Topic -> 0 .. MaxNodes]
    BY TopicManagerAssumption DEF Init
  <2>2. topic_status \in [Topic -> Action \cup {Undecided}]
    BY DEF Init
  <2>3. config_read \in 0 .. Len(Config)
    BY ConfigFacts DEF Init
  <2> QED  BY <2>1, <2>2, <2>3, EmptySeq DEF Init, TypeOK
<1>2. Len(tasks) = 0 /\ DOMAIN tasks = {}
  BY DEF Init
<1>3. TasksDecided /\ ConfigurationWins
  BY <1>2 DEF TasksDecided, ConfigurationWins
<1>4. ConfiguredDecided /\ ConfigRead /\ QueriesUndecided
  BY DEF Init, ConfiguredDecided, ConfigRead, QueriesUndecided
<1>5. TasksCounted
  <2>1. ASSUME NEW t \in Topic
        PROVE  /\ Cardinality(TasksOf(t)) = 0
               /\ Cardinality(WantedSoFar(t, config_read)) = 0
    <3>1. TasksOf(t) = {} /\ WantedSoFar(t, config_read) = {}
      BY <1>2 DEF Init, TasksOf, WantedSoFar
    <3> QED  BY <3>1, FS_EmptySet
  <2> QED  BY <2>1 DEF TasksCounted
<1> QED  BY <1>1, <1>3, <1>4, <1>5 DEF ManagerInv

(* The loop over the configuration adds one task at most, for an entry that*)
(* asks for one.                                                           *)
LEMMA ConfigTopicStep ==
  ASSUME ManagerInv, ConfigTopic
  PROVE  ManagerInv'
<1> USE DEF ManagerInv
<1> DEFINE k == config_read
           t == Config[k + 1].topic
           action == Config[k + 1].action
<1>1. /\ k \in Nat /\ k + 1 \in 1 .. Len(Config) /\ config_read' = k + 1
      /\ t \in Topic /\ action \in Action
      /\ k + 1 \in Named(t)
  BY ConfigFacts DEF ConfigTopic, TypeOK, Named
<1>2. Decide(t, action)
  BY <1>1 DEF ConfigTopic
<1>3. /\ topic_status' \in [Topic -> Action \cup {Undecided}]
      /\ topic_status'[t] = action /\ action # Undecided
      /\ \A x \in Topic \ {t} : topic_status'[x] = topic_status[x]
      /\ tasks' \in Seq([topic : Topic, action : {"pub", "sub"},
                         state : {"spawned", "up", "failed"}])
      /\ TasksDecided' /\ ConfigurationWins'
      /\ \A x \in Topic :
           Cardinality(TasksOf(x)')
             = IF x = t /\ action # "noop" THEN Cardinality(TasksOf(x)) + 1
               ELSE Cardinality(TasksOf(x))
  <2>1. \E j \in Named(t) : Config[j].action = action
    BY <1>1
  <2> HIDE DEF t, action
  <2> QED  BY <1>1, <1>2, <2>1, DecideStep
<1>4. TypeOK'
  BY <1>1, <1>3 DEF TypeOK, ConfigTopic, graph
<1>5. ConfiguredDecided'
  <2>1. ASSUME NEW j \in 1 .. k + 1
        PROVE  topic_status'[Config[j].topic] # Undecided
    <3>1. CASE Config[j].topic = t
      BY <1>3, <3>1
    <3>2. CASE Config[j].topic # t
      <4>1. j \in 1 .. k /\ Config[j].topic \in Topic \ {t}
        BY <1>1, <3>2, ConfigFacts
      <4> QED  BY <1>3, <4>1 DEF ConfiguredDecided
    <3> QED  BY <3>1, <3>2
  <2> QED  BY <1>1, <2>1 DEF ConfiguredDecided
<1>6. TasksCounted'
  <2> SUFFICES ASSUME NEW x \in Topic
               PROVE  Cardinality(TasksOf(x)')
                        <= IF Named(x) = {} THEN 1
                           ELSE Cardinality(WantedSoFar(x, k + 1))
    BY <1>1 DEF TasksCounted, Named, WantedSoFar
  <2>1. /\ Cardinality(TasksOf(x)) \in Nat
        /\ Cardinality(WantedSoFar(x, k)) \in Nat
    BY <1>1, CountsFinite
  <2>2. Cardinality(TasksOf(x))
          <= IF Named(x) = {} THEN 1 ELSE Cardinality(WantedSoFar(x, k))
    BY DEF TasksCounted
  <2>3. Cardinality(WantedSoFar(x, k + 1))
          = IF t = x /\ action # "noop" THEN Cardinality(WantedSoFar(x, k)) + 1
            ELSE Cardinality(WantedSoFar(x, k))
    <3>1. \A y : Cardinality(WantedSoFar(y, k + 1))
            = IF Config[k + 1].topic = y /\ Config[k + 1].action # "noop"
              THEN Cardinality(WantedSoFar(y, k)) + 1
              ELSE Cardinality(WantedSoFar(y, k))
      BY <1>1, WantedGrows
    <3> QED  BY <3>1
  <2>4. Named(x) = {} => x # t
    BY <1>1
  <2> HIDE DEF t, action, k
  <2> QED  BY <1>3, <2>1, <2>2, <2>3, <2>4
<1> QED
  BY <1>3, <1>4, <1>5, <1>6 DEF ConfigTopic, ConfigRead, QueriesUndecided

(* A discovered topic is undecided, hence not in the configuration, and has*)
(* no task yet.                                                            *)
LEMMA TopicDoneStep ==
  ASSUME ManagerInv, NEW action \in Action, TopicDone(action),
         pc \in {"query", "count"}
  PROVE  ManagerInv'
<1> USE DEF ManagerInv
<1> DEFINE t == Head(current_topics)
<1>1. /\ t \in Topic /\ topic_status[t] = Undecided
      /\ Tail(current_topics) \in Seq(Topic)
  BY HeadTailProperties DEF QueriesUndecided, TypeOK
<1>2. config_read = Len(Config) /\ config_read' = config_read
  BY DEF ConfigRead, TopicDone
<1>3. Named(t) = {}
  BY <1>1, <1>2, ConfigFacts DEF ConfiguredDecided, Named
<1>4. Decide(t, action)
  BY DEF TopicDone
<1>5. /\ topic_status' \in [Topic -> Action \cup {Undecided}]
      /\ topic_status'[t] = action /\ action # Undecided
      /\ \A x \in Topic \ {t} : topic_status'[x] = topic_status[x]
      /\ tasks' \in Seq([topic : Topic, action : {"pub", "sub"},
                         state : {"spawned", "up", "failed"}])
      /\ TasksDecided' /\ ConfigurationWins'
      /\ \A x \in Topic :
           Cardinality(TasksOf(x)')
             = IF x = t /\ action # "noop" THEN Cardinality(TasksOf(x)) + 1
               ELSE Cardinality(TasksOf(x))
  <2> HIDE DEF t
  <2> QED  BY <1>1, <1>3, <1>4, DecideStep
<1>6. TypeOK'
  BY <1>1, <1>5 DEF TypeOK, TopicDone, graph
<1>7. ConfiguredDecided'
  BY <1>2, <1>3, <1>5, ConfigFacts DEF ConfiguredDecided, Named
<1>8. Cardinality(TasksOf(t)) = 0
  <2>1. TasksOf(t) = {}
    BY <1>1, TaskFacts DEF TasksOf, TasksDecided
  <2> QED  BY <2>1, FS_EmptySet
<1>9. TasksCounted'
  <2> SUFFICES ASSUME NEW x \in Topic
               PROVE  Cardinality(TasksOf(x)')
                        <= IF Named(x) = {} THEN 1
                           ELSE Cardinality(WantedSoFar(x, config_read))
    BY <1>2 DEF TasksCounted, Named, WantedSoFar
  <2>1. Cardinality(TasksOf(x))
          <= IF Named(x) = {} THEN 1
             ELSE Cardinality(WantedSoFar(x, config_read))
    BY DEF TasksCounted
  <2>2. CASE x = t
    BY <1>3, <1>5, <1>8, <2>2
  <2>3. CASE x # t
    BY <1>5, <2>1, <2>3
  <2> QED  BY <2>2, <2>3
<1> QED
  BY <1>5, <1>6, <1>7, <1>9, <1>2 DEF TopicDone, ConfigRead, QueriesUndecided

(* A task that starts or fails keeps its topic and its action.             *)
LEMMA TaskStateStep ==
  ASSUME ManagerInv, NEW i \in DOMAIN tasks, NEW s \in {"up", "failed"},
         tasks' = [tasks EXCEPT ![i].state = s],
         UNCHANGED <<graph, manager, disturbed>>
  PROVE  ManagerInv'
<1> USE DEF ManagerInv
<1> DEFINE Task == [topic : Topic, action : {"pub", "sub"},
                    state : {"spawned", "up", "failed"}]
<1>1. /\ Len(tasks) \in Nat /\ DOMAIN tasks = 1 .. Len(tasks)
      /\ \A j \in 1 .. Len(tasks) : tasks[j] \in Task
  BY TaskFacts
<1>2. /\ Len(tasks') = Len(tasks) /\ DOMAIN tasks' = 1 .. Len(tasks)
      /\ \A j \in 1 .. Len(tasks) : tasks'[j] \in Task
      /\ tasks' \in Seq(Task)
  <2>1. tasks \in Seq(Task)
    BY DEF TypeOK
  <2>2. [tasks[i] EXCEPT !.state = s] \in Task
    BY <1>1
  <2>3. tasks' = [tasks EXCEPT ![i] = [tasks[i] EXCEPT !.state = s]]
    BY <1>1
  <2> HIDE DEF Task
  <2> QED  BY <1>1, <2>1, <2>2, <2>3, ExceptSeq
<1>3. \A j \in 1 .. Len(tasks) :
        tasks'[j].topic = tasks[j].topic /\ tasks'[j].action = tasks[j].action
  BY <1>1
<1>4. UNCHANGED <<publishers, subscribers, topic_status, pc, config_read,
                  current_topics, counted, disturbed>>
  BY DEF graph, manager
<1>5. TypeOK'
  BY <1>2, <1>4 DEF TypeOK
<1>6. TasksDecided' /\ ConfigurationWins'
  BY <1>1, <1>2, <1>3, <1>4 DEF TasksDecided, ConfigurationWins, Named
<1>7. TasksCounted'
  <2>1. \A x \in Topic : TasksOf(x)' = TasksOf(x)
    BY <1>1, <1>2, <1>3 DEF TasksOf
  <2> QED  BY <1>4, <2>1 DEF TasksCounted, Named, WantedSoFar
<1>8. ConfiguredDecided' /\ ConfigRead' /\ QueriesUndecided'
  BY <1>4 DEF ConfiguredDecided, ConfigRead, QueriesUndecided
<1> QED  BY <1>5, <1>6, <1>7, <1>8

(* Everything else leaves the decisions alone.                             *)
LEMMA UndecidingStep ==
  ASSUME ManagerInv, TypeOK', UNCHANGED <<topic_status, config_read, tasks>>,
         pc' \notin {"config", "panicked"} =>
           \/ pc \notin {"config", "panicked"}
           \/ config_read = Len(Config),
         QueriesUndecided'
  PROVE  ManagerInv'
<1> USE DEF ManagerInv
<1>1. TasksDecided' /\ ConfigurationWins'
  BY DEF TasksDecided, ConfigurationWins, Named
<1>2. TasksCounted'
  BY DEF TasksCounted, TasksOf, WantedSoFar, Named
<1>3. ConfiguredDecided' /\ ConfigRead'
  BY DEF ConfiguredDecided, ConfigRead
<1> QED  BY <1>1, <1>2, <1>3
-----------------------------------------------------------------------------
LEMMA ManagerInductive == ManagerInv /\ [Next]_vars => ManagerInv'
<1> SUFFICES ASSUME ManagerInv, [Next]_vars PROVE ManagerInv'
  OBVIOUS
<1> USE DEF ManagerInv
<1>1. CASE ConfigTopic
  BY <1>1, ConfigTopicStep
<1>2. CASE ConfigDone
  <2>1. TypeOK'
    BY <1>2 DEF TypeOK, ConfigDone, graph
  <2>2. QueriesUndecided'
    BY <1>2 DEF ConfigDone, QueriesUndecided
  <2> QED  BY <1>2, <2>1, <2>2, UndecidingStep DEF ConfigDone
<1>3. CASE Scan
  <2> DEFINE S == {t \in Topic : Visible(t)}
  <2>1. current_topics' \in Seq(Topic)
    <3>1. current_topics' \in [1 .. Cardinality(S) -> S]
      BY <1>3 DEF Scan, SetToSeqs
    <3>2. S \in SUBSET Topic
      OBVIOUS
    <3>3. Cardinality(S) \in Nat
      BY <3>2, TopicManagerAssumption, FS_Subset, FS_CardinalityType
    <3> HIDE DEF S
    <3> QED  BY <3>1, <3>2, <3>3
  <2>2. TypeOK'
    BY <1>3, <2>1 DEF TypeOK, Scan, graph
  <2>3. QueriesUndecided'
    BY <1>3 DEF Scan, QueriesUndecided
  <2> QED  BY <1>3, <2>2, <2>3, UndecidingStep DEF Scan
<1>4. CASE NextTopic
  <2>1. TypeOK'
    <3>1. Tail(current_topics) \in Seq(Topic)
      BY <1>4, HeadTailProperties DEF TypeOK, NextTopic
    <3> QED  BY <1>4, <3>1 DEF TypeOK, NextTopic, graph
  <2>2. QueriesUndecided'
    BY <1>4 DEF NextTopic, QueriesUndecided
  <2> QED  BY <1>4, <2>1, <2>2, UndecidingStep DEF NextTopic
<1>5. CASE CountPublishers
  <2>1. PublisherCount(Head(current_topics)) \in Nat
    <3>1. Head(current_topics) \in Topic
      BY <1>5, HeadTailProperties
      DEF CountPublishers, TypeOK, QueriesUndecided
    <3>2. Own(Head(current_topics), "pub") \in Nat
      <4> DEFINE O == {i \in DOMAIN tasks :
                        tasks[i] = [topic |-> Head(current_topics),
                                    action |-> "pub", state |-> "up"]}
      <4>1. IsFiniteSet(1 .. Len(tasks)) /\ O \in SUBSET (1 .. Len(tasks))
        BY TaskFacts, FS_Interval
      <4>2. Cardinality(O) \in Nat
        <5> HIDE DEF O
        <5> QED  BY <4>1, FS_Subset, FS_CardinalityType
      <4> QED  BY <4>2 DEF Own
    <3>3. publishers[Head(current_topics)] \in Nat
      BY <3>1, TopicManagerAssumption DEF TypeOK
    <3> QED  BY <3>2, <3>3 DEF PublisherCount
  <2>2. TypeOK'
    BY <1>5, <2>1 DEF TypeOK, CountPublishers, graph
  <2>3. QueriesUndecided'
    BY <1>5 DEF CountPublishers, QueriesUndecided
  <2> QED  BY <1>5, <2>2, <2>3, UndecidingStep DEF CountPublishers
<1>6. CASE CountSubscriptions
  <2> DEFINE action == determine_topic_action(
                         counted, SubscriptionCount(Head(current_topics)))
  <2>1. action \in Action
    BY DEF determine_topic_action, Action
  <2> HIDE DEF action
  <2>2. TopicDone(action) /\ pc \in {"query", "count"}
    BY <1>6 DEF CountSubscriptions, action
  <2> QED  BY <2>1, <2>2, TopicDoneStep
<1>7. CASE UnknownTopic
  <2>1. "noop" \in Action /\ TopicDone("noop") /\ pc \in {"query", "count"}
    BY <1>7 DEF UnknownTopic, Action
  <2> QED  BY <2>1, TopicDoneStep
<1>8. CASE Sleep
  <2>1. TypeOK' /\ QueriesUndecided'
    BY <1>8 DEF TypeOK, Sleep, graph, QueriesUndecided
  <2> QED  BY <1>8, <2>1, UndecidingStep DEF Sleep
<1>9. CASE Panic
  <2>1. TypeOK' /\ QueriesUndecided'
    BY <1>9 DEF TypeOK, Panic, graph, QueriesUndecided
  <2> QED  BY <1>9, <2>1, UndecidingStep DEF Panic
<1>10. ASSUME NEW t \in Topic, NodeChanges(t)
       PROVE  ManagerInv'
  <2>1. TypeOK'
    BY <1>10, TopicManagerAssumption DEF TypeOK, NodeChanges, Changes, manager
  <2>2. QueriesUndecided'
    BY <1>10 DEF NodeChanges, manager, QueriesUndecided
  <2> QED  BY <1>10, <2>1, <2>2, UndecidingStep DEF NodeChanges, manager
<1>11. ASSUME NEW i \in DOMAIN tasks, TaskStarts(i) \/ TaskFails(i)
       PROVE  ManagerInv'
  <2>1. PICK s \in {"up", "failed"} : tasks' = [tasks EXCEPT ![i].state = s]
    BY <1>11 DEF TaskStarts, TaskFails
  <2>2. UNCHANGED <<graph, manager, disturbed>>
    BY <1>11 DEF TaskStarts, TaskFails
  <2> QED  BY <2>1, <2>2, TaskStateStep
<1>12. CASE UNCHANGED vars
  <2>1. TypeOK' /\ QueriesUndecided'
    BY <1>12 DEF TypeOK, vars, graph, manager, QueriesUndecided
  <2> QED  BY <1>12, <2>1, UndecidingStep DEF vars, manager
<1> QED
  BY <1>1, <1>2, <1>3, <1>4, <1>5, <1>6, <1>7, <1>8, <1>9, <1>10, <1>11, <1>12
  DEF Next, Manager

(* The invariant holds in every behaviour of the manager.                  *)
THEOREM ManagerInvariant == Spec => []ManagerInv
<1> QED  BY ManagerInit, ManagerInductive, PTL DEF Spec

-----------------------------------------------------------------------------
(* ros_topic_manager keeps every variable in its type, however many nodes  *)
(* and topics there are.                                                   *)
THEOREM ManagerTypeCorrect == Spec => []TypeOK
<1>1. ManagerInv => TypeOK
  BY DEF ManagerInv
<1> QED  BY <1>1, ManagerInvariant, PTL

(* Discovery never gives a topic a second live task: a configured topic has*)
(* at most the tasks that its entries ask for, another one at most one.    *)
THEOREM OneTask == Spec => []OneTaskPerTopic
<1>1. ASSUME ManagerInv
      PROVE  OneTaskPerTopic
  <2> SUFFICES ASSUME NEW t \in Topic
               PROVE  Cardinality({i \in DOMAIN tasks :
                                     Live(i) /\ tasks[i].topic = t})
                        <= IF Named(t) = {} THEN 1 ELSE Cardinality(Wanted(t))
    BY DEF OneTaskPerTopic
  <2> USE <1>1 DEF ManagerInv
  <2> DEFINE L == {i \in DOMAIN tasks : Live(i) /\ tasks[i].topic = t}
             W == WantedSoFar(t, config_read)
  <2>1. config_read \in Nat /\ config_read <= Len(Config)
    BY ConfigFacts DEF TypeOK
  <2>2. /\ Cardinality(L) <= Cardinality(TasksOf(t))
        /\ Cardinality(L) \in Nat
    <3>1. L \in SUBSET TasksOf(t)
      BY TaskFacts DEF TasksOf
    <3>2. IsFiniteSet(TasksOf(t))
      BY CountsFinite
    <3> HIDE DEF L
    <3> QED  BY <3>1, <3>2, FS_Subset, FS_CardinalityType
  <2>3. /\ Cardinality(W) <= Cardinality(Wanted(t))
        /\ Cardinality(Wanted(t)) \in Nat
    <3>1. IsFiniteSet(1 .. Len(Config)) /\ Wanted(t) \in SUBSET (1 .. Len(Config))
      BY ConfigFacts, FS_Interval DEF Wanted, Named
    <3>2. W \in SUBSET Wanted(t)
      BY <2>1, ConfigFacts DEF WantedSoFar, Wanted, Named
    <3> HIDE DEF W
    <3> QED  BY <3>1, <3>2, FS_Subset, FS_CardinalityType
  <2>4. Cardinality(TasksOf(t)) <= IF Named(t) = {} THEN 1 ELSE Cardinality(W)
    BY DEF TasksCounted
  <2>5. Cardinality(TasksOf(t)) \in Nat /\ Cardinality(W) \in Nat
    BY <2>1, CountsFinite
  <2> HIDE DEF L, W
  <2> QED  BY <2>2, <2>3, <2>4, <2>5 DEF L
<1> QED  BY <1>1, ManagerInvariant, PTL

(* Discovery never gives a configured topic a task that none of its entries*)
(* asks for, also when the manager panics half-way through them.           *)
THEOREM ConfigurationRespected == Spec => []ConfigurationWins
<1>1. ManagerInv => ConfigurationWins
  BY DEF ManagerInv
<1> QED  BY <1>1, ManagerInvariant, PTL

-----------------------------------------------------------------------------
(* Discovery decides by the nodes of others.  No task of the router is in  *)
(* the way: a topic without a decision has none.                           *)
LEMMA UndecidedHasNoTask ==
  ASSUME TypeOK, TasksDecided, NEW t \in Topic, topic_status[t] = Undecided
  PROVE  PublisherCount(t) = publishers[t] /\ SubscriptionCount(t) = subscribers[t]
<1>1. ASSUME NEW action \in Action, NEW i \in DOMAIN tasks
      PROVE  tasks[i] # [topic |-> t, action |-> action, state |-> "up"]
  BY TaskFacts DEF TasksDecided, Undecided
<1>2. ASSUME NEW action \in Action
      PROVE  Own(t, action) = 0
  <2>1. {i \in DOMAIN tasks :
           tasks[i] = [topic |-> t, action |-> action, state |-> "up"]} = {}
    BY <1>1
  <2> QED  BY <2>1, FS_EmptySet DEF Own
<1>3. Own(t, "pub") = 0 /\ Own(t, "sub") = 0
  BY <1>2 DEF Action
<1>4. publishers[t] \in Nat /\ subscribers[t] \in Nat
  BY TopicManagerAssumption DEF TypeOK
<1> QED  BY <1>3, <1>4 DEF PublisherCount, SubscriptionCount

(* What a round knows of an undecided topic whose nodes have stayed: some  *)
(* are there, and the publishers counted are those that still are.         *)
Listed(t) == \E i \in 1 .. Len(current_topics) : current_topics[i] = t

RoundInv ==
  pc \in {"topic", "query", "count"} =>
    \A t \in Topic \ disturbed :
      topic_status[t] = Undecided /\ Listed(t) =>
        /\ publishers[t] + subscribers[t] > 0
        /\ pc = "count" /\ t = Head(current_topics) => counted = publishers[t]

(* The topics still to be looked at were there before.                     *)
LEMMA ListedBefore ==
  ASSUME TypeOK, current_topics # <<>>, current_topics' = Tail(current_topics),
         NEW t, Listed(t)'
  PROVE  Listed(t)
<1>1. /\ current_topics \in Seq(Topic) /\ Len(current_topics) \in Nat
      /\ Len(Tail(current_topics)) = Len(current_topics) - 1
      /\ \A i \in 1 .. Len(current_topics) - 1 :
           Tail(current_topics)[i] = current_topics[i + 1]
  BY HeadTailProperties, LenProperties DEF TypeOK
<1>2. PICK i \in 1 .. Len(current_topics) - 1 : Tail(current_topics)[i] = t
  BY <1>1 DEF Listed
<1>3. i + 1 \in 1 .. Len(current_topics) /\ current_topics[i + 1] = t
  BY <1>1, <1>2
<1> QED  BY <1>3 DEF Listed

LEMMA HeadListed ==
  ASSUME TypeOK, current_topics # <<>>
  PROVE  Head(current_topics) \in Topic /\ Listed(Head(current_topics))
<1>1. /\ current_topics \in Seq(Topic) /\ Len(current_topics) \in Nat
      /\ Len(current_topics) # 0 /\ Head(current_topics) = current_topics[1]
      /\ Head(current_topics) \in Topic
  BY HeadTailProperties, LenProperties, EmptySeq DEF TypeOK
<1>2. 1 \in 1 .. Len(current_topics)
  BY <1>1
<1> QED  BY <1>1, <1>2 DEF Listed

(* A round that goes on, with fewer topics and no more undecided ones.     *)
LEMMA RoundGoesOn ==
  ASSUME ManagerInv, RoundInv, pc \in {"topic", "query", "count"}, pc' = "topic",
         UNCHANGED <<graph, disturbed>>,
         \A t \in Topic : topic_status'[t] = Undecided => topic_status[t] = Undecided,
         \/ UNCHANGED current_topics
         \/ current_topics # <<>> /\ current_topics' = Tail(current_topics)
  PROVE  RoundInv'
<1>1. ASSUME NEW t \in Topic, Listed(t)'
      PROVE  Listed(t)
  BY <1>1, ListedBefore DEF ManagerInv, Listed
<1> QED  BY <1>1 DEF RoundInv, graph

LEMMA TopicDoneChanges ==
  ASSUME ManagerInv, pc \in {"query", "count"}, NEW action \in Action,
         TopicDone(action)
  PROVE  /\ current_topics # <<>> /\ Head(current_topics) \in Topic
         /\ Listed(Head(current_topics))
         /\ topic_status[Head(current_topics)] = Undecided
         /\ topic_status' = [topic_status EXCEPT ![Head(current_topics)] = action]
BY HeadListed DEF ManagerInv, QueriesUndecided, TopicDone, Decide

LEMMA RoundNext == ManagerInv /\ RoundInv /\ [Next]_vars => RoundInv'
<1> SUFFICES ASSUME ManagerInv, RoundInv, [Next]_vars
             PROVE  RoundInv'
  OBVIOUS
<1>1. CASE ConfigTopic \/ ConfigDone \/ Sleep \/ Panic
  BY <1>1 DEF RoundInv, ConfigTopic, ConfigDone, Sleep, Panic
<1>2. CASE Scan
  <2> SUFFICES ASSUME NEW t \in Topic, topic_status[t] = Undecided, Listed(t)'
               PROVE  publishers[t] + subscribers[t] > 0
    BY <1>2 DEF RoundInv, Scan, graph
  <2>1. Visible(t)
    <3>1. PICK S : S = {x \in Topic : Visible(x)}
      OBVIOUS
    <3>2. current_topics' \in [1 .. Cardinality(S) -> S]
      BY <1>2, <3>1 DEF Scan, SetToSeqs
    <3>3. S \in SUBSET Topic /\ Cardinality(S) \in Nat
      BY <3>1, TopicManagerAssumption, FS_Subset, FS_CardinalityType
    <3>4. Len(current_topics') = Cardinality(S)
      BY <3>2, <3>3
    <3>5. t \in S
      BY <3>2, <3>4 DEF Listed
    <3> QED  BY <3>1, <3>5
  <2> QED  BY <2>1, UndecidedHasNoTask DEF ManagerInv, Visible
<1>3. CASE NextTopic
  <2>1. CASE topic_status[Head(current_topics)] = Undecided
    BY <1>3, <2>1 DEF NextTopic, RoundInv, Listed, graph
  <2>2. CASE topic_status[Head(current_topics)] # Undecided
    BY <1>3, <2>2, RoundGoesOn DEF NextTopic
  <2> QED  BY <2>1, <2>2
<1>4. CASE CountPublishers
  <2>1. /\ Head(current_topics) \in Topic
        /\ topic_status[Head(current_topics)] = Undecided
    BY <1>4, HeadListed DEF CountPublishers, ManagerInv, QueriesUndecided
  <2>2. counted' = publishers[Head(current_topics)]
    BY <1>4, <2>1, UndecidedHasNoTask DEF CountPublishers, ManagerInv
  <2> QED  BY <1>4, <2>2 DEF CountPublishers, RoundInv, Listed, graph
<1>5. ASSUME NEW action \in Action, pc \in {"query", "count"}, TopicDone(action)
      PROVE  RoundInv'
  <2>1. \A t \in Topic : topic_status'[t] = Undecided => topic_status[t] = Undecided
    BY <1>5, TopicDoneChanges DEF Action, Undecided, ManagerInv, TypeOK
  <2>2. current_topics # <<>>
    BY <1>5, TopicDoneChanges
  <2> QED  BY <1>5, <2>1, <2>2, RoundGoesOn DEF TopicDone
<1>6. CASE CountSubscriptions \/ UnknownTopic
  <2>1. PICK action :
          /\ action \in Action /\ TopicDone(action) /\ pc \in {"query", "count"}
    <3>1. \A p, s : determine_topic_action(p, s) \in Action
      BY DEF determine_topic_action, Action
    <3>2. CASE CountSubscriptions
      BY <3>1, <3>2 DEF CountSubscriptions
    <3>3. CASE UnknownTopic
      BY <3>3 DEF UnknownTopic, Action
    <3> QED  BY <1>6, <3>2, <3>3
  <2> QED  BY <1>5, <2>1
<1>7. ASSUME NEW t \in Topic, NodeChanges(t)
      PROVE  RoundInv'
  <2> SUFFICES ASSUME pc \in {"topic", "query", "count"},
                      NEW x \in Topic \ disturbed', topic_status[x] = Undecided,
                      Listed(x)
               PROVE  /\ publishers'[x] + subscribers'[x] > 0
                      /\ pc = "count" /\ x = Head(current_topics)
                           => counted = publishers'[x]
    BY <1>7 DEF RoundInv, NodeChanges, manager, Listed
  <2>1. x # t /\ x \in Topic \ disturbed
    BY <1>7 DEF NodeChanges
  <2>2. publishers'[x] = publishers[x] /\ subscribers'[x] = subscribers[x]
    BY <1>7, <2>1 DEF NodeChanges, Changes, ManagerInv, TypeOK
  <2> QED  BY <2>1, <2>2 DEF RoundInv
<1>8. CASE UNCHANGED <<graph, manager, disturbed>>
  BY <1>8 DEF RoundInv, graph, manager, Listed
<1>9. ASSUME NEW i \in DOMAIN tasks, TaskStarts(i) \/ TaskFails(i)
      PROVE  RoundInv'
  BY <1>8, <1>9 DEF TaskStarts, TaskFails
<1>10. CASE UNCHANGED vars
  BY <1>8, <1>10 DEF vars
<1> QED
  BY <1>1, <1>2, <1>3, <1>4, <1>6, <1>7, <1>9, <1>10 DEF Next, Manager

(* The decision itself, in any state that the invariants admit.            *)
Calls(t) ==
  pc # "config" /\ topic_status[t] = Undecided /\ topic_status'[t] # Undecided
    => IF Missing(t) = {} THEN topic_status'[t] = "noop"
       ELSE topic_status'[t] \in Missing(t)

LEMMA DecisionStep ==
  ManagerInv /\ RoundInv /\ Next => \A t \in Topic \ disturbed : Calls(t)
<1> SUFFICES ASSUME ManagerInv, RoundInv, Next, NEW t \in Topic \ disturbed,
                    pc # "config", topic_status[t] = Undecided,
                    topic_status'[t] # Undecided
             PROVE  IF Missing(t) = {} THEN topic_status'[t] = "noop"
                    ELSE topic_status'[t] \in Missing(t)
  BY DEF Calls
<1>1. CountSubscriptions \/ UnknownTopic
  BY DEF Next, Manager, ConfigTopic, ConfigDone, Scan, NextTopic, CountPublishers,
         Sleep, Panic, NodeChanges, TaskStarts, TaskFails, manager
<1>2. /\ PublisherCount(t) = publishers[t] /\ SubscriptionCount(t) = subscribers[t]
      /\ publishers[t] \in Nat /\ subscribers[t] \in Nat
  BY UndecidedHasNoTask, TopicManagerAssumption DEF ManagerInv, TypeOK
<1>3. CASE UnknownTopic
  <2>1. TopicDone("noop") /\ "noop" \in Action /\ pc = "query"
    BY <1>3 DEF UnknownTopic, Action
  <2>2. t = Head(current_topics) /\ Listed(t)
    BY <2>1, TopicDoneChanges DEF ManagerInv, TypeOK
  <2>3. publishers[t] + subscribers[t] > 0
    BY <2>1, <2>2 DEF RoundInv
  <2> QED  BY <1>2, <1>3, <2>2, <2>3 DEF UnknownTopic, Visible
<1>4. CASE CountSubscriptions
  <2>1. PICK action :
          action = determine_topic_action(counted,
                                          SubscriptionCount(Head(current_topics)))
    OBVIOUS
  <2>2. TopicDone(action) /\ pc = "count" /\ action \in Action
    BY <1>4, <2>1 DEF CountSubscriptions, determine_topic_action, Action
  <2>3. t = Head(current_topics) /\ Listed(t) /\ topic_status'[t] = action
    BY <2>2, TopicDoneChanges DEF ManagerInv, TypeOK
  <2>4. counted = publishers[t]
    BY <2>2, <2>3 DEF RoundInv
  <2>5. action = determine_topic_action(publishers[t], subscribers[t])
    BY <1>2, <2>1, <2>3, <2>4
  <2>6. /\ "pub" \in Missing(t) <=> publishers[t] = 0
        /\ "sub" \in Missing(t) <=> subscribers[t] = 0
        /\ Missing(t) = {} <=> publishers[t] # 0 /\ subscribers[t] # 0
    BY DEF Missing
  <2> QED  BY <2>3, <2>5, <2>6 DEF determine_topic_action
<1> QED  BY <1>1, <1>3, <1>4

(* The topic manager gives a discovered topic the task that its local nodes*)
(* call for, and none if they call for none, if they did not come or go    *)
(* since the round began, although the router's own tasks are counted.     *)
THEOREM GraphDecides == Spec => DecidedByTheGraph
<1>1. Init => RoundInv
  BY DEF Init, RoundInv
<1>2. ManagerInv /\ RoundInv /\ [Next]_vars =>
        [\A t \in Topic \ disturbed :
           /\ pc # "config"
           /\ topic_status[t] = Undecided /\ topic_status'[t] # Undecided
           => IF Missing(t) = {} THEN topic_status'[t] = "noop"
              ELSE topic_status'[t] \in Missing(t)]_vars
  BY DecisionStep DEF Calls
<1> QED
  BY <1>1, <1>2, RoundNext, ManagerInvariant, PTL DEF Spec, DecidedByTheGraph
=============================================================================

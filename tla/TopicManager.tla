---------------------------- MODULE TopicManager ----------------------------
(***************************************************************************)
(* Topic metadata (internal/broker/topic_manager.go) over the partition    *)
(* manager: CreateTopic calls in progress, publishes that race with them,  *)
(* and a restart of the server (internal/config/config.go, InitBroker).    *)
(*                                                                         *)
(* The catalogue exists twice, in tm.topics under tm.mu and in             *)
(* pm.partitions under pm.mu, and CreateTopic holds one lock at a time.    *)
(***************************************************************************)
EXTENDS PartitionManager

CONSTANTS
  Creators,      \* goroutines that serve CreateTopic calls
  DefaultTopic   \* the topic of the configuration file

ASSUME TMAssumption == DefaultTopic \in Topics

VARIABLES
  topics,        \* topics[t]: TopicInfo.Partitions of tm.topics[t], 0 for "no entry"
  cr,            \* CreateTopic goroutines: pc, topic, requested partitions
  serving,       \* InitBroker is done and the server accepts calls
  created        \* history: created[t]: partitions of the call that returned Ok, or 0

tmVars == <<topics, cr, serving, created>>
vars   == <<pmVars, tmVars>>

IdleCr == [pc |-> "idle", topic |-> DefaultTopic, n |-> 1]

\* The state of a process that has just started.
Booting ==
  /\ topics = [t \in Topics |-> 0]
  /\ cr = [c \in Creators |-> IdleCr]
  /\ serving = FALSE
  /\ created = [t \in Topics |-> 0]

TMInit == PMInit /\ Booting

TopicExists(t) == topics[t] # 0
-----------------------------------------------------------------------------
\* InitBroker: the default topic, with one partition, before any call is served.
InitBroker ==
  /\ ~serving
  /\ serving' = TRUE
  /\ topics' = [topics EXCEPT ![DefaultTopic] = 1]
  /\ CreateTopic(DefaultTopic, 1)
  /\ created' = [created EXCEPT ![DefaultTopic] = 1]
  /\ UNCHANGED cr

\* Broker.CreateTopic after its checks of the request, TopicExists included.
BrokerCreateTopic(c, t, n) ==
  /\ serving /\ cr[c].pc = "idle"
  /\ ~TopicExists(t)
  /\ cr' = [cr EXCEPT ![c] = [pc |-> "checked", topic |-> t, n |-> n]]
  /\ UNCHANGED <<pmVars, topics, serving, created>>

\* Mutant of InsertTopic: the second look at tm.topics is missing.
InsertBlindly(c) ==
  /\ cr[c].pc = "checked"
  /\ topics' = [topics EXCEPT ![cr[c].topic] = cr[c].n]
  /\ cr' = [cr EXCEPT ![c].pc = "inserted"]
  /\ UNCHANGED <<pmVars, serving, created>>

\* tm.CreateTopic, first section under tm.mu.
InsertTopic(c) ==
  /\ cr[c].pc = "checked"
  /\ \/ /\ TopicExists(cr[c].topic)
        /\ cr' = [cr EXCEPT ![c] = IdleCr]
        /\ UNCHANGED topics
     \/ /\ ~TopicExists(cr[c].topic)
        /\ topics' = [topics EXCEPT ![cr[c].topic] = cr[c].n]
        /\ cr' = [cr EXCEPT ![c].pc = "inserted"]
  /\ UNCHANGED <<pmVars, serving, created>>

\* pm.CreateTopic, with tm.mu released.
InitPartitions(c) ==
  LET t == cr[c].topic
  IN  /\ cr[c].pc = "inserted"
      /\ CreateTopic(t, cr[c].n)
      /\ \/ /\ Known(t)
            /\ cr' = [cr EXCEPT ![c].pc = "rejected"]
            /\ UNCHANGED created
         \/ /\ ~Known(t)
            /\ cr' = [cr EXCEPT ![c] = IdleCr]
            /\ created' = [created EXCEPT ![t] = cr[c].n]
      /\ UNCHANGED <<topics, serving>>

\* Mutant of RemoveMetadata: the call returns the error and nothing else.
KeepMetadata(c) ==
  /\ cr[c].pc = "rejected"
  /\ cr' = [cr EXCEPT ![c] = IdleCr]
  /\ UNCHANGED <<pmVars, topics, serving, created>>

\* pm.CreateTopic failed: the metadata is removed, again under tm.mu.
RemoveMetadata(c) ==
  /\ cr[c].pc = "rejected"
  /\ topics' = [topics EXCEPT ![cr[c].topic] = 0]
  /\ cr' = [cr EXCEPT ![c] = IdleCr]
  /\ UNCHANGED <<pmVars, serving, created>>

\* Broker.Publish: TopicExists, then pm.Append.
Publish(p, r) ==
  /\ serving
  /\ TopicExists(r.topic)
  /\ Call(p, r)
  /\ UNCHANGED tmVars

\* The server is stopped, or crashes, and is started again.
Restart ==
  /\ PMRestart
  /\ topics' = [t \in Topics |-> 0]
  /\ cr' = [c \in Creators |-> IdleCr]
  /\ serving' = FALSE
  /\ created' = [t \in Topics |-> 0]

TMNext ==
  \/ InitBroker
  \/ \E c \in Creators, t \in Topics, n \in Sizes : BrokerCreateTopic(c, t, n)
  \/ \E c \in Creators : InsertTopic(c) \/ InitPartitions(c) \/ RemoveMetadata(c)
  \/ \E p \in Publishers, r \in Requests : Publish(p, r)
  \/ \E p \in Publishers : AppendStep(p) /\ UNCHANGED tmVars
  \/ Restart

TMSpec == TMInit /\ [][TMNext]_vars
-----------------------------------------------------------------------------
\* Type invariant.
TMTypeOK ==
  /\ PMTypeOK
  /\ topics \in [Topics -> 0 .. MaxPartitions]
  /\ cr \in [Creators -> [pc : {"idle", "checked", "inserted", "rejected"},
                          topic : Topics, n : 1 .. MaxPartitions]]
  /\ serving \in BOOLEAN
  /\ created \in [Topics -> 0 .. MaxPartitions]

\* c is between the insertion of its metadata and the end of its call.
InFlight(c, t) == cr[c].pc \in {"inserted", "rejected"} /\ cr[c].topic = t

\* The two catalogues agree on every topic that tm lists, as soon as no
\* CreateTopic of that topic is under way: ValidatePartition (tm) accepts
\* exactly the partitions that Append (pm) chooses from.
CatalogAgrees ==
  \A t \in Topics :
    (TopicExists(t) /\ \A c \in Creators : ~InFlight(c, t)) => partitions[t] = topics[t]

\* A topic whose creation was answered Ok is there, with that many partitions,
\* whatever other CreateTopic and Publish calls of the same name do.
CreatedStays ==
  \A t \in Topics : created[t] # 0 => topics[t] = created[t] /\ partitions[t] = created[t]
-----------------------------------------------------------------------------
(* What the documentation says and the code does not do. *)

\* topic_manager.go: "if pm.CreateTopic failed, remove the metadata to keep
\* consistent".  A topic is in both catalogues or in neither.
CatalogConsistent ==
  \A t \in Topics :
    (\A c \in Creators : ~InFlight(c, t)) => (TopicExists(t) <=> Known(t))
=============================================================================

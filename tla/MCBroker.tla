------------------------------ MODULE MCBroker ------------------------------
(* Small instances of Broker for TLC: one topic, at most two partitions. *)
EXTENDS Broker

CONSTANTS
  t1, g1,
  PartitionCount  \* partitions of the topic

MCTopics == {t1}
MCGroups == {g1}
MCPartitions == [t \in MCTopics |-> PartitionCount]

\* publishers are interchangeable; member ids are not (they are sorted)
Sym == Permutations(Publishers)

Req(g, p, o) == [group |-> g, topic |-> t1, partition |-> p, offset |-> o]

\* what client/consumer sends
GroupResume == {Req(g1, -1, -1)}
\* group subscriptions that resume and that replay from the start
GroupAny == {Req(g1, -1, -1), Req(g1, -1, 0)}
\* subscriptions without a group: latest, replay, replay from offset 1, bad partition
SoloAny == {Req(NoGroup, -1, -1), Req(NoGroup, 0, 0), Req(NoGroup, 0, 1), Req(NoGroup, 7, 0)}
=============================================================================

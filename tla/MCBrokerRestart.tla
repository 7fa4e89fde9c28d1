-------------------------- MODULE MCBrokerRestart --------------------------
(* A small instance of BrokerRestart for TLC: one topic, one group that resumes. *)
EXTENDS BrokerRestart

CONSTANTS
  t1, g1,
  PartitionCount  \* partitions of the topic

MCTopics == {t1}
MCGroups == {g1}
MCPartitions == [t \in MCTopics |-> PartitionCount]

\* Publishers are interchangeable: let it be the same one that publishes first.
First == CHOOSE p \in Publishers : TRUE
FirstIsFirst == \A k \in Keys : logs[k] = <<>> \/ Head(logs[k]) = First

\* Ids come in descending order, so that the second member of a group takes the
\* partition over (with ascending ids it would get none).
SecondTakesOver == \A s, u \in Members : s < u /\ h[s].pc # "idle" => h[u].pc # "idle"

\* Bound on what goes on: a stop of the server, a second publisher, or two streams of
\* the group at a time, but no two of these together.
Live == Cardinality({s \in Members : h[s].pc \notin {"idle", "returned"}})
OnePublisher == \A k \in Keys : ToSet(logs[k]) \subseteq {First}
OneThingAtATime ==
  /\ Live > 1 => OnePublisher /\ crashes = 0
  /\ crashes > 0 => OnePublisher

\* Bound on the messages that a client has received or is about to, and not acked.
AckLag == \A s \in Members : Len(stream[s]) - acked[s] <= 1

Bounds == AckLag /\ FirstIsFirst /\ SecondTakesOver /\ OneThingAtATime

\* what client/consumer sends
GroupResume == {[group |-> g1, topic |-> t1, partition |-> -1, offset |-> -1]}
=============================================================================

--------------------------- MODULE MCGroupManager ---------------------------
(* Two groups, two topics and four subscriptions for TLC.                   *)
EXTENDS GroupManager

CONSTANTS g1, g2, t1, t2

MCGroups == {g1, g2}
MCTopics == {t1, t2}
MCMembers == 1..4
\* more partitions than members, and fewer
MCPartitions == [t \in MCTopics |-> IF t = t1 THEN 5 ELSE 2]
=============================================================================

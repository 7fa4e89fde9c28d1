------------------------- MODULE MCPartitionManager -------------------------
(* One topic, two partition counts and two publishers for TLC.             *)
EXTENDS PartitionManager, TLC

CONSTANTS t1, ka

MCTopics == {t1}
\* an odd hash: the partition depends on whether the topic has one or two
MCHash == [m \in {ka} |-> 2000000001]
\* automatic, and a partition that only the larger topic has
MCHints == {-1, 1}
\* publishers are interchangeable
Sym == Permutations(Publishers)
=============================================================================

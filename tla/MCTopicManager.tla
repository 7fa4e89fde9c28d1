--------------------------- MODULE MCTopicManager ---------------------------
(* The default topic and another one for TLC.                              *)
EXTENDS TopicManager, TLC

CONSTANTS t1, t2, ka

MCTopics == {t1, t2}
MCHash == [m \in {ka} |-> 2000000001]
MCHints == {-1}
\* publishers are interchangeable, and so are creators
Sym == Permutations(Publishers) \cup Permutations(Creators)
=============================================================================

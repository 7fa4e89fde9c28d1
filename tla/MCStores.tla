------------------------------ MODULE MCStores ------------------------------
(* Two groups and two topics for TLC, such that "a" : "b:c" and "a:b" : "c"  *)
(* join to the same name.                                                    *)
EXTENDS Stores, TLC

CONSTANTS a, b, c

MCGroups == {<<a>>, <<a, b>>}
MCTopics == {<<b, c>>, <<c>>}
MCMaxLog == [k \in MCTopics \X {0} |-> IF k[1] = <<c>> THEN 2 ELSE 1]
\* callers are interchangeable
Sym == Permutations(Callers)
=============================================================================

---------------------------- MODULE GroupManager ----------------------------
(***************************************************************************)
(* Consumer-group membership and partition assignment                      *)
(* (internal/consumer/group_manager.go).                                   *)
(*                                                                         *)
(* Every exported method of GroupManager runs from its first to its last   *)
(* statement under gm.mu, so each one is a single action here.             *)
(*                                                                         *)
(* Member ids are the random hex strings of utils.NewMemberID.  The code   *)
(* only compares and sorts them, so they are natural numbers here.         *)
(***************************************************************************)
EXTENDS Integers, FiniteSets

CONSTANTS
  Groups,       \* consumer group names (never the empty string)
  Topics,       \* topic names
  Members,      \* ids that utils.NewMemberID can return
  Partitions    \* Partitions[t]: what PartitionManager.GetPartitionCount says

ASSUME GroupAssumption ==
  /\ Members \subseteq Nat
  /\ Partitions \in [Topics -> Nat \ {0}]

VARIABLES
  groups,       \* groups[g][t]: the member ids; {} stands for "no map entry"
  assignments,  \* assignments[g][t][m]: the partitions of m's slice; {} stands
                \* for a nil slice and for "no map entry"
  issued        \* the ids NewMemberID has returned so far

gmVars == <<groups, assignments, issued>>

PartitionsOf(t) == 0 .. (Partitions[t] - 1)

\* maps created empty by NewGroupManager
GMInit ==
  /\ groups = [g \in Groups |-> [t \in Topics |-> {}]]
  /\ assignments = [g \in Groups |-> [t \in Topics |-> [m \in Members |-> {}]]]
  /\ issued = {}
-----------------------------------------------------------------------------
RankFromOne(S, m) == Cardinality({n \in S : n <= m})   \* mutant of Rank

\* The index of m in the sorted slice of the members of S.
Rank(S, m) == Cardinality({n \in S : n < m})

\* Mutants of ShareOf: one partition too many; the last member takes the rest.
ShareOneMore(S, t, m) == {p \in 0 .. Partitions[t] : p % Cardinality(S) = Rank(S, m)}
ShareByClamping(S, t, m) ==
  {p \in PartitionsOf(t) :
     Rank(S, m) = IF p < Cardinality(S) THEN p ELSE Cardinality(S) - 1}

\* The partitions p with members[p % M] = m.
ShareOf(S, t, m) == {p \in PartitionsOf(t) : p % Cardinality(S) = Rank(S, m)}

\* Mutant of Rebalance: the slices are appended to without being reset.
RebalanceNoReset(table, S, t) ==
  [m \in Members |-> IF m \in S THEN table[m] \cup ShareOf(S, t, m) ELSE table[m]]

\* rebalanceLocked: entries of the members of S are reset and refilled, an
\* entry of an id that is not in S is not touched.
Rebalance(table, S, t) ==
  [m \in Members |-> IF m \in S THEN ShareOf(S, t, m) ELSE table[m]]

\* utils.NewMemberID: an id no subscription has had before.
NewMemberID(m) == m \in Members \ issued

\* Join under gm.mu: add the member, recompute the assignment.
Join(g, m, t) ==
  LET S == groups[g][t] \cup {m}
  IN  /\ groups' = [groups EXCEPT ![g][t] = S]
      /\ assignments' = [assignments EXCEPT ![g][t] = Rebalance(@, S, t)]

\* Mutant of Leave: the tables of an emptied group are not deleted.
LeaveKeepsTables(g, m, t) ==
  /\ groups' = [groups EXCEPT ![g][t] = @ \ {m}]
  /\ assignments' = [assignments EXCEPT ![g][t] = Rebalance(@, groups[g][t] \ {m}, t)]

\* Leave under gm.mu.  The first disjunct is the early return for a group or
\* topic without members, the second drops the tables of an emptied group,
\* the third rebalances what is left of the topic.
Leave(g, m, t) ==
  LET S    == groups[g][t] \ {m}
      left == [groups EXCEPT ![g][t] = S]
  IN  \/ /\ groups[g][t] = {}
         /\ UNCHANGED <<groups, assignments>>
      \/ /\ groups[g][t] # {}
         /\ \A u \in Topics : left[g][u] = {}
         /\ groups' = left
         /\ assignments' =
              [assignments EXCEPT ![g] = [u \in Topics |-> [n \in Members |-> {}]]]
      \/ /\ groups[g][t] # {}
         /\ \E u \in Topics : left[g][u] # {}
         /\ groups' = left
         /\ assignments' = [assignments EXCEPT ![g][t] = Rebalance(@, S, t)]

\* GetAssignment: what the table says, nothing for an absent entry.
GetAssignment(g, m, t) == assignments[g][t][m]
-----------------------------------------------------------------------------
\* A subscription draws its id and joins; a subscription that ends leaves.
GMJoin(g, m, t) == NewMemberID(m) /\ Join(g, m, t) /\ issued' = issued \cup {m}
GMLeave(g, m, t) == m \in issued /\ Leave(g, m, t) /\ UNCHANGED issued

GMNext == \E g \in Groups, m \in Members, t \in Topics : GMJoin(g, m, t) \/ GMLeave(g, m, t)

GMSpec == GMInit /\ [][GMNext]_gmVars
-----------------------------------------------------------------------------
\* Type invariant: the tables hold members and existing partitions of the topic.
GMTypeOK ==
  /\ groups \in [Groups -> [Topics -> SUBSET Members]]
  /\ assignments \in [Groups -> [Topics -> [Members -> SUBSET Nat]]]
  /\ \A g \in Groups, t \in Topics, m \in Members : assignments[g][t][m] \subseteq PartitionsOf(t)
  /\ issued \in SUBSET Members

\* The ids are finitely many at any time (a member is added one Join at a time).
FiniteGroups == \A g \in Groups, t \in Topics : IsFiniteSet(groups[g][t])

\* rebalanceLocked leaves every current member with exactly the share its
\* position among the current members gives it, whatever sequence of joins and
\* leaves, on this or on other topics and groups, led there.
TableIsCurrent ==
  \A g \in Groups, t \in Topics : \A m \in groups[g][t] :
    assignments[g][t][m] = ShareOf(groups[g][t], t, m)

\* Two current members of a group never own the same partition of a topic.
DisjointOwners ==
  \A g \in Groups, t \in Topics : \A m, n \in groups[g][t] :
    m # n => assignments[g][t][m] \cap assignments[g][t][n] = {}

\* While a group has a member on a topic, none of the topic's partitions is
\* without an owner among the current members.
NoOrphanPartition ==
  \A g \in Groups, t \in Topics :
    groups[g][t] # {} =>
      \A p \in PartitionsOf(t) : \E m \in groups[g][t] : p \in assignments[g][t][m]

\* The round-robin split is even: the shares of two current members differ by
\* at most one partition.
Balanced ==
  \A g \in Groups, t \in Topics : \A m, n \in groups[g][t] :
    Cardinality(assignments[g][t][m]) <= Cardinality(assignments[g][t][n]) + 1

\* Leave deletes the assignment table together with the last member of the
\* group: an empty group remembers nothing.
EmptyGroupForgotten ==
  \A g \in Groups :
    (\A t \in Topics : groups[g][t] = {}) =>
      \A t \in Topics, m \in Members : assignments[g][t][m] = {}
=============================================================================

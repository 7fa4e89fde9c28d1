-------------------------- MODULE GroupManagerProofs --------------------------
(***************************************************************************)
(* Proofs about GroupManager, for every set of groups, topics and members  *)
(* and every partition count.                                              *)
(***************************************************************************)
EXTENDS GroupManager, FiniteSetTheorems, TLAPS

(* Facts about the position of a member in the sorted slice. *)

\* Positions are natural numbers below the number of members.
LEMMA RankRange ==
  ASSUME NEW S \in SUBSET Nat, IsFiniteSet(S), NEW m \in S
  PROVE  /\ Cardinality(S) \in Nat
         /\ Rank(S, m) \in 0 .. Cardinality(S) - 1
<1> DEFINE below == {n \in S : n < m}
<1>1. /\ IsFiniteSet(below) /\ Cardinality(below) <= Cardinality(S)
      /\ Cardinality(S) = Cardinality(below) => S = below
  <2>1. below \in SUBSET S
    OBVIOUS
  <2> HIDE DEF below
  <2> QED BY <2>1, FS_Subset
<1>2. m \notin below
  OBVIOUS
<1>3. Cardinality(S) \in Nat /\ Cardinality(below) \in Nat
  BY <1>1, FS_CardinalityType
<1>4. Rank(S, m) = Cardinality(below)
  BY DEF Rank
<1> HIDE DEF below
<1> QED BY <1>1, <1>2, <1>3, <1>4

\* A smaller member comes earlier.
LEMMA RankMonotone ==
  ASSUME NEW S \in SUBSET Nat, IsFiniteSet(S), NEW m \in S, NEW n \in S, m < n
  PROVE  Rank(S, m) < Rank(S, n)
<1> DEFINE A == {x \in S : x < m}
           B == {x \in S : x < n}
<1>0. m \in Nat /\ n \in Nat /\ \A x \in S : x \in Nat
  OBVIOUS
<1>1. A \in SUBSET B /\ m \in B /\ m \notin A /\ B \in SUBSET S
  <2>1. \A x \in S : x < m => x < n
    BY <1>0
  <2>2. ~(m < m)
    BY <1>0
  <2> QED BY <2>1, <2>2
<1>2. Rank(S, m) = Cardinality(A) /\ Rank(S, n) = Cardinality(B)
  BY DEF Rank
<1> HIDE DEF A, B
<1>3. IsFiniteSet(B)
  BY <1>1, FS_Subset
<1>4. IsFiniteSet(A) /\ Cardinality(A) <= Cardinality(B) /\ Cardinality(A) # Cardinality(B)
  BY <1>1, <1>3, FS_Subset
<1>5. Cardinality(A) \in Nat /\ Cardinality(B) \in Nat
  BY <1>3, <1>4, FS_CardinalityType
<1> QED BY <1>2, <1>4, <1>5

\* Different members have different positions.
LEMMA RankInjective ==
  ASSUME NEW S \in SUBSET Nat, IsFiniteSet(S), NEW m \in S, NEW n \in S, m # n
  PROVE  Rank(S, m) # Rank(S, n)
<1>1. Rank(S, m) \in Int /\ Rank(S, n) \in Int
  BY RankRange
<1>2. CASE m < n
  BY <1>1, <1>2, RankMonotone
<1>3. CASE n < m
  BY <1>1, <1>3, RankMonotone
<1> QED BY <1>2, <1>3

\* Every position below the number of members is taken.
LEMMA RankOnto ==
  ASSUME NEW S \in SUBSET Nat, IsFiniteSet(S), NEW r \in 0 .. Cardinality(S) - 1
  PROVE  \E m \in S : Rank(S, m) = r
<1> DEFINE M == Cardinality(S)
           T == 0 .. M - 1
           f == [m \in S |-> Rank(S, m)]
<1>1. M \in Nat
  BY FS_CardinalityType
<1>2. IsFiniteSet(T) /\ Cardinality(T) = M
  BY <1>1, FS_Interval
<1>3. f \in Injection(S, T)
  <2>1. f \in [S -> T]
    BY RankRange
  <2>2. \A m, n \in S : f[m] = f[n] => m = n
    BY RankInjective
  <2> QED BY <2>1, <2>2 DEF Injection, IsInjective
<1>4. f \in Surjection(S, T)
  <2> HIDE DEF f, T, M
  <2>1. Cardinality(S) = Cardinality(T)
    BY <1>2 DEF M
  <2> QED BY <1>2, <1>3, <2>1, FS_Injection
<1> QED BY <1>4 DEF Surjection
-----------------------------------------------------------------------------
(* The shares that rebalanceLocked computes. *)

\* Shares of two members are disjoint.
LEMMA SharesDisjoint ==
  ASSUME NEW S \in SUBSET Nat, IsFiniteSet(S), NEW t \in Topics,
         NEW m \in S, NEW n \in S, m # n
  PROVE  ShareOf(S, t, m) \cap ShareOf(S, t, n) = {}
BY RankInjective DEF ShareOf

\* Every partition is in the share of some member.
LEMMA SharesCover ==
  ASSUME GroupAssumption, NEW S \in SUBSET Nat, IsFiniteSet(S), S # {}, NEW t \in Topics,
         NEW p \in PartitionsOf(t)
  PROVE  \E m \in S : p \in ShareOf(S, t, m)
<1>1. Cardinality(S) \in Nat /\ Cardinality(S) # 0
  BY FS_CardinalityType, FS_EmptySet
<1>2. p \in Nat
  BY DEF PartitionsOf, GroupAssumption
<1>3. p % Cardinality(S) \in 0 .. Cardinality(S) - 1
  BY <1>1, <1>2
<1>4. PICK m \in S : Rank(S, m) = p % Cardinality(S)
  BY <1>3, RankOnto
<1> QED BY <1>4 DEF ShareOf
-----------------------------------------------------------------------------
(* How even the shares are. *)

\* The remainder of a number is the one r below M with M * k + r for it.
LEMMA Remainder ==
  ASSUME NEW M \in Nat \ {0}, NEW k \in Int, NEW r \in 0 .. M - 1
  PROVE  (M * k + r) % M = r
OBVIOUS

LEMMA Division ==
  ASSUME NEW M \in Nat \ {0}, NEW p \in Int
  PROVE  /\ p \div M \in Int /\ p % M \in 0 .. M - 1
         /\ p = M * (p \div M) + (p % M)
OBVIOUS

\* One round earlier, another member has its turn.
LEMMA OneRoundEarlier ==
  ASSUME NEW M \in Nat \ {0}, NEW p \in Nat, p >= M, NEW s \in 0 .. M - 1
  PROVE  /\ p - M - (p % M) + s \in 0 .. p
         /\ (p - M - (p % M) + s) % M = s
<1> DEFINE q == p \div M
           r == p % M
<1>1. q \in Int /\ r \in 0 .. M - 1 /\ p = M * q + r
  BY Division
<1> HIDE DEF q, r
<1>2. p - M - r + s = M * (q - 1) + s
  BY <1>1
<1>3. (M * (q - 1) + s) % M = s
  BY <1>1, Remainder
<1>4. p - M - r + s \in 0 .. p
  BY <1>1
<1> QED BY <1>2, <1>3, <1>4 DEF r

\* In the first round a member has one turn.
LEMMA FirstRound ==
  ASSUME NEW M \in Nat \ {0}, NEW p \in Nat, p < M
  PROVE  p % M = p
OBVIOUS

\* All but one of a member's partitions have a partner, one round earlier, in the
\* share of any other member.
LEMMA SharesEven ==
  ASSUME NEW S \in SUBSET Nat, IsFiniteSet(S), NEW t \in Topics,
         NEW m \in S, NEW n \in S
  PROVE  Cardinality(ShareOf(S, t, m)) <= Cardinality(ShareOf(S, t, n)) + 1
<1> DEFINE M == Cardinality(S)
           A == ShareOf(S, t, m)
           B == ShareOf(S, t, n)
           late == {p \in A : p >= M}
           f == [p \in late |-> p - M - (p % M) + Rank(S, n)]
<1>1. M \in Nat \ {0} /\ Rank(S, m) \in 0 .. M - 1 /\ Rank(S, n) \in 0 .. M - 1
  BY RankRange
<1>2. Partitions[t] \in Nat
  BY GroupAssumption DEF GroupAssumption
<1>3. A \subseteq PartitionsOf(t) /\ PartitionsOf(t) \subseteq Nat
  BY <1>2 DEF ShareOf, PartitionsOf
<1>4. IsFiniteSet(A) /\ IsFiniteSet(B)
  <2>1. IsFiniteSet(PartitionsOf(t))
    <3> DEFINE last == Partitions[t] - 1
    <3>1. last \in Int /\ PartitionsOf(t) = 0 .. last
      BY <1>2 DEF PartitionsOf
    <3> HIDE DEF last
    <3> QED BY <3>1, FS_Interval
  <2> QED BY <2>1, FS_Subset DEF ShareOf
<1>5. f \in Injection(late, B)
  <2>1. ASSUME NEW p \in late
        PROVE  f[p] \in B
    <3>1. p \in Nat /\ p >= M /\ p <= Partitions[t] - 1
      BY <1>2, <1>3 DEF PartitionsOf
    <3>2. /\ p - M - (p % M) + Rank(S, n) \in 0 .. p
          /\ (p - M - (p % M) + Rank(S, n)) % M = Rank(S, n)
      BY <1>1, <3>1, OneRoundEarlier
    <3> QED BY <1>2, <3>1, <3>2 DEF ShareOf, PartitionsOf
  <2>2. ASSUME NEW p \in late, NEW q \in late, f[p] = f[q]
        PROVE  p = q
    <3>1. p \in Nat /\ q \in Nat /\ p % M = Rank(S, m) /\ q % M = Rank(S, m)
      BY <1>3 DEF ShareOf
    <3>2. p - M - Rank(S, m) + Rank(S, n) = q - M - Rank(S, m) + Rank(S, n)
      BY <2>2, <3>1
    <3> HIDE DEF M
    <3> QED BY <1>1, <3>1, <3>2
  <2> QED BY <2>1, <2>2 DEF Injection, IsInjective
<1>6. IsFiniteSet(late) /\ Cardinality(late) <= Cardinality(B)
  <2> HIDE DEF f, late, B
  <2> QED BY <1>4, <1>5, FS_Injection
<1>7. A \in SUBSET (late \cup {Rank(S, m)})
  <2>1. ASSUME NEW p \in A, ~(p >= M)
        PROVE  p = Rank(S, m)
    <3>1. p \in Nat /\ p % M = Rank(S, m)
      BY <1>3 DEF ShareOf
    <3> QED BY <1>1, <2>1, <3>1, FirstRound
  <2> QED BY <2>1
<1> HIDE DEF M, A, B, late, f
<1>8. /\ IsFiniteSet(late \cup {Rank(S, m)})
      /\ Cardinality(late \cup {Rank(S, m)}) <= Cardinality(late) + 1
  <2> DEFINE r == Rank(S, m)
  <2>1. Cardinality(late) \in Nat
    BY <1>6, FS_CardinalityType
  <2> HIDE DEF r
  <2>2. /\ IsFiniteSet(late \cup {r})
        /\ Cardinality(late \cup {r}) =
             IF r \in late THEN Cardinality(late) ELSE Cardinality(late) + 1
    BY <1>6, FS_AddElement
  <2>3. Cardinality(late \cup {r}) <= Cardinality(late) + 1
    BY <2>1, <2>2
  <2> QED BY <2>2, <2>3 DEF r
<1>9. Cardinality(A) <= Cardinality(late \cup {Rank(S, m)})
  BY <1>7, <1>8, FS_Subset
<1>10. /\ Cardinality(A) \in Nat /\ Cardinality(B) \in Nat /\ Cardinality(late) \in Nat
       /\ Cardinality(late \cup {Rank(S, m)}) \in Nat
  BY <1>4, <1>6, <1>8, FS_CardinalityType
<1>11. Cardinality(A) <= Cardinality(B) + 1
  BY <1>6, <1>8, <1>9, <1>10
<1> QED BY <1>11 DEF A, B
-----------------------------------------------------------------------------
(* The inductive invariant.  Members that have left are outside            *)
(* TableIsCurrent, and their stale entries stay typed.                     *)
GMInv == GMTypeOK /\ FiniteGroups /\ TableIsCurrent /\ EmptyGroupForgotten

\* Rebalance gives every member of S its share and touches nobody else.
LEMMA RebalanceShares ==
  ASSUME NEW table \in [Members -> SUBSET Nat], NEW S \in SUBSET Members, NEW t \in Topics
  PROVE  /\ \A m \in S : Rebalance(table, S, t)[m] = ShareOf(S, t, m)
         /\ \A m \in Members \ S : Rebalance(table, S, t)[m] = table[m]
BY DEF Rebalance

\* A share is a set of partitions of the topic.
LEMMA RebalanceTyped ==
  ASSUME GroupAssumption, NEW t \in Topics, NEW table \in [Members -> SUBSET Nat],
         \A m \in Members : table[m] \subseteq PartitionsOf(t),
         NEW S \in SUBSET Members
  PROVE  /\ Rebalance(table, S, t) \in [Members -> SUBSET Nat]
         /\ \A m \in Members : Rebalance(table, S, t)[m] \subseteq PartitionsOf(t)
BY DEF Rebalance, ShareOf, PartitionsOf, GroupAssumption
-----------------------------------------------------------------------------
\* The invariant reads the two tables only.
LEMMA UnchangedTables ==
  ASSUME GMInv, UNCHANGED <<groups, assignments>>, issued' \in SUBSET Members
  PROVE  GMInv'
<1>1. GMTypeOK'
  BY DEF GMInv, GMTypeOK, PartitionsOf
<1>2. FiniteGroups'
  BY DEF GMInv, FiniteGroups
<1>3. TableIsCurrent'
  <2> SUFFICES ASSUME NEW h \in Groups, NEW u \in Topics, NEW n \in groups'[h][u]
               PROVE  assignments'[h][u][n] = ShareOf(groups'[h][u], u, n)
    BY DEF TableIsCurrent, ShareOf, PartitionsOf, Rank
  <2> QED BY DEF GMInv, TableIsCurrent
<1>4. EmptyGroupForgotten'
  BY DEF GMInv, EmptyGroupForgotten
<1> QED BY <1>1, <1>2, <1>3, <1>4 DEF GMInv

\* Nothing but the entry of one group and topic changes in a Join.
LEMMA JoinPreserves ==
  ASSUME GroupAssumption, GMInv,
         NEW g \in Groups, NEW m \in Members, NEW t \in Topics, GMJoin(g, m, t)
  PROVE  GMInv'
<1> DEFINE S == groups[g][t] \cup {m}
           T == Rebalance(assignments[g][t], S, t)
<1>1. /\ groups' = [groups EXCEPT ![g][t] = S]
      /\ assignments' = [assignments EXCEPT ![g][t] = T]
      /\ issued' = issued \cup {m}
  BY DEF GMJoin, Join
<1>2. S \in SUBSET Members /\ IsFiniteSet(S) /\ S # {}
  <2>1. groups[g][t] \in SUBSET Members /\ IsFiniteSet(groups[g][t])
    BY DEF GMInv, GMTypeOK, FiniteGroups
  <2>2. IsFiniteSet(S)
    BY <2>1, FS_AddElement
  <2> QED BY <2>1, <2>2
<1>3. /\ T \in [Members -> SUBSET Nat]
      /\ \A n \in Members : T[n] \subseteq PartitionsOf(t)
  <2>1. /\ assignments[g][t] \in [Members -> SUBSET Nat]
        /\ \A n \in Members : assignments[g][t][n] \subseteq PartitionsOf(t)
    BY DEF GMInv, GMTypeOK
  <2> HIDE DEF S
  <2> QED BY <1>2, <2>1, RebalanceTyped
<1>4. \A n \in S : T[n] = ShareOf(S, t, n)
  <2>1. assignments[g][t] \in [Members -> SUBSET Nat]
    BY DEF GMInv, GMTypeOK
  <2> HIDE DEF S
  <2> QED BY <1>2, <2>1, RebalanceShares
<1> HIDE DEF S, T
<1>5. \A h \in Groups, u \in Topics :
        /\ groups'[h][u] = IF h = g /\ u = t THEN S ELSE groups[h][u]
        /\ assignments'[h][u] = IF h = g /\ u = t THEN T ELSE assignments[h][u]
  BY <1>1 DEF GMInv, GMTypeOK
<1>6. GMTypeOK'
  <2>1. groups' \in [Groups -> [Topics -> SUBSET Members]]
    BY <1>1, <1>2 DEF GMInv, GMTypeOK
  <2>2. assignments' \in [Groups -> [Topics -> [Members -> SUBSET Nat]]]
    BY <1>1, <1>3 DEF GMInv, GMTypeOK
  <2>3. \A h \in Groups, u \in Topics, n \in Members : assignments'[h][u][n] \subseteq PartitionsOf(u)
    BY <1>3, <1>5 DEF GMInv, GMTypeOK
  <2>4. issued' \in SUBSET Members
    BY <1>1 DEF GMInv, GMTypeOK
  <2> QED BY <2>1, <2>2, <2>3, <2>4 DEF GMTypeOK, PartitionsOf
<1>7. FiniteGroups'
  BY <1>2, <1>5 DEF GMInv, FiniteGroups
<1>8. TableIsCurrent'
  <2> SUFFICES ASSUME NEW h \in Groups, NEW u \in Topics, NEW n \in groups'[h][u]
               PROVE  assignments'[h][u][n] = ShareOf(groups'[h][u], u, n)
    BY DEF TableIsCurrent, ShareOf, PartitionsOf, Rank
  <2>1. CASE h = g /\ u = t
    BY <2>1, <1>4, <1>5
  <2>2. CASE ~(h = g /\ u = t)
    BY <2>2, <1>5 DEF GMInv, TableIsCurrent
  <2> QED BY <2>1, <2>2
<1>9. EmptyGroupForgotten'
  <2> SUFFICES ASSUME NEW h \in Groups, \A u \in Topics : groups'[h][u] = {},
                      NEW u \in Topics, NEW n \in Members
               PROVE  assignments'[h][u][n] = {}
    BY DEF EmptyGroupForgotten
  <2>1. h # g
    BY <1>2, <1>5
  <2> QED BY <2>1, <1>5 DEF GMInv, EmptyGroupForgotten
<1> QED BY <1>6, <1>7, <1>8, <1>9 DEF GMInv

\* A Leave either changes nothing, forgets an emptied group or rebalances.
LEMMA LeavePreserves ==
  ASSUME GroupAssumption, GMInv,
         NEW g \in Groups, NEW m \in Members, NEW t \in Topics, GMLeave(g, m, t)
  PROVE  GMInv'
<1> DEFINE S == groups[g][t] \ {m}
           T == Rebalance(assignments[g][t], S, t)
           left == [groups EXCEPT ![g][t] = S]
           none == [u \in Topics |-> [n \in Members |-> {}]]
<1>1. S \in SUBSET Members /\ IsFiniteSet(S)
  <2>1. groups[g][t] \in SUBSET Members /\ IsFiniteSet(groups[g][t])
    BY DEF GMInv, GMTypeOK, FiniteGroups
  <2>2. IsFiniteSet(S)
    BY <2>1, FS_RemoveElement
  <2> QED BY <2>1, <2>2
<1>2. /\ T \in [Members -> SUBSET Nat]
      /\ \A n \in Members : T[n] \subseteq PartitionsOf(t)
  <2>1. /\ assignments[g][t] \in [Members -> SUBSET Nat]
        /\ \A n \in Members : assignments[g][t][n] \subseteq PartitionsOf(t)
    BY DEF GMInv, GMTypeOK
  <2> HIDE DEF S
  <2> QED BY <1>1, <2>1, RebalanceTyped
<1>3. \A n \in S : T[n] = ShareOf(S, t, n)
  <2>1. assignments[g][t] \in [Members -> SUBSET Nat]
    BY DEF GMInv, GMTypeOK
  <2> HIDE DEF S
  <2> QED BY <1>1, <2>1, RebalanceShares
<1>4. issued' \in SUBSET Members
  BY DEF GMLeave, GMInv, GMTypeOK
<1>5. \/ UNCHANGED <<groups, assignments>>
      \/ /\ \A u \in Topics : left[g][u] = {}
         /\ groups' = left /\ assignments' = [assignments EXCEPT ![g] = none]
      \/ /\ \E u \in Topics : left[g][u] # {}
         /\ groups' = left /\ assignments' = [assignments EXCEPT ![g][t] = T]
  BY DEF GMLeave, Leave
<1> HIDE DEF S, T
<1>6. \A h \in Groups, u \in Topics :
        left[h][u] = IF h = g /\ u = t THEN S ELSE groups[h][u]
  BY DEF GMInv, GMTypeOK
<1>7. left \in [Groups -> [Topics -> SUBSET Members]]
  BY <1>1 DEF GMInv, GMTypeOK
<1>8. CASE UNCHANGED <<groups, assignments>>
  BY <1>4, <1>8, UnchangedTables
<1>9. CASE /\ \A u \in Topics : left[g][u] = {}
           /\ groups' = left /\ assignments' = [assignments EXCEPT ![g] = none]
  <2> HIDE DEF left
  <2>1. \A h \in Groups, u \in Topics :
          assignments'[h][u] = IF h = g THEN [n \in Members |-> {}] ELSE assignments[h][u]
    BY <1>9 DEF GMInv, GMTypeOK
  <2>2. GMTypeOK'
    <3>1. assignments' \in [Groups -> [Topics -> [Members -> SUBSET Nat]]]
      BY <1>9 DEF GMInv, GMTypeOK
    <3>2. \A h \in Groups, u \in Topics, n \in Members : assignments'[h][u][n] \subseteq PartitionsOf(u)
      BY <2>1 DEF GMInv, GMTypeOK
    <3> QED BY <1>4, <1>7, <1>9, <3>1, <3>2 DEF GMTypeOK, PartitionsOf
  <2>3. FiniteGroups'
    BY <1>1, <1>6, <1>9 DEF GMInv, FiniteGroups
  <2>4. TableIsCurrent'
    <3> SUFFICES ASSUME NEW h \in Groups, NEW u \in Topics, NEW n \in groups'[h][u]
                 PROVE  assignments'[h][u][n] = ShareOf(groups'[h][u], u, n)
      BY DEF TableIsCurrent, ShareOf, PartitionsOf, Rank
    <3>1. h # g
      BY <1>9
    <3> QED BY <3>1, <2>1, <1>6, <1>9 DEF GMInv, TableIsCurrent
  <2>5. EmptyGroupForgotten'
    BY <1>6, <1>9, <2>1 DEF GMInv, EmptyGroupForgotten
  <2> QED BY <2>2, <2>3, <2>4, <2>5 DEF GMInv
<1>10. CASE /\ \E u \in Topics : left[g][u] # {}
            /\ groups' = left /\ assignments' = [assignments EXCEPT ![g][t] = T]
  <2> HIDE DEF left
  <2>1. \A h \in Groups, u \in Topics :
          assignments'[h][u] = IF h = g /\ u = t THEN T ELSE assignments[h][u]
    BY <1>10 DEF GMInv, GMTypeOK
  <2>2. GMTypeOK'
    <3>1. assignments' \in [Groups -> [Topics -> [Members -> SUBSET Nat]]]
      BY <1>2, <1>10 DEF GMInv, GMTypeOK
    <3>2. \A h \in Groups, u \in Topics, n \in Members : assignments'[h][u][n] \subseteq PartitionsOf(u)
      BY <1>2, <2>1 DEF GMInv, GMTypeOK
    <3> QED BY <1>4, <1>7, <1>10, <3>1, <3>2 DEF GMTypeOK, PartitionsOf
  <2>3. FiniteGroups'
    BY <1>1, <1>6, <1>10 DEF GMInv, FiniteGroups
  <2>4. TableIsCurrent'
    <3> SUFFICES ASSUME NEW h \in Groups, NEW u \in Topics, NEW n \in groups'[h][u]
                 PROVE  assignments'[h][u][n] = ShareOf(groups'[h][u], u, n)
      BY DEF TableIsCurrent, ShareOf, PartitionsOf, Rank
    <3>1. CASE h = g /\ u = t
      BY <3>1, <1>3, <1>6, <1>10, <2>1
    <3>2. CASE ~(h = g /\ u = t)
      BY <3>2, <1>6, <1>10, <2>1 DEF GMInv, TableIsCurrent
    <3> QED BY <3>1, <3>2
  <2>5. EmptyGroupForgotten'
    <3> SUFFICES ASSUME NEW h \in Groups, \A u \in Topics : groups'[h][u] = {},
                        NEW u \in Topics, NEW n \in Members
                 PROVE  assignments'[h][u][n] = {}
      BY DEF EmptyGroupForgotten
    <3>1. h # g
      BY <1>10
    <3> QED BY <3>1, <1>6, <1>10, <2>1 DEF GMInv, EmptyGroupForgotten
  <2> QED BY <2>2, <2>3, <2>4, <2>5 DEF GMInv
<1> HIDE DEF left, none
<1> QED BY <1>5, <1>8, <1>9, <1>10

\* The tables stay exact through every sequence of joins and leaves.
THEOREM GMInvariance == GMSpec => []GMInv
<1>1. GMInit => GMInv
  <2> SUFFICES ASSUME GMInit PROVE GMInv
    OBVIOUS
  <2> QED BY FS_EmptySet DEF GMInit, GMInv, GMTypeOK, FiniteGroups, TableIsCurrent, EmptyGroupForgotten
<1>2. GMInv /\ [GMNext]_gmVars => GMInv'
  <2> SUFFICES ASSUME GMInv, [GMNext]_gmVars PROVE GMInv'
    OBVIOUS
  <2>1. ASSUME NEW g \in Groups, NEW m \in Members, NEW t \in Topics, GMJoin(g, m, t)
        PROVE  GMInv'
    BY <2>1, JoinPreserves, GroupAssumption
  <2>2. ASSUME NEW g \in Groups, NEW m \in Members, NEW t \in Topics, GMLeave(g, m, t)
        PROVE  GMInv'
    BY <2>2, LeavePreserves, GroupAssumption
  <2>3. CASE UNCHANGED gmVars
    BY <2>3, UnchangedTables DEF gmVars, GMInv, GMTypeOK
  <2> QED BY <2>1, <2>2, <2>3 DEF GMNext
<1> QED BY <1>1, <1>2, PTL DEF GMSpec

\* The members of a group on a topic are finitely many numbers.
LEMMA MemberSets ==
  ASSUME GMInv, NEW g \in Groups, NEW t \in Topics
  PROVE  groups[g][t] \in SUBSET Nat /\ IsFiniteSet(groups[g][t])
<1>1. groups \in [Groups -> [Topics -> SUBSET Members]]
  BY DEF GMInv, GMTypeOK
<1>2. groups[g][t] \in SUBSET Members
  BY <1>1
<1>3. Members \subseteq Nat
  BY GroupAssumption DEF GroupAssumption
<1>4. IsFiniteSet(groups[g][t])
  BY DEF GMInv, FiniteGroups
<1> QED BY <1>2, <1>3, <1>4

\* Type correctness of the tables.
THEOREM GMTypeCorrect == GMSpec => []GMTypeOK
<1>1. GMInv => GMTypeOK
  BY DEF GMInv
<1> QED BY <1>1, GMInvariance, PTL

\* After any sequence of joins and leaves the table of every group and topic is
\* that of its current members, and nothing older.
THEOREM TablesAreCurrent == GMSpec => []TableIsCurrent
<1>1. GMInv => TableIsCurrent
  BY DEF GMInv
<1> QED BY <1>1, GMInvariance, PTL

\* Two current members of a group never own the same partition of a topic.
THEOREM OwnersAreDisjoint == GMSpec => []DisjointOwners
<1>1. GMInv => DisjointOwners
  <2> SUFFICES ASSUME GMInv, NEW g \in Groups, NEW t \in Topics,
                      NEW m \in groups[g][t], NEW n \in groups[g][t], m # n
               PROVE  assignments[g][t][m] \cap assignments[g][t][n] = {}
    BY DEF DisjointOwners
  <2>1. groups[g][t] \in SUBSET Nat /\ IsFiniteSet(groups[g][t])
    BY MemberSets
  <2>2. ShareOf(groups[g][t], t, m) \cap ShareOf(groups[g][t], t, n) = {}
    BY <2>1, SharesDisjoint
  <2> QED BY <2>2 DEF GMInv, TableIsCurrent
<1> QED BY <1>1, GMInvariance, PTL

\* A group with a member on a topic has an owner for each of its partitions.
THEOREM NoPartitionIsOrphaned == GMSpec => []NoOrphanPartition
<1>1. GMInv => NoOrphanPartition
  <2> SUFFICES ASSUME GMInv, NEW g \in Groups, NEW t \in Topics, groups[g][t] # {},
                      NEW p \in PartitionsOf(t)
               PROVE  \E m \in groups[g][t] : p \in assignments[g][t][m]
    BY DEF NoOrphanPartition
  <2>1. groups[g][t] \in SUBSET Nat /\ IsFiniteSet(groups[g][t])
    BY MemberSets
  <2>2. PICK m \in groups[g][t] : p \in ShareOf(groups[g][t], t, m)
    BY <2>1, SharesCover, GroupAssumption
  <2> QED BY <2>2 DEF GMInv, TableIsCurrent
<1> QED BY <1>1, GMInvariance, PTL

\* The split is even at all times: two current members differ by one partition at
\* most, whatever joins and leaves led there and whether or not their number divides
\* that of the partitions.
THEOREM SharesAreBalanced == GMSpec => []Balanced
<1>1. GMInv => Balanced
  <2> SUFFICES ASSUME GMInv, NEW g \in Groups, NEW t \in Topics,
                      NEW m \in groups[g][t], NEW n \in groups[g][t]
               PROVE  Cardinality(assignments[g][t][m]) <= Cardinality(assignments[g][t][n]) + 1
    BY DEF Balanced
  <2>1. groups[g][t] \in SUBSET Nat /\ IsFiniteSet(groups[g][t])
    BY MemberSets
  <2>2. Cardinality(ShareOf(groups[g][t], t, m)) <= Cardinality(ShareOf(groups[g][t], t, n)) + 1
    BY <2>1, SharesEven
  <2> QED BY <2>2 DEF GMInv, TableIsCurrent
<1> QED BY <1>1, GMInvariance, PTL

\* A group without members remembers no assignment.
THEOREM EmptyGroupsAreForgotten == GMSpec => []EmptyGroupForgotten
<1>1. GMInv => EmptyGroupForgotten
  BY DEF GMInv
<1> QED BY <1>1, GMInvariance, PTL
=============================================================================

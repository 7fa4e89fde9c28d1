------------------------ MODULE PartitionManagerProofs ------------------------
(***************************************************************************)
(* Proofs about PartitionManager for every set of topics, publishers and   *)
(* keys, every hash function and every bound.                              *)
(***************************************************************************)
EXTENDS PartitionManager, TLAPS

Counted == {"counted", "chosen", "waiting", "locked", "pushed"}
Chosen  == {"chosen", "waiting", "locked", "pushed"}
Fetched == {"waiting", "locked", "pushed"}

\* An append that has its partition count works on a topic that exists, and with
\* a count no larger than the topic's.
CountKnown ==
  \A p \in Publishers : app[p].pc \in Counted => app[p].n \in 1 .. partitions[TopicOf(p)]

\* An append that has chosen works on an existing partition of its topic.
SlotKnown ==
  \A p \in Publishers : app[p].pc \in Chosen =>
    /\ app[p].slot[1] = TopicOf(p)
    /\ app[p].slot[2] \in 0 .. partitions[TopicOf(p)] - 1

\* A mutex that has been fetched exists.
MutexMade == \A p \in Publishers : app[p].pc \in Fetched => app[p].mutex # 0

\* The inductive invariant.
PMInv ==
  PMTypeOK /\ CountKnown /\ SlotKnown /\ MutexMade /\ MutexIsCurrent /\ SerializedAppends

AppType == [pc : {"idle", "called", "unknown", "counted", "chosen", "waiting", "locked", "pushed"},
            req : [topic : Topics, hint : Int, key : MsgKeys \cup {NoKey}],
            n : 0 .. MaxPartitions, slot : Slots, mutex : Nat]
-----------------------------------------------------------------------------
\* IdleApp is well typed.
LEMMA IdleAppTyped == IdleApp \in AppType /\ IdleApp.pc = "idle"
<1>1. (CHOOSE t \in Topics : TRUE) \in Topics
  BY PMAssumption DEF PMAssumption
<1> QED BY <1>1, PMAssumption DEF IdleApp, AppType, Slots, PMAssumption

\* CreateTopic changes only the entries of a topic nobody works on.
LEMMA CreateFacts ==
  ASSUME PMInv, NEW t \in Topics, NEW n \in 1 .. MaxPartitions, PMCreateTopic(t, n)
  PROVE  /\ partitions' \in [Topics -> 0 .. MaxPartitions]
         /\ rr' \in [Topics -> Nat] /\ locks' \in [Slots -> Nat]
         /\ partitions'[t] # 0 /\ partitions'[t] \in 1 .. MaxPartitions
         /\ \A u \in Topics : partitions[u] # 0 => partitions'[u] = partitions[u]
         /\ \A k \in Slots : partitions[k[1]] # 0 => locks'[k] = locks[k]
<1>1. CASE Known(t)
  BY <1>1 DEF PMCreateTopic, Known, PMInv, PMTypeOK
<1>2. CASE ~Known(t)
  <2>1. /\ partitions' = [partitions EXCEPT ![t] = n]
        /\ rr' = [rr EXCEPT ![t] = 0]
        /\ locks' = [k \in Slots |-> IF k[1] = t /\ k[2] < n THEN locks[k] + 1 ELSE locks[k]]
    BY <1>2 DEF PMCreateTopic
  <2>2. partitions' \in [Topics -> 0 .. MaxPartitions] /\ rr' \in [Topics -> Nat]
    BY <2>1, PMAssumption DEF PMInv, PMTypeOK, PMAssumption
  <2>3. locks' \in [Slots -> Nat]
    BY <2>1 DEF PMInv, PMTypeOK
  <2>4. partitions'[t] = n /\ \A u \in Topics : partitions[u] # 0 => partitions'[u] = partitions[u]
    BY <2>1, <1>2 DEF PMInv, PMTypeOK, Known
  <2>5. \A k \in Slots : partitions[k[1]] # 0 => locks'[k] = locks[k]
    BY <2>1, <1>2 DEF Known
  <2> QED BY <2>2, <2>3, <2>4, <2>5
<1> QED BY <1>1, <1>2
-----------------------------------------------------------------------------
\* What has to be shown of a step in which one append goes from app[p] to a.
LEMMA LocalStep ==
  ASSUME PMInv, NEW p \in Publishers, NEW a \in AppType, app' = [app EXCEPT ![p] = a],
         \A u \in Topics : partitions[u] # 0 => partitions'[u] = partitions[u],
         \A k \in Slots : partitions[k[1]] # 0 /\ locks[k] # 0 => locks'[k] = locks[k],
         a.pc \in Counted => a.n \in 1 .. partitions'[a.req.topic],
         a.pc \in Chosen => /\ a.slot[1] = a.req.topic
                           /\ a.slot[2] \in 0 .. partitions'[a.req.topic] - 1,
         a.pc \in Fetched => a.mutex # 0 /\ a.mutex = locks'[a.slot],
         a.pc \in {"locked", "pushed"} => \A q \in Publishers \ {p} : ~Holds(q, a.slot)
  PROVE  /\ app' \in [Publishers -> AppType]
         /\ CountKnown' /\ SlotKnown' /\ MutexMade' /\ MutexIsCurrent' /\ SerializedAppends'
<1>1. app \in [Publishers -> AppType] /\ partitions \in [Topics -> 0 .. MaxPartitions]
  BY DEF PMInv, PMTypeOK, AppType
<1>2. app' \in [Publishers -> AppType]
  BY <1>1
<1>3. \A q \in Publishers : app'[q] = IF q = p THEN a ELSE app[q]
  BY <1>1
<1>4. \A q \in Publishers : app[q].req.topic \in Topics /\ app[q].slot \in Slots
  BY <1>1 DEF AppType
<1>5. \A q \in Publishers : app[q].pc \in Counted =>
        /\ partitions[app[q].req.topic] # 0
        /\ partitions'[app[q].req.topic] = partitions[app[q].req.topic]
  BY <1>1, <1>4 DEF PMInv, CountKnown, TopicOf
<1>6. CountKnown'
  BY <1>3, <1>5 DEF PMInv, CountKnown, TopicOf
<1>7. SlotKnown'
  BY <1>3, <1>5 DEF PMInv, SlotKnown, TopicOf, Chosen, Counted
<1>8. MutexMade'
  BY <1>3 DEF PMInv, MutexMade
<1>9. MutexIsCurrent'
  <2>1. \A q \in Publishers : app[q].pc \in Fetched => locks'[app[q].slot] = locks[app[q].slot]
    BY <1>4, <1>5 DEF PMInv, SlotKnown, MutexMade, MutexIsCurrent, TopicOf, Fetched, Chosen, Counted
  <2> QED BY <1>3, <2>1 DEF PMInv, MutexIsCurrent, Fetched
<1>10. SerializedAppends'
  BY <1>3 DEF PMInv, SerializedAppends, Holds
<1> QED BY <1>2, <1>6, <1>7, <1>8, <1>9, <1>10

\* The same for a step that leaves topics and mutexes alone.
LEMMA QuietStep ==
  ASSUME PMInv, NEW p \in Publishers, NEW a \in AppType, app' = [app EXCEPT ![p] = a],
         UNCHANGED <<partitions, rr, locks, picks, stale>>,
         log' \in [Slots -> Seq(Publishers)], answer' \in [Publishers -> Int],
         a.pc \in Counted => a.n \in 1 .. partitions[a.req.topic],
         a.pc \in Chosen => /\ a.slot[1] = a.req.topic
                           /\ a.slot[2] \in 0 .. partitions[a.req.topic] - 1,
         a.pc \in Fetched => a.mutex # 0 /\ a.mutex = locks[a.slot],
         a.pc \in {"locked", "pushed"} => \A q \in Publishers \ {p} : ~Holds(q, a.slot)
  PROVE  PMInv'
<1>1. /\ app' \in [Publishers -> AppType]
      /\ CountKnown' /\ SlotKnown' /\ MutexMade' /\ MutexIsCurrent' /\ SerializedAppends'
  BY LocalStep
<1>2. PMTypeOK'
  BY <1>1 DEF PMInv, PMTypeOK, AppType
<1> QED BY <1>1, <1>2 DEF PMInv
-----------------------------------------------------------------------------
\* Every step of an append preserves the invariant.
LEMMA AppendPreserves ==
  ASSUME PMInv, NEW p \in Publishers, AppendStep(p)
  PROVE  PMInv'
<1> DEFINE t == TopicOf(p)
           k == app[p].slot
<1>1. /\ app \in [Publishers -> AppType] /\ app[p] \in AppType
      /\ t \in Topics /\ k \in Slots
      /\ partitions \in [Topics -> 0 .. MaxPartitions] /\ locks \in [Slots -> Nat]
      /\ log \in [Slots -> Seq(Publishers)] /\ answer \in [Publishers -> Int]
  BY DEF PMInv, PMTypeOK, AppType, TopicOf
<1>2. ASSUME NEW b \in AppType, b.pc \in {"idle", "called", "unknown"}, app' = [app EXCEPT ![p] = b],
             UNCHANGED <<partitions, rr, locks, picks, stale>>,
             log' \in [Slots -> Seq(Publishers)], answer' \in [Publishers -> Int]
      PROVE  PMInv'
  BY <1>2, QuietStep DEF Counted, Chosen, Fetched
<1>3. ASSUME Fail(p), UNCHANGED <<partitions, rr, locks, log, picks, stale>>
      PROVE  PMInv'
  <2>1. app' = [app EXCEPT ![p] = IdleApp] /\ answer' \in [Publishers -> Int]
    BY <1>1, <1>3 DEF Fail
  <2> QED BY <1>1, <1>2, <1>3, <2>1, IdleAppTyped
<1>4. CASE CountPartitions(p)
  <2> DEFINE a == [app[p] EXCEPT !.n = partitions[t], !.pc = IF Known(t) THEN "counted" ELSE "unknown"]
  <2>1. app' = [app EXCEPT ![p] = a]
    BY <1>1, <1>4 DEF CountPartitions, AppType
  <2>2. a \in AppType
    BY <1>1 DEF AppType
  <2>3. a.pc \in Counted => a.n \in 1 .. partitions[a.req.topic]
    BY <1>1 DEF Known, Counted, AppType, TopicOf
  <2>4. a.pc \notin Chosen /\ a.pc \notin Fetched /\ a.pc \notin {"locked", "pushed"}
    BY <1>1 DEF Chosen, Fetched, AppType
  <2>5. UNCHANGED <<partitions, rr, locks, log, answer, picks, stale>>
    BY <1>4 DEF CountPartitions
  <2> HIDE DEF a
  <2> QED BY <1>1, <2>1, <2>2, <2>3, <2>4, <2>5, QuietStep
<1>5. CASE CreateImplicitly(p)
  <2> DEFINE a == [app[p] EXCEPT !.n = ImplicitCount, !.pc = "counted"]
  <2>1. app' = [app EXCEPT ![p] = a] /\ UNCHANGED <<log, answer, picks, stale>>
    BY <1>1, <1>5 DEF CreateImplicitly, AppType
  <2>2. ImplicitCount \in 1 .. MaxPartitions /\ ImplicitCount \in 0 .. MaxPartitions
    BY PMAssumption DEF ImplicitCount, PMAssumption
  <2>3. a \in AppType /\ a.req.topic = t /\ a.n = ImplicitCount /\ a.pc = "counted"
    <3> HIDE DEF ImplicitCount
    <3> QED BY <1>1, <2>2 DEF AppType, TopicOf
  <2>4. /\ partitions' \in [Topics -> 0 .. MaxPartitions]
        /\ rr' \in [Topics -> Nat] /\ locks' \in [Slots -> Nat]
        /\ partitions'[t] \in 1 .. MaxPartitions
        /\ \A u \in Topics : partitions[u] # 0 => partitions'[u] = partitions[u]
        /\ \A j \in Slots : partitions[j[1]] # 0 => locks'[j] = locks[j]
    BY <1>1, <1>5, <2>2, CreateFacts DEF CreateImplicitly
  <2>5. a.n \in 1 .. partitions'[a.req.topic]
    BY <2>3, <2>4 DEF ImplicitCount
  <2>6. a.pc \notin Chosen /\ a.pc \notin Fetched /\ a.pc \notin {"locked", "pushed"}
    BY <2>3 DEF Chosen, Fetched
  <2> HIDE DEF a
  <2>7. /\ app' \in [Publishers -> AppType]
        /\ CountKnown' /\ SlotKnown' /\ MutexMade' /\ MutexIsCurrent' /\ SerializedAppends'
    BY <2>1, <2>3, <2>4, <2>5, <2>6, LocalStep
  <2>8. PMTypeOK'
    BY <1>1, <2>1, <2>4, <2>7 DEF PMInv, PMTypeOK, AppType
  <2> QED BY <2>7, <2>8 DEF PMInv
<1>6. ASSUME At(p, "counted"), NEW part \in 0 .. app[p].n - 1, Choose(p, part),
             UNCHANGED <<partitions, locks>>
      PROVE  /\ app' \in [Publishers -> AppType]
             /\ CountKnown' /\ SlotKnown' /\ MutexMade' /\ MutexIsCurrent' /\ SerializedAppends'
  <2> DEFINE a == [app[p] EXCEPT !.slot = <<t, part>>, !.pc = "chosen"]
  <2>1. app' = [app EXCEPT ![p] = a]
    BY <1>1, <1>6 DEF Choose, AppType
  <2>2. app[p].n \in 1 .. partitions[t] /\ partitions[t] \in 0 .. MaxPartitions
    BY <1>1, <1>6 DEF At, PMInv, CountKnown, Counted
  <2>3. <<t, part>> \in Slots
    BY <1>1, <2>2, PMAssumption DEF Slots, PMAssumption
  <2>4. a \in AppType /\ a.pc = "chosen" /\ a.n = app[p].n /\ a.req.topic = t /\ a.slot = <<t, part>>
    BY <1>1, <2>3 DEF AppType, TopicOf
  <2>5. a.n \in 1 .. partitions'[a.req.topic] /\ a.slot[1] = a.req.topic
        /\ a.slot[2] \in 0 .. partitions'[a.req.topic] - 1
    BY <1>6, <2>2, <2>4
  <2>6. a.pc \notin Fetched /\ a.pc \notin {"locked", "pushed"}
    BY <2>4 DEF Fetched
  <2> HIDE DEF a
  <2> QED BY <1>6, <2>1, <2>4, <2>5, <2>6, LocalStep
<1>7. CASE ChooseByHint(p)
  <2>1. CASE Fail(p)
    BY <1>3, <1>7, <2>1 DEF ChooseByHint
  <2>2. CASE app[p].req.hint < app[p].n /\ Choose(p, app[p].req.hint) /\ UNCHANGED answer
    <3>1. app[p].req.hint \in 0 .. app[p].n - 1
      BY <1>1, <1>7, <2>2 DEF ChooseByHint, AppType
    <3> QED BY <1>1, <1>6, <1>7, <2>2, <3>1 DEF ChooseByHint, PMInv, PMTypeOK, AppType
  <2> QED BY <1>7, <2>1, <2>2 DEF ChooseByHint
<1>8. CASE ChooseByKey(p)
  <2>1. app[p].n \in Nat \ {0}
    BY <1>1, <1>8 DEF ChooseByKey, At, PMInv, CountKnown, Counted
  <2>2. Hash[app[p].req.key] \in Nat
    BY <1>1, <1>8, PMAssumption DEF ChooseByKey, AppType, PMAssumption
  <2>3. Hash[app[p].req.key] % app[p].n \in 0 .. app[p].n - 1
    BY <2>1, <2>2
  <2> QED BY <1>1, <1>6, <1>8, <2>3 DEF ChooseByKey, PMInv, PMTypeOK, AppType
<1>9. CASE ChooseRoundRobin(p)
  <2> DEFINE part == NextCount(t) % app[p].n
  <2>1. app[p].n \in 1 .. partitions[t] /\ rr[t] \in Nat /\ NextCount(t) \in Nat
    <3>1. app[p].n \in 1 .. partitions[t]
      BY <1>1, <1>9 DEF ChooseRoundRobin, At, PMInv, CountKnown, Counted
    <3>2. rr[t] \in Nat
      BY <1>1 DEF PMInv, PMTypeOK
    <3> QED BY <3>1, <3>2 DEF NextCount
  <2>2. part \in 0 .. app[p].n - 1 /\ <<t, part>> \in Slots
    <3> DEFINE c == NextCount(t)
               m == app[p].n
    <3>1. m \in Nat \ {0} /\ m <= MaxPartitions /\ c \in Nat /\ MaxPartitions \in Nat
      BY <1>1, <2>1, PMAssumption DEF PMAssumption
    <3> HIDE DEF c, m
    <3>2. c % m \in 0 .. m - 1 /\ c % m \in 0 .. MaxPartitions - 1
      BY <3>1
    <3> QED BY <1>1, <3>2 DEF Slots, c, m
  <2>3. Choose(p, part) /\ UNCHANGED <<partitions, locks, log, answer>> /\ At(p, "counted")
        /\ rr' = [rr EXCEPT ![t] = NextCount(t)]
    BY <1>9 DEF ChooseRoundRobin
  <2>4. picks' \in [Slots -> Nat] /\ stale' \in [Topics -> Nat]
    <3> DEFINE j == <<t, part>>
    <3>1. picks \in [Slots -> Nat] /\ stale \in [Topics -> Nat]
      BY DEF PMInv, PMTypeOK
    <3>2. \/ picks' = [picks EXCEPT ![j] = @ + 1] /\ UNCHANGED stale
          \/ stale' = [stale EXCEPT ![t] = @ + 1] /\ UNCHANGED picks
      BY <1>9 DEF ChooseRoundRobin
    <3>3. j \in Slots /\ t \in Topics
      BY <1>1, <2>2
    <3> HIDE DEF part, j, t
    <3>4. CASE picks' = [picks EXCEPT ![j] = @ + 1] /\ UNCHANGED stale
      BY <3>1, <3>3, <3>4
    <3>5. CASE stale' = [stale EXCEPT ![t] = @ + 1] /\ UNCHANGED picks
      BY <3>1, <3>3, <3>5
    <3> QED BY <3>2, <3>4, <3>5
  <2>5. rr' \in [Topics -> Nat]
    BY <2>1, <2>3 DEF PMInv, PMTypeOK
  <2> HIDE DEF part
  <2>6. /\ app' \in [Publishers -> AppType]
        /\ CountKnown' /\ SlotKnown' /\ MutexMade' /\ MutexIsCurrent' /\ SerializedAppends'
    BY <1>6, <2>2, <2>3
  <2> QED BY <1>1, <2>3, <2>4, <2>5, <2>6 DEF PMInv, PMTypeOK, AppType
<1>10. CASE GetLock(p)
  <2> DEFINE m == IF locks[k] = 0 THEN 1 ELSE locks[k]
             a == [app[p] EXCEPT !.mutex = m, !.pc = "waiting"]
  <2>1. /\ app' = [app EXCEPT ![p] = a] /\ locks' = [locks EXCEPT ![k] = m]
        /\ UNCHANGED <<partitions, rr, log, answer, picks, stale>>
    BY <1>1, <1>10 DEF GetLock, AppType
  <2>2. m \in Nat \ {0} /\ locks' \in [Slots -> Nat] /\ locks'[k] = m
        /\ \A j \in Slots : locks[j] # 0 => locks'[j] = locks[j]
    BY <1>1, <2>1
  <2> HIDE DEF m
  <2>3. /\ a \in AppType /\ a.pc = "waiting" /\ a.n = app[p].n /\ a.req.topic = t
        /\ a.slot = k /\ a.mutex = m
    BY <1>1, <2>2 DEF AppType, TopicOf
  <2>4. /\ app[p].n \in 1 .. partitions[t] /\ k[1] = t /\ k[2] \in 0 .. partitions[t] - 1
    BY <1>10 DEF GetLock, At, PMInv, CountKnown, SlotKnown, Counted, Chosen
  <2>5. /\ a.n \in 1 .. partitions'[a.req.topic] /\ a.slot[1] = a.req.topic
        /\ a.slot[2] \in 0 .. partitions'[a.req.topic] - 1
        /\ a.mutex # 0 /\ a.mutex = locks'[a.slot] /\ a.pc \notin {"locked", "pushed"}
    BY <2>1, <2>2, <2>3, <2>4
  <2> HIDE DEF a
  <2>6. /\ app' \in [Publishers -> AppType]
        /\ CountKnown' /\ SlotKnown' /\ MutexMade' /\ MutexIsCurrent' /\ SerializedAppends'
    BY <2>1, <2>2, <2>3, <2>5, LocalStep
  <2> QED BY <1>1, <2>1, <2>2, <2>6 DEF PMInv, PMTypeOK, AppType
<1>11. ASSUME app[p].pc \in Fetched, NEW pc \in Fetched, app' = [app EXCEPT ![p].pc = pc],
              \A q \in Publishers \ {p} : ~Holds(q, k),
              UNCHANGED <<partitions, rr, locks, answer, picks, stale>>,
              log' \in [Slots -> Seq(Publishers)]
       PROVE  PMInv'
  <2> DEFINE a == [app[p] EXCEPT !.pc = pc]
  <2>1. app' = [app EXCEPT ![p] = a]
    BY <1>1, <1>11 DEF AppType
  <2>2. /\ a \in AppType /\ a.pc = pc /\ a.n = app[p].n /\ a.req.topic = t
        /\ a.slot = k /\ a.mutex = app[p].mutex
    BY <1>1, <1>11 DEF AppType, TopicOf, Fetched
  <2>3. /\ app[p].n \in 1 .. partitions[t] /\ k[1] = t /\ k[2] \in 0 .. partitions[t] - 1
        /\ app[p].mutex # 0 /\ app[p].mutex = locks[k]
    BY <1>11 DEF PMInv, CountKnown, SlotKnown, MutexMade, MutexIsCurrent, Counted, Chosen, Fetched
  <2>4. answer' \in [Publishers -> Int] /\ \A q \in Publishers \ {p} : ~Holds(q, a.slot)
    BY <1>1, <1>11
  <2>5. /\ a.n \in 1 .. partitions[a.req.topic] /\ a.slot[1] = a.req.topic
        /\ a.slot[2] \in 0 .. partitions[a.req.topic] - 1
        /\ a.mutex # 0 /\ a.mutex = locks[a.slot]
    BY <2>2, <2>3
  <2> HIDE DEF a
  <2> QED BY <1>11, <2>1, <2>2, <2>4, <2>5, QuietStep
<1>12. CASE LockMutex(p)
  <2>1. \A q \in Publishers : ~Holds(q, k)
    BY <1>1, <1>12 DEF LockMutex, MutexFree, Holds, At, PMInv, MutexIsCurrent
  <2> QED BY <1>1, <1>11, <1>12, <2>1 DEF LockMutex, At, Fetched
<1>13. ASSUME Holds(p, k) PROVE \A q \in Publishers \ {p} : ~Holds(q, k)
  BY <1>1, <1>13 DEF PMInv, SerializedAppends
<1>14. CASE Push(p)
  <2>1. Holds(p, k) /\ app[p].pc \in Fetched /\ "pushed" \in Fetched
    BY <1>14 DEF Push, At, Holds, Fetched
  <2>2. log' \in [Slots -> Seq(Publishers)]
    BY <1>1, <1>14 DEF Push
  <2> QED BY <1>11, <1>13, <1>14, <2>1, <2>2 DEF Push
<1>15. CASE Answer(p)
  <2>1. app' = [app EXCEPT ![p] = IdleApp] /\ UNCHANGED <<partitions, rr, locks, log, picks, stale>>
    BY <1>15 DEF Answer
  <2>2. Len(log[k]) \in Nat
    BY <1>1
  <2>3. answer' \in [Publishers -> Int]
    BY <1>1, <1>15, <2>2 DEF Answer
  <2> QED BY <1>1, <1>2, <2>1, <2>3, IdleAppTyped
<1>16. CASE StoreFails(p)
  BY <1>3, <1>16 DEF StoreFails
<1> QED
  BY <1>4, <1>5, <1>7, <1>8, <1>9, <1>10, <1>12, <1>14, <1>15, <1>16 DEF AppendStep
-----------------------------------------------------------------------------
\* CreateTopic by another caller.
LEMMA CreatePreserves ==
  ASSUME PMInv, NEW t \in Topics, NEW n \in 1 .. MaxPartitions, CreateTopic(t, n)
  PROVE  PMInv'
<1>1. /\ partitions' \in [Topics -> 0 .. MaxPartitions]
      /\ rr' \in [Topics -> Nat] /\ locks' \in [Slots -> Nat]
      /\ \A u \in Topics : partitions[u] # 0 => partitions'[u] = partitions[u]
      /\ \A k \in Slots : partitions[k[1]] # 0 => locks'[k] = locks[k]
  BY CreateFacts DEF CreateTopic
<1>2. UNCHANGED <<app, log, answer, picks, stale>>
  BY DEF CreateTopic
<1>3. \A p \in Publishers : app[p].req.topic \in Topics /\ app[p].slot \in Slots
  BY DEF PMInv, PMTypeOK
<1>4. \A p \in Publishers : app[p].pc \in Counted =>
        partitions[TopicOf(p)] # 0 /\ partitions'[TopicOf(p)] = partitions[TopicOf(p)]
  <2>1. \A p \in Publishers : TopicOf(p) \in Topics /\ partitions[TopicOf(p)] \in Nat
    BY <1>3 DEF PMInv, PMTypeOK, TopicOf
  <2>2. \A p \in Publishers : app[p].pc \in Counted => app[p].n \in 1 .. partitions[TopicOf(p)]
    BY DEF PMInv, CountKnown
  <2>3. \A p \in Publishers : app[p].pc \in Counted => partitions[TopicOf(p)] # 0
    BY <2>1, <2>2
  <2> QED BY <1>1, <2>1, <2>3
<1>5. PMTypeOK'
  BY <1>1, <1>2 DEF PMInv, PMTypeOK
<1>6. CountKnown'
  BY <1>2, <1>4 DEF PMInv, CountKnown, TopicOf
<1>7. SlotKnown'
  BY <1>2, <1>4 DEF PMInv, SlotKnown, TopicOf, Chosen, Counted
<1>8. MutexMade' /\ SerializedAppends'
  BY <1>2 DEF PMInv, MutexMade, SerializedAppends, Holds
<1>9. MutexIsCurrent'
  BY <1>1, <1>2, <1>3, <1>4 DEF PMInv, MutexIsCurrent, SlotKnown, Chosen, Counted
<1> QED BY <1>5, <1>6, <1>7, <1>8, <1>9 DEF PMInv

\* A state in which nothing is under way satisfies the invariant.
LEMMA QuiescentState ==
  ASSUME partitions = [t \in Topics |-> 0], rr = [t \in Topics |-> 0],
         locks = [k \in Slots |-> 0], app = [p \in Publishers |-> IdleApp],
         log \in [Slots -> Seq(Publishers)], answer = [p \in Publishers |-> -1],
         picks = [k \in Slots |-> 0], stale = [t \in Topics |-> 0]
  PROVE  PMInv
<1>1. \A p \in Publishers : app[p] \in AppType /\ app[p].pc = "idle"
  BY IdleAppTyped
<1>2. PMTypeOK
  <2>1. app \in [Publishers -> AppType]
    BY <1>1
  <2>2. partitions \in [Topics -> 0 .. MaxPartitions]
    BY PMAssumption DEF PMAssumption
  <2> QED BY <2>1, <2>2 DEF PMTypeOK, AppType
<1> QED BY <1>1, <1>2 DEF PMInv, CountKnown, SlotKnown, MutexMade, MutexIsCurrent,
                          SerializedAppends, Holds, Counted, Chosen, Fetched

\* Restart: the same state, with whatever the store has kept.
LEMMA RestartPreserves ==
  ASSUME PMInv, PMRestart
  PROVE  PMInv'
<1>1. log' \in [Slots -> Seq(Publishers)]
  BY DEF PMRestart, PMInv, PMTypeOK
<1>2. \A p \in Publishers : app'[p] \in AppType /\ app'[p].pc = "idle"
  BY IdleAppTyped DEF PMRestart
<1>3. PMTypeOK'
  <2>1. app' \in [Publishers -> AppType]
    BY <1>2 DEF PMRestart
  <2>2. partitions' \in [Topics -> 0 .. MaxPartitions]
    BY PMAssumption DEF PMAssumption, PMRestart
  <2>3. /\ rr' \in [Topics -> Nat] /\ locks' \in [Slots -> Nat] /\ answer' \in [Publishers -> Int]
        /\ picks' \in [Slots -> Nat] /\ stale' \in [Topics -> Nat]
    BY DEF PMRestart
  <2> QED BY <1>1, <2>1, <2>2, <2>3 DEF PMTypeOK, AppType
<1> QED BY <1>2, <1>3 DEF PMInv, CountKnown, SlotKnown, MutexMade, MutexIsCurrent,
                          SerializedAppends, Holds, Counted, Chosen, Fetched

\* Call only stores the request.
LEMMA CallPreserves ==
  ASSUME PMInv, NEW p \in Publishers, NEW r \in Requests, Call(p, r)
  PROVE  PMInv'
<1> DEFINE a == [app[p] EXCEPT !.pc = "called", !.req = r]
<1>1. app[p] \in AppType /\ r \in [topic : Topics, hint : Int, key : MsgKeys \cup {NoKey}]
  BY PMAssumption DEF PMInv, PMTypeOK, AppType, Requests, PMAssumption
<1>2. a \in AppType /\ a.pc = "called"
  BY <1>1 DEF AppType
<1>3. app' = [app EXCEPT ![p] = a]
  BY <1>1 DEF Call, PMInv, PMTypeOK, AppType
<1>4. /\ UNCHANGED <<partitions, rr, locks, picks, stale>>
      /\ log' \in [Slots -> Seq(Publishers)] /\ answer' \in [Publishers -> Int]
  BY DEF Call, PMInv, PMTypeOK
<1> HIDE DEF a
<1> QED BY <1>2, <1>3, <1>4, QuietStep DEF Counted, Chosen, Fetched

\* One step of the partition manager.
LEMMA PMInductive ==
  ASSUME PMInv, [PMNext]_pmVars
  PROVE  PMInv'
<1>1. ASSUME NEW t \in Topics, NEW n \in Sizes, CreateTopic(t, n) PROVE PMInv'
  BY <1>1, CreatePreserves, PMAssumption DEF PMAssumption
<1>2. ASSUME NEW p \in Publishers, NEW r \in Requests, Call(p, r) PROVE PMInv'
  BY <1>2, CallPreserves
<1>3. ASSUME NEW p \in Publishers, AppendStep(p) PROVE PMInv'
  BY <1>3, AppendPreserves
<1>4. CASE PMRestart
  BY <1>4, RestartPreserves
<1>5. CASE UNCHANGED pmVars
  BY <1>5 DEF pmVars, PMInv, PMTypeOK, CountKnown, SlotKnown, MutexMade, MutexIsCurrent,
              SerializedAppends, Holds, TopicOf
<1> QED BY <1>1, <1>2, <1>3, <1>4, <1>5 DEF PMNext

\* The invariant holds initially.
LEMMA PMInitially == PMInit => PMInv
<1> SUFFICES ASSUME PMInit PROVE PMInv
  OBVIOUS
<1>1. log \in [Slots -> Seq(Publishers)]
  BY DEF PMInit
<1> QED BY <1>1, QuiescentState DEF PMInit

\* No race between CreateTopic and Append, no failure and no restart makes the
\* partition manager leave its invariant.
THEOREM PMInvariance == PMSpec => []PMInv
<1>1. PMInv /\ [PMNext]_pmVars => PMInv'
  BY PMInductive
<1> QED BY PMInitially, <1>1, PTL DEF PMSpec

\* Type correctness.
THEOREM PMTypeCorrect == PMSpec => []PMTypeOK
<1>1. PMInv => PMTypeOK
  BY DEF PMInv
<1> QED BY <1>1, PMInvariance, PTL

\* A fetched mutex is the one in the map.
THEOREM MutexesAreCurrent == PMSpec => []MutexIsCurrent
<1>1. PMInv => MutexIsCurrent
  BY DEF PMInv
<1> QED BY <1>1, PMInvariance, PTL

\* Appends to one partition never overlap.
THEOREM AppendsAreSerialized == PMSpec => []SerializedAppends
<1>1. PMInv => SerializedAppends
  BY DEF PMInv
<1> QED BY <1>1, PMInvariance, PTL

\* An append never works on a partition that the topic does not have.
THEOREM StoredAreReachable == PMSpec => []StoredIsReachable
<1>1. PMInv => StoredIsReachable
  <2> SUFFICES ASSUME PMInv, NEW p \in Publishers, app[p].pc \in Chosen
               PROVE  app[p].slot[2] < partitions[app[p].slot[1]]
    BY DEF StoredIsReachable, Chosen
  <2>1. /\ app[p].slot[1] = TopicOf(p) /\ TopicOf(p) \in Topics
        /\ app[p].slot[2] \in 0 .. partitions[TopicOf(p)] - 1
    BY DEF PMInv, PMTypeOK, SlotKnown, TopicOf
  <2>2. partitions[TopicOf(p)] \in Int
    BY <2>1 DEF PMInv, PMTypeOK
  <2> QED BY <2>1, <2>2
<1> QED BY <1>1, PMInvariance, PTL
-----------------------------------------------------------------------------
(* Round robin *)

\* How often a counter that goes from 1 to c is i modulo n.
Turns(c, n, i) == (c \div n) + (IF i \in 1 .. c % n THEN 1 ELSE 0)

\* The slots of a topic have been picked as often as the counter says, but for
\* the picks that were made with another partition count.
RoundsKept(t) ==
  /\ partitions[t] = 0 => /\ rr[t] = 0 /\ stale[t] = 0
                          /\ \A k \in Slots : k[1] = t => picks[k] = 0
  /\ partitions[t] # 0 => \A i \in 0 .. partitions[t] - 1 :
       /\ picks[<<t, i>>] <= Turns(rr[t], partitions[t], i)
       /\ Turns(rr[t], partitions[t], i) <= picks[<<t, i>>] + stale[t]

LEMMA Quotient ==
  ASSUME NEW n \in Nat \ {0}, NEW c \in Nat
  PROVE  /\ c \div n \in Nat /\ c % n \in 0 .. n - 1
         /\ c = n * (c \div n) + (c % n)
OBVIOUS

LEMMA QuotientOf ==
  ASSUME NEW n \in Nat \ {0}, NEW q \in Nat, NEW r \in 0 .. n - 1
  PROVE  (n * q + r) \div n = q /\ (n * q + r) % n = r
OBVIOUS

\* One more count is one more turn of one partition.
LEMMA NextTurn ==
  ASSUME NEW n \in Nat \ {0}, NEW c \in Nat, NEW i \in 0 .. n - 1
  PROVE  /\ Turns(c, n, i) \in Nat
         /\ Turns(c + 1, n, i) = Turns(c, n, i) + (IF i = (c + 1) % n THEN 1 ELSE 0)
<1> DEFINE q == c \div n
           r == c % n
<1>1. q \in Nat /\ r \in 0 .. n - 1 /\ c = n * q + r
  BY Quotient
<1>2. CASE r + 1 < n
  <2>1. c + 1 = n * q + (r + 1) /\ r + 1 \in 0 .. n - 1
    BY <1>1, <1>2
  <2>2. (c + 1) \div n = q /\ (c + 1) % n = r + 1
    <3> HIDE DEF q, r
    <3> QED BY <1>1, <2>1, QuotientOf
  <2> HIDE DEF q, r
  <2> QED BY <1>1, <1>2, <2>2 DEF Turns, q, r
<1>3. CASE r + 1 = n
  <2>1. c + 1 = n * (q + 1) + 0 /\ 0 \in 0 .. n - 1 /\ q + 1 \in Nat
    BY <1>1, <1>3
  <2>2. (c + 1) \div n = q + 1 /\ (c + 1) % n = 0
    <3> HIDE DEF q, r
    <3> QED BY <1>1, <2>1, QuotientOf
  <2> HIDE DEF q, r
  <2> QED BY <1>1, <1>3, <2>2 DEF Turns, q, r
<1> QED BY <1>1, <1>2, <1>3

LEMMA NoTurns ==
  ASSUME NEW n \in Nat \ {0}, NEW i \in 0 .. n - 1
  PROVE  Turns(0, n, i) = 0
<1>1. 0 = n * 0 + 0 /\ 0 \in 0 .. n - 1
  OBVIOUS
<1>2. 0 \div n = 0 /\ 0 % n = 0
  BY <1>1, QuotientOf
<1> QED BY <1>2 DEF Turns

\* A step that leaves the picks alone, and the partitions of the topics there are.
LEMMA CreateKeepsRounds ==
  ASSUME PMInv, \A u \in Topics : RoundsKept(u), NEW t \in Topics, NEW n \in 1 .. MaxPartitions,
         PMCreateTopic(t, n), UNCHANGED <<picks, stale>>
  PROVE  \A u \in Topics : RoundsKept(u)'
<1>1. CASE Known(t)
  BY <1>1 DEF PMCreateTopic, RoundsKept
<1>2. CASE ~Known(t)
  <2>1. /\ partitions' = [partitions EXCEPT ![t] = n] /\ rr' = [rr EXCEPT ![t] = 0]
        /\ partitions \in [Topics -> 0 .. MaxPartitions] /\ rr \in [Topics -> Nat]
    BY <1>2 DEF PMCreateTopic, PMInv, PMTypeOK
  <2>2. ASSUME NEW u \in Topics, u # t PROVE RoundsKept(u)'
    <3>1. partitions'[u] = partitions[u] /\ rr'[u] = rr[u]
      BY <2>1, <2>2
    <3> QED BY <3>1 DEF RoundsKept
  <2>3. RoundsKept(t)'
    <3>1. partitions'[t] = n /\ rr'[t] = 0 /\ n \in Nat \ {0} /\ n <= MaxPartitions
      BY <2>1, PMAssumption DEF PMAssumption
    <3>2. stale[t] = 0 /\ \A k \in Slots : k[1] = t => picks[k] = 0
      BY <1>2 DEF RoundsKept, Known
    <3>3. ASSUME NEW i \in 0 .. n - 1 PROVE picks[<<t, i>>] = 0 /\ Turns(0, n, i) = 0
      <4>1. <<t, i>> \in Slots
        BY <3>1, PMAssumption DEF Slots, PMAssumption
      <4>2. picks[<<t, i>>] = 0
        <5> DEFINE k == <<t, i>>
        <5>1. k \in Slots /\ k[1] = t
          BY <4>1
        <5> HIDE DEF k
        <5> QED BY <3>2, <5>1 DEF k
      <4>3. Turns(0, n, i) = 0
        BY <3>1, NoTurns
      <4> QED BY <4>2, <4>3
    <3> QED BY <3>1, <3>2, <3>3 DEF RoundsKept
  <2> QED BY <2>2, <2>3
<1> QED BY <1>1, <1>2

LEMMA PickKeepsRounds ==
  ASSUME PMInv, \A u \in Topics : RoundsKept(u), NEW p \in Publishers, ChooseRoundRobin(p)
  PROVE  \A u \in Topics : RoundsKept(u)'
<1> DEFINE t == TopicOf(p)
           n == partitions[t]
           part == NextCount(t) % app[p].n
<1>1. /\ t \in Topics /\ app[p].n \in 1 .. n /\ n \in 1 .. MaxPartitions /\ rr[t] \in Nat
      /\ rr \in [Topics -> Nat] /\ picks \in [Slots -> Nat] /\ stale \in [Topics -> Nat]
  BY DEF ChooseRoundRobin, At, PMInv, PMTypeOK, CountKnown, Counted, TopicOf
<1>2. /\ rr' = [rr EXCEPT ![t] = rr[t] + 1] /\ partitions' = partitions
      /\ \/ /\ app[p].n = n
            /\ picks' = [picks EXCEPT ![<<t, part>>] = @ + 1] /\ stale' = stale
         \/ stale' = [stale EXCEPT ![t] = @ + 1] /\ picks' = picks
  BY DEF ChooseRoundRobin, NextCount
<1>3. ASSUME NEW u \in Topics, u # t PROVE RoundsKept(u)'
  <2>1. rr'[u] = rr[u] /\ partitions'[u] = partitions[u] /\ stale'[u] = stale[u]
    BY <1>1, <1>2, <1>3
  <2>2. \A k \in Slots : k[1] = u => picks'[k] = picks[k]
    BY <1>1, <1>2, <1>3
  <2>3. \A i \in 0 .. partitions[u] - 1 : <<u, i>> \in Slots
    <3>1. partitions[u] \in 0 .. MaxPartitions
      BY DEF PMInv, PMTypeOK
    <3> QED BY <3>1, PMAssumption DEF Slots, PMAssumption
  <2> QED BY <2>1, <2>2, <2>3 DEF RoundsKept
<1>4. ASSUME NEW u \in Topics, u = t PROVE RoundsKept(u)'
  <2>1. n \in Nat \ {0} /\ n # 0 /\ partitions'[t] = n /\ rr'[t] = rr[t] + 1
    BY <1>1, <1>2, PMAssumption DEF PMAssumption
  <2>2. ASSUME NEW i \in 0 .. n - 1
        PROVE  /\ picks'[<<t, i>>] <= Turns(rr[t] + 1, n, i)
               /\ Turns(rr[t] + 1, n, i) <= picks'[<<t, i>>] + stale'[t]
    <3> DEFINE was == Turns(rr[t], n, i)
               is == Turns(rr[t] + 1, n, i)
               k == <<t, i>>
    <3>1. k \in Slots /\ picks[k] \in Nat /\ stale[t] \in Nat
      <4>1. k \in Slots
        BY <1>1, PMAssumption DEF Slots, PMAssumption
      <4> QED BY <1>1, <4>1
    <3>2. was \in Nat /\ is = was + (IF i = (rr[t] + 1) % n THEN 1 ELSE 0)
      <4> DEFINE c == rr[t]
      <4>1. c \in Nat /\ n \in Nat \ {0}
        BY <1>1, <2>1
      <4> HIDE DEF c, n
      <4>2. Turns(c, n, i) \in Nat
        BY <4>1, NextTurn
      <4>3. Turns(c + 1, n, i) = Turns(c, n, i) + (IF i = (c + 1) % n THEN 1 ELSE 0)
        BY <4>1, NextTurn
      <4> QED BY <4>2, <4>3 DEF c
    <3>3. picks[k] <= was /\ was <= picks[k] + stale[t]
      <4>1. RoundsKept(t)
        BY <1>1
      <4> QED BY <2>1, <4>1 DEF RoundsKept
    <3>4. CASE /\ app[p].n = n
               /\ picks' = [picks EXCEPT ![<<t, part>>] = @ + 1] /\ stale' = stale
      <4>1. part = (rr[t] + 1) % n
        BY <3>4 DEF NextCount
      <4>2. picks'[k] = IF i = part THEN picks[k] + 1 ELSE picks[k]
        <5> HIDE DEF part
        <5> QED BY <1>1, <3>1, <3>4
      <4> HIDE DEF was, is, part
      <4> QED BY <3>1, <3>2, <3>3, <3>4, <4>1, <4>2 DEF was, is
    <3>5. CASE stale' = [stale EXCEPT ![t] = @ + 1] /\ picks' = picks
      <4>1. stale'[t] = stale[t] + 1 /\ is \in {was, was + 1}
        BY <1>1, <3>2, <3>5
      <4> HIDE DEF was, is
      <4> QED BY <3>1, <3>2, <3>3, <3>5, <4>1 DEF was, is
    <3> QED BY <1>2, <3>4, <3>5
  <2> HIDE DEF t, n
  <2> QED BY <1>4, <2>1, <2>2 DEF RoundsKept
<1> QED BY <1>3, <1>4

LEMMA RoundsInductive ==
  ASSUME PMInv, \A u \in Topics : RoundsKept(u), [PMNext]_pmVars
  PROVE  \A u \in Topics : RoundsKept(u)'
<1>1. ASSUME UNCHANGED <<partitions, rr, picks, stale>>
      PROVE  \A u \in Topics : RoundsKept(u)'
  BY <1>1 DEF RoundsKept
<1>2. ASSUME NEW t \in Topics, NEW n \in Sizes, CreateTopic(t, n)
      PROVE  \A u \in Topics : RoundsKept(u)'
  BY <1>2, CreateKeepsRounds, PMAssumption DEF CreateTopic, PMAssumption
<1>3. ASSUME NEW p \in Publishers, CreateImplicitly(p)
      PROVE  \A u \in Topics : RoundsKept(u)'
  <2>1. TopicOf(p) \in Topics /\ ImplicitCount \in 1 .. MaxPartitions
    BY PMAssumption DEF PMInv, PMTypeOK, TopicOf, ImplicitCount, PMAssumption
  <2> HIDE DEF ImplicitCount
  <2> QED BY <1>3, <2>1, CreateKeepsRounds DEF CreateImplicitly
<1>4. ASSUME NEW p \in Publishers, AppendStep(p)
      PROVE  \A u \in Topics : RoundsKept(u)'
  BY <1>1, <1>3, <1>4, PickKeepsRounds
     DEF AppendStep, CountPartitions, ChooseByHint, ChooseByKey, GetLock, LockMutex,
         Push, Answer, StoreFails
<1>5. CASE PMRestart
  BY <1>5 DEF PMRestart, RoundsKept
<1>6. CASE UNCHANGED pmVars
  BY <1>1, <1>6 DEF pmVars
<1>7. ASSUME NEW p \in Publishers, NEW r \in Requests, Call(p, r)
      PROVE  \A u \in Topics : RoundsKept(u)'
  BY <1>1, <1>7 DEF Call
<1> QED BY <1>2, <1>4, <1>5, <1>6, <1>7 DEF PMNext

\* Round robin deals out the partitions of a topic evenly, for any number of them,
\* of publishers and of picks, and whatever creations and restarts come between.
THEOREM RoundRobinIsEven == PMSpec => []RoundRobinEven
<1> DEFINE Inv == \A t \in Topics : RoundsKept(t)
<1>1. PMInit => Inv
  BY DEF PMInit, RoundsKept
<1>2. PMInv /\ Inv /\ [PMNext]_pmVars => Inv'
  BY RoundsInductive
<1>3. PMInv /\ Inv => RoundRobinEven
  <2> SUFFICES ASSUME PMInv, Inv, NEW t \in Topics,
                      NEW i \in 0 .. partitions[t] - 1, NEW j \in 0 .. partitions[t] - 1
               PROVE  picks[<<t, i>>] <= picks[<<t, j>>] + 1 + stale[t]
    BY DEF RoundRobinEven
  <2> DEFINE n == partitions[t]
             c == rr[t]
  <2>1. n \in Nat \ {0} /\ c \in Nat /\ n <= MaxPartitions
    BY PMAssumption DEF PMInv, PMTypeOK, PMAssumption
  <2>2. \A s \in 0 .. n - 1 : <<t, s>> \in Slots
    BY <2>1, PMAssumption DEF Slots, PMAssumption
  <2>3. picks[<<t, i>>] \in Nat /\ picks[<<t, j>>] \in Nat /\ stale[t] \in Nat
    BY <2>2 DEF PMInv, PMTypeOK
  <2>4. picks[<<t, i>>] <= Turns(c, n, i) /\ Turns(c, n, j) <= picks[<<t, j>>] + stale[t]
    BY <2>1 DEF RoundsKept
  <2>5. c \div n \in Nat
    <3> HIDE DEF c, n
    <3> QED BY <2>1, Quotient
  <2>6. Turns(c, n, i) \in {c \div n, c \div n + 1} /\ Turns(c, n, j) \in {c \div n, c \div n + 1}
    <3> HIDE DEF c, n
    <3> QED BY <2>5 DEF Turns
  <2> HIDE DEF c, n
  <2> QED BY <2>3, <2>4, <2>5, <2>6
<1> QED BY <1>1, <1>2, <1>3, PMInvariance, PTL DEF PMSpec
-----------------------------------------------------------------------------
(* The two-step append implements the atomic one.                          *)

\* What the mapping does when one publisher moves and only its slot grows.
LEMMA PendingFrame ==
  ASSUME PMInv, NEW p \in Publishers, NEW a, app' = [app EXCEPT ![p] = a],
         \A q \in Publishers \ {p} : app[q].pc = "pushed" => log'[app[q].slot] = log[app[q].slot]
  PROVE  [q \in Publishers |-> Pending(q)]' =
           [[q \in Publishers |-> Pending(q)] EXCEPT ![p] = Pending(p)']
<1>1. \A q \in Publishers \ {p} : app'[q] = app[q]
  BY DEF PMInv, PMTypeOK
<1>2. \A q \in Publishers \ {p} : Pending(q)' = Pending(q)
  BY <1>1 DEF Pending
<1> QED BY <1>2

\* Every step is a step of LogStorage or changes nothing of it.
LEMMA StepImplements ==
  ASSUME PMInv, [PMNext]_pmVars
  PROVE  [LS!LSNext]_(LS!lsVars)
<1> DEFINE op == [q \in Publishers |-> Pending(q)]
<1>1. app \in [Publishers -> AppType] /\ log \in [Slots -> Seq(Publishers)]
      /\ answer \in [Publishers -> Int]
  BY DEF PMInv, PMTypeOK, AppType
<1>2. ASSUME UNCHANGED <<log, answer>>, op' = op PROVE UNCHANGED LS!lsVars
  BY <1>2 DEF LS!lsVars
<1>3. CASE UNCHANGED pmVars
  BY <1>3 DEF pmVars, LS!lsVars, Pending
<1>4. ASSUME NEW t \in Topics, NEW n \in Sizes, CreateTopic(t, n)
      PROVE  UNCHANGED LS!lsVars
  BY <1>4 DEF CreateTopic, LS!lsVars, Pending
<1>5. ASSUME NEW p \in Publishers, NEW a, app' = [app EXCEPT ![p] = a], a.pc # "pushed",
             app[p].pc # "pushed", UNCHANGED <<log, answer>>
      PROVE  UNCHANGED LS!lsVars
  <2>1. Pending(p)' = Pending(p)
    BY <1>1, <1>5 DEF Pending
  <2>2. op' = [op EXCEPT ![p] = Pending(p)']
    BY <1>5, PendingFrame
  <2>3. op' = op
    BY <2>1, <2>2
  <2> QED BY <1>2, <1>5, <2>3
<1>6. ASSUME NEW p \in Publishers, Fail(p), UNCHANGED log
      PROVE  LS!LSFail(p)
  <2>1. app' = [app EXCEPT ![p] = IdleApp] /\ answer' = [answer EXCEPT ![p] = -1]
    BY <1>6 DEF Fail
  <2>2. Pending(p)' = LS!NoOp
    BY <1>1, <2>1, IdleAppTyped DEF Pending, LS!NoOp
  <2>3. op' = [op EXCEPT ![p] = Pending(p)']
    BY <1>6, <2>1, PendingFrame
  <2> QED BY <1>6, <2>1, <2>2, <2>3 DEF LS!LSFail
<1>7. ASSUME NEW p \in Publishers, Answer(p)
      PROVE  LS!LSAnswer(p)
  <2>1. /\ app[p].pc = "pushed" /\ app' = [app EXCEPT ![p] = IdleApp] /\ UNCHANGED log
        /\ answer' = [answer EXCEPT ![p] = Len(log[app[p].slot]) - 1]
    BY <1>7 DEF Answer, At
  <2>2. Pending(p)' = LS!NoOp
    BY <1>1, <2>1, IdleAppTyped DEF Pending, LS!NoOp
  <2>3. op' = [op EXCEPT ![p] = Pending(p)']
    BY <2>1, PendingFrame
  <2>4. Pending(p) = [at |-> {app[p].slot}, off |-> Len(log[app[p].slot]) - 1]
    BY <2>1 DEF Pending
  <2>5. op[p] # LS!NoOp /\ op[p].off = Len(log[app[p].slot]) - 1
    <3>1. op[p].at = {app[p].slot} /\ op[p].off = Len(log[app[p].slot]) - 1
      BY <2>4
    <3>2. op[p].at # LS!NoOp.at
      BY <3>1 DEF LS!NoOp
    <3> QED BY <3>1, <3>2
  <2> QED BY <2>1, <2>2, <2>3, <2>5 DEF LS!LSAnswer
<1>8. ASSUME NEW p \in Publishers, Push(p)
      PROVE  LS!LSStore(p, app[p].slot) /\ app[p].slot \in Slots
  <2> DEFINE k == app[p].slot
             a == [app[p] EXCEPT !.pc = "pushed"]
  <2>1. k \in Slots /\ log[k] \in Seq(Publishers) /\ app[p] \in AppType
    BY <1>1 DEF AppType
  <2>2. /\ app[p].pc \in {"locked", "pushed"} /\ UNCHANGED answer
        /\ log' = [log EXCEPT ![k] = Append(@, p)] /\ app' = [app EXCEPT ![p] = a]
    BY <1>1, <1>8 DEF Push, At
  <2>3. ASSUME NEW q \in Publishers \ {p}, app[q].pc = "pushed", app[q].slot = k
        PROVE  FALSE
    <3>1. Holds(p, k)
      BY <2>2 DEF Holds
    <3>2. Holds(q, k)
      BY <2>3 DEF Holds
    <3>3. SerializedAppends
      BY DEF PMInv
    <3> HIDE DEF k
    <3> QED BY <2>1, <3>1, <3>2, <3>3 DEF SerializedAppends
  <2>4. \A q \in Publishers \ {p} : app[q].pc = "pushed" => log'[app[q].slot] = log[app[q].slot]
    BY <1>1, <2>2, <2>3
  <2>5. op' = [op EXCEPT ![p] = Pending(p)']
    <3> HIDE DEF a
    <3> QED BY <2>2, <2>4, PendingFrame
  <2>6. app'[p].pc = "pushed" /\ app'[p].slot = k
    BY <1>1, <2>1, <2>2 DEF AppType
  <2>7. log'[k] = Append(log[k], p) /\ Len(log'[k]) - 1 = Len(log[k])
    BY <1>1, <2>1, <2>2
  <2>8. Pending(p)' = [at |-> {k}, off |-> Len(log[k])]
    BY <2>6, <2>7 DEF Pending
  <2>9. op[p].at \subseteq {k}
    BY <2>2 DEF Pending
  <2> QED BY <2>1, <2>2, <2>5, <2>8, <2>9 DEF LS!LSStore
<1>9. CASE PMRestart
  <2>1. /\ app' = [p \in Publishers |-> IdleApp] /\ answer' = [p \in Publishers |-> -1]
        /\ log' = log \/ log' = [k \in Slots |-> <<>>]
    BY <1>9 DEF PMRestart
  <2>2. \A p \in Publishers : Pending(p)' = LS!NoOp
    BY <2>1, IdleAppTyped DEF Pending, LS!NoOp
  <2>3. op' = [p \in Publishers |-> LS!NoOp]
    BY <2>2
  <2>4. LS!LSRestart
    BY <2>1, <2>3 DEF LS!LSRestart
  <2> QED BY <2>4 DEF LS!LSNext
<1>10. ASSUME NEW p \in Publishers, NEW part, At(p, "counted"), Choose(p, part), UNCHANGED <<log, answer>>
       PROVE  UNCHANGED LS!lsVars
  <2> DEFINE a == [app[p] EXCEPT !.slot = <<TopicOf(p), part>>, !.pc = "chosen"]
  <2>1. app' = [app EXCEPT ![p] = a] /\ app[p].pc # "pushed"
    BY <1>1, <1>10 DEF Choose, At, AppType
  <2>2. app[p] \in AppType
    BY <1>1
  <2>3. a.pc # "pushed"
    BY <2>2 DEF AppType
  <2> HIDE DEF a
  <2> QED BY <1>5, <1>10, <2>1, <2>3
<1>11. ASSUME NEW p \in Publishers, NEW r \in Requests, Call(p, r)
       PROVE  UNCHANGED LS!lsVars
  <2> DEFINE a == [app[p] EXCEPT !.pc = "called", !.req = r]
  <2>1. app' = [app EXCEPT ![p] = a] /\ app[p].pc # "pushed" /\ UNCHANGED <<log, answer>>
    BY <1>1, <1>11 DEF Call, At
  <2>2. app[p] \in AppType
    BY <1>1
  <2>3. a.pc # "pushed"
    BY <2>2 DEF AppType
  <2> HIDE DEF a
  <2> QED BY <1>5, <2>1, <2>3
<1>12. ASSUME NEW p \in Publishers, AppendStep(p)
       PROVE  [LS!LSNext]_(LS!lsVars)
  <2>0. app[p] \in AppType
    BY <1>1
  <2>1. CASE CountPartitions(p)
    <3> DEFINE a == [app[p] EXCEPT !.n = partitions[TopicOf(p)],
                                   !.pc = IF Known(TopicOf(p)) THEN "counted" ELSE "unknown"]
    <3>1. app' = [app EXCEPT ![p] = a] /\ app[p].pc # "pushed" /\ UNCHANGED <<log, answer>>
      BY <1>1, <2>1 DEF CountPartitions, At
    <3>2. a.pc # "pushed"
      BY <2>0 DEF AppType
    <3> HIDE DEF a
    <3> QED BY <1>5, <3>1, <3>2
  <2>2. CASE CreateImplicitly(p)
    <3> DEFINE a == [app[p] EXCEPT !.n = ImplicitCount, !.pc = "counted"]
    <3>1. app' = [app EXCEPT ![p] = a] /\ app[p].pc # "pushed" /\ UNCHANGED <<log, answer>>
      BY <1>1, <2>2 DEF CreateImplicitly, At
    <3>2. a.pc # "pushed"
      BY <2>0 DEF AppType
    <3> HIDE DEF a
    <3> QED BY <1>5, <3>1, <3>2
  <2>3. CASE ChooseByHint(p)
    <3>1. CASE Fail(p)
      BY <1>6, <2>3, <3>1 DEF ChooseByHint, LS!LSNext
    <3>2. CASE Choose(p, app[p].req.hint) /\ UNCHANGED answer
      BY <1>10, <2>3, <3>2 DEF ChooseByHint
    <3> QED BY <2>3, <3>1, <3>2 DEF ChooseByHint
  <2>4. CASE ChooseByKey(p)
    BY <1>10, <2>4 DEF ChooseByKey
  <2>5. CASE ChooseRoundRobin(p)
    BY <1>10, <2>5 DEF ChooseRoundRobin
  <2>6. CASE GetLock(p)
    <3> DEFINE m == IF locks[app[p].slot] = 0 THEN 1 ELSE locks[app[p].slot]
               a == [app[p] EXCEPT !.mutex = m, !.pc = "waiting"]
    <3>1. app' = [app EXCEPT ![p] = a] /\ app[p].pc # "pushed" /\ UNCHANGED <<log, answer>>
      BY <1>1, <2>6 DEF GetLock, At
    <3>2. a.pc # "pushed"
      BY <2>0 DEF AppType
    <3> HIDE DEF a
    <3> QED BY <1>5, <3>1, <3>2
  <2>7. CASE LockMutex(p)
    <3> DEFINE a == [app[p] EXCEPT !.pc = "locked"]
    <3>1. app' = [app EXCEPT ![p] = a] /\ app[p].pc # "pushed" /\ UNCHANGED <<log, answer>>
      BY <1>1, <2>7 DEF LockMutex, At
    <3>2. a.pc # "pushed"
      BY <2>0 DEF AppType
    <3> HIDE DEF a
    <3> QED BY <1>5, <3>1, <3>2
  <2>8. CASE Push(p)
    BY <1>8, <2>8 DEF LS!LSNext
  <2>9. CASE Answer(p)
    BY <1>7, <2>9 DEF LS!LSNext
  <2>10. CASE StoreFails(p)
    BY <1>6, <2>10 DEF StoreFails, LS!LSNext
  <2> QED BY <1>12, <2>1, <2>2, <2>3, <2>4, <2>5, <2>6, <2>7, <2>8, <2>9, <2>10 DEF AppendStep
<1> QED BY <1>3, <1>4, <1>9, <1>11, <1>12 DEF PMNext

\* The offset that Append returns is the index of its own message, although the
\* store asks for it in a second step, and whatever fails or restarts.
THEOREM AppendImplementsLogStorage == PMSpec => OffsetsAreIndexes
<1>1. PMInit => LS!LSInit
  <2> SUFFICES ASSUME PMInit PROVE LS!LSInit
    OBVIOUS
  <2>1. \A p \in Publishers : Pending(p) = LS!NoOp
    BY IdleAppTyped DEF PMInit, Pending, LS!NoOp
  <2> QED BY <2>1 DEF PMInit, LS!LSInit
<1>2. PMInv /\ [PMNext]_pmVars => [LS!LSNext]_(LS!lsVars)
  BY StepImplements
<1> QED BY <1>1, <1>2, PMInvariance, PTL DEF PMSpec, OffsetsAreIndexes, LS!LSSpec
=============================================================================

------------------------- MODULE TopicManagerProofs -------------------------
(***************************************************************************)
(* Proofs about TopicManager for every set of topics, creators and         *)
(* publishers.  The invariant of the partition manager is carried along    *)
(* with the lemmas of PartitionManagerProofs.                              *)
(***************************************************************************)
EXTENDS TopicManager, PartitionManagerProofs

CrType == [pc : {"idle", "checked", "inserted", "rejected"}, topic : Topics, n : 1 .. MaxPartitions]

\* Before InitBroker nothing exists and nobody is at work.
NothingServed ==
  ~serving => /\ \A t \in Topics : topics[t] = 0 /\ partitions[t] = 0 /\ created[t] = 0
              /\ \A c \in Creators : cr[c].pc = "idle"
              /\ \A p \in Publishers : app[p].pc = "idle"

\* Between the two sections under tm.mu a call owns the entry it has inserted,
\* and no call that created the topic has returned Ok.
InFlightOwnsEntry ==
  \A c \in Creators, t \in Topics : InFlight(c, t) =>
    topics[t] = cr[c].n /\ created[t] = 0

\* At most one call per topic is between its two sections.
OneInFlight ==
  \A t \in Topics, c, d \in Creators : InFlight(c, t) /\ InFlight(d, t) => c = d

\* A call that pm.CreateTopic has refused found the topic in pm.
RejectedIsKnown == \A c \in Creators : cr[c].pc = "rejected" => Known(cr[c].topic)

\* The inductive invariant.
TMInv ==
  /\ PMInv /\ TMTypeOK
  /\ NothingServed /\ InFlightOwnsEntry /\ OneInFlight /\ RejectedIsKnown
  /\ CatalogAgrees /\ CreatedStays
-----------------------------------------------------------------------------
\* A step of an append keeps the entry of every topic that pm knows.
LEMMA AppendKeepsKnown ==
  ASSUME PMInv, NEW p \in Publishers, AppendStep(p)
  PROVE  /\ \A t \in Topics : partitions[t] # 0 => partitions'[t] = partitions[t]
         /\ app[p].pc # "idle"
<1>1. TopicOf(p) \in Topics
  BY DEF PMInv, PMTypeOK, TopicOf
<1>2. CASE CreateImplicitly(p)
  <2>1. 1 \in 1 .. MaxPartitions
    BY PMAssumption DEF PMAssumption
  <2>2. PMCreateTopic(TopicOf(p), 1)
    BY <1>2 DEF CreateImplicitly, ImplicitCount
  <2> QED BY <1>1, <1>2, <2>1, <2>2, CreateFacts DEF CreateImplicitly, At
<1>3. CASE ~CreateImplicitly(p)
  <2>1. UNCHANGED partitions
    BY <1>3 DEF AppendStep, CountPartitions, ChooseByHint, ChooseByKey, ChooseRoundRobin,
                GetLock, LockMutex, Push, Answer, StoreFails
  <2>2. app[p].pc # "idle"
    BY <1>3 DEF AppendStep, CountPartitions, ChooseByHint, ChooseByKey, ChooseRoundRobin,
                GetLock, LockMutex, Push, Answer, StoreFails, At
  <2> QED BY <2>1, <2>2
<1> QED BY <1>2, <1>3

\* The partition manager is left alone.
LEMMA PMFrame ==
  ASSUME PMInv, UNCHANGED pmVars
  PROVE  PMInv'
BY DEF PMInv, PMTypeOK, CountKnown, SlotKnown, MutexMade, MutexIsCurrent,
       SerializedAppends, Holds, TopicOf, pmVars

\* Steps that touch only the partition manager, and keep what it knows.
LEMMA PMStepPreserves ==
  ASSUME TMInv, PMInv', UNCHANGED tmVars, serving,
         \A t \in Topics : partitions[t] # 0 => partitions'[t] = partitions[t]
  PROVE  TMInv'
<1>1. TMTypeOK'
  BY DEF TMInv, TMTypeOK, tmVars, PMInv
<1>2. NothingServed' /\ InFlightOwnsEntry' /\ OneInFlight'
  BY DEF TMInv, NothingServed, InFlightOwnsEntry, OneInFlight, InFlight, tmVars
<1>3. RejectedIsKnown'
  <2>1. \A c \in Creators : cr[c].topic \in Topics
    BY DEF TMInv, TMTypeOK
  <2> QED BY <2>1 DEF TMInv, RejectedIsKnown, Known, tmVars
<1>4. CatalogAgrees' /\ CreatedStays'
  BY DEF TMInv, CatalogAgrees, CreatedStays, TopicExists, InFlight, tmVars
<1> QED BY <1>1, <1>2, <1>3, <1>4 DEF TMInv
-----------------------------------------------------------------------------
LEMMA TMInitially == TMInit => TMInv
<1> SUFFICES ASSUME TMInit PROVE TMInv
  OBVIOUS
<1>1. PMInv
  BY PMInitially DEF TMInit
<1>2. IdleCr \in CrType
  BY PMAssumption, TMAssumption DEF IdleCr, CrType, PMAssumption, TMAssumption
<1>3. TMTypeOK
  <2>1. 0 \in 0 .. MaxPartitions
    BY PMAssumption DEF PMAssumption
  <2> QED BY <1>1, <1>2, <2>1 DEF TMInit, Booting, TMTypeOK, PMInv, CrType
<1>4. \A p \in Publishers : app[p].pc = "idle"
  BY IdleAppTyped DEF TMInit, PMInit
<1>5. \A c \in Creators : cr[c].pc = "idle"
  BY DEF TMInit, Booting, IdleCr
<1>6. \A t \in Topics : topics[t] = 0 /\ partitions[t] = 0 /\ created[t] = 0
  BY DEF TMInit, Booting, PMInit
<1> QED BY <1>1, <1>3, <1>4, <1>5, <1>6
        DEF TMInv, NothingServed, InFlightOwnsEntry, OneInFlight, RejectedIsKnown,
            InFlight, CatalogAgrees, CreatedStays, TopicExists

LEMMA InitBrokerPreserves == TMInv /\ InitBroker => TMInv'
<1> SUFFICES ASSUME TMInv, InitBroker PROVE TMInv'
  OBVIOUS
<1>1. /\ \A t \in Topics : topics[t] = 0 /\ partitions[t] = 0 /\ created[t] = 0
      /\ \A c \in Creators : cr[c].pc = "idle"
  BY DEF TMInv, NothingServed, InitBroker
<1>2. DefaultTopic \in Topics /\ 1 \in 1 .. MaxPartitions /\ 1 \in 0 .. MaxPartitions
  BY PMAssumption, TMAssumption DEF PMAssumption, TMAssumption
<1>3. PMInv'
  BY <1>2, CreatePreserves DEF TMInv, InitBroker
<1>4. /\ topics' = [topics EXCEPT ![DefaultTopic] = 1]
      /\ created' = [created EXCEPT ![DefaultTopic] = 1]
      /\ partitions' = [partitions EXCEPT ![DefaultTopic] = 1]
      /\ cr' = cr /\ serving'
  BY <1>1, <1>2 DEF InitBroker, CreateTopic, PMCreateTopic, Known
<1>5. TMTypeOK'
  BY <1>2, <1>3, <1>4 DEF TMInv, TMTypeOK, PMInv
<1>6. /\ topics \in [Topics -> 0 .. MaxPartitions] /\ created \in [Topics -> 0 .. MaxPartitions]
      /\ partitions \in [Topics -> 0 .. MaxPartitions]
  BY DEF TMInv, TMTypeOK, PMTypeOK
<1>7. \A t \in Topics : topics'[t] = partitions'[t] /\ created'[t] = topics'[t]
  BY <1>1, <1>2, <1>4, <1>6
<1>8. CatalogAgrees' /\ CreatedStays'
  BY <1>7 DEF CatalogAgrees, CreatedStays
<1> QED BY <1>1, <1>3, <1>4, <1>5, <1>8
        DEF TMInv, NothingServed, InFlightOwnsEntry, OneInFlight, RejectedIsKnown, InFlight

LEMMA BrokerCreatePreserves ==
  ASSUME TMInv, NEW c \in Creators, NEW t \in Topics, NEW n \in Sizes, BrokerCreateTopic(c, t, n)
  PROVE  TMInv'
<1>1. UNCHANGED pmVars /\ UNCHANGED <<topics, serving, created>> /\ serving
  BY DEF BrokerCreateTopic
<1>2. cr \in [Creators -> CrType] /\ n \in 1 .. MaxPartitions
  BY PMAssumption DEF TMInv, TMTypeOK, CrType, PMAssumption
<1>3. cr' = [cr EXCEPT ![c] = [pc |-> "checked", topic |-> t, n |-> n]] /\ cr[c].pc = "idle"
  BY DEF BrokerCreateTopic
<1>4. /\ cr' \in [Creators -> CrType]
      /\ \A d \in Creators : cr'[d] = IF d = c THEN [pc |-> "checked", topic |-> t, n |-> n] ELSE cr[d]
  BY <1>2, <1>3 DEF CrType
<1>5. PMInv'
  BY <1>1, PMFrame DEF TMInv
<1>6. TMTypeOK'
  BY <1>1, <1>4, <1>5 DEF TMInv, TMTypeOK, PMInv, CrType
<1>7. \A d \in Creators, u \in Topics : InFlight(d, u)' <=> InFlight(d, u)
  BY <1>3, <1>4 DEF InFlight
<1>8. NothingServed'
  BY <1>1 DEF NothingServed
<1>9. InFlightOwnsEntry' /\ OneInFlight' /\ RejectedIsKnown'
  <2>1. \A d \in Creators, u \in Topics : InFlight(d, u) => cr'[d] = cr[d]
    BY <1>3, <1>4 DEF InFlight
  <2>2. InFlightOwnsEntry'
    BY <1>1, <1>7, <2>1 DEF TMInv, InFlightOwnsEntry
  <2>3. OneInFlight'
    BY <1>7 DEF TMInv, OneInFlight
  <2>4. RejectedIsKnown'
    BY <1>1, <1>3, <1>4 DEF TMInv, RejectedIsKnown, Known, pmVars
  <2> QED BY <2>2, <2>3, <2>4
<1>10. CatalogAgrees'
  <2>1. \A u \in Topics : topics'[u] = topics[u] /\ partitions'[u] = partitions[u]
    BY <1>1 DEF pmVars
  <2> QED BY <1>7, <2>1 DEF TMInv, CatalogAgrees, TopicExists
<1>11. CreatedStays'
  BY <1>1 DEF TMInv, CreatedStays, pmVars
<1> QED BY <1>5, <1>6, <1>8, <1>9, <1>10, <1>11 DEF TMInv

LEMMA InsertPreserves ==
  ASSUME TMInv, NEW c \in Creators, InsertTopic(c)
  PROVE  TMInv'
<1> DEFINE t == cr[c].topic
           n == cr[c].n
<1>1. /\ UNCHANGED pmVars /\ UNCHANGED <<serving, created>> /\ cr[c].pc = "checked" /\ serving
      /\ partitions' = partitions
  BY DEF InsertTopic, TMInv, NothingServed, pmVars
<1>2. /\ cr \in [Creators -> CrType] /\ t \in Topics /\ n \in 1 .. MaxPartitions
      /\ topics \in [Topics -> 0 .. MaxPartitions]
  BY DEF TMInv, TMTypeOK, CrType
<1>3. PMInv' /\ NothingServed'
  BY <1>1, PMFrame DEF TMInv, NothingServed
<1>4. CASE TopicExists(t) /\ cr' = [cr EXCEPT ![c] = IdleCr] /\ UNCHANGED topics
  <2>1. IdleCr \in CrType
    BY PMAssumption, TMAssumption DEF IdleCr, CrType, PMAssumption, TMAssumption
  <2>2. TMTypeOK'
    BY <1>1, <1>2, <1>3, <1>4, <2>1 DEF TMInv, TMTypeOK, PMInv, CrType
  <2>3. \A d \in Creators, u \in Topics : InFlight(d, u)' <=> InFlight(d, u)
    BY <1>1, <1>2, <1>4 DEF InFlight, IdleCr
  <2>4. \A d \in Creators, u \in Topics : InFlight(d, u) => cr'[d] = cr[d]
    BY <1>1, <1>2, <1>4 DEF InFlight
  <2>5. InFlightOwnsEntry' /\ OneInFlight'
    BY <1>1, <1>4, <2>3, <2>4 DEF TMInv, InFlightOwnsEntry, OneInFlight
  <2>6. RejectedIsKnown'
    BY <1>1, <1>2, <1>4 DEF TMInv, RejectedIsKnown, Known, IdleCr
  <2>7. CatalogAgrees' /\ CreatedStays'
    BY <1>1, <1>4, <2>3 DEF TMInv, CatalogAgrees, CreatedStays, TopicExists
  <2> QED BY <1>3, <2>2, <2>5, <2>6, <2>7 DEF TMInv
<1>5. CASE /\ ~TopicExists(t) /\ topics' = [topics EXCEPT ![t] = n]
           /\ cr' = [cr EXCEPT ![c].pc = "inserted"]
  <2>1. cr'[c].pc = "inserted" /\ cr'[c].topic = t /\ cr'[c].n = n /\ cr'[c] \in CrType
    BY <1>2, <1>5 DEF CrType
  <2>2. /\ \A d \in Creators \ {c} : cr'[d] = cr[d]
        /\ cr' \in [Creators -> CrType] /\ topics' \in [Topics -> 0 .. MaxPartitions]
        /\ topics'[t] = n /\ \A u \in Topics \ {t} : topics'[u] = topics[u]
    BY <1>2, <1>5, <2>1
  <2>3. TMTypeOK'
    BY <1>1, <1>3, <2>2 DEF TMInv, TMTypeOK, PMInv, CrType
  <2>4. topics[t] = 0 /\ created[t] = 0
    <3>1. created[t] # 0 => topics[t] = created[t]
      BY <1>2 DEF TMInv, CreatedStays
    <3> QED BY <1>5, <3>1 DEF TopicExists
  <2>5. \A d \in Creators : ~InFlight(d, t)
    BY <1>2, <2>4 DEF TMInv, TMTypeOK, InFlightOwnsEntry
  <2>6. \A d \in Creators, u \in Topics : InFlight(d, u)' <=> (InFlight(d, u) \/ (d = c /\ u = t))
    <3>1. \A u \in Topics : ~InFlight(c, u) /\ (InFlight(c, u)' <=> u = t)
      BY <1>1, <2>1 DEF InFlight
    <3>2. \A d \in Creators \ {c}, u \in Topics : InFlight(d, u)' <=> InFlight(d, u)
      BY <2>2 DEF InFlight
    <3> QED BY <3>1, <3>2
  <2>7. InFlightOwnsEntry'
    <3> SUFFICES ASSUME NEW d \in Creators, NEW u \in Topics, InFlight(d, u)'
                 PROVE  topics'[u] = cr'[d].n /\ created'[u] = 0
      BY DEF InFlightOwnsEntry
    <3>1. CASE d = c /\ u = t
      BY <1>1, <2>1, <2>2, <2>4, <3>1
    <3>2. CASE InFlight(d, u)
      <4>1. d # c /\ u # t /\ topics[u] = cr[d].n /\ created[u] = 0
        BY <1>1, <2>5, <3>2 DEF InFlight, TMInv, InFlightOwnsEntry
      <4> QED BY <1>1, <2>2, <4>1
    <3> QED BY <2>6, <3>1, <3>2
  <2>8. OneInFlight'
    <3> SUFFICES ASSUME NEW u \in Topics, NEW d \in Creators, NEW e \in Creators,
                        InFlight(d, u)', InFlight(e, u)'
                 PROVE  d = e
      BY DEF OneInFlight
    <3> QED BY <2>5, <2>6 DEF TMInv, OneInFlight
  <2>9. RejectedIsKnown'
    BY <1>1, <2>1, <2>2 DEF TMInv, RejectedIsKnown, Known
  <2>10. CatalogAgrees'
    <3> SUFFICES ASSUME NEW u \in Topics, TopicExists(u)', \A d \in Creators : ~InFlight(d, u)'
                 PROVE  partitions'[u] = topics'[u]
      BY DEF CatalogAgrees
    <3>1. u # t /\ \A d \in Creators : ~InFlight(d, u)
      BY <1>2, <2>6
    <3>2. topics'[u] = topics[u] /\ topics[u] # 0
      BY <2>2, <3>1 DEF TopicExists
    <3> QED BY <1>1, <3>1, <3>2 DEF TMInv, CatalogAgrees, TopicExists
  <2>11. CreatedStays'
    BY <1>1, <2>2, <2>4 DEF TMInv, CreatedStays
  <2> QED BY <1>3, <2>3, <2>7, <2>8, <2>9, <2>10, <2>11 DEF TMInv
<1> QED BY <1>4, <1>5 DEF InsertTopic

LEMMA InitPartitionsPreserves ==
  ASSUME TMInv, NEW c \in Creators, InitPartitions(c)
  PROVE  TMInv'
<1> DEFINE t == cr[c].topic
           n == cr[c].n
<1>1. cr[c].pc = "inserted" /\ serving /\ UNCHANGED <<topics, serving>> /\ CreateTopic(t, n)
  BY DEF InitPartitions, TMInv, NothingServed
<1>2. /\ cr \in [Creators -> CrType] /\ t \in Topics /\ n \in 1 .. MaxPartitions
      /\ created \in [Topics -> 0 .. MaxPartitions] /\ partitions \in [Topics -> 0 .. MaxPartitions]
  BY DEF TMInv, TMTypeOK, CrType, PMTypeOK
<1>3. PMInv' /\ NothingServed'
  BY <1>1, <1>2, CreatePreserves DEF TMInv, NothingServed
<1>4. /\ InFlight(c, t) /\ topics[t] = n /\ created[t] = 0
      /\ \A d \in Creators : InFlight(d, t) => d = c
  BY <1>1, <1>2 DEF InFlight, TMInv, InFlightOwnsEntry, OneInFlight
<1>5. CASE Known(t) /\ cr' = [cr EXCEPT ![c].pc = "rejected"] /\ UNCHANGED created
  <2>1. partitions' = partitions
    BY <1>1, <1>5 DEF CreateTopic, PMCreateTopic
  <2>2. cr'[c].pc = "rejected" /\ cr'[c].topic = t /\ cr'[c].n = n /\ cr'[c] \in CrType
    BY <1>2, <1>5 DEF CrType
  <2>3. cr' \in [Creators -> CrType] /\ \A d \in Creators \ {c} : cr'[d] = cr[d]
    BY <1>2, <1>5, <2>2
  <2>4. TMTypeOK'
    BY <1>1, <1>3, <1>5, <2>3 DEF TMInv, TMTypeOK, PMInv, CrType
  <2>5. \A d \in Creators, u \in Topics : InFlight(d, u)' <=> InFlight(d, u)
    BY <1>1, <2>2, <2>3 DEF InFlight
  <2>6. \A d \in Creators : cr'[d].n = cr[d].n
    BY <2>2, <2>3
  <2>7. InFlightOwnsEntry' /\ OneInFlight'
    BY <1>1, <1>5, <2>5, <2>6 DEF TMInv, InFlightOwnsEntry, OneInFlight
  <2>8. RejectedIsKnown'
    BY <1>5, <2>1, <2>2, <2>3 DEF TMInv, RejectedIsKnown, Known
  <2>9. CatalogAgrees' /\ CreatedStays'
    BY <1>1, <1>5, <2>1, <2>5 DEF TMInv, CatalogAgrees, CreatedStays, TopicExists
  <2> QED BY <1>3, <2>4, <2>7, <2>8, <2>9 DEF TMInv
<1>6. CASE ~Known(t) /\ cr' = [cr EXCEPT ![c] = IdleCr] /\ created' = [created EXCEPT ![t] = n]
  <2>1. partitions' = [partitions EXCEPT ![t] = n]
    BY <1>1, <1>6 DEF CreateTopic, PMCreateTopic
  <2>2. /\ partitions'[t] = n /\ created'[t] = n
        /\ \A u \in Topics \ {t} : partitions'[u] = partitions[u] /\ created'[u] = created[u]
        /\ created' \in [Topics -> 0 .. MaxPartitions]
    BY <1>2, <1>6, <2>1
  <2>3. IdleCr \in CrType
    BY PMAssumption, TMAssumption DEF IdleCr, CrType, PMAssumption, TMAssumption
  <2>4. cr' \in [Creators -> CrType] /\ cr'[c].pc = "idle" /\ \A d \in Creators \ {c} : cr'[d] = cr[d]
    BY <1>2, <1>6, <2>3 DEF IdleCr
  <2>5. TMTypeOK'
    BY <1>1, <1>3, <2>2, <2>4 DEF TMInv, TMTypeOK, PMInv, CrType
  <2>6. \A d \in Creators, u \in Topics : InFlight(d, u)' <=> (InFlight(d, u) /\ d # c)
    BY <2>4 DEF InFlight
  <2>7. \A d \in Creators, u \in Topics : InFlight(d, u)' => u # t
    BY <1>4, <2>6
  <2>8. InFlightOwnsEntry' /\ OneInFlight'
    BY <1>1, <2>2, <2>4, <2>6, <2>7 DEF TMInv, InFlightOwnsEntry, OneInFlight
  <2>9. RejectedIsKnown'
    <3>1. \A d \in Creators \ {c} : cr[d].topic \in Topics
      BY <1>2 DEF CrType
    <3> QED BY <1>2, <2>2, <2>4, <3>1 DEF TMInv, RejectedIsKnown, Known
  <2>10. CatalogAgrees'
    <3> SUFFICES ASSUME NEW u \in Topics, TopicExists(u)', \A d \in Creators : ~InFlight(d, u)'
                 PROVE  partitions'[u] = topics'[u]
      BY DEF CatalogAgrees
    <3>1. CASE u = t
      BY <1>1, <1>4, <2>2, <3>1
    <3>2. CASE u # t
      <4>1. \A d \in Creators : ~InFlight(d, u)
        BY <1>2, <2>6, <3>2 DEF InFlight
      <4> QED BY <1>1, <2>2, <3>2, <4>1 DEF TMInv, CatalogAgrees, TopicExists
    <3> QED BY <3>1, <3>2
  <2>11. CreatedStays'
    BY <1>1, <1>4, <2>2 DEF TMInv, CreatedStays
  <2> QED BY <1>3, <2>5, <2>8, <2>9, <2>10, <2>11 DEF TMInv
<1> QED BY <1>5, <1>6 DEF InitPartitions

LEMMA RemovePreserves ==
  ASSUME TMInv, NEW c \in Creators, RemoveMetadata(c)
  PROVE  TMInv'
<1> DEFINE t == cr[c].topic
<1>1. /\ UNCHANGED pmVars /\ UNCHANGED <<serving, created>> /\ cr[c].pc = "rejected" /\ serving
      /\ partitions' = partitions
      /\ topics' = [topics EXCEPT ![t] = 0] /\ cr' = [cr EXCEPT ![c] = IdleCr]
  BY DEF RemoveMetadata, TMInv, NothingServed, pmVars
<1>2. /\ cr \in [Creators -> CrType] /\ t \in Topics
      /\ topics \in [Topics -> 0 .. MaxPartitions]
  BY DEF TMInv, TMTypeOK, CrType
<1>3. PMInv' /\ NothingServed'
  BY <1>1, PMFrame DEF TMInv, NothingServed
<1>4. /\ InFlight(c, t) /\ created[t] = 0
      /\ \A d \in Creators : InFlight(d, t) => d = c
  BY <1>1, <1>2 DEF InFlight, TMInv, InFlightOwnsEntry, OneInFlight
<1>5. IdleCr \in CrType /\ 0 \in 0 .. MaxPartitions
  BY PMAssumption, TMAssumption DEF IdleCr, CrType, PMAssumption, TMAssumption
<1>6. /\ topics'[t] = 0 /\ \A u \in Topics \ {t} : topics'[u] = topics[u]
      /\ topics' \in [Topics -> 0 .. MaxPartitions]
  BY <1>1, <1>2, <1>5
<1>7. cr' \in [Creators -> CrType] /\ cr'[c].pc = "idle" /\ \A d \in Creators \ {c} : cr'[d] = cr[d]
  BY <1>1, <1>2, <1>5 DEF IdleCr
<1>8. TMTypeOK'
  BY <1>1, <1>3, <1>6, <1>7 DEF TMInv, TMTypeOK, PMInv, CrType
<1>9. \A d \in Creators, u \in Topics : InFlight(d, u)' <=> (InFlight(d, u) /\ d # c)
  BY <1>7 DEF InFlight
<1>10. \A d \in Creators, u \in Topics : InFlight(d, u)' => u # t
  BY <1>4, <1>9
<1>11. InFlightOwnsEntry' /\ OneInFlight'
  BY <1>1, <1>6, <1>7, <1>9, <1>10 DEF TMInv, InFlightOwnsEntry, OneInFlight
<1>12. RejectedIsKnown'
  BY <1>1, <1>7 DEF TMInv, RejectedIsKnown, Known
<1>13. CatalogAgrees'
  <2> SUFFICES ASSUME NEW u \in Topics, TopicExists(u)', \A d \in Creators : ~InFlight(d, u)'
               PROVE  partitions'[u] = topics'[u]
    BY DEF CatalogAgrees
  <2>1. u # t
    BY <1>6 DEF TopicExists
  <2>2. \A d \in Creators : ~InFlight(d, u)
    BY <1>2, <1>9, <2>1 DEF InFlight
  <2> QED BY <1>1, <1>6, <2>1, <2>2 DEF TMInv, CatalogAgrees, TopicExists
<1>14. CreatedStays'
  BY <1>1, <1>4, <1>6 DEF TMInv, CreatedStays
<1> QED BY <1>3, <1>8, <1>11, <1>12, <1>13, <1>14 DEF TMInv

LEMMA TMRestartPreserves == TMInv /\ Restart => TMInv'
<1> SUFFICES ASSUME TMInv, Restart PROVE TMInv'
  OBVIOUS
<1>1. PMInv'
  BY RestartPreserves DEF TMInv, Restart
<1>2. IdleCr \in CrType /\ 0 \in 0 .. MaxPartitions
  BY PMAssumption, TMAssumption DEF IdleCr, CrType, PMAssumption, TMAssumption
<1>3. TMTypeOK'
  BY <1>1, <1>2 DEF Restart, TMTypeOK, PMInv, CrType
<1>4. /\ \A p \in Publishers : app'[p].pc = "idle"
      /\ \A c \in Creators : cr'[c].pc = "idle"
      /\ \A t \in Topics : topics'[t] = 0 /\ partitions'[t] = 0 /\ created'[t] = 0
  BY IdleAppTyped DEF Restart, PMRestart, IdleCr
<1> QED BY <1>1, <1>3, <1>4
        DEF TMInv, NothingServed, InFlightOwnsEntry, OneInFlight, RejectedIsKnown,
            InFlight, CatalogAgrees, CreatedStays, TopicExists
-----------------------------------------------------------------------------
LEMMA TMInductive ==
  ASSUME TMInv, [TMNext]_vars
  PROVE  TMInv'
<1>1. ASSUME NEW c \in Creators, NEW t \in Topics, NEW n \in Sizes, BrokerCreateTopic(c, t, n)
      PROVE  TMInv'
  BY <1>1, BrokerCreatePreserves
<1>2. ASSUME NEW c \in Creators, InsertTopic(c) \/ InitPartitions(c) \/ RemoveMetadata(c)
      PROVE  TMInv'
  BY <1>2, InsertPreserves, InitPartitionsPreserves, RemovePreserves
<1>3. ASSUME NEW p \in Publishers, NEW r \in Requests, Publish(p, r)
      PROVE  TMInv'
  <2>1. serving /\ Call(p, r) /\ UNCHANGED tmVars /\ UNCHANGED partitions
    BY <1>3 DEF Publish, Call
  <2>2. PMInv'
    BY <2>1, CallPreserves DEF TMInv
  <2> QED BY <2>1, <2>2, PMStepPreserves
<1>4. ASSUME NEW p \in Publishers, AppendStep(p), UNCHANGED tmVars
      PROVE  TMInv'
  <2>1. PMInv' /\ app[p].pc # "idle" /\ \A t \in Topics : partitions[t] # 0 => partitions'[t] = partitions[t]
    BY <1>4, AppendPreserves, AppendKeepsKnown DEF TMInv
  <2>2. serving
    BY <2>1 DEF TMInv, NothingServed
  <2> QED BY <1>4, <2>1, <2>2, PMStepPreserves
<1>5. CASE UNCHANGED vars
  <2>1. UNCHANGED pmVars /\ UNCHANGED tmVars /\ UNCHANGED <<partitions, app>>
    BY <1>5 DEF vars, pmVars
  <2>2. PMInv'
    BY <2>1, PMFrame DEF TMInv
  <2>3. CASE serving
    BY <2>1, <2>2, <2>3, PMStepPreserves
  <2>4. CASE ~serving
    BY <2>1, <2>2, <2>4 DEF TMInv, TMTypeOK, NothingServed, InFlightOwnsEntry, OneInFlight,
       RejectedIsKnown, InFlight, CatalogAgrees, CreatedStays, TopicExists, Known, tmVars, PMInv
  <2> QED BY <2>3, <2>4
<1> QED
  BY <1>1, <1>2, <1>3, <1>4, <1>5, InitBrokerPreserves, TMRestartPreserves DEF TMNext

\* The invariant holds of every behaviour of the topic manager.
THEOREM TMInvariance == TMSpec => []TMInv
<1>1. TMInv /\ [TMNext]_vars => TMInv'
  BY TMInductive
<1> QED BY TMInitially, <1>1, PTL DEF TMSpec

\* Type correctness.
THEOREM TMTypeCorrect == TMSpec => []TMTypeOK
<1>1. TMInv => TMTypeOK
  BY DEF TMInv
<1> QED BY <1>1, TMInvariance, PTL

\* The two catalogues agree on every listed topic that no CreateTopic is at
\* work on, however publishes and creations interleave.
THEOREM CataloguesAgree == TMSpec => []CatalogAgrees
<1>1. TMInv => CatalogAgrees
  BY DEF TMInv
<1> QED BY <1>1, TMInvariance, PTL

\* Until a restart a topic whose creation was answered Ok keeps its partitions.
THEOREM CreatedTopicsStay == TMSpec => []CreatedStays
<1>1. TMInv => CreatedStays
  BY DEF TMInv
<1> QED BY <1>1, TMInvariance, PTL

\* Also with InitBroker and the checks of Broker around it, appends to one
\* partition never overlap and never use a replaced mutex.
THEOREM ServerSerializesAppends == TMSpec => [](SerializedAppends /\ MutexIsCurrent)
<1>1. TMInv => SerializedAppends /\ MutexIsCurrent
  BY DEF TMInv, PMInv
<1> QED BY <1>1, TMInvariance, PTL
=============================================================================

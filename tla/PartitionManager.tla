-------------------------- MODULE PartitionManager --------------------------
(***************************************************************************)
(* Partition metadata, partition selection and serialized appends          *)
(* (internal/broker/partition_manager.go) over a store whose Append stores *)
(* the message and asks for its offset in two steps, as RedisStore does    *)
(* (internal/storage/redis_store.go); the append of the in-memory store is *)
(* the case where nothing happens between the two.                         *)
(*                                                                         *)
(* A mutex is named by its slot and by how many mutexes had been created   *)
(* for that slot: CreateTopic puts new ones into the map.                  *)
(***************************************************************************)
EXTENDS Integers, Sequences, FiniteSets

CONSTANTS
  Topics,
  Sizes,        \* partition counts that CreateTopic is called with
  Publishers,   \* goroutines that call Append, one call at a time each
  MsgKeys,      \* message keys
  NoKey,        \* the empty message key
  Hash,         \* Hash[key]: 32-bit FNV-1a of the key
  Hints,        \* partition hints of publish requests, negative for "auto"
  MaxPartitions,\* largest partition count a topic may have (1024)
  Durable,      \* whether the store outlives the process (Redis, Postgres)
  MaxLog,       \* bound on the messages per slot
  MaxPicks      \* bound on the round-robin counter of a topic

ASSUME PMAssumption ==
  /\ Topics # {}
  /\ MaxPartitions \in Nat \ {0}
  /\ Sizes \subseteq 1 .. MaxPartitions
  /\ NoKey \notin MsgKeys
  /\ Hash \in [MsgKeys -> Nat]
  /\ Hints \subseteq Int
  /\ Durable \in BOOLEAN
  /\ MaxLog \in Nat /\ MaxPicks \in Nat

Slots    == Topics \X (0 .. MaxPartitions - 1)   \* tpKey(topic, partition)
Requests == [topic : Topics, hint : Hints, key : MsgKeys \cup {NoKey}]

VARIABLES
  partitions,   \* partitions[t]: pm.partitions, 0 for "no entry"
  rr,           \* rr[t]: the round-robin counter (a missing one counts as 0)
  locks,        \* locks[k]: mutexes created for slot k; the last is in pm.locks
  app,          \* Append goroutines: pc, request, partition count, slot, mutex
  log,          \* log[k]: the stored messages, each the goroutine that sent it
  answer        \* answer[p]: result of p's last Append: an offset, -1 for an error

VARIABLES      \* history: how often roundRobin chose each slot with the topic's
  picks,        \* partition count, and how often with another one
  stale

pmVars == <<partitions, rr, locks, app, log, answer, picks, stale>>

IdleApp == [pc |-> "idle", req |-> [topic |-> CHOOSE t \in Topics : TRUE, hint |-> -1, key |-> NoKey],
            n |-> 0, slot |-> <<CHOOSE t \in Topics : TRUE, 0>>, mutex |-> 0]

\* NewPartitionManager over an empty store.
PMInit ==
  /\ partitions = [t \in Topics |-> 0]
  /\ rr = [t \in Topics |-> 0]
  /\ locks = [k \in Slots |-> 0]
  /\ app = [p \in Publishers |-> IdleApp]
  /\ log = [k \in Slots |-> <<>>]
  /\ answer = [p \in Publishers |-> -1]
  /\ picks = [k \in Slots |-> 0]
  /\ stale = [t \in Topics |-> 0]
-----------------------------------------------------------------------------
KnownToNobody(t) == FALSE   \* mutant of Known: CreateTopic does not look

Known(t) == partitions[t] # 0

\* CreateTopic under pm.mu: nothing happens to a topic that exists already.
PMCreateTopic(t, n) ==
  IF Known(t)
  THEN UNCHANGED <<partitions, rr, locks>>
  ELSE /\ partitions' = [partitions EXCEPT ![t] = n]
       /\ rr' = [rr EXCEPT ![t] = 0]
       /\ locks' = [k \in Slots |-> IF k[1] = t /\ k[2] < n THEN locks[k] + 1 ELSE locks[k]]

\* A caller other than Append (TopicManager.CreateTopic).
CreateTopic(t, n) ==
  /\ PMCreateTopic(t, n)
  /\ UNCHANGED <<app, log, answer, picks, stale>>
-----------------------------------------------------------------------------
(* Append *)

At(p, pc)     == app[p].pc = pc
TopicOf(p)    == app[p].req.topic
Holds(p, k)   == app[p].pc \in {"locked", "pushed"} /\ app[p].slot = k

Call(p, r) ==
  /\ At(p, "idle")
  /\ app' = [app EXCEPT ![p].pc = "called", ![p].req = r]
  /\ UNCHANGED <<partitions, rr, locks, log, answer, picks, stale>>

\* partitions := pm.GetPartitionCount(topic)
CountPartitions(p) ==
  /\ At(p, "called")
  /\ app' = [app EXCEPT ![p].n = partitions[TopicOf(p)],
                        ![p].pc = IF Known(TopicOf(p)) THEN "counted" ELSE "unknown"]
  /\ UNCHANGED <<partitions, rr, locks, log, answer, picks, stale>>

\* Mutants of ImplicitCount.
ImplicitCountTwo == 2
ImplicitCountThree == 3

\* The partitions of a topic that Append creates.
ImplicitCount == 1

\* The topic was unknown: create it; the error of losing that race is ignored.
CreateImplicitly(p) ==
  /\ At(p, "unknown")
  /\ PMCreateTopic(TopicOf(p), ImplicitCount)
  /\ app' = [app EXCEPT ![p].n = ImplicitCount, ![p].pc = "counted"]
  /\ UNCHANGED <<log, answer, picks, stale>>

Choose(p, part) ==
  app' = [app EXCEPT ![p].slot = <<TopicOf(p), part>>, ![p].pc = "chosen"]

\* Return of an error: a held mutex is released (deferred Unlock).
Fail(p) ==
  /\ app' = [app EXCEPT ![p] = IdleApp]
  /\ answer' = [answer EXCEPT ![p] = -1]

ChooseByHint(p) ==
  /\ At(p, "counted")
  /\ app[p].req.hint >= 0
  /\ \/ app[p].req.hint < app[p].n /\ Choose(p, app[p].req.hint) /\ UNCHANGED answer
     \/ app[p].req.hint >= app[p].n /\ Fail(p)
  /\ UNCHANGED <<partitions, rr, locks, log, picks, stale>>

ChooseByKey(p) ==
  /\ At(p, "counted")
  /\ app[p].req.hint < 0 /\ app[p].req.key # NoKey
  /\ Choose(p, Hash[app[p].req.key] % app[p].n)
  /\ UNCHANGED <<partitions, rr, locks, log, answer, picks, stale>>

SameCount(t) == rr[t]   \* mutant: the counter is read and not incremented

\* The value of atomic.AddInt64(ptr, 1).
NextCount(t) == rr[t] + 1

ChooseRoundRobin(p) ==
  LET t == TopicOf(p)
      part == NextCount(t) % app[p].n
  IN  /\ At(p, "counted")
      /\ app[p].req.hint < 0 /\ app[p].req.key = NoKey
      /\ rr[t] < MaxPicks
      /\ rr' = [rr EXCEPT ![t] = NextCount(t)]
      /\ Choose(p, part)
      /\ \/ /\ app[p].n = partitions[t]
            /\ picks' = [picks EXCEPT ![<<t, part>>] = @ + 1]
            /\ UNCHANGED stale
         \/ /\ app[p].n # partitions[t]
            /\ stale' = [stale EXCEPT ![t] = @ + 1]
            /\ UNCHANGED picks
      /\ UNCHANGED <<partitions, locks, log, answer>>

\* getLock: the mutex in the map, or a new one if there is none.
GetLock(p) ==
  LET k == app[p].slot
      m == IF locks[k] = 0 THEN 1 ELSE locks[k]
  IN  /\ At(p, "chosen")
      /\ locks' = [locks EXCEPT ![k] = m]
      /\ app' = [app EXCEPT ![p].mutex = m, ![p].pc = "waiting"]
      /\ UNCHANGED <<partitions, rr, log, answer, picks, stale>>

MutexIgnored(p) == TRUE   \* mutant: no lock around store.Append

MutexFree(p) ==
  \A q \in Publishers : Holds(q, app[p].slot) => app[q].mutex # app[p].mutex

LockMutex(p) ==
  /\ At(p, "waiting")
  /\ MutexFree(p)
  /\ app' = [app EXCEPT ![p].pc = "locked"]
  /\ UNCHANGED <<partitions, rr, locks, log, answer, picks, stale>>

\* RPUSH; the Redis client repeats a command whose reply it has lost, and the
\* message is then in the list twice.  Assumed: a command is not executed any
\* more once the client has given it up and the mutex is free.
Push(p) ==
  LET k == app[p].slot
  IN  /\ At(p, "locked") \/ At(p, "pushed")
      /\ Len(log[k]) < MaxLog
      /\ log' = [log EXCEPT ![k] = Append(@, p)]
      /\ app' = [app EXCEPT ![p].pc = "pushed"]
      /\ UNCHANGED <<partitions, rr, locks, answer, picks, stale>>

\* LLEN, and the return with its Unlock: the offset is the new length - 1.
Answer(p) ==
  /\ At(p, "pushed")
  /\ answer' = [answer EXCEPT ![p] = Len(log[app[p].slot]) - 1]
  /\ app' = [app EXCEPT ![p] = IdleApp]
  /\ UNCHANGED <<partitions, rr, locks, log, picks, stale>>

\* RPUSH or LLEN returns an error.
StoreFails(p) ==
  /\ At(p, "locked") \/ At(p, "pushed")
  /\ Fail(p)
  /\ UNCHANGED <<partitions, rr, locks, log, picks, stale>>

AppendStep(p) ==
  \/ CountPartitions(p) \/ CreateImplicitly(p)
  \/ ChooseByHint(p) \/ ChooseByKey(p) \/ ChooseRoundRobin(p)
  \/ GetLock(p) \/ LockMutex(p) \/ Push(p) \/ Answer(p) \/ StoreFails(p)
-----------------------------------------------------------------------------
\* The process dies and starts again: only a durable store keeps anything.
PMRestart ==
  /\ partitions' = [t \in Topics |-> 0]
  /\ rr' = [t \in Topics |-> 0]
  /\ locks' = [k \in Slots |-> 0]
  /\ app' = [p \in Publishers |-> IdleApp]
  /\ log' = IF Durable THEN log ELSE [k \in Slots |-> <<>>]
  /\ answer' = [p \in Publishers |-> -1]
  /\ picks' = [k \in Slots |-> 0]
  /\ stale' = [t \in Topics |-> 0]

PMNext ==
  \/ \E t \in Topics, n \in Sizes : CreateTopic(t, n)
  \/ \E p \in Publishers, r \in Requests : Call(p, r)
  \/ \E p \in Publishers : AppendStep(p)
  \/ PMRestart

PMSpec == PMInit /\ [][PMNext]_pmVars
-----------------------------------------------------------------------------
\* Type invariant.
PMTypeOK ==
  /\ partitions \in [Topics -> 0 .. MaxPartitions]
  /\ rr \in [Topics -> Nat]
  /\ locks \in [Slots -> Nat]
  /\ app \in [Publishers ->
       [pc : {"idle", "called", "unknown", "counted", "chosen", "waiting", "locked", "pushed"},
        req : [topic : Topics, hint : Int, key : MsgKeys \cup {NoKey}],
        n : 0 .. MaxPartitions, slot : Slots, mutex : Nat]]
  /\ log \in [Slots -> Seq(Publishers)]
  /\ answer \in [Publishers -> Int]
  /\ picks \in [Slots -> Nat] /\ stale \in [Topics -> Nat]

\* A mutex that Append has fetched is still the one in pm.locks when it is used,
\* although CreateTopic replaces mutexes and Append races with CreateTopic.
MutexIsCurrent ==
  \A p \in Publishers : app[p].pc \in {"waiting", "locked", "pushed"} =>
    app[p].mutex = locks[app[p].slot]

\* Appends are serialized per partition.
SerializedAppends ==
  \A k \in Slots, p, q \in Publishers : Holds(p, k) /\ Holds(q, k) => p = q

\* Until a restart an append in progress works on a partition that its topic has,
\* and its message is stored there, even when it used a partition count that is
\* not the topic's.
StoredIsReachable ==
  \A p \in Publishers : app[p].pc \in {"chosen", "waiting", "locked", "pushed"} =>
    app[p].slot[2] < partitions[app[p].slot[1]]

\* Round robin is even: two partitions of a topic differ by at most one pick,
\* plus the picks made with a partition count that was not the topic's.
RoundRobinEven ==
  \A t \in Topics : \A i, j \in 0 .. partitions[t] - 1 :
    picks[<<t, i>>] <= picks[<<t, j>>] + 1 + stale[t]

\* The two-step append implements the atomic one: a caller whose message has
\* been pushed has been given, at that instant, the offset LLEN will tell it.
Pending(p) ==
  IF app[p].pc = "pushed" THEN [at |-> {app[p].slot}, off |-> Len(log[app[p].slot]) - 1]
                          ELSE [at |-> {}, off |-> -1]

LS == INSTANCE LogStorage
        WITH Callers <- Publishers, op <- [p \in Publishers |-> Pending(p)]

OffsetsAreIndexes == LS!LSSpec
=============================================================================

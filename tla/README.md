# go-pub-sub: a verification project

TLA+ models of go-pub-sub, the TLC instances that check them, and machine-checked
proofs (TLAPS) about them. Paths below are relative to the repository root.
`PROJECT.json` is the index: components, runs, mutants, the source lines behind
every definition, findings, hazards and theorems.

To run: `tlc -config BrokerSolo.cfg MCBroker`, `tlapm GroupManagerProofs.tla`.

## 1. Inventory

The program is one server process (`cmd/server/main.go`) that serves a gRPC API
(`api/pubsub.proto`), and two small clients. gRPC gives every call a goroutine of
its own; all shared state is in the objects below.

| Component | State | Operations | Concurrency control |
|---|---|---|---|
| Broker data path, `internal/broker/broker.go` | `subs`: for each topic:partition the channels of the live subscriptions | Publish, Subscribe, Ack | `b.mu` (RWMutex) around `subs`; buffered channels of 64 (per partition) and 256 (central); one forwarder goroutine per partition of a group subscription |
| TopicManager, `internal/broker/topic_manager.go` | `topics`: name to partition count | CreateTopic, GetTopicInfo, ListTopics, ValidatePartition, TopicExists | `tm.mu`, released before `pm.CreateTopic` and taken again for the rollback |
| PartitionManager, `internal/broker/partition_manager.go` | partition counts, round-robin counters, a mutex per partition | CreateTopic, Append, Read, CommitOffset, GetCommittedOffset | `pm.mu` for the maps, an atomic counter, the partition's mutex around `store.Append` |
| GroupManager, `internal/consumer/group_manager.go` | members and assignments per group and topic | Join, Leave, GetAssignment, CommitOffset, GetCommittedOffset | every method runs under `gm.mu` |
| LogStorage, `internal/storage/storage.go` | log and commits | Append, Read, CommitOffset, GetCommittedOffset, Close | three implementations |
| InMemoryStore, `memory_store.go` | slices and a commit map | the same | a mutex per call |
| RedisStore, `redis_store.go` | a list per partition, a hash of commits | the same; Append is RPUSH and then LLEN, and the Redis client repeats a command whose reply is lost | none across commands |
| PostgresStore, `pg_store.go` | tables of messages, offsets and commits | the same | a transaction per Append, with a row lock on the partition's line in `offsets` |
| Start-up, `internal/config/config.go`, `cmd/server/main.go` | none | InitBroker: choose the store, create the default topic | runs before the server listens |
| Middleware, `internal/middleware/interceptors.go` | none | recovery, auth and logging, wrapped around every call and every stream | none: each call has its own chain |
| Consumer client, `client/consumer/main.go` | the stream | subscribe with offset -1, receive, ack without a deadline | none |
| Producer client, `client/producer/main.go` | none | one Publish with a deadline of five seconds; the exit code is its result | none |
| Generated API, scripts | none | | |

How they interact. `Publish` asks tm whether the topic exists, appends through pm
(which may *create* a topic it does not know), then, under `b.mu.RLock`, sends to
every channel of the partition without blocking. `Subscribe` reads the history
through pm, sends it, and only then registers its channel under `b.mu.Lock`; with
a group it first joins through gm and serves the partitions gm gives it at that
moment, all of them multiplexed into one central channel. `Ack` overwrites the
committed offset in the store. `tm.CreateTopic` calls `pm.CreateTopic`. Nothing
about topics, groups or subscriptions is persisted.

What is hard, and what has to hold:

* **Channel life cycle.** A send on a closed channel panics. Solo subscriptions
  close outside `b.mu`, the central channel is closed while forwarders may be
  blocked: no publisher and no forwarder may still send
  (`NoSendOnClosedChannel`, `NoSendOnClosedCentral`), a cancelled subscription
  must return (`CancelReturns`) and leave nothing behind (`CleanExit`).
* **The switch from history to live.** Read, send and register are three steps:
  messages can be missed or doubled. Nothing else may be lost
  (`DeliveryAccounted`), no message may come twice otherwise
  (`DuplicatesOnlyAtHandover`), and order must survive (`PublisherOrder`).
* **Commits and resumption.** Several members may ack at once, in any order, and a
  later member starts behind the commit. A commit must be of a received message
  (`CommitsWereReceived`), and what a resume passes over must have one of a few
  known reasons (`SkipsAccounted`).
* **Restarts.** The process can end in the middle of any call. Over a durable store
  the log and the commits stay, subscriptions, groups and topics do not, and a client
  acks to the new process what it has from the old one (the same two properties).
* **Rebalancing.** The share of a stream is computed at Join and copied. It must be
  what the table says as long as nobody joins or leaves
  (`AssignmentServedUntilRebalance`).
* **Assignments.** Long sequences of joins and leaves over several topics of one
  group (`TableIsCurrent`, `DisjointOwners`, `NoOrphanPartition`, `Balanced`,
  `EmptyGroupForgotten`).
* **Two catalogues of topics** under two locks (`CatalogAgrees`, `CreatedStays`),
  with publishes that create topics implicitly and with a stale partition count
  (`StoredIsReachable`, `RoundRobinEven`), and mutexes that CreateTopic puts into
  the map anew (`MutexIsCurrent`, `SerializedAppends`).
* **A store of two steps**, either of which may fail or be repeated
  (`OffsetsAreIndexes`).
* **Three stores behind one interface**, with different ways to make an offset:
  appends must be atomic in each (`AppendsAreAtomic`); reads must be the window asked
  for, less what cannot be decoded, and a Postgres read that breaks off may be short but
  must have no gap (`ReadsAgree`); of several commits the last one is read, and where the
  store in memory gives two groups one entry, nothing worse than the commit of the other
  (`LastCommitIsRead`); and the two tables of Postgres must agree whatever transaction
  fails (`TablesAgree`).
* **Panics, dead connections and two clients that must not be fooled.** A panic costs
  its own call and not the process (`PanicContained`); exit code 0 of the producer
  means that its message is stored, at least once (`ExitCodeTruthful`); no client waits for an answer
  nobody works on (`NobodyWaitsForNothing`); and what the consumer does when its stream
  has failed (`NeverEOF`, `DeadStreamStaysDead`).

The list with source lines is under `hazards` in `PROJECT.json`.

## 2. Modules

| Module | Models | Extends |
|---|---|---|
| `GroupManager` | group_manager.go, memberId.go | |
| `Broker` | Publish, Subscribe and Ack, with the consumer client and the in-memory view of the store | `GroupManager` |
| `LogStorage` | abstract specification: what the broker relies on in `Append` | |
| `PartitionManager` | partition_manager.go over a two-step store; implements `LogStorage` | |
| `TopicManager` | topic_manager.go, the admin part of broker.go, InitBroker and restarts | `PartitionManager` |
| `BrokerRestart` | the broker over a durable store, with stops of the process | `Broker` |
| `StoreCalls` | what the three stores have in common: callers, log, commit table | |
| `MemoryStore`, `RedisStore`, `PostgresStore` | memory_store.go, redis_store.go, pg_store.go | `StoreCalls` |
| `Stores` | one of the three, as InitBroker chooses; implements `LogStorage` | the three |
| `Server` | cmd/server/main.go, interceptors.go, both clients | |
| `GroupManagerProofs`, `PartitionManagerProofs`, `TopicManagerProofs`, `StoresProofs`, `ServerProofs` | proofs | the module they are about, `TLAPS` |
| `BrokerProofs`, then `BrokerDeliveryProofs`, then `BrokerRestartProofs` | proofs, each building on the one before | `Broker` and, the last, `BrokerRestart` |
| `MCGroupManager`, `MCBroker`, `MCBrokerRestart`, `MCPartitionManager`, `MCTopicManager`, `MCStores` | values for TLC | |

Operators marked "mutant" are deliberately wrong variants of the operator that
follows them. No specification uses them: `PROJECT.json` pairs each with a
property that fails once the variant replaces the original, which shows that the
property can fail.

### GroupManager

`groups` and `assignments` are the two maps of the code; an absent entry is the
empty set. Since every method holds `gm.mu` from its first to its last statement,
a method is one action. Member ids are natural numbers: the code only sorts and
compares them. `Rank` is the position in the sorted slice, `ShareOf` the
partitions p with `members[p % M]` equal to the member. `Rebalance` resets the
entries of the *current* members only, as the code does. `Leave` has the code's
three ways out, with the test for an empty group made over all topics.

### Broker

One record `h[s]` per Subscribe goroutine (program counter and local variables),
one record `pub[p]` per Publish goroutine, `fwd`/`hand` per forwarder. `subs`,
`chan`, `buf` and `central` are `b.subs`, the life of a partition channel, its
contents and the central channel. A subscription is named by the member id it
would draw, so each name is used once.

* A critical section under `b.mu.Lock` is one action guarded by
  `WriteLockFree`; a section under `RLock` is the publisher state `fanout`, and
  several publishers may be in it. Inside it each send is a step of its own, so
  receivers run in between.
* The history is read in one step and sent message by message; the registration
  is a later step. The read also takes the start offset computed from the commits
  one step earlier.
* The deferred calls run in the code's order: unregister and close, wait for the
  forwarders, close the central channel, leave the group. A return from inside
  the partition loop runs only `Leave`, because only that one has been deferred
  by then.
* A `select` in which the context is done and a message is ready may choose
  either; taking the message means a `Send` that fails, which leads to the same
  cleanup. Both are the cleanup action.
* A subscriber channel is identified by its subscription and its key; the order
  of the slice is left out (a publisher visits the channels in any order).
* With `StoreFails` a read, a commit and the lookup of a commit may fail, and an
  append may fail after the message was stored. A history read may also end early
  without an error (`ReadsUpTo`), as a Postgres read does that breaks off; what it did
  not bring is then in `gap`. Entries that a store leaves out in the middle because
  they cannot be decoded are in `Stores` and not here.
* History variables (`from`, `upto`, `gap`, `dropped`, `unannounced`) are read by
  no action. They record why a subscription can miss a message.
* In this module the topic exists and keeps its partition count; that it does is
  the subject of `TopicManager`.

### LogStorage, PartitionManager, TopicManager

`PartitionManager` splits `Append` where another goroutine can come between: the
look at the partition count, the implicit CreateTopic, the choice of a partition
(hint, key hash, or round robin), `getLock`, the lock, the store's two commands.
A mutex is named by its slot and by the number of mutexes made for that slot so
far, so that a replaced mutex and its successor are different. The two-step store
is Redis; the in-memory append and the Postgres transaction are the behaviours in
which nothing happens between `Push` and `Answer`.

`TopicManager` adds `tm.topics` and the CreateTopic calls in progress. `tm.mu` is
released between `InsertTopic` and `InitPartitions` and before `RemoveMetadata`;
publishes run in those gaps. `Restart` empties everything that is in memory; the
log is kept if `Durable`.

`LogStorage` is the atomic view: a call stores its message at one instant and
returns that index, or an error. A driver that repeats its command may store the
message again, in the same slot, and the index is then that of the last copy. `OffsetsAreIndexes` states that
`PartitionManager` implements it, with the refinement mapping `Pending`: a caller
that has pushed is already bound to the offset that LLEN will return. That only
holds because the mutex covers both commands.

### BrokerRestart

`Crash` may come at any point of any goroutine. The maps of the broker and of the
group manager, channels, forwarders and calls in progress are gone; the log, the
commits and what each client has received are not. A message whose producer had
not finished its fan-out becomes `unannounced`. Groups come back with new
subscriptions (new member ids), a client may ack an old message to the new process.

`overtaken` and `fresh` are history variables, read by no action. `overtaken` holds
what was still on its way to a client when it received a later message of the same
partition: two publishers can announce in another order than they have stored.
`fresh` holds the members since whose Join the group has not changed.

`SkipsAccounted` is what the commit of a group means in the code. The interface
says "processed up to"; what holds is that every offset up to the commit was received
by a member, or was passed over because its Publish did not end well, because it was
announced between a read and a registration, because a read broke off before it, because
a channel was full, or because it was overtaken. A resume behind the commit skips these and nothing else.

### Stores

* A name is the sequence of its parts between colons, so that joining names with ":"
  is concatenation, and group `a:b` with topic `c` has the entry of group `a` with
  topic `b:c` in memory. `LastCommitIsRead` says what that costs: in the databases a
  group reads its own last commit, in memory that or the last commit of a name that
  has the same entry. No order between the acknowledged offsets is assumed, so that
  the last commit is neither the first nor the largest.
* Redis: `RPush` and `LLen` are two steps; the client may repeat RPUSH; either may
  fail. The mutex of the partition manager is the guard `MutexFree`. It is one
  mutex per process: with two servers on one Redis (mutant `NoMutex`) appends are
  not atomic.
* Postgres: a transaction is one step per statement. What serializes transactions is
  the locked row (`RowFree`) and, before there is one, the primary key, on which the
  second INSERT waits and then fails. `PgFails` is a rollback after any
  statement, or a COMMIT whose answer is lost. The first offset is 1 (`FirstOffset`).
* `Restart` empties the store in memory and forgets the calls of all three.
* `Spoil` makes one stored message undecodable (bound: one).
* `Reads` is the set of results a read may have, a function of the state and no action:
  `ReadsAgree` compares it with the words of the interface for every start and every
  limit around the log. In memory and with Redis there is one result. With Postgres the
  rows may break off at any of them, and `pg_store.go` does not look at `rows.Err()`:
  the first part is returned, and no error.

### Server

A call is at a frame of its chain, going `in`, `out`, or unwinding (`panic`). The
chain is built by `ChainUnaryServer` and `ChainStreamServer`, folds over the list in main.go, as the
code builds it, so that the position of the recovery frame is a result and not an
assumption. Every frame but recovery, and the handler, may panic; this is a fault
model, for the code shows no panic of its own. A panic that leaves the outermost
frame ends the process.

What the handlers do is in `Broker`; here they have outcomes: Publish returns or fails
or panics, with or without having stored its message, but returns Ok only if it has. It
may have stored several copies, because a store may repeat its command (`RPushAgain`);
Subscribe ends with nil only when its client or the connection is gone. `CutOff` breaks a
connection, `Stop` and failures at start-up end the process, `Deadline` ends the wait
of the producer while its handler runs on. gRPC (external) tells a client once
how its call ended, also when the connection or the server is gone; that is an assumption,
and connections that are dead without either side noticing are outside the model.

## 3. Runs

| Run | What it shows | Bounds |
|---|---|---|
| `group_manager` | the tables are exact, disjoint, complete and even after any sequence of joins and leaves | 2 groups, 2 topics with 5 and 2 partitions, 4 subscriptions: more and fewer members than partitions, and `Leave` with other topics of the group still populated |
| `broker_solo` | channel safety, conservation, order and duplicates for subscriptions without a group | 2 publishers, 2 subscriptions, 2 messages, channels of 1, every request shape (latest, replay, offset 1, bad partition), failing store |
| `broker_group` | type invariant, a clean exit, no send on a closed central channel, conservation and duplicates, through forwarders and central channel | 1 publisher, 1 group subscription over 2 partitions of 2 messages, channels of 1, failing store |
| `broker_restart` | what a commit covers and what a stream serves, across takeovers and a stop | 2 publishers, 2 members, 1 partition, 2 messages, 1 stop, with the constraint `Bounds` (below) |
| `broker_live` | a cancelled subscription returns; what was enqueued is delivered | 3 messages fill the central channel, the forwarder's hand and the partition channel at once |
| `partition_manager` | mutexes, serialized appends, reachable slots, even spread of keyless appends, and the refinement of `LogStorage` | 2 publishers, 1 topic of 1 or 2 partitions, a key, a hint and 3 round-robin picks, 2 messages per partition, restarts over a durable store |
| `topic_manager` | the two catalogues | 2 topics, 2 creators, 1 publisher, restarts |
| `stores` | atomic appends, reads, commits and tables, in each backend | 2 callers, 2 groups and 2 topics whose joined names collide, commits of 2 offsets in any order, logs of 1 and 2 messages, every kind of `store.type`, failures, repeated commands, restarts |
| `server` | panics, exit codes, waiting clients and dead streams | 1 producer, 1 consumer with an Ack in flight, the three stores at start-up, 2 starts, 2 messages, up to 2 copies per append |

Bounds in guards: `MaxLog` (messages per partition), `MaxPicks` (round-robin
counter), `MaxCrashes`, `MaxStarts`, `MaxSent` (messages of a stream),
`MaxCopies` (copies that one Append stores) and `MaxCommitted` (entries of the commit table;
two are enough for one to disturb another); `Members` bounds the number of subscriptions. Capacities of 1 instead of 64 and 256 make "full"
happen with few messages; no property depends on the number. Two collisions need
two names, two owners need two callers, a resume needs two members, an overtaking
needs two publishers and two messages: the instances have these and little more. What
they leave open, larger numbers, is what the proofs are for: every invariant that is
checked is proved for every value of the constants.

`broker_restart` has a state constraint, because the composition is large. One
message at most is received and not acked (`AckLag`); publishers are interchangeable
and the first message is by the same one (`FirstIsFirst`); ids come in descending
order, since with ascending ids the second of two members has no partition
(`SecondTakesOver`); and a stop, a second publisher and two streams at a time are not
combined (`OneThingAtATime`). The theorems of `BrokerRestartProofs` cover the
combinations.

Symmetry is used for publishers, creators and callers only: member ids are sorted, and
the liveness run uses none.

Deadlock is checked where some call is always possible: `group_manager`,
`partition_manager`, `topic_manager` and `stores`. In the `Broker`, `BrokerRestart` and
`Server` runs it is not: when the publishes, streams and starts that the bounds allow are
used up, the model has nothing left to do.

Fairness (`FairSpec`, `broker_live` only): weak fairness of each publisher, handler
and forwarder goroutine, which is what the Go scheduler gives. Two remarks: the
write lock of a `sync.RWMutex` is given to a waiting writer even if readers keep
coming, and publishes are bounded here anyway; and fairness of the stream loop
contains the assumption that a connected client keeps reading, for otherwise
`Send` may block on flow control. `CancelReturns` does not need the latter, because
the context ends the `Send`. Clients are not fair: nobody has to call, ack or
disconnect.

### Where documentation and code disagree

Each of these is a run with one property that the code violates (`findings`).

| Run | Property | Disagreement |
|---|---|---|
| `doc_smoke` | `NothingMissed` | a message between the historical read and the registration is never delivered |
| `doc_read_error` | `ReadErrorCleansUp` | a failed read of a later partition leaks channels and forwarders of the earlier ones |
| `doc_consistent` | `CatalogConsistent` | a publish in the middle of CreateTopic leaves a topic that pm knows and tm does not, and that can never be created again |

Seen in the code and not given a run of their own:

* `GetAssignment` still answers the partitions of a member that has left (nobody calls
  it).
* Offset -1 with a group means "resume, or from 0" and not "latest" (`pubsub.proto:30`);
  partition -1 without a group means partition 0 and not "all" (`pubsub.proto:29`).
* Topics are not persisted with their messages: after a restart only the default topic
  can be published or subscribed to.
* A Postgres read that breaks off midway returns the messages up to there without an error
  (`pg_store.go:170` never asks `rows.Err()`), where the interface promises "all available
  messages" (`storage.go:23`). A subscription that reads its history so misses the
  rest of it; `DeliveryAccounted` counts these messages as a gap.
* In memory the commits of group `a:b` on topic `c` and of group `a` on topic `b:c` are one
  entry (`memory_store.go:28`); `storage.go:29` promises each group its own.
* A repeated RPUSH stores a message twice, and the producer exits with 0.
* An error of `GetCommittedOffset` is dropped: the resume then starts at 0, and the
  stream repeats what the group has acknowledged. `DuplicatesOnlyAtHandover` is
  about one stream and does not see it.
* A panic between `RLock` and `RUnlock` of Publish (`broker.go:80`) would leave `b.mu`
  locked, because the unlock is not deferred, and a panic in a forwarder goroutine
  (`broker.go:256`) would pass no interceptor. `PanicContained` says that a panic inside
  a handler does not end the process, and no more; `NoSendOnClosedChannel` and
  `NoSendOnClosedCentral` exclude the panics that the channels could cause there.
* A running stream is not told of a rebalance: two members can serve a partition at
  once, or none.
* A commit can cover messages that no member has received; `SkipsAccounted` says which.
* Postgres numbers from 1; the comment at `pg_store.go:119` says 0, as the other stores do.
* `offset`, unquoted as a column name at `pg_store.go:46`, is a reserved word of
  PostgreSQL. If the server rejects it, the schema transaction fails and so does the
  start-up; `Server` has both outcomes.
* With the store in memory a client that acks, after a restart, a message of the old
  process commits an offset past the end of the new log; a resume of that group skips
  what is published below it.
* The consumer never subscribes again after its stream has failed: it calls `Recv` on
  the dead stream for ever. Its Ack has no deadline.

## 4. Proofs

All theorems are for every value of the constants, under the named assumptions
`GroupAssumption`, `BrokerAssumption`, `PMAssumption`, `TMAssumption`, `StoreAssumption` and
`ServerAssumption` (member ids are naturals; at least one partition per topic; requests name existing topics; the empty group
name is no group; channels have room for one message; sizes between 1 and the maximum; hashes are natural numbers; the default
topic is a topic; partition numbers and acknowledged offsets are naturals; the bounds on
starts and on messages sent are naturals, and so is that on copies, which is at least 1). TLC evaluates these on its instances.
Every invariant that a passing run checks is stated by a theorem. `NothingElseIsSkipped` has one hypothesis
more, `GroupsResume`: group clients ask to resume, as `client/consumer` does. A client that
asks for a later offset skips what is before it because it wants to.

**GroupManagerProofs.** The invariant `GMInv` is type correctness, finiteness of
the member sets, `TableIsCurrent` and `EmptyGroupForgotten`. Disjointness alone is
not inductive: what makes it so is that a table is *exactly* the share given by
ranks. The lemmas `RankRange`, `RankMonotone`, `RankInjective` and `RankOnto` show
that ranks of a finite set number it from 0; `SharesDisjoint` and `SharesCover`
follow, and give `OwnersAreDisjoint` and `NoPartitionIsOrphaned`. `TablesAreCurrent` is
the conjunct itself. For `Balanced` a share is counted: it is a residue class of the
partitions modulo the number of members, so its size is the quotient or one more.

**BrokerProofs.** `BInv` is `GMInv`, type correctness in two parts (`DataTyped`,
`ControlTyped`) and five relations between goroutines and channels. The two channel
properties say nothing about `b.subs`, and are not inductive: that a publisher sends
only on open channels holds because what is registered is open (`RegisteredIsOpen`), what
it has left to visit is registered as long as it holds the read lock (`PublishersOK`, with
the lemma `RegistryIsLocked`), and a solo subscription, which closes its channel after
`Unlock`, is no longer registered then (`ClosingIsUnregistered`). That forwarders send
only on an open central channel holds because it is closed at the end of a handler, when
no partition is left to be registered (`CentralOutlivesForwarders`). `HandlersOK` says what
a started handler works on. The lemmas `GroupSteps`, `PublisherSteps`, `HandlerSteps`,
`ChannelSteps`, `CentralSteps` and `DataSteps` say which actions change which part of the
state, so that each part is treated on its own. `BrokerUsesGroupManager` shows `Spec =>
GMSpec`, and with it the theorems about group tables hold in the broker.

**PartitionManagerProofs.** `PMInv` adds to the checked invariants what an append
in progress remembers: its partition count is at most the topic's (`CountKnown`),
its slot exists (`SlotKnown`), its mutex has been made (`MutexMade`). The reason
the invariant holds is that CreateTopic does nothing to a topic that exists, so an
append that has its count works on a topic that no later call changes. Serialized
appends follow: the holders of a slot hold the same mutex. `RoundRobinEven` comes from
`RoundsKept`: each slot of a topic has been picked exactly as often as the counter
says (`Turns`: the rounds completed, and one more for the slots the current round has
passed), but for the picks that an append made with another partition count.
`AppendImplementsLogStorage` maps each step to a step of `LogStorage` or a
stutter; a `Push` is the abstract store, and it leaves the pending offsets of
others alone because no other append is between the two commands of that slot.

**TopicManagerProofs.** `TMInv` is `PMInv` with: at most one CreateTopic per topic
is between its two sections (`OneInFlight`), it owns the entry it has inserted and
nobody has been told Ok for it (`InFlightOwnsEntry`), a rejected call found the
topic in pm (`RejectedIsKnown`), and nothing exists before InitBroker
(`NothingServed`). `CatalogAgrees` and `CreatedStays` are conjuncts of it. The
steps of pm are covered by the lemmas of `PartitionManagerProofs`.

**BrokerDeliveryProofs.** `DInv`, on top of `BInv`, holds `DeliveryAccounted`
and `CommitsWereReceived`, which are not inductive by themselves, and implies `CleanExit`.
Conservation says
of a registered channel where each offset from its start on is. It survives a
registration because what was read of the history has been sent, up to the next message
(`HistorySent`), and because a channel that is yet to be made has nothing in it
(`NothingAhead`, `IdleIsBlank`); it survives the end of a forwarder because that
holds a message only in its hand (`ForwardersOK`). A clean exit needs that behind its
cleanup a subscription is in no list (`CleanedUp`), that a solo one is only in one
(`SoloRegistersOnce`), and that each member of a group has a handler that will
leave it (`MembersAreServed`). A commit is of a received message because an ack
copies the position of its client in the stream.

The safety half of `CancelReturns` is proved here as well. A handler at `forwardWg.Wait` has
closed its channels and its client is gone (`WaitsClosed`), so each forwarder it waits for can
move (`ForwardersCanMove`); and the buffers it waits for only get shorter and no forwarder
starts again (`BuffersDrain`), because a publisher that still had the channel to visit
would hold the lock that the cleanup needed. What is left to TLC is that fair forwarders
use the moves they have.

**BrokerRestartProofs.** `Crash` keeps `BInv` and `DInv`: it puts everything they speak
of into its initial state, except log, commits and streams. `FreshServes` says of a
member since whose Join nothing has changed that the partitions it serves and those it
is about to serve are together its share; at the loop nothing is left to be served, which
is `AssignmentServedUntilRebalance`. `SkipsAccounted` needs more: the offsets below a
received message are accounted for (`StreamsAccounted`), and so are those below the
start of a read (`StartsAccounted`), where a resume closes the circle, since it starts
behind the commit. Messages in flight are stored and their channels registered
(`FlightOK`), so that what a later message passes is caught as overtaken; a gap belongs to
a channel that exists (`GapsAreMade`). An ack then moves the commit to a message whose
predecessors are all accounted for.

`OInv`, on top of these, is about order. The messages of a channel, from the client's stream
over the central channel and the forwarder's hand to the buffer, form one sequence (`Line`),
and `LinesOK` says of this sequence what the two properties say of the stream: of one
publisher no message stands behind a later one, and a repeated message is one of the
handover. Every step either takes the new line out of the old one, in its order
(`Carry`), or puts one message behind all others of its key (`JoinsLast`). That the message put
there is newer than those in front needs to know what the parties hold: a busy publisher's
message is its newest in the log (`PublishedLast`), a key that is yet to be registered has
only had history below `next` (`HistoryOnly`), a channel that has not been made has
nothing in flight (`FlightMade`), and a solo subscription has no central channel in use
(`SoloSkipsCentral`). A stop leaves of each line the part the client has received. This gives
`PublisherOrder` and `DuplicatesOnlyAtHandover`, for one process and through any number of
stops.

**StoresProofs.** `StInv` is typing with what a call in progress has in hand, by
backend: no call of the memory store has a middle; two Redis calls never share a slot;
of the transactions on one partition at most one is between its row lock and its end
(`OneOwner`), and its number is that of the log as it will be when it commits
(`PgCallOK`). With these `TablesAgree` is inductive. `LastCommitIsRead` follows from an
invariant on the table, that each entry holds the last commit of a name it belongs to
(`CommitsOK`), and, for the databases, from the injectivity of their keys (`EntriesDiffer`). `BackendsAppendAtomically` is the refinement of `LogStorage`, each step of each
backend mapped to a step or a stutter; the two database statements in the middle stutter,
the COMMIT is the store. `ReadsAgree` says that a read may return the same window of the log
whichever backend serves it, and nothing else but, with Postgres, a first part of it; it needs, next to `TablesAgree`, that the store in memory holds
no message it cannot decode (`MemoryDecodes`).

**ServerProofs.** `SInv` is typing and, for each kind of call, what its state, the
reply and the client say of one another (`PublishOK`, `StreamOK`, `AckOK`): a call
answers Ok only behind a store, a stream answers Ok only to a client that is gone, and
whoever waits has a call or a reply. Nothing in it depends on the order of the frames, so
that exit codes, waiting and dead streams are right for any chain, whether panics are
contained or end the process. `FInv` does depend on it: it says what the fold over the
interceptors yields, the frames of a call, which are recovery, auth, logging and handler from
the outside in. A panic that travels outward therefore meets the recovery frame before it
leaves its call (`PanicContained`), and the position of a call among its frames is
typed (`ServerTypeOK`).

Only model-checked: liveness under fairness (`CancelReturns` and `EnqueuedIsDelivered` in
`BrokerLive`), which is out of the prover's reach, and the three counterexamples of section 3,
which need only an instance.

## 5. Not modelled

* `Close` of the stores: nothing in the program calls it.
* The restart of the broker over a store in memory: log and commits are lost, and what
  clients still hold from before is described in section 3. `BrokerRestart` has durable
  stores only; `Stores` has the restart of the store itself.
* Two servers on one Redis or one Postgres as a composition with the broker. At the level of
  the stores, Postgres allows it and Redis does not (see `Stores`).
* Arithmetic limits: the 32-bit hash fits the int of a 64-bit build and is a natural number
  here; the int64 round-robin counter would wrap after 2^63 publishes and then
  yield a negative remainder.
* Checks of malformed requests (empty topic, missing group): they return an
  error and change nothing.
* A Redis command that the client has given up and that Redis executes later, after the
  caller has left the partition's mutex. That it does not happen is an assumption of
  `RedisFails`; if it did, the offset of another append could be wrong.
* Flow control of gRPC streams: `Send` returns, unless the client is gone.
* The YAML file and its defaults, flags, the texts of the logs, generated code and its
  schema, scripts: no state, or pure I/O.

## 6. Plan

What is left, in this order:

1. `BrokerRestart` over a store in memory, with the late ack of an old message.
2. Two brokers on one durable store: two assignments of one group, each complete.

------------------------------- MODULE Stores -------------------------------
(***************************************************************************)
(* The storage backends behind the interface LogStorage                    *)
(* (internal/storage/storage.go), one of which InitBroker                  *)
(* (internal/config/config.go) chooses.  Appends implement LogStorage; a   *)
(* read is compared with what the interface says of it; a committed offset *)
(* with the one that was committed last.                                   *)
(***************************************************************************)
EXTENDS MemoryStore, RedisStore, PostgresStore

CONSTANTS
  StoreTypes,     \* values of store.type in the configuration file
  MaxCommitted    \* bound on the groups, topics and partitions with a commit

VARIABLE backend      \* the backend in use

svars == <<storeVars, offsets, backend>>

\* The switch of InitBroker: every type that is not implemented falls back to
\* the store in memory.
Backend(type) == IF type \in {"redis", "postgres"} THEN type ELSE "memory"

StoresInit ==
  /\ stored = [k \in Slots |-> <<>>]
  /\ bad = [k \in Slots |-> {}]
  /\ commits = [e \in {} |-> -1]
  /\ call = [c \in Callers |-> Idle]
  /\ answer = [c \in Callers |-> -1]
  /\ last = [x \in Triples |-> -1]
  /\ offsets = [k \in Slots |-> NoRow]
  /\ \E type \in StoreTypes : backend = Backend(type)
-----------------------------------------------------------------------------
Memory == backend = "memory" /\ UNCHANGED <<offsets, backend>>
Redis  == backend = "redis" /\ UNCHANGED <<offsets, backend>>
Pg     == backend = "postgres" /\ UNCHANGED backend

\* The key under which CommitOffset and GetCommittedOffset find an offset.
Entry(x) ==
  CASE backend = "memory"   -> MemEntry(x)
    [] backend = "redis"    -> RedisEntry(x)
    [] backend = "postgres" -> PgEntry(x)

Answers(c) == Return(c) /\ UNCHANGED <<offsets, backend>>

CommitOffset(x, o) ==
  /\ Cardinality({y \in Triples : last[y] # -1} \cup {x}) <= MaxCommitted
  /\ PutCommit(Entry(x), x, o)
  /\ UNCHANGED <<offsets, backend>>

\* GetCommittedOffset: -1 if there is no entry.
GetCommittedOffset(x) == IF Entry(x) \in DOMAIN commits THEN commits[Entry(x)] ELSE -1

\* A stored message becomes undecodable (another program writes to the list, the
\* format of messages changes).
Spoil(k, i) ==
  /\ backend # "memory" /\ i \in DOMAIN stored[k]
  /\ \A j \in Slots : bad[j] = {}       \* bound: one
  /\ bad' = [bad EXCEPT ![k] = @ \cup {i}]
  /\ UNCHANGED <<stored, commits, call, answer, last, offsets, backend>>

\* The server dies and starts again, with the same configuration.  An open
\* transaction is rolled back.
Restart ==
  /\ Fresh
  /\ \/ backend = "memory" /\ MemLost
     \/ backend # "memory" /\ UNCHANGED <<stored, bad, commits, last>>
  /\ UNCHANGED <<offsets, backend>>

AppendBegins(c, k) ==
  \/ Memory /\ MemAppend(c, k)
  \/ Redis /\ RPush(c, k)
  \/ Pg /\ SelectRow(c, k)
  \/ Pg /\ SelectNoRow(c, k)

AppendGoesOn(c) ==
  \/ Redis /\ RPushAgain(c)
  \/ Redis /\ LLen(c)
  \/ Redis /\ RedisFails(c)
  \/ Pg /\ InsertRow(c)
  \/ Pg /\ InsertMessage(c)
  \/ Pg /\ UpdateOffsets(c)
  \/ Pg /\ PgCommit(c)
  \/ Pg /\ PgFails(c)
  \/ Answers(c)

StoresNext ==
  \/ \E c \in Callers, k \in Slots : AppendBegins(c, k)
  \/ \E c \in Callers : AppendGoesOn(c)
  \/ \E x \in Triples, o \in AckOffsets : CommitOffset(x, o)
  \/ \E k \in Slots : \E i \in 1 .. MaxLog[k] : Spoil(k, i)
  \/ Restart

StoresSpec == StoresInit /\ [][StoresNext]_svars
-----------------------------------------------------------------------------
\* Type invariant.
StoresTypeOK ==
  /\ stored \in [Slots -> Seq(Callers)]
  /\ bad \in [Slots -> SUBSET Nat]
  /\ DOMAIN commits \subseteq {Entry(x) : x \in Triples}
  /\ \A e \in DOMAIN commits : commits[e] \in AckOffsets
  /\ call \in [Callers ->
       [pc : {"idle", "pushed", "first", "owner", "inserted", "updated", "done"},
        slot : Slots, off : Nat]]
  /\ answer \in [Callers -> Int]
  /\ last \in [Triples -> AckOffsets \cup {-1}]
  /\ offsets \in [Slots -> Nat \cup {NoRow}]
  /\ backend \in {"memory", "redis", "postgres"}

\* The offset of the first message of a partition.
FirstOffset == IF backend = "postgres" THEN 1 ELSE 0

\* The tables messages and offsets agree, whatever transactions are open, have
\* failed or were cut off: messages are numbered from 1 without a gap up to
\* last_offset, and there is a row in offsets exactly if there is a message.
TablesAgree ==
  backend = "postgres" => \A k \in Slots :
    /\ DOMAIN stored[k] = 1 .. Len(stored[k])
    /\ offsets[k] = IF stored[k] = <<>> THEN NoRow ELSE Len(stored[k])

\* Two transactions never have the row of a partition at once, so that an
\* INSERT into messages never meets its own primary key.
OneOwner ==
  \A k \in Slots, c, d \in Callers : Owns(c, k) /\ Owns(d, k) => c = d

\* What a read that returns no error may return.
Reads(k, offset, max) ==
  CASE backend = "memory"   -> {MemRead(k, offset, max)}
    [] backend = "redis"    -> {RedisRead(k, offset, max)}
    [] backend = "postgres" -> PgReads(k, offset, max)

\* What the interface says: up to max messages from offset on, inclusive, all of
\* them if max is 0, each with its own offset.
Readable(k, offset, max) ==
  LET window == {i \in DOMAIN stored[k] : FirstOffset + i - 1 >= offset}
      taken  == {i \in window : max = 0 \/ Cardinality({j \in window : j < i}) < max}
  IN  {<<FirstOffset + i - 1, stored[k][i]>> : i \in taken \ bad[k]}

\* The messages of W before some point of the log.
Prefix(R, W) == R \subseteq W /\ \A m \in R, n \in W : n[1] < m[1] => n \in R

\* Every backend can read what the interface says, for negative offsets, offsets
\* past the end, windows that end before, at and after the end of the log, and
\* with undecodable messages in between: those are left out and do not shift
\* the offsets of the others.  The store in memory and Redis read nothing else.
\* A read from Postgres may stop early without an error, although the interface
\* says "all available messages" (internal/storage/storage.go:23), but leaves
\* nothing out before a message that it returns.
ReadsAgree ==
  \A k \in Slots : \A offset \in -1 .. MaxLog[k] + 1, max \in 0 .. MaxLog[k] + 1 :
    LET reads == Reads(k, offset, max)
        whole == Readable(k, offset, max)
    IN  /\ whole \in reads
        /\ backend # "postgres" => reads = {whole}
        /\ \A r \in reads : Prefix(r, whole)

\* GetCommittedOffset gives a group what was committed last for it, topic and
\* partition: not an earlier or a larger offset, and not what another group or
\* topic has committed, except in memory.  There, against the interface
\* (internal/storage/storage.go:29), it can also be what was committed last for
\* another group and topic whose names, joined by ":", are the same.
LastCommitIsRead ==
  \A x \in Triples :
    \/ GetCommittedOffset(x) = last[x]
    \/ /\ backend = "memory"
       /\ \E y \in Triples \ {x} :
            MemEntry(y) = MemEntry(x) /\ GetCommittedOffset(x) = last[y]

\* Where the message of a call in progress is, once it is stored.
Pending(c) ==
  CASE call[c].pc = "done"   -> [at |-> {call[c].slot}, off |-> call[c].off - FirstOffset]
    [] call[c].pc = "pushed" -> [at |-> {call[c].slot}, off |-> Len(stored[call[c].slot]) - 1]
    [] OTHER                 -> [at |-> {}, off |-> -1]

LS == INSTANCE LogStorage
        WITH log <- stored, op <- [c \in Callers |-> Pending(c)],
             answer <- [c \in Callers |-> IF answer[c] = -1 THEN -1 ELSE answer[c] - FirstOffset]

\* The append of every backend is the atomic one of LogStorage: the offset that a
\* caller is given, less the first offset of the backend, is the index of its
\* own message in the log.
AppendsAreAtomic == LS!LSSpec
=============================================================================

------------------------------ MODULE StoresProofs ------------------------------
(***************************************************************************)
(* Proofs about Stores, for any callers, names, partitions and offsets.    *)
(***************************************************************************)
EXTENDS Stores, FiniteSetTheorems, TLAPS

CallType ==
  [pc : {"idle", "pushed", "first", "owner", "inserted", "updated", "done"},
   slot : Slots, off : Nat]

\* Where a call can be, by backend, and what it has in hand there.
MemoryOK == backend = "memory" => \A c \in Callers : call[c].pc \in {"idle", "done"}

RedisOK ==
  backend = "redis" => \A c \in Callers :
    /\ call[c].pc \in {"idle", "pushed", "done"}
    /\ call[c].pc = "pushed" => Len(stored[call[c].slot]) > 0
    /\ \A d \in Callers : c # d /\ call[c].pc # "idle" /\ call[d].pc # "idle" =>
         call[c].slot # call[d].slot

PgCallOK(c) ==
  /\ call[c].pc \in {"idle", "first", "owner", "inserted", "updated", "done"}
  /\ call[c].pc = "first" => call[c].off = 0
  /\ call[c].pc = "owner" => call[c].off = Len(stored[call[c].slot])
  /\ call[c].pc \in {"inserted", "updated"} => call[c].off = Len(stored[call[c].slot]) + 1

PostgresOK == backend = "postgres" => OneOwner /\ \A c \in Callers : PgCallOK(c)

\* What is read for x was committed last for a group, topic and partition with the
\* same entry.
CommitOf(x) == \E y \in Triples : Entry(y) = Entry(x) /\ GetCommittedOffset(x) = last[y]

\* The table of commits.
CommitsOK ==
  /\ DOMAIN commits \subseteq {Entry(x) : x \in Triples}
  /\ \A e \in DOMAIN commits : commits[e] \in AckOffsets
  /\ last \in [Triples -> AckOffsets \cup {-1}]
  /\ \A x \in Triples : CommitOf(x)

\* The log, the calls and what they return.
DataOK ==
  /\ stored \in [Slots -> Seq(Callers)]
  /\ bad \in [Slots -> SUBSET Nat]
  /\ call \in [Callers -> CallType]
  /\ answer \in [Callers -> Int]
  /\ offsets \in [Slots -> Nat \cup {NoRow}]
  /\ backend \in {"memory", "redis", "postgres"}

\* The inductive invariant.
StInv == DataOK /\ MemoryOK /\ RedisOK /\ PostgresOK /\ TablesAgree /\ CommitsOK
-----------------------------------------------------------------------------
LEMMA IdleTyped == Idle \in CallType /\ Idle.pc = "idle"
<1>1. Slots # {}
  <2>1. PICK t \in Topics, p \in Parts : TRUE
    BY StoreAssumption DEF StoreAssumption
  <2>2. <<t, p>> \in Slots
    BY <2>1 DEF Slots
  <2> QED BY <2>2
<1>2. (CHOOSE k \in Slots : TRUE) \in Slots
  BY <1>1
<1> QED BY <1>2 DEF Idle, CallType

\* Different groups, topics or partitions have different entries in a database.
LEMMA EntriesDiffer ==
  ASSUME NEW x \in Triples, NEW y \in Triples, backend \in {"redis", "postgres"},
         Entry(x) = Entry(y)
  PROVE  x = y
<1>1. x = <<x[1], x[2], x[3]>> /\ y = <<y[1], y[2], y[3]>>
  BY DEF Triples
<1>2. CASE backend = "redis"
  <2>1. RedisEntry(x) = RedisEntry(y)
    BY <1>2 DEF Entry
  <2>2. x[1] = y[1] /\ x[2] = y[2] /\ x[3] = y[3]
    BY <2>1 DEF RedisEntry
  <2> QED BY <1>1, <2>2
<1>3. CASE backend = "postgres"
  <2>1. PgEntry(x) = PgEntry(y)
    BY <1>3 DEF Entry
  <2>2. x[1] = y[1] /\ x[2] = y[2] /\ x[3] = y[3]
    BY <2>1 DEF PgEntry
  <2> QED BY <1>1, <2>2
<1> QED BY <1>2, <1>3
-----------------------------------------------------------------------------
(* Commits *)

\* Which steps change the commits.
LEMMA CommitSteps ==
  ASSUME [StoresNext]_svars
  PROVE  /\ UNCHANGED backend
         /\ \/ UNCHANGED <<commits, last>>
            \/ \E x \in Triples, o \in AckOffsets : CommitOffset(x, o)
            \/ commits' = [e \in {} |-> -1] /\ last' = [x \in Triples |-> -1]
<1>1. ASSUME NEW c \in Callers, NEW k \in Slots, AppendBegins(c, k)
      PROVE  UNCHANGED <<backend, commits, last>>
  BY <1>1 DEF AppendBegins, Memory, Redis, Pg, MemAppend, RPush, SelectRow, SelectNoRow
<1>2. ASSUME NEW c \in Callers, AppendGoesOn(c)
      PROVE  UNCHANGED <<backend, commits, last>>
  BY <1>2 DEF AppendGoesOn, Redis, Pg, RPushAgain, LLen, RedisFails, InsertRow, InsertMessage,
       UpdateOffsets, PgCommit, PgFails, Answers, Return
<1>3. ASSUME NEW k \in Slots, NEW i, Spoil(k, i)
      PROVE  UNCHANGED <<backend, commits, last>>
  BY <1>3 DEF Spoil
<1>4. ASSUME Restart
      PROVE  /\ UNCHANGED backend
             /\ \/ UNCHANGED <<commits, last>>
                \/ commits' = [e \in {} |-> -1] /\ last' = [x \in Triples |-> -1]
  BY <1>4 DEF Restart, MemLost
<1>5. ASSUME NEW x \in Triples, NEW o \in AckOffsets, CommitOffset(x, o)
      PROVE  UNCHANGED backend
  BY <1>5 DEF CommitOffset
<1>6. CASE UNCHANGED svars
  BY <1>6 DEF svars, storeVars
<1> QED BY <1>1, <1>2, <1>3, <1>4, <1>5, <1>6 DEF StoresNext

LEMMA CommitsPreserved ==
  ASSUME CommitsOK, backend \in {"memory", "redis", "postgres"}, [StoresNext]_svars
  PROVE  CommitsOK'
<1>0. UNCHANGED backend /\ \A x : Entry(x)' = Entry(x)
  BY CommitSteps DEF Entry
<1>1. CASE UNCHANGED <<commits, last>>
  BY <1>0, <1>1 DEF CommitsOK, CommitOf, GetCommittedOffset
<1>2. CASE commits' = [e \in {} |-> -1] /\ last' = [x \in Triples |-> -1]
  <2>1. DOMAIN commits' = {}
    BY <1>2
  <2>2. \A x \in Triples : CommitOf(x)'
    BY <1>2, <2>1 DEF CommitOf, GetCommittedOffset
  <2> QED BY <1>2, <2>1, <2>2 DEF CommitsOK
<1>3. ASSUME NEW x \in Triples, NEW o \in AckOffsets, CommitOffset(x, o)
      PROVE  CommitsOK'
  <2>1. /\ commits' = [e \in DOMAIN commits \cup {Entry(x)} |-> IF e = Entry(x) THEN o ELSE commits[e]]
        /\ last' = [last EXCEPT ![x] = o]
    BY <1>3 DEF CommitOffset, PutCommit
  <2>2. /\ DOMAIN commits' = DOMAIN commits \cup {Entry(x)}
        /\ commits'[Entry(x)] = o
        /\ \A e \in DOMAIN commits : e # Entry(x) => commits'[e] = commits[e]
    BY <2>1
  <2>3. /\ last' \in [Triples -> AckOffsets \cup {-1}]
        /\ last'[x] = o /\ \A y \in Triples : y # x => last'[y] = last[y]
    BY <2>1 DEF CommitsOK
  <2>4. DOMAIN commits' \subseteq {Entry(y) : y \in Triples}
    BY <2>2 DEF CommitsOK
  <2>5. \A e \in DOMAIN commits' : commits'[e] \in AckOffsets
    BY <2>2 DEF CommitsOK
  <2>6. ASSUME NEW y \in Triples
        PROVE  CommitOf(y)'
    <3>1. GetCommittedOffset(y)' = IF Entry(y) \in DOMAIN commits' THEN commits'[Entry(y)] ELSE -1
      BY <1>0 DEF GetCommittedOffset
    \* The entry is the one that was written: x is the last to have committed to it.
    <3>2. CASE Entry(y) = Entry(x)
      <4>1. GetCommittedOffset(y)' = last'[x]
        BY <2>2, <2>3, <3>1, <3>2
      <4> QED BY <1>0, <3>2, <4>1 DEF CommitOf
    \* Whoever committed last to another entry still did.
    <3>3. CASE Entry(y) # Entry(x)
      <4>1. PICK z \in Triples : Entry(z) = Entry(y) /\ GetCommittedOffset(y) = last[z]
        BY DEF CommitsOK, CommitOf
      <4>2. z # x /\ last'[z] = last[z]
        BY <2>3, <3>3, <4>1
      <4>3. GetCommittedOffset(y)' = GetCommittedOffset(y)
        BY <2>2, <3>1, <3>3 DEF GetCommittedOffset
      <4> QED BY <1>0, <4>1, <4>2, <4>3 DEF CommitOf
    <3> QED BY <3>2, <3>3
  <2> QED BY <1>0, <2>3, <2>4, <2>5, <2>6 DEF CommitsOK
<1> QED BY <1>1, <1>2, <1>3, CommitSteps
-----------------------------------------------------------------------------
(* Appends *)

\* The parts of the invariant that appends are about.
AppendsOK == DataOK /\ MemoryOK /\ RedisOK /\ PostgresOK /\ TablesAgree

\* One call moves on.
LEMMA CallUpdate ==
  ASSUME DataOK, NEW c \in Callers, NEW r \in CallType, call' = [call EXCEPT ![c] = r]
  PROVE  /\ call' \in [Callers -> CallType]
         /\ call'[c] = r /\ \A d \in Callers : d # c => call'[d] = call[d]
BY DEF DataOK

\* The parts of the invariant for one backend, the others being out of use.
LEMMA OfMemory ==
  ASSUME backend' = "memory", DataOK', MemoryOK'
  PROVE  AppendsOK'
BY DEF AppendsOK, RedisOK, PostgresOK, TablesAgree

LEMMA OfRedis ==
  ASSUME backend' = "redis", DataOK', RedisOK'
  PROVE  AppendsOK'
BY DEF AppendsOK, MemoryOK, PostgresOK, TablesAgree

LEMMA OfPostgres ==
  ASSUME backend' = "postgres", DataOK', PostgresOK', TablesAgree'
  PROVE  AppendsOK'
BY DEF AppendsOK, MemoryOK, RedisOK

LEMMA MemoryPreserves ==
  ASSUME AppendsOK, backend = "memory", UNCHANGED <<offsets, backend>>,
         NEW c \in Callers, Answers(c) \/ \E k \in Slots : MemAppend(c, k)
  PROVE  AppendsOK'
<1>0. DataOK /\ MemoryOK /\ call[c] \in CallType
  BY DEF AppendsOK, DataOK
<1>1. ASSUME NEW k \in Slots, MemAppend(c, k)
      PROVE  DataOK' /\ MemoryOK'
  <2> DEFINE r == [pc |-> "done", slot |-> k, off |-> Len(stored[k])]
  <2>1. stored[k] \in Seq(Callers)
    BY <1>0 DEF DataOK
  <2>2. r \in CallType /\ r.pc = "done"
    BY <2>1 DEF CallType
  <2>3. call' = [call EXCEPT ![c] = r] /\ stored' = [stored EXCEPT ![k] = Append(@, c)]
        /\ UNCHANGED <<bad, answer>>
    BY <1>1 DEF MemAppend
  <2> HIDE DEF r
  <2>4. /\ call' \in [Callers -> CallType]
        /\ call'[c] = r /\ \A d \in Callers : d # c => call'[d] = call[d]
    BY <1>0, <2>2, <2>3, CallUpdate
  <2>5. stored' \in [Slots -> Seq(Callers)]
    BY <1>0, <2>1, <2>3 DEF DataOK
  <2> QED BY <1>0, <2>2, <2>3, <2>4, <2>5 DEF DataOK, MemoryOK
<1>2. ASSUME Answers(c)
      PROVE  DataOK' /\ MemoryOK'
  <2>1. call' = [call EXCEPT ![c] = Idle] /\ answer' = [answer EXCEPT ![c] = call[c].off]
        /\ UNCHANGED <<stored, bad>>
    BY <1>2 DEF Answers, Return
  <2>2. /\ call' \in [Callers -> CallType]
        /\ call'[c] = Idle /\ \A d \in Callers : d # c => call'[d] = call[d]
    BY <1>0, <2>1, IdleTyped, CallUpdate
  <2>3. answer' \in [Callers -> Int]
    BY <1>0, <2>1 DEF DataOK, CallType
  <2> QED BY <1>0, <2>1, <2>2, <2>3, IdleTyped DEF DataOK, MemoryOK
<1> QED BY <1>1, <1>2, OfMemory

LEMMA RedisPreserves ==
  ASSUME AppendsOK, backend = "redis", UNCHANGED <<offsets, backend>>, NEW c \in Callers,
         \/ \E k \in Slots : RPush(c, k)
         \/ RPushAgain(c) \/ LLen(c) \/ RedisFails(c) \/ Answers(c)
  PROVE  AppendsOK'
<1>0. DataOK /\ RedisOK /\ call[c] \in CallType
  BY DEF AppendsOK, DataOK
<1>1. ASSUME NEW k \in Slots, RPush(c, k)
      PROVE  DataOK' /\ RedisOK'
  <2> DEFINE r == [pc |-> "pushed", slot |-> k, off |-> 0]
  <2>1. r \in CallType /\ r.pc = "pushed" /\ r.slot = k
    BY DEF CallType
  <2>2. call' = [call EXCEPT ![c] = r] /\ stored' = [stored EXCEPT ![k] = Append(@, c)]
        /\ UNCHANGED <<bad, answer>>
    BY <1>1 DEF RPush
  <2> HIDE DEF r
  <2>3. /\ call' \in [Callers -> CallType]
        /\ call'[c] = r /\ \A d \in Callers : d # c => call'[d] = call[d]
    BY <1>0, <2>1, <2>2, CallUpdate
  <2>4. stored[k] \in Seq(Callers)
    BY <1>0 DEF DataOK
  <2>5. /\ stored' \in [Slots -> Seq(Callers)] /\ Len(stored'[k]) > 0
        /\ \A j \in Slots : j # k => stored'[j] = stored[j]
    BY <1>0, <2>2, <2>4 DEF DataOK
  <2>6. \A d \in Callers : d # c /\ call[d].pc # "idle" => call[d].slot # k
    BY <1>1 DEF RPush, MutexFree, At
  <2>7. DataOK'
    BY <1>0, <2>2, <2>3, <2>5 DEF DataOK
  <2>8. ASSUME NEW d \in Callers, d # c
        PROVE  /\ call'[d].pc \in {"idle", "pushed", "done"}
               /\ call'[d].pc = "pushed" => Len(stored'[call'[d].slot]) > 0
    <3>1. call'[d] = call[d] /\ call[d] \in CallType
      BY <1>0, <2>3, <2>8 DEF DataOK
    <3>2. call[d].slot \in Slots
      BY <3>1 DEF CallType
    <3>3. call[d].pc = "pushed" => stored'[call[d].slot] = stored[call[d].slot]
      BY <2>5, <2>6, <2>8, <3>2
    <3> QED BY <1>0, <3>1, <3>3 DEF RedisOK
  <2>9. RedisOK'
    BY <1>0, <2>1, <2>3, <2>5, <2>6, <2>8 DEF RedisOK
  <2> QED BY <2>7, <2>9
<1>2. ASSUME RPushAgain(c)
      PROVE  DataOK' /\ RedisOK'
  <2> DEFINE k == call[c].slot
  <2>1. k \in Slots /\ stored' = [stored EXCEPT ![k] = Append(@, c)] /\ UNCHANGED <<bad, call, answer>>
    BY <1>0, <1>2 DEF RPushAgain, CallType
  <2>2. stored[k] \in Seq(Callers)
    BY <1>0, <2>1 DEF DataOK
  <2> HIDE DEF k
  <2>3. /\ stored' \in [Slots -> Seq(Callers)] /\ Len(stored'[k]) > 0
        /\ \A j \in Slots : j # k => stored'[j] = stored[j]
    BY <1>0, <2>1, <2>2 DEF DataOK
  <2>4. DataOK'
    BY <1>0, <2>1, <2>3 DEF DataOK
  <2>5. ASSUME NEW d \in Callers, call[d].pc = "pushed"
        PROVE  Len(stored'[call[d].slot]) > 0
    <3>1. call[d].slot \in Slots
      BY <1>0 DEF DataOK, CallType
    <3> QED BY <1>0, <2>3, <2>5, <3>1 DEF RedisOK
  <2>6. RedisOK'
    BY <1>0, <2>1, <2>5 DEF RedisOK
  <2> QED BY <2>4, <2>6
<1>3. ASSUME NEW r \in CallType, call' = [call EXCEPT ![c] = r], r.pc \in {"idle", "done"},
             call[c].pc # "idle", r.pc = "done" => r.slot = call[c].slot,
             answer' \in [Callers -> Int], UNCHANGED <<stored, bad>>
      PROVE  DataOK' /\ RedisOK'
  <2>1. /\ call' \in [Callers -> CallType]
        /\ call'[c] = r /\ \A d \in Callers : d # c => call'[d] = call[d]
    BY <1>0, <1>3, CallUpdate
  <2>2. DataOK'
    BY <1>0, <1>3, <2>1 DEF DataOK
  <2>3. RedisOK'
    BY <1>0, <1>3, <2>1 DEF RedisOK
  <2> QED BY <2>2, <2>3
<1>4. ASSUME LLen(c)
      PROVE  DataOK' /\ RedisOK'
  <2> DEFINE r == [call[c] EXCEPT !.pc = "done", !.off = Len(stored[call[c].slot]) - 1]
  <2>1. call[c].pc = "pushed" /\ UNCHANGED <<stored, bad, answer>>
    BY <1>4 DEF LLen, At
  <2>2. stored[call[c].slot] \in Seq(Callers) /\ Len(stored[call[c].slot]) > 0
    BY <1>0, <2>1 DEF DataOK, CallType, RedisOK
  <2>3. Len(stored[call[c].slot]) - 1 \in Nat
    BY <2>2
  <2>4. r \in CallType /\ r.pc = "done" /\ r.slot = call[c].slot
    BY <1>0, <2>3 DEF CallType
  <2>5. call' = [call EXCEPT ![c] = r]
    BY <1>0, <1>4 DEF LLen, DataOK
  <2> HIDE DEF r
  <2> QED BY <1>0, <1>3, <2>1, <2>4, <2>5 DEF DataOK
<1>5. ASSUME RedisFails(c) \/ Answers(c)
      PROVE  DataOK' /\ RedisOK'
  <2>1. call' = [call EXCEPT ![c] = Idle] /\ call[c].pc # "idle" /\ UNCHANGED <<stored, bad>>
    BY <1>5 DEF RedisFails, Fail, Answers, Return, At
  <2>2. answer' \in [Callers -> Int]
    BY <1>0, <1>5 DEF RedisFails, Fail, Answers, Return, DataOK, CallType
  <2> QED BY <1>3, <2>1, <2>2, IdleTyped
<1> QED BY <1>1, <1>2, <1>4, <1>5, OfRedis

\* A transaction that has not committed changes only what its caller remembers.
LEMMA PgLocal ==
  ASSUME AppendsOK, backend = "postgres", NEW c \in Callers, NEW r \in CallType,
         call' = [call EXCEPT ![c] = r], answer' \in [Callers -> Int],
         UNCHANGED <<stored, bad, offsets, backend>>,
         r.pc \in {"owner", "inserted", "updated"} =>
           (RowFree(r.slot) \/ Owns(c, r.slot)),
         r.pc \in {"idle", "first", "owner", "inserted", "updated", "done"},
         r.pc = "first" => r.off = 0,
         r.pc = "owner" => r.off = Len(stored[r.slot]),
         r.pc \in {"inserted", "updated"} => r.off = Len(stored[r.slot]) + 1
  PROVE  AppendsOK'
<1>1. DataOK /\ OneOwner /\ TablesAgree /\ \A d \in Callers : PgCallOK(d)
  BY DEF AppendsOK, PostgresOK
<1>2. /\ call' \in [Callers -> CallType]
      /\ call'[c] = r /\ \A d \in Callers : d # c => call'[d] = call[d]
  BY <1>1, CallUpdate
<1>3. DataOK'
  BY <1>1, <1>2 DEF DataOK
<1>4. \A d \in Callers : PgCallOK(d)'
  BY <1>1, <1>2 DEF PgCallOK
<1>5. OneOwner'
  <2> SUFFICES ASSUME NEW k \in Slots, NEW d \in Callers, NEW e \in Callers,
                      Owns(d, k)', Owns(e, k)', d # e
               PROVE  FALSE
    BY DEF OneOwner
  <2>1. CASE d # c /\ e # c
    BY <1>1, <1>2, <2>1 DEF OneOwner, Owns
  <2>2. ASSUME NEW f \in Callers, f # c, Owns(f, k)', Owns(c, k)'
        PROVE  FALSE
    <3>1. Owns(f, k) /\ r.slot = k /\ r.pc \in {"owner", "inserted", "updated"}
      BY <1>2, <2>2 DEF Owns
    <3>2. ~RowFree(k)
      BY <3>1 DEF RowFree
    <3>3. Owns(c, k)
      BY <3>1, <3>2
    <3> QED BY <1>1, <2>2, <3>1, <3>3 DEF OneOwner
  <2> QED BY <2>1, <2>2
<1>6. TablesAgree'
  BY <1>1 DEF TablesAgree
<1> QED BY <1>3, <1>4, <1>5, <1>6, OfPostgres DEF PostgresOK

LEMMA PgCommitPreserves ==
  ASSUME AppendsOK, backend = "postgres", UNCHANGED backend, NEW c \in Callers, PgCommit(c)
  PROVE  /\ AppendsOK'
         /\ stored' = [stored EXCEPT ![call[c].slot] = Append(@, c)]
         /\ call[c].off - 1 = Len(stored[call[c].slot])
<1> DEFINE k == call[c].slot
           o == call[c].off
           n == Len(stored[k])
           r == [call[c] EXCEPT !.pc = "done"]
<1>1. DataOK /\ OneOwner /\ TablesAgree /\ \A d \in Callers : PgCallOK(d)
  BY DEF AppendsOK, PostgresOK
<1>2. /\ call[c] \in CallType /\ k \in Slots /\ o \in Nat
      /\ stored[k] \in Seq(Callers) /\ n \in Nat
  BY <1>1 DEF DataOK, CallType
<1>3. call[c].pc = "updated" /\ o = n + 1
  BY <1>1 DEF PgCommit, At, PgCallOK
<1>4. /\ stored' = [stored EXCEPT ![k] = [i \in DOMAIN @ \cup {o} |-> IF i = o THEN c ELSE @[i]]]
      /\ offsets' = [offsets EXCEPT ![k] = o]
      /\ UNCHANGED <<bad, answer>>
  BY DEF PgCommit, LastOffset
<1>5. call' = [call EXCEPT ![c] = r] /\ r \in CallType /\ r.pc = "done"
  BY <1>1, <1>2 DEF PgCommit, DataOK, CallType
<1>6. [i \in DOMAIN stored[k] \cup {o} |-> IF i = o THEN c ELSE stored[k][i]] = Append(stored[k], c)
  <2>1. DOMAIN stored[k] = 1 .. n
    BY <1>2
  <2>2. DOMAIN stored[k] \cup {o} = 1 .. (n + 1)
    BY <1>2, <1>3, <2>1
  <2>3. Append(stored[k], c) = [i \in 1 .. (n + 1) |-> IF i = n + 1 THEN c ELSE stored[k][i]]
    BY <1>2
  <2> QED BY <1>3, <2>2, <2>3
<1>7. stored' = [stored EXCEPT ![k] = Append(@, c)]
  BY <1>1, <1>2, <1>4, <1>6 DEF DataOK
<1> HIDE DEF r, k, o
<1>8. /\ call' \in [Callers -> CallType]
      /\ call'[c] = r /\ \A d \in Callers : d # c => call'[d] = call[d]
  BY <1>1, <1>5, CallUpdate
<1>9. /\ stored' \in [Slots -> Seq(Callers)] /\ stored'[k] = Append(stored[k], c)
      /\ \A j \in Slots : j # k => stored'[j] = stored[j]
  BY <1>1, <1>2, <1>7 DEF DataOK
<1>10. Len(stored'[k]) = n + 1 /\ stored'[k] # <<>> /\ DOMAIN stored'[k] = 1 .. (n + 1)
  BY <1>2, <1>9
<1>11. DataOK'
  <2>1. offsets' \in [Slots -> Nat \cup {NoRow}]
    BY <1>1, <1>2, <1>4 DEF DataOK
  <2> QED BY <1>1, <1>4, <1>8, <1>9, <2>1 DEF DataOK
<1>12. \A d \in Callers : d # c /\ Owns(d, call[d].slot) => call[d].slot # k
  <2>1. Owns(c, k)
    BY <1>3 DEF Owns, k
  <2> QED BY <1>1, <1>2, <2>1 DEF OneOwner
<1>13. ASSUME NEW d \in Callers PROVE PgCallOK(d)'
  <2>1. CASE d = c
    BY <1>5, <1>8, <2>1 DEF PgCallOK
  <2>2. CASE d # c
    <3>1. call'[d] = call[d] /\ call[d].slot \in Slots /\ PgCallOK(d)
      BY <1>1, <1>8, <2>2 DEF DataOK, CallType
    <3>2. call[d].pc \in {"owner", "inserted", "updated"} =>
            stored'[call[d].slot] = stored[call[d].slot]
      BY <1>9, <1>12, <2>2, <3>1 DEF Owns
    <3> QED BY <3>1, <3>2 DEF PgCallOK
  <2> QED BY <2>1, <2>2
<1>14. OneOwner'
  <2>1. \A d \in Callers, j \in Slots : Owns(d, j)' => Owns(d, j)
    BY <1>5, <1>8 DEF Owns
  <2> QED BY <1>1, <2>1 DEF OneOwner
<1>15. TablesAgree'
  <2> SUFFICES ASSUME NEW j \in Slots
               PROVE  /\ DOMAIN stored'[j] = 1 .. Len(stored'[j])
                      /\ offsets'[j] = IF stored'[j] = <<>> THEN NoRow ELSE Len(stored'[j])
    BY DEF TablesAgree
  <2>1. CASE j = k
    <3>1. offsets'[k] = o
      BY <1>1, <1>2, <1>4 DEF DataOK
    <3> QED BY <1>3, <1>10, <2>1, <3>1
  <2>2. CASE j # k
    <3>1. offsets'[j] = offsets[j] /\ stored'[j] = stored[j]
      BY <1>1, <1>4, <1>9, <2>2 DEF DataOK
    <3> QED BY <1>1, <3>1 DEF TablesAgree
  <2> QED BY <2>1, <2>2
<1>16. AppendsOK'
  BY <1>11, <1>13, <1>14, <1>15, OfPostgres DEF PostgresOK
<1> QED BY <1>2, <1>3, <1>7, <1>16 DEF k, o

\* The steps of a transaction that leave the log alone.
PgInside(c) ==
  \/ \E k \in Slots : SelectRow(c, k) \/ SelectNoRow(c, k)
  \/ InsertRow(c) \/ InsertMessage(c) \/ UpdateOffsets(c)

LEMMA PgInsidePreserves ==
  ASSUME AppendsOK, backend = "postgres", UNCHANGED backend, NEW c \in Callers, PgInside(c)
  PROVE  /\ AppendsOK'
         /\ UNCHANGED <<stored, answer>>
         /\ \E r \in CallType : call' = [call EXCEPT ![c] = r] /\ r.pc \notin {"idle", "pushed", "done"}
         /\ call[c].pc \notin {"pushed", "done"}
<1>1. DataOK /\ TablesAgree /\ PgCallOK(c) /\ call[c] \in CallType
  BY DEF AppendsOK, PostgresOK, DataOK
<1>2. UNCHANGED <<stored, bad, answer, offsets>> /\ call[c].pc \notin {"pushed", "done"}
  BY DEF PgInside, SelectRow, SelectNoRow, InsertRow, InsertMessage, UpdateOffsets, At
<1>3. answer' \in [Callers -> Int]
  BY <1>1, <1>2 DEF DataOK
<1>4. ASSUME NEW k \in Slots, SelectRow(c, k)
      PROVE  AppendsOK' /\ \E r \in CallType : call' = [call EXCEPT ![c] = r] /\ r.pc = "owner"
  <2> DEFINE r == [pc |-> "owner", slot |-> k, off |-> offsets[k]]
  <2>1. offsets[k] = Len(stored[k]) /\ offsets[k] \in Nat /\ RowFree(k)
    BY <1>1, <1>4 DEF SelectRow, TablesAgree, DataOK
  <2>2. r \in CallType /\ r.pc = "owner" /\ r.slot = k /\ r.off = Len(stored[k])
    BY <2>1 DEF CallType
  <2>3. call' = [call EXCEPT ![c] = r]
    BY <1>4 DEF SelectRow
  <2> HIDE DEF r
  <2> QED BY <1>2, <1>3, <2>1, <2>2, <2>3, PgLocal
<1>5. ASSUME NEW k \in Slots, SelectNoRow(c, k)
      PROVE  AppendsOK' /\ \E r \in CallType : call' = [call EXCEPT ![c] = r] /\ r.pc = "first"
  <2> DEFINE r == [pc |-> "first", slot |-> k, off |-> 0]
  <2>1. r \in CallType /\ r.pc = "first" /\ r.slot = k /\ r.off = 0
    BY DEF CallType
  <2>2. call' = [call EXCEPT ![c] = r]
    BY <1>5 DEF SelectNoRow
  <2> HIDE DEF r
  <2> QED BY <1>2, <1>3, <2>1, <2>2, PgLocal
<1>6. ASSUME InsertRow(c)
      PROVE  AppendsOK' /\ \E r \in CallType : call' = [call EXCEPT ![c] = r] /\ r.pc = "owner"
  <2> DEFINE r == [call[c] EXCEPT !.pc = "owner"]
  <2>1. call[c].pc = "first" /\ RowFree(call[c].slot) /\ offsets[call[c].slot] = NoRow
    BY <1>6 DEF InsertRow, At
  <2>2. call[c].slot \in Slots /\ stored[call[c].slot] \in Seq(Callers)
    BY <1>1 DEF DataOK, CallType
  <2>3. Len(stored[call[c].slot]) = 0
    <3>1. offsets[call[c].slot] = IF stored[call[c].slot] = <<>> THEN NoRow ELSE Len(stored[call[c].slot])
      BY <2>2, <1>1 DEF TablesAgree
    <3>2. Len(stored[call[c].slot]) # NoRow
      BY <2>2 DEF NoRow
    <3> QED BY <2>1, <3>1, <3>2
  <2>4. call[c].off = 0
    BY <1>1, <2>1 DEF PgCallOK
  <2>5. r \in CallType /\ r.pc = "owner" /\ r.slot = call[c].slot /\ r.off = Len(stored[r.slot])
    BY <1>1, <2>3, <2>4 DEF CallType
  <2>6. call' = [call EXCEPT ![c] = r]
    BY <1>1, <1>6 DEF InsertRow, DataOK
  <2> HIDE DEF r
  <2> QED BY <1>2, <1>3, <2>1, <2>5, <2>6, PgLocal
<1>7. ASSUME InsertMessage(c)
      PROVE  AppendsOK' /\ \E r \in CallType : call' = [call EXCEPT ![c] = r] /\ r.pc = "inserted"
  <2> DEFINE r == [call[c] EXCEPT !.pc = "inserted", !.off = @ + 1]
  <2>1. call[c].pc = "owner" /\ call[c].off \in Nat
    BY <1>1, <1>7 DEF InsertMessage, At, CallType
  <2>2. r \in CallType /\ r.pc = "inserted" /\ r.slot = call[c].slot /\ r.off = Len(stored[r.slot]) + 1
    <3>1. call[c].off = Len(stored[call[c].slot])
      BY <1>1, <2>1 DEF PgCallOK
    <3>2. r.pc = "inserted" /\ r.slot = call[c].slot /\ r.off = call[c].off + 1
      BY <1>1 DEF CallType
    <3>3. \A n \in Nat : [call[c] EXCEPT !.pc = "inserted", !.off = n] \in CallType
      BY <1>1 DEF CallType
    <3>4. call[c].off + 1 \in Nat
      BY <2>1
    <3>5. r \in CallType
      BY <3>3, <3>4
    <3> QED BY <3>1, <3>2, <3>5
  <2>3. call' = [call EXCEPT ![c] = r]
    BY <1>1, <1>7 DEF InsertMessage, DataOK
  <2>4. Owns(c, r.slot)
    BY <2>1, <2>2 DEF Owns
  <2> HIDE DEF r
  <2> QED BY <1>2, <1>3, <2>2, <2>3, <2>4, PgLocal
<1>8. ASSUME UpdateOffsets(c)
      PROVE  AppendsOK' /\ \E r \in CallType : call' = [call EXCEPT ![c] = r] /\ r.pc = "updated"
  <2> DEFINE r == [call[c] EXCEPT !.pc = "updated"]
  <2>1. call[c].pc = "inserted"
    BY <1>8 DEF UpdateOffsets, At
  <2>2. r \in CallType /\ r.pc = "updated" /\ r.slot = call[c].slot /\ r.off = Len(stored[r.slot]) + 1
    BY <1>1, <2>1 DEF CallType, PgCallOK
  <2>3. call' = [call EXCEPT ![c] = r]
    BY <1>1, <1>8 DEF UpdateOffsets, DataOK
  <2>4. Owns(c, r.slot)
    BY <2>1, <2>2 DEF Owns
  <2> HIDE DEF r
  <2> QED BY <1>2, <1>3, <2>2, <2>3, <2>4, PgLocal
<1> QED BY <1>2, <1>4, <1>5, <1>6, <1>7, <1>8 DEF PgInside

LEMMA PostgresPreserves ==
  ASSUME AppendsOK, backend = "postgres", UNCHANGED backend, NEW c \in Callers,
         PgInside(c) \/ PgCommit(c) \/ PgFails(c) \/ Answers(c)
  PROVE  AppendsOK'
<1>1. ASSUME PgFails(c) \/ Answers(c)
      PROVE  AppendsOK'
  <2>1. call' = [call EXCEPT ![c] = Idle] /\ UNCHANGED <<stored, bad, offsets>>
    BY <1>1 DEF PgFails, Fail, Answers, Return
  <2>2. DataOK
    BY DEF AppendsOK
  <2>3. answer' \in [Callers -> Int]
    BY <1>1, <2>2 DEF PgFails, Fail, Answers, Return, DataOK, CallType
  <2> QED BY <2>1, <2>3, IdleTyped, PgLocal
<1> QED BY <1>1, PgInsidePreserves, PgCommitPreserves

\* All calls end with their process, and with the log, if it is in memory.
LEMMA RestartPreserves ==
  ASSUME AppendsOK, Restart
  PROVE  AppendsOK'
<1>1. /\ call' = [c \in Callers |-> Idle] /\ answer' = [c \in Callers |-> -1]
      /\ UNCHANGED <<offsets, backend>>
      /\ \/ UNCHANGED <<stored, bad>>
         \/ /\ backend = "memory"
            /\ stored' = [k \in Slots |-> <<>>] /\ bad' = [k \in Slots |-> {}]
  BY DEF Restart, Fresh, MemLost
<1>2. DataOK'
  <2>0. DataOK
    BY DEF AppendsOK
  <2>1. call' \in [Callers -> CallType]
    BY <1>1, IdleTyped
  <2>2. answer' \in [Callers -> Int]
    BY <1>1
  <2>3. stored' \in [Slots -> Seq(Callers)]
    <3>1. <<>> \in Seq(Callers)
      OBVIOUS
    <3>2. [k \in Slots |-> <<>>] \in [Slots -> Seq(Callers)]
      BY <3>1
    <3>3. CASE UNCHANGED <<stored, bad>>
      BY <2>0, <3>3 DEF DataOK
    <3>4. CASE stored' = [k \in Slots |-> <<>>]
      BY <3>2, <3>4
    <3> QED BY <1>1, <3>3, <3>4
  <2>4. bad' \in [Slots -> SUBSET Nat]
    BY <1>1, <2>0 DEF DataOK
  <2> QED BY <1>1, <2>0, <2>1, <2>2, <2>3, <2>4 DEF DataOK
<1>3. \A c \in Callers : call'[c].pc = "idle"
  BY <1>1, IdleTyped
<1>4. MemoryOK' /\ RedisOK' /\ PostgresOK'
  BY <1>3 DEF MemoryOK, RedisOK, PostgresOK, PgCallOK, OneOwner, Owns
<1>5. TablesAgree'
  BY <1>1 DEF AppendsOK, TablesAgree
<1> QED BY <1>2, <1>4, <1>5 DEF AppendsOK

\* Neither a commit nor an undecodable message concerns the appends.
LEMMA QuietPreserves ==
  ASSUME AppendsOK, UNCHANGED <<stored, call, answer, offsets, backend>>,
         bad' \in [Slots -> SUBSET Nat]
  PROVE  AppendsOK'
<1>1. DataOK'
  BY DEF AppendsOK, DataOK
<1>2. MemoryOK' /\ RedisOK' /\ PostgresOK' /\ TablesAgree'
  BY DEF AppendsOK, MemoryOK, RedisOK, PostgresOK, PgCallOK, OneOwner, Owns, TablesAgree
<1> QED BY <1>1, <1>2 DEF AppendsOK

\* Each step, by the backend that takes it.
LEMMA Steps ==
  ASSUME [StoresNext]_svars, AppendsOK
  PROVE  \/ \E c \in Callers :
              /\ backend = "memory" /\ UNCHANGED <<offsets, backend>>
              /\ Answers(c) \/ \E k \in Slots : MemAppend(c, k)
         \/ \E c \in Callers :
              /\ backend = "redis" /\ UNCHANGED <<offsets, backend>>
              /\ \/ \E k \in Slots : RPush(c, k)
                 \/ RPushAgain(c) \/ LLen(c) \/ RedisFails(c) \/ Answers(c)
         \/ \E c \in Callers :
              /\ backend = "postgres" /\ UNCHANGED backend
              /\ PgInside(c) \/ PgCommit(c) \/ PgFails(c) \/ Answers(c)
         \/ Restart
         \/ /\ UNCHANGED <<stored, call, answer, offsets, backend>>
            /\ bad' \in [Slots -> SUBSET Nat]
<1>0. DataOK
  BY DEF AppendsOK
<1>1. CASE \E c \in Callers, k \in Slots : AppendBegins(c, k)
  BY <1>1 DEF AppendBegins, Memory, Redis, Pg, PgInside
<1>2. ASSUME NEW c \in Callers, AppendGoesOn(c)
      PROVE  \/ /\ backend = "redis" /\ UNCHANGED <<offsets, backend>>
                /\ RPushAgain(c) \/ LLen(c) \/ RedisFails(c)
             \/ /\ backend = "postgres" /\ UNCHANGED backend
                /\ PgInside(c) \/ PgCommit(c) \/ PgFails(c)
             \/ Answers(c) /\ UNCHANGED <<offsets, backend>>
  BY <1>2 DEF AppendGoesOn, Redis, Pg, PgInside, Answers
<1>3. ASSUME NEW x \in Triples, NEW o \in AckOffsets, CommitOffset(x, o)
      PROVE  /\ UNCHANGED <<stored, call, answer, offsets, backend>>
             /\ bad' \in [Slots -> SUBSET Nat]
  BY <1>0, <1>3 DEF CommitOffset, PutCommit, DataOK
<1>4. ASSUME NEW k \in Slots, NEW i, Spoil(k, i)
      PROVE  /\ UNCHANGED <<stored, call, answer, offsets, backend>>
             /\ bad' \in [Slots -> SUBSET Nat]
  <2>1. stored[k] \in Seq(Callers) /\ i \in DOMAIN stored[k] /\ bad' = [bad EXCEPT ![k] = @ \cup {i}]
    BY <1>0, <1>4 DEF Spoil, DataOK
  <2>2. i \in Nat
    BY <2>1
  <2> QED BY <1>0, <1>4, <2>1, <2>2 DEF Spoil, DataOK
<1>5. CASE UNCHANGED svars
  BY <1>0, <1>5 DEF svars, storeVars, DataOK
<1>6. backend \in {"memory", "redis", "postgres"}
  BY <1>0 DEF DataOK
<1> QED BY <1>1, <1>2, <1>3, <1>4, <1>5, <1>6 DEF StoresNext

LEMMA StInductive == StInv /\ [StoresNext]_svars => StInv'
<1> SUFFICES ASSUME StInv, [StoresNext]_svars PROVE StInv'
  OBVIOUS
<1>1. AppendsOK /\ CommitsOK /\ backend \in {"memory", "redis", "postgres"}
  BY DEF StInv, AppendsOK, DataOK
<1>2. CommitsOK'
  BY <1>1, CommitsPreserved
<1>3. AppendsOK'
  BY <1>1, Steps, MemoryPreserves, RedisPreserves, PostgresPreserves, RestartPreserves, QuietPreserves
<1> QED BY <1>2, <1>3 DEF StInv, AppendsOK

LEMMA StInitially == StoresInit => StInv
<1> SUFFICES ASSUME StoresInit PROVE StInv
  OBVIOUS
<1>1. backend \in {"memory", "redis", "postgres"}
  BY DEF StoresInit, Backend
<1>2. DataOK
  BY <1>1, IdleTyped DEF StoresInit, DataOK
<1>3. \A c \in Callers : call[c].pc = "idle"
  BY IdleTyped DEF StoresInit
<1>4. MemoryOK /\ RedisOK /\ PostgresOK
  BY <1>3 DEF MemoryOK, RedisOK, PostgresOK, PgCallOK, OneOwner, Owns
<1>5. TablesAgree
  <2> SUFFICES ASSUME NEW k \in Slots
               PROVE  /\ DOMAIN stored[k] = 1 .. Len(stored[k])
                      /\ offsets[k] = IF stored[k] = <<>> THEN NoRow ELSE Len(stored[k])
    BY DEF TablesAgree
  <2> QED BY DEF StoresInit
<1>6. CommitsOK
  BY DEF StoresInit, CommitsOK, CommitOf, GetCommittedOffset
<1> QED BY <1>2, <1>4, <1>5, <1>6 DEF StInv

\* The invariant of all backends.
THEOREM StInvariance == StoresSpec => []StInv
BY StInitially, StInductive, PTL DEF StoresSpec

\* Type correctness.
THEOREM StoresTypeCorrect == StoresSpec => []StoresTypeOK
<1>1. StInv => StoresTypeOK
  BY DEF StInv, DataOK, CommitsOK, StoresTypeOK, CallType
<1> QED BY <1>1, StInvariance, PTL

\* Whatever transactions are open, failed or cut off, the two tables agree.
THEOREM PostgresTablesAgree == StoresSpec => []TablesAgree
<1>1. StInv => TablesAgree
  BY DEF StInv
<1> QED BY <1>1, StInvariance, PTL

\* The row lock, and the primary key as long as there is no row, make the
\* transactions of a partition take turns.
THEOREM TransactionsTakeTurns == StoresSpec => [](backend = "postgres" => OneOwner)
<1>1. StInv => (backend = "postgres" => OneOwner)
  BY DEF StInv, PostgresOK
<1> QED BY <1>1, StInvariance, PTL

\* A group reads back what was committed last for it, whatever other groups and
\* topics commit, in Redis and Postgres; in memory also what was committed last
\* for names that join to the same key.
THEOREM LastCommitsAreRead == StoresSpec => []LastCommitIsRead
<1>1. StInv => LastCommitIsRead
  <2> SUFFICES ASSUME StInv, NEW x \in Triples, GetCommittedOffset(x) # last[x]
               PROVE  /\ backend = "memory"
                      /\ \E y \in Triples \ {x} :
                           MemEntry(y) = MemEntry(x) /\ GetCommittedOffset(x) = last[y]
    BY DEF LastCommitIsRead
  <2>1. PICK y \in Triples : Entry(y) = Entry(x) /\ GetCommittedOffset(x) = last[y]
    BY DEF StInv, CommitsOK, CommitOf
  <2>2. y # x
    BY <2>1
  <2>3. backend = "memory"
    BY <2>1, <2>2, EntriesDiffer DEF StInv, DataOK
  <2> QED BY <2>1, <2>2, <2>3 DEF Entry
<1> QED BY <1>1, StInvariance, PTL
-----------------------------------------------------------------------------
(* Reads *)

\* Nothing in memory is undecodable.
MemoryDecodes == backend = "memory" => \A k \in Slots : bad[k] = {}

LEMMA DecodesInductive ==
  ASSUME MemoryDecodes, [StoresNext]_svars
  PROVE  MemoryDecodes'
<1>1. ASSUME UNCHANGED <<backend, bad>> PROVE MemoryDecodes'
  BY <1>1 DEF MemoryDecodes
<1>2. ASSUME NEW c \in Callers, NEW k \in Slots, AppendBegins(c, k)
      PROVE  UNCHANGED <<backend, bad>>
  BY <1>2 DEF AppendBegins, Memory, Redis, Pg, MemAppend, RPush, SelectRow, SelectNoRow
<1>3. ASSUME NEW c \in Callers, AppendGoesOn(c)
      PROVE  UNCHANGED <<backend, bad>>
  BY <1>3 DEF AppendGoesOn, Redis, Pg, RPushAgain, LLen, RedisFails, InsertRow, InsertMessage,
       UpdateOffsets, PgCommit, PgFails, Answers, Return
<1>4. ASSUME NEW x \in Triples, NEW o \in AckOffsets, CommitOffset(x, o)
      PROVE  UNCHANGED <<backend, bad>>
  BY <1>4 DEF CommitOffset, PutCommit
<1>5. ASSUME NEW k \in Slots, NEW i, Spoil(k, i)
      PROVE  MemoryDecodes'
  BY <1>5 DEF Spoil, MemoryDecodes
<1>6. CASE Restart
  BY <1>6 DEF Restart, MemLost, MemoryDecodes
<1>7. CASE UNCHANGED svars
  BY <1>1, <1>7 DEF svars, storeVars
<1> QED BY <1>1, <1>2, <1>3, <1>4, <1>5, <1>6, <1>7 DEF StoresNext

\* How many elements of an interval come before one of them.
LEMMA Before ==
  ASSUME NEW lo \in Nat, NEW n \in Nat, NEW i \in lo .. n
  PROVE  Cardinality({j \in lo .. n : j < i}) = i - lo
<1> DEFINE hi == i - 1
           S == {j \in lo .. n : j < i}
<1>1. hi \in Int /\ S = lo .. hi
  OBVIOUS
<1> HIDE DEF hi, S
<1>2. Cardinality(lo .. hi) = IF lo > hi THEN 0 ELSE hi - lo + 1
  BY <1>1, FS_Interval
<1>3. Cardinality(S) = i - lo
  BY <1>1, <1>2 DEF hi
<1> QED BY <1>3 DEF S

\* The indexes from lo on, up to max of them, and what a read tells of some indexes.
Wanted(k, lo, max) == {i \in lo .. Len(stored[k]) : max = 0 \/ i - lo < max}
Messages(k, W) == {<<FirstOffset + i - 1, stored[k][i]>> : i \in W \ bad[k]}

\* What the interface says, without counting: the messages from the first one that
\* is wanted to the last one, or to the max-th.
LEMMA ReadableIs ==
  ASSUME StInv, NEW k \in Slots, NEW offset \in Int, NEW max \in Nat,
         NEW lo \in Nat, lo = (IF offset <= FirstOffset THEN 1 ELSE offset - FirstOffset + 1)
  PROVE  Readable(k, offset, max) = Messages(k, Wanted(k, lo, max))
<1> DEFINE n == Len(stored[k])
           window == {i \in DOMAIN stored[k] : FirstOffset + i - 1 >= offset}
           taken  == {i \in window : max = 0 \/ Cardinality({j \in window : j < i}) < max}
<1>1. FirstOffset \in {0, 1} /\ n \in Nat /\ DOMAIN stored[k] = 1 .. n /\ lo >= 1
  BY DEF FirstOffset, StInv, DataOK
<1>2. window = lo .. n
  BY <1>1
<1> HIDE DEF n, window
<1>3. \A i \in window : Cardinality({j \in window : j < i}) = i - lo
  BY <1>1, <1>2, Before
<1>4. taken = Wanted(k, lo, max)
  BY <1>2, <1>3 DEF n, Wanted
<1>5. Readable(k, offset, max) = {<<FirstOffset + i - 1, stored[k][i]>> : i \in taken \ bad[k]}
  BY DEF Readable, window
<1> HIDE DEF taken
<1> QED BY <1>4, <1>5 DEF Messages

\* The slice of the store in memory.
LEMMA MemoryReads ==
  ASSUME StInv, MemoryDecodes, backend = "memory",
         NEW k \in Slots, NEW offset \in Int, NEW max \in Nat
  PROVE  MemRead(k, offset, max) = Readable(k, offset, max)
<1> DEFINE n == Len(stored[k])
           start == From(offset)
           lo == start + 1
           end == IF max > 0 /\ start + max < n THEN start + max ELSE n
           wanted == Wanted(k, lo, max)
<1>1. n \in Nat /\ start \in Nat /\ FirstOffset = 0 /\ bad[k] = {}
  BY DEF StInv, DataOK, From, FirstOffset, MemoryDecodes
<1>2. lo \in Nat /\ lo = (IF offset <= FirstOffset THEN 1 ELSE offset - FirstOffset + 1)
  BY <1>1 DEF From
<1>3. Readable(k, offset, max) = Messages(k, wanted)
  <2> HIDE DEF lo
  <2> QED BY <1>2, ReadableIs
<1>4. Readable(k, offset, max) = {<<i - 1, stored[k][i]>> : i \in wanted}
  <2>1. \A i \in wanted : FirstOffset + i - 1 = i - 1
    BY <1>1 DEF Wanted
  <2>2. wanted \ bad[k] = wanted
    BY <1>1
  <2> HIDE DEF wanted
  <2> QED BY <1>3, <2>1, <2>2 DEF Messages
<1>5. MemRead(k, offset, max) = {<<o, stored[k][o + 1]>> : o \in start .. (end - 1)}
  BY DEF MemRead
<1>6. \A o \in start .. (end - 1) : o + 1 \in wanted /\ (o + 1) - 1 = o
  BY <1>1 DEF Wanted
<1>7. \A i \in wanted : i - 1 \in start .. (end - 1) /\ (i - 1) + 1 = i
  BY <1>1 DEF Wanted
<1> HIDE DEF wanted, start, end
<1> QED BY <1>4, <1>5, <1>6, <1>7

\* LRANGE with the stop that Read computes, and the labels of what it returns.
LEMMA RedisReads ==
  ASSUME StInv, backend = "redis", NEW k \in Slots, NEW offset \in Int, NEW max \in Nat
  PROVE  RedisRead(k, offset, max) = Readable(k, offset, max)
<1> DEFINE n == Len(stored[k])
           start == From(offset)
           stop == IF max <= 0 THEN -1 ELSE start + max - 1
           end == IF stop < 0 THEN n + stop ELSE IF stop < n THEN stop ELSE n - 1
           len == IF start <= end THEN end - start + 1 ELSE 0
           raw == LRange(n, start, stop)
           lo == start + 1
           wanted == Wanted(k, lo, max)
           decoded == {j \in DOMAIN raw : raw[j] + 1 \notin bad[k]}
<1>1. n \in Nat /\ start \in Nat /\ FirstOffset = 0
  BY DEF StInv, DataOK, From, FirstOffset
<1>2. lo \in Nat /\ lo = (IF offset <= FirstOffset THEN 1 ELSE offset - FirstOffset + 1)
  BY <1>1 DEF From
<1>3. Readable(k, offset, max) = Messages(k, wanted)
  <2> HIDE DEF lo
  <2> QED BY <1>2, ReadableIs
<1>4. Readable(k, offset, max) = {<<i - 1, stored[k][i]>> : i \in wanted \ bad[k]}
  <2>1. \A i \in wanted : FirstOffset + i - 1 = i - 1
    BY <1>1 DEF Wanted
  <2> HIDE DEF wanted
  <2> QED BY <1>3, <2>1 DEF Messages
<1>5. raw = [i \in 1 .. len |-> start + i - 1]
  BY DEF LRange
<1>6. RedisRead(k, offset, max) = {<<start + i - 1, stored[k][raw[i] + 1]>> : i \in decoded}
  BY DEF RedisRead, Label
<1>7. end = IF max = 0 \/ start + max - 1 >= n THEN n - 1 ELSE start + max - 1
  <2> HIDE DEF n, start
  <2> QED BY <1>1
<1>8. len \in Nat /\ wanted \subseteq Int
  <2> HIDE DEF n, start, end
  <2> QED BY <1>1, <1>7 DEF Wanted, n
<1>9. \A i \in 1 .. len : start + i \in wanted
  <2> HIDE DEF n, start, end
  <2> QED BY <1>1, <1>7 DEF Wanted, n
<1>10. \A i \in wanted : i - start \in 1 .. len
  <2> HIDE DEF n, start, end
  <2> QED BY <1>1, <1>7 DEF Wanted, n
<1> HIDE DEF wanted, start, stop, end, len, raw, n
<1>11. DOMAIN raw = 1 .. len /\ \A i \in 1 .. len : raw[i] = start + i - 1 /\ raw[i] + 1 = start + i
  BY <1>1, <1>5, <1>8
<1>12. \A i \in decoded : /\ start + i \in wanted \ bad[k]
                          /\ start + i - 1 = (start + i) - 1 /\ raw[i] + 1 = start + i
  <2> TAKE i \in decoded
  <2>1. i \in 1 .. len /\ raw[i] + 1 = start + i /\ raw[i] + 1 \notin bad[k]
    BY <1>11
  <2>2. start + i \in wanted \ bad[k]
    BY <1>9, <2>1
  <2> QED BY <1>1, <2>1, <2>2
<1>13. \A i \in wanted \ bad[k] :
         /\ i - start \in decoded /\ start + (i - start) - 1 = i - 1
         /\ raw[i - start] + 1 = i
  <2> TAKE i \in wanted \ bad[k]
  <2>1. i - start \in 1 .. len /\ i \in Int
    BY <1>8, <1>10
  <2>2. raw[i - start] + 1 = start + (i - start)
    BY <1>11, <2>1
  <2>3. start + (i - start) = i
    BY <1>1, <2>1
  <2> QED BY <1>1, <1>11, <2>1, <2>2, <2>3
<1> HIDE DEF decoded
<1> QED BY <1>4, <1>6, <1>12, <1>13

\* The rows from the offset on, up to the limit, or those before the one at which
\* the read broke.
LEMMA PostgresReads ==
  ASSUME StInv, backend = "postgres", NEW k \in Slots, NEW offset \in Int, NEW max \in Nat
  PROVE  /\ Readable(k, offset, max) \in PgReads(k, offset, max)
         /\ \A r \in PgReads(k, offset, max) : Prefix(r, Readable(k, offset, max))
<1> DEFINE rows == {o \in DOMAIN stored[k] : o >= From(offset)}
           limited == {o \in rows : max > 0 => Cardinality({q \in rows : q < o}) < max}
           window == {i \in DOMAIN stored[k] : FirstOffset + i - 1 >= offset}
           taken  == {i \in window : max = 0 \/ Cardinality({j \in window : j < i}) < max}
           read(came) == {<<o, stored[k][o]>> : o \in came \ bad[k]}
<1>1. DOMAIN stored[k] = 1 .. Len(stored[k]) /\ FirstOffset = 1
  BY DEF StInv, TablesAgree, FirstOffset
<1>2. Len(stored[k]) \in Nat
  BY DEF StInv, DataOK
<1>3. rows = window
  BY <1>1, <1>2 DEF From
<1>4. limited = taken /\ limited \subseteq Int
  <2>1. rows \subseteq Int /\ limited \subseteq rows
    BY <1>1, <1>2
  <2>2. limited = taken
    <3> HIDE DEF rows, window
    <3> QED BY <1>3
  <2> HIDE DEF rows, limited, taken
  <2> QED BY <2>1, <2>2
<1>5. \A i \in taken : FirstOffset + i - 1 = i
  BY <1>1, <1>2
<1>6. PgReads(k, offset, max) = {read(came) : came \in Arrived(limited)}
  BY DEF PgReads
<1>7. Readable(k, offset, max) = {<<FirstOffset + i - 1, stored[k][i]>> : i \in taken \ bad[k]}
  BY DEF Readable
<1> HIDE DEF limited, taken
<1>8. Readable(k, offset, max) = read(limited)
  BY <1>4, <1>5, <1>7
<1>9. limited \in Arrived(limited)
  BY DEF Arrived
<1>10. ASSUME NEW came \in Arrived(limited)
       PROVE  Prefix(read(came), read(limited))
  <2>1. came \subseteq limited /\ \A o \in came, q \in limited : q < o => q \in came
    BY <1>4, <1>10 DEF Arrived
  <2>2. read(came) \subseteq read(limited)
    BY <2>1
  <2>3. ASSUME NEW m \in read(came), NEW n \in read(limited), n[1] < m[1]
        PROVE  n \in read(came)
    <3>1. PICK o \in came \ bad[k] : m = <<o, stored[k][o]>>
      BY <2>3
    <3>2. PICK q \in limited \ bad[k] : n = <<q, stored[k][q]>>
      BY <2>3
    <3>3. m[1] = o /\ n[1] = q
      BY <3>1, <3>2
    <3>4. q \in came \ bad[k]
      BY <2>1, <2>3, <3>1, <3>2, <3>3
    <3> QED BY <3>2, <3>4
  <2> QED BY <2>2, <2>3 DEF Prefix
<1> HIDE DEF read
<1> QED BY <1>6, <1>8, <1>9, <1>10

\* What is whole is a prefix of itself.
LEMMA PrefixOfItself == ASSUME NEW W PROVE Prefix(W, W)
BY DEF Prefix

\* The store in memory and Redis read exactly what the interface says, and Postgres
\* that or a part of it without a gap, for every offset and limit, after any
\* appends, spoiled messages, failures and restarts.
THEOREM ReadsAreOfTheInterface == StoresSpec => []ReadsAgree
<1>1. StoresInit => MemoryDecodes
  BY DEF StoresInit, MemoryDecodes
<1>2. MemoryDecodes /\ [StoresNext]_svars => MemoryDecodes'
  BY DecodesInductive
<1>3. StInv /\ MemoryDecodes => ReadsAgree
  <2> SUFFICES ASSUME StInv, MemoryDecodes, NEW k \in Slots,
                      NEW offset \in -1 .. MaxLog[k] + 1, NEW max \in 0 .. MaxLog[k] + 1
               PROVE  /\ Readable(k, offset, max) \in Reads(k, offset, max)
                      /\ backend # "postgres" =>
                           Reads(k, offset, max) = {Readable(k, offset, max)}
                      /\ \A r \in Reads(k, offset, max) : Prefix(r, Readable(k, offset, max))
    BY DEF ReadsAgree
  <2>1. offset \in Int /\ max \in Nat
    OBVIOUS
  <2>2. backend \in {"memory", "redis", "postgres"}
    BY DEF StInv, DataOK
  <2>3. CASE backend = "memory"
    BY <2>1, <2>3, MemoryReads, PrefixOfItself DEF Reads
  <2>4. CASE backend = "redis"
    BY <2>1, <2>4, RedisReads, PrefixOfItself DEF Reads
  <2>5. CASE backend = "postgres"
    BY <2>1, <2>5, PostgresReads DEF Reads
  <2> QED BY <2>2, <2>3, <2>4, <2>5
<1> QED BY <1>1, <1>2, <1>3, StInvariance, PTL DEF StoresSpec
-----------------------------------------------------------------------------
(* The refinement of LogStorage *)

op == [c \in Callers |-> Pending(c)]
results == [c \in Callers |-> IF answer[c] = -1 THEN -1 ELSE answer[c] - FirstOffset]

LEMMA FirstOffsetFacts ==
  /\ FirstOffset \in {0, 1}
  /\ UNCHANGED backend => FirstOffset' = FirstOffset
BY DEF FirstOffset

\* The pending call of a caller, as far as it says anything.
LEMMA PendingFacts ==
  ASSUME NEW c \in Callers
  PROVE  /\ call[c].pc \notin {"pushed", "done"} => Pending(c) = LS!NoOp
         /\ call[c].pc = "done" =>
              Pending(c) = [at |-> {call[c].slot}, off |-> call[c].off - FirstOffset]
         /\ call[c].pc = "pushed" =>
              Pending(c) = [at |-> {call[c].slot}, off |-> Len(stored[call[c].slot]) - 1]
BY DEF Pending, LS!NoOp

\* A caller that does not move, and whose slot does not change if it has pushed,
\* has the same call pending.
LEMMA PendingStays ==
  ASSUME NEW c \in Callers, call'[c] = call[c], UNCHANGED backend,
         call[c].pc = "pushed" => stored'[call[c].slot] = stored[call[c].slot]
  PROVE  Pending(c)' = Pending(c)
BY FirstOffsetFacts DEF Pending

\* If one call moves, the others have the same calls pending.
LEMMA OpUpdate ==
  ASSUME DataOK, UNCHANGED backend, NEW c \in Callers, NEW r \in CallType,
         call' = [call EXCEPT ![c] = r],
         \A d \in Callers : d # c /\ call[d].pc = "pushed" =>
           stored'[call[d].slot] = stored[call[d].slot]
  PROVE  op' = [op EXCEPT ![c] = Pending(c)']
<1>1. call'[c] = r /\ \A d \in Callers : d # c => call'[d] = call[d]
  BY CallUpdate
<1>2. \A d \in Callers : d # c => Pending(d)' = Pending(d)
  BY <1>1, PendingStays
<1>3. \A d \in Callers : op'[d] = IF d = c THEN Pending(c)' ELSE op[d]
  BY <1>2 DEF op
<1>4. op' = [d \in Callers |-> op'[d]] /\ DOMAIN op = Callers
  BY DEF op
<1> HIDE DEF op
<1> QED BY <1>3, <1>4

\* A call that stores its message (again).
LEMMA StoreMaps ==
  ASSUME DataOK, UNCHANGED <<backend, answer>>, NEW c \in Callers, NEW k \in Slots,
         NEW r \in CallType, call' = [call EXCEPT ![c] = r],
         stored' = [stored EXCEPT ![k] = Append(@, c)],
         \A d \in Callers : d # c /\ call[d].pc = "pushed" => call[d].slot # k,
         Pending(c).at \subseteq {k},
         r.slot = k,
         r.pc = "pushed" \/ (r.pc = "done" /\ r.off - FirstOffset = Len(stored[k]))
  PROVE  LS!LSNext
<1>1. call'[c] = r
  BY CallUpdate
<1>2. stored[k] \in Seq(Callers) /\ Len(stored[k]) \in Nat
  BY DEF DataOK
<1>3. /\ stored'[k] = Append(stored[k], c) /\ Len(stored'[k]) = Len(stored[k]) + 1
      /\ \A j \in Slots : j # k => stored'[j] = stored[j]
  BY <1>2 DEF DataOK
<1>4. \A d \in Callers : call[d].slot \in Slots
  BY DEF DataOK, CallType
<1>5. \A d \in Callers : d # c /\ call[d].pc = "pushed" =>
        stored'[call[d].slot] = stored[call[d].slot]
  BY <1>3, <1>4
<1>6. op' = [op EXCEPT ![c] = Pending(c)']
  BY <1>5, OpUpdate
<1>7. Pending(c)' = [at |-> {k}, off |-> Len(stored[k])]
  <2>1. CASE r.pc = "pushed"
    <3>1. Pending(c)' = [at |-> {k}, off |-> Len(stored'[k]) - 1]
      BY <1>1, <2>1 DEF Pending
    <3> QED BY <1>2, <1>3, <3>1
  <2>2. CASE r.pc = "done" /\ r.off - FirstOffset = Len(stored[k])
    <3>1. Pending(c)' = [at |-> {k}, off |-> r.off - FirstOffset]
      BY <1>1, <2>2, FirstOffsetFacts DEF Pending
    <3> QED BY <2>2, <3>1
  <2> QED BY <2>1, <2>2
<1>8. results' = results
  BY FirstOffsetFacts DEF results
<1>9. op[c].at \subseteq {k}
  BY DEF op
<1>10. LS!LSStore(c, k)
  BY <1>6, <1>7, <1>8, <1>9 DEF LS!LSStore, op, results
<1> QED BY <1>10 DEF LS!LSNext

\* A call that moves without storing or answering, except for a new offset.
LEMMA StutterMaps ==
  ASSUME DataOK, UNCHANGED <<backend, answer, stored>>, NEW c \in Callers,
         NEW r \in CallType, call' = [call EXCEPT ![c] = r], Pending(c)' = Pending(c)
  PROVE  UNCHANGED LS!lsVars
<1>1. op' = [op EXCEPT ![c] = Pending(c)']
  BY OpUpdate
<1>2. op' = op
  BY <1>1 DEF op
<1>3. results' = results
  BY FirstOffsetFacts DEF results
<1> QED BY <1>2, <1>3 DEF LS!lsVars, op, results

\* A call that returns an error.
LEMMA FailMaps ==
  ASSUME DataOK, UNCHANGED <<backend, stored>>, NEW c \in Callers, Fail(c)
  PROVE  LS!LSNext
<1>1. call' = [call EXCEPT ![c] = Idle] /\ answer' = [answer EXCEPT ![c] = -1]
  BY DEF Fail
<1>2. op' = [op EXCEPT ![c] = Pending(c)'] /\ call'[c] = Idle
  BY <1>1, IdleTyped, OpUpdate, CallUpdate
<1>3. Pending(c)' = LS!NoOp
  BY <1>2, IdleTyped DEF Pending, LS!NoOp
<1>4. results' = [results EXCEPT ![c] = -1]
  BY <1>1, FirstOffsetFacts DEF results, DataOK
<1>5. LS!LSFail(c)
  BY <1>2, <1>3, <1>4 DEF LS!LSFail, op, results
<1> QED BY <1>5 DEF LS!LSNext

\* A call that returns its offset.
LEMMA ReturnMaps ==
  ASSUME DataOK, UNCHANGED backend, NEW c \in Callers, Answers(c)
  PROVE  LS!LSNext
<1>1. /\ call[c].pc = "done" /\ call' = [call EXCEPT ![c] = Idle]
      /\ answer' = [answer EXCEPT ![c] = call[c].off] /\ UNCHANGED stored
  BY DEF Answers, Return, At
<1>2. op' = [op EXCEPT ![c] = Pending(c)'] /\ call'[c] = Idle
  BY <1>1, IdleTyped, OpUpdate, CallUpdate
<1>3. Pending(c)' = LS!NoOp
  BY <1>2, IdleTyped DEF Pending, LS!NoOp
<1>4. Pending(c) = [at |-> {call[c].slot}, off |-> call[c].off - FirstOffset] /\ Pending(c) # LS!NoOp
  BY <1>1 DEF Pending, LS!NoOp
<1>5. call[c].off # -1
  BY DEF DataOK, CallType
<1>6. results' = [results EXCEPT ![c] = Pending(c).off]
  <2>1. Pending(c).off = call[c].off - FirstOffset
    BY <1>4
  <2>2. \A d \in Callers : answer'[d] = IF d = c THEN call[c].off ELSE answer[d]
    BY <1>1 DEF DataOK
  <2>3. results' = [d \in Callers |-> IF answer'[d] = -1 THEN -1 ELSE answer'[d] - FirstOffset]
    BY FirstOffsetFacts DEF results
  <2> DEFINE v == Pending(c).off
  <2> HIDE DEF v
  <2>4. v = call[c].off - FirstOffset
    BY <2>1 DEF v
  <2>5. results' = [d \in Callers |->
                      IF d = c THEN v
                      ELSE IF answer[d] = -1 THEN -1 ELSE answer[d] - FirstOffset]
    BY <1>5, <2>2, <2>3, <2>4
  <2>6. results' = [results EXCEPT ![c] = v]
    BY <2>5 DEF results
  <2> QED BY <2>6 DEF v
<1>7. LS!LSAnswer(c)
  BY <1>1, <1>2, <1>3, <1>4, <1>6 DEF LS!LSAnswer, op, results
<1> QED BY <1>7 DEF LS!LSNext

\* Each step of a backend is a step of LogStorage, or none.
LEMMA StepImplements == StInv /\ [StoresNext]_svars => [LS!LSNext]_(LS!lsVars)
<1> SUFFICES ASSUME StInv, [StoresNext]_svars PROVE [LS!LSNext]_(LS!lsVars)
  OBVIOUS
<1>1. AppendsOK /\ DataOK /\ \A c \in Callers : call[c] \in CallType
  BY DEF StInv, AppendsOK, DataOK
<1>2. ASSUME NEW c \in Callers, Answers(c)
      PROVE  LS!LSNext
  BY <1>1, <1>2, ReturnMaps DEF Answers
<1>3. ASSUME NEW c \in Callers, NEW k \in Slots, backend = "memory", UNCHANGED backend, MemAppend(c, k)
      PROVE  LS!LSNext
  <2> DEFINE r == [pc |-> "done", slot |-> k, off |-> Len(stored[k])]
  <2>1. stored[k] \in Seq(Callers) /\ FirstOffset = 0
    BY <1>1, <1>3 DEF DataOK, FirstOffset
  <2>2. r \in CallType /\ r.pc = "done" /\ r.slot = k /\ r.off - FirstOffset = Len(stored[k])
    BY <2>1 DEF CallType
  <2>3. call' = [call EXCEPT ![c] = r] /\ stored' = [stored EXCEPT ![k] = Append(@, c)]
        /\ UNCHANGED answer /\ call[c].pc = "idle"
    BY <1>3 DEF MemAppend, At
  <2>4. \A d \in Callers : call[d].pc # "pushed"
    BY <1>1, <1>3 DEF AppendsOK, MemoryOK
  <2>5. Pending(c).at \subseteq {k}
    BY <2>3, PendingFacts DEF LS!NoOp
  <2> HIDE DEF r
  <2> QED BY <1>1, <1>3, <2>2, <2>3, <2>4, <2>5, StoreMaps
<1>4. ASSUME NEW c \in Callers, NEW k \in Slots, backend = "redis", UNCHANGED backend, RPush(c, k)
      PROVE  LS!LSNext
  <2> DEFINE r == [pc |-> "pushed", slot |-> k, off |-> 0]
  <2>1. r \in CallType /\ r.pc = "pushed" /\ r.slot = k
    BY DEF CallType
  <2>2. call' = [call EXCEPT ![c] = r] /\ stored' = [stored EXCEPT ![k] = Append(@, c)]
        /\ UNCHANGED answer /\ call[c].pc = "idle"
    BY <1>4 DEF RPush, At
  <2>3. \A d \in Callers : d # c /\ call[d].pc = "pushed" => call[d].slot # k
    BY <1>4 DEF RPush, MutexFree, At
  <2>4. Pending(c).at \subseteq {k}
    BY <2>2, PendingFacts DEF LS!NoOp
  <2> HIDE DEF r
  <2> QED BY <1>1, <1>4, <2>1, <2>2, <2>3, <2>4, StoreMaps
<1>5. ASSUME NEW c \in Callers, backend = "redis", UNCHANGED backend, RPushAgain(c)
      PROVE  LS!LSNext
  <2> DEFINE k == call[c].slot
             r == call[c]
  <2>1. call[c].pc = "pushed" /\ stored' = [stored EXCEPT ![k] = Append(@, c)] /\ UNCHANGED <<call, answer>>
    BY <1>5 DEF RPushAgain, At
  <2>2. r \in CallType /\ call' = [call EXCEPT ![c] = r] /\ k \in Slots
    BY <1>1, <2>1 DEF DataOK, CallType
  <2>3. \A d \in Callers : d # c /\ call[d].pc = "pushed" => call[d].slot # k
    BY <1>1, <1>5, <2>1 DEF AppendsOK, RedisOK
  <2>4. Pending(c).at \subseteq {k}
    BY <2>1, PendingFacts
  <2>5. r.pc = "pushed" /\ r.slot = k
    BY <2>1
  <2> HIDE DEF k, r
  <2> QED BY <1>1, <1>5, <2>1, <2>2, <2>3, <2>4, <2>5, StoreMaps
<1>6. ASSUME NEW c \in Callers, backend = "redis", UNCHANGED backend, LLen(c)
      PROVE  UNCHANGED LS!lsVars
  <2> DEFINE r == [call[c] EXCEPT !.pc = "done", !.off = Len(stored[call[c].slot]) - 1]
  <2>1. call[c].pc = "pushed" /\ UNCHANGED <<stored, answer>> /\ FirstOffset = 0
    BY <1>6 DEF LLen, At, FirstOffset
  <2>2. stored[call[c].slot] \in Seq(Callers) /\ Len(stored[call[c].slot]) > 0
    BY <1>1, <1>6, <2>1 DEF DataOK, CallType, AppendsOK, RedisOK
  <2>3. Len(stored[call[c].slot]) - 1 \in Nat
    BY <2>2
  <2>4. /\ r \in CallType /\ r.pc = "done" /\ r.slot = call[c].slot
        /\ r.off = Len(stored[call[c].slot]) - 1
    BY <1>1, <2>3 DEF CallType
  <2>5. call' = [call EXCEPT ![c] = r]
    BY <1>1, <1>6 DEF LLen, DataOK
  <2> HIDE DEF r
  <2>6. call'[c] = r
    BY <1>1, <2>4, <2>5, CallUpdate
  <2>7. Pending(c) = [at |-> {call[c].slot}, off |-> Len(stored[call[c].slot]) - 1]
    BY <2>1, PendingFacts
  <2>8. FirstOffset' = 0
    BY <1>6, <2>1, FirstOffsetFacts
  <2>9. Pending(c)' = [at |-> {r.slot}, off |-> r.off - 0]
    BY <2>4, <2>6, <2>8 DEF Pending
  <2>10. r.off - 0 = r.off
    BY <2>3, <2>4
  <2>11. Pending(c)' = Pending(c)
    BY <2>4, <2>7, <2>9, <2>10
  <2> QED BY <1>1, <1>6, <2>1, <2>4, <2>5, <2>11, StutterMaps
<1>7. ASSUME NEW c \in Callers, backend = "postgres", UNCHANGED backend, PgInside(c)
      PROVE  UNCHANGED LS!lsVars
  <2>1. UNCHANGED <<stored, answer>> /\ call[c].pc \notin {"pushed", "done"}
    BY <1>1, <1>7, PgInsidePreserves
  <2>2. PICK r \in CallType : call' = [call EXCEPT ![c] = r] /\ r.pc \notin {"idle", "pushed", "done"}
    BY <1>1, <1>7, PgInsidePreserves
  <2>3. call'[c] = r
    BY <1>1, <2>2, CallUpdate
  <2>4. Pending(c)' = LS!NoOp
    BY <2>2, <2>3 DEF Pending, LS!NoOp
  <2>5. Pending(c)' = Pending(c)
    BY <2>1, <2>4, PendingFacts
  <2> QED BY <1>1, <1>7, <2>1, <2>2, <2>5, StutterMaps
<1>8. ASSUME NEW c \in Callers, backend = "postgres", UNCHANGED backend, PgCommit(c)
      PROVE  LS!LSNext
  <2> DEFINE k == call[c].slot
             r == [call[c] EXCEPT !.pc = "done"]
  <2>1. stored' = [stored EXCEPT ![k] = Append(@, c)] /\ call[c].off - 1 = Len(stored[k])
    BY <1>1, <1>8, PgCommitPreserves
  <2>2. call[c].pc = "updated" /\ UNCHANGED answer /\ FirstOffset = 1
    BY <1>8 DEF PgCommit, At, FirstOffset
  <2>3. r \in CallType /\ call' = [call EXCEPT ![c] = r] /\ k \in Slots
        /\ r.pc = "done" /\ r.slot = k /\ r.off = call[c].off
    BY <1>1, <1>8 DEF PgCommit, DataOK, CallType
  <2>4. \A d \in Callers : call[d].pc # "pushed"
    BY <1>1, <1>8 DEF AppendsOK, PostgresOK, PgCallOK
  <2>5. Pending(c).at \subseteq {k}
    BY <2>2, PendingFacts DEF LS!NoOp
  <2>6. r.off - FirstOffset = Len(stored[k])
    BY <2>1, <2>2, <2>3
  <2> HIDE DEF k, r
  <2> QED BY <1>1, <1>8, <2>1, <2>2, <2>3, <2>4, <2>5, <2>6, StoreMaps
<1>9. ASSUME NEW c \in Callers, UNCHANGED backend, RedisFails(c) \/ PgFails(c)
      PROVE  LS!LSNext
  BY <1>1, <1>9, FailMaps DEF RedisFails, PgFails
<1>10. CASE Restart
  <2>1. /\ call' = [c \in Callers |-> Idle] /\ answer' = [c \in Callers |-> -1]
        /\ UNCHANGED backend
        /\ UNCHANGED stored \/ stored' = [k \in Slots |-> <<>>]
    BY <1>10 DEF Restart, Fresh, MemLost
  <2>2. \A c \in Callers : Pending(c)' = LS!NoOp
    BY <2>1, IdleTyped DEF Pending, LS!NoOp
  <2>3. op' = [c \in Callers |-> LS!NoOp]
    BY <2>2 DEF op
  <2>4. results' = [c \in Callers |-> -1]
    BY <2>1 DEF results
  <2>5. LS!LSRestart
    BY <2>1, <2>3, <2>4 DEF LS!LSRestart, op, results
  <2> QED BY <2>5 DEF LS!LSNext
<1>11. CASE UNCHANGED <<stored, call, answer, backend>>
  <2>1. \A c \in Callers : Pending(c)' = Pending(c)
    BY <1>11, PendingStays
  <2>2. op' = op
    BY <2>1 DEF op
  <2>3. results' = results
    BY <1>11, FirstOffsetFacts DEF results
  <2> QED BY <1>11, <2>2, <2>3 DEF LS!lsVars, op, results
<1> QED BY <1>1, <1>2, <1>3, <1>4, <1>5, <1>6, <1>7, <1>8, <1>9, <1>10, <1>11, Steps

\* The append of every backend is the atomic one: the offset that a caller is told,
\* less the first offset of the backend, is the index of its own message.
THEOREM BackendsAppendAtomically == StoresSpec => AppendsAreAtomic
<1>1. StoresInit => LS!LSInit
  <2> SUFFICES ASSUME StoresInit PROVE LS!LSInit
    OBVIOUS
  <2>1. \A c \in Callers : Pending(c) = LS!NoOp
    BY IdleTyped DEF StoresInit, Pending, LS!NoOp
  <2>2. op = [c \in Callers |-> LS!NoOp]
    BY <2>1 DEF op
  <2>3. results = [c \in Callers |-> -1]
    BY DEF StoresInit, results
  <2> QED BY <2>2, <2>3 DEF StoresInit, LS!LSInit, op, results
<1>2. StInv /\ [StoresNext]_svars => [LS!LSNext]_(LS!lsVars)
  BY StepImplements
<1> QED BY <1>1, <1>2, StInvariance, PTL DEF StoresSpec, AppendsAreAtomic, LS!LSSpec
=============================================================================

----------------------------- MODULE RedisStore -----------------------------
(***************************************************************************)
(* RedisStore (internal/storage/redis_store.go): a list per partition and  *)
(* a hash of committed offsets per group.  Append is two commands, and the *)
(* store itself does nothing to keep them together: that is left to the    *)
(* mutex per partition of the partition manager, one process.              *)
(***************************************************************************)
EXTENDS StoreCalls

EntryWithoutTopic(x) == <<x[1], x[3]>>   \* mutant of RedisEntry

\* The hash of the group, and in it the field topic:partition.
RedisEntry(x) == <<x[1], <<x[2], x[3]>>>>

NoMutex(c, k) == TRUE   \* mutant of MutexFree: two servers on one Redis

\* The caller gets the mutex of the partition (PartitionManager.getLock).
MutexFree(c, k) == \A d \in Callers \ {c} : ~At(d, "idle") => call[d].slot # k

\* RPUSH ...
RPush(c, k) ==
  /\ At(c, "idle") /\ MutexFree(c, k) /\ Room(k)
  /\ stored' = [stored EXCEPT ![k] = Append(@, c)]
  /\ call' = [call EXCEPT ![c] = [pc |-> "pushed", slot |-> k, off |-> 0]]
  /\ UNCHANGED <<bad, commits, answer, last>>

\* ... whose reply is lost: the Redis client sends the command again.
RPushAgain(c) ==
  LET k == call[c].slot
  IN  /\ At(c, "pushed") /\ Room(k)
      /\ stored' = [stored EXCEPT ![k] = Append(@, c)]
      /\ UNCHANGED <<bad, commits, call, answer, last>>

\* LLEN: the offset is the length of the list - 1.
LLen(c) ==
  /\ At(c, "pushed")
  /\ call' = [call EXCEPT ![c].pc = "done", ![c].off = Len(stored[call[c].slot]) - 1]
  /\ UNCHANGED <<stored, bad, commits, answer, last>>

\* RPUSH or LLEN returns an error.  Assumed: a command that the client has given up
\* is not executed later, when another call may be between its two commands.
RedisFails(c) ==
  /\ At(c, "pushed")
  /\ Fail(c)
  /\ UNCHANGED <<stored, bad, commits, last>>

\* LRANGE: the indexes from start to stop of a list of n, -1 being the last.
LRange(n, start, stop) ==
  LET end == IF stop < 0 THEN n + stop ELSE IF stop < n THEN stop ELSE n - 1
  IN  [i \in 1 .. (IF start <= end THEN end - start + 1 ELSE 0) |-> start + i - 1]

\* Mutant of Label: the offset counts the messages returned, not those read.
LabelReturned(k, start, raw, i) ==
  start + Cardinality({j \in 1 .. (i - 1) : raw[j] + 1 \notin bad[k]})

\* The offset given to the i-th element of the range.
Label(k, start, raw, i) == start + i - 1

\* Read: entries that cannot be decoded are skipped.
RedisRead(k, offset, max) ==
  LET start == From(offset)
      stop  == IF max <= 0 THEN -1 ELSE start + max - 1
      raw   == LRange(Len(stored[k]), start, stop)
  IN  {<<Label(k, start, raw, i), stored[k][raw[i] + 1]>> :
         i \in {j \in DOMAIN raw : raw[j] + 1 \notin bad[k]}}
=============================================================================

--------------------------- MODULE PostgresStore ---------------------------
(***************************************************************************)
(* PostgresStore (internal/storage/pg_store.go): one transaction per       *)
(* Append, at the default isolation level (read committed).  Callers may   *)
(* be in different processes: what serializes them is the row of the       *)
(* partition in the table offsets, locked FOR UPDATE, and, as long as      *)
(* there is no row, the primary key of that table.                         *)
(*                                                                         *)
(* What a transaction has written is kept in call until it commits; a row  *)
(* of the table messages is <<offset, message>> of stored[k].              *)
(***************************************************************************)
EXTENDS StoreCalls

VARIABLE
  offsets   \* offsets[k]: last_offset of the committed row, or NoRow

NoRow == -1

\* The primary key of the table commits.
PgEntry(x) == <<x[1], x[2], x[3]>>

\* The transaction has locked the row of slot k, or has inserted it.
Owns(c, k) == call[c].slot = k /\ call[c].pc \in {"owner", "inserted", "updated"}

NobodyWaits(k) == TRUE   \* mutant of RowFree: SELECT without FOR UPDATE

\* No other transaction makes the statement wait.
RowFree(k) == \A c \in Callers : ~Owns(c, k)

\* SELECT last_offset ... FOR UPDATE finds a committed row and locks it ...
SelectRow(c, k) ==
  /\ At(c, "idle")
  /\ offsets[k] # NoRow /\ RowFree(k)
  /\ call' = [call EXCEPT ![c] = [pc |-> "owner", slot |-> k, off |-> offsets[k]]]
  /\ UNCHANGED <<stored, bad, commits, answer, last, offsets>>

\* ... or no row, without waiting for one that is not committed yet.
SelectNoRow(c, k) ==
  /\ At(c, "idle")
  /\ offsets[k] = NoRow
  /\ call' = [call EXCEPT ![c] = [pc |-> "first", slot |-> k, off |-> 0]]
  /\ UNCHANGED <<stored, bad, commits, answer, last, offsets>>

\* INSERT INTO offsets ... 0: waits for a transaction that has inserted the same
\* row; if that one commits, this one violates the primary key (PgFails).
InsertRow(c) ==
  /\ At(c, "first")
  /\ RowFree(call[c].slot) /\ offsets[call[c].slot] = NoRow
  /\ call' = [call EXCEPT ![c].pc = "owner"]
  /\ UNCHANGED <<stored, bad, commits, answer, last, offsets>>

\* INSERT INTO messages at last_offset + 1, also after an INSERT of 0: the first
\* offset of a partition is 1.
InsertMessage(c) ==
  /\ At(c, "owner")
  /\ call[c].off + 1 \notin DOMAIN stored[call[c].slot]
  /\ call' = [call EXCEPT ![c].pc = "inserted", ![c].off = @ + 1]
  /\ UNCHANGED <<stored, bad, commits, answer, last, offsets>>

UpdateOffsets(c) ==
  /\ At(c, "inserted")
  /\ call' = [call EXCEPT ![c].pc = "updated"]
  /\ UNCHANGED <<stored, bad, commits, answer, last, offsets>>

LastOffsetBefore(c) == call[c].off - 1   \* mutant: last_offset is not advanced

\* The last_offset that the transaction has written.
LastOffset(c) == call[c].off

\* COMMIT makes the rows of both tables visible and releases the lock.
PgCommit(c) ==
  LET k == call[c].slot
      o == call[c].off
  IN  /\ At(c, "updated") /\ Room(k)
      /\ stored' = [stored EXCEPT ![k] = [i \in DOMAIN @ \cup {o} |-> IF i = o THEN c ELSE @[i]]]
      /\ offsets' = [offsets EXCEPT ![k] = LastOffset(c)]
      /\ call' = [call EXCEPT ![c].pc = "done"]
      /\ UNCHANGED <<bad, commits, answer, last>>

\* A statement fails and the transaction is rolled back, or COMMIT is done and
\* its answer lost.
PgFails(c) ==
  /\ ~At(c, "idle")
  /\ Fail(c)
  /\ UNCHANGED <<stored, bad, commits, last, offsets>>

ArrivedInAnyOrder(limited) == SUBSET limited   \* mutant of Arrived: no ORDER BY

\* The rows that have arrived when rows.Next says that there is no more: all of
\* them, or those before the one at which the query or the connection broke.
Arrived(limited) == {{o \in limited : o < broken} : broken \in limited} \cup {limited}

\* Read: WHERE offset >= start ORDER BY offset LIMIT max; rows that cannot be
\* decoded are skipped.  rows.Err() is not looked at after the loop, so that a
\* broken read returns what has arrived, and no error: what a read may return.
PgReads(k, offset, max) ==
  LET rows    == {o \in DOMAIN stored[k] : o >= From(offset)}
      limited == {o \in rows : max > 0 => Cardinality({q \in rows : q < o}) < max}
  IN  {{<<o, stored[k][o]>> : o \in came \ bad[k]} : came \in Arrived(limited)}
=============================================================================

---------------------------- MODULE MemoryStore ----------------------------
(***************************************************************************)
(* InMemoryStore (internal/storage/memory_store.go).  Every method holds   *)
(* the mutex from its first to its last statement.  Close, which nothing   *)
(* in the program calls, is left out.                                      *)
(***************************************************************************)
EXTENDS StoreCalls

\* ckey(group, topic, partition): the three joined by ":".
MemEntry(x) == x[1] \o x[2] \o <<x[3]>>

\* Append: the offset is the length of the slice before.
MemAppend(c, k) ==
  /\ At(c, "idle") /\ Room(k)
  /\ stored' = [stored EXCEPT ![k] = Append(@, c)]
  /\ call' = [call EXCEPT ![c] = [pc |-> "done", slot |-> k, off |-> Len(stored[k])]]
  /\ UNCHANGED <<bad, commits, answer, last>>

\* Read: which offsets a caller is told, and of which message.
MemRead(k, offset, max) ==
  LET n     == Len(stored[k])
      start == From(offset)
      end   == IF max > 0 /\ start + max < n THEN start + max ELSE n
  IN  {<<o, stored[k][o + 1]>> : o \in start .. (end - 1)}

\* Nothing of a store in memory outlives its process.
MemLost ==
  /\ stored' = [k \in Slots |-> <<>>]
  /\ bad' = [k \in Slots |-> {}]
  /\ commits' = [e \in {} |-> -1]
  /\ last' = [x \in Triples |-> -1]
=============================================================================

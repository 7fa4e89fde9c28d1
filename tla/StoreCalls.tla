----------------------------- MODULE StoreCalls -----------------------------
(***************************************************************************)
(* What the three implementations of LogStorage have in common: goroutines *)
(* that call Append, one call at a time each, a log per topic:partition,   *)
(* and a table of committed offsets.                                       *)
(*                                                                         *)
(* A topic or group name is the sequence of its parts between colons:      *)
(* joining names with ":" is then concatenation.  No request is refused    *)
(* for a colon in a name.                                                  *)
(***************************************************************************)
EXTENDS Integers, Sequences, FiniteSets

CONSTANTS
  Callers,      \* goroutines that call the store
  Groups,
  Topics,
  Parts,        \* partition numbers
  AckOffsets,   \* offsets that clients acknowledge
  MaxLog        \* MaxLog[k]: bound on the messages of slot k

Slots   == Topics \X Parts
Triples == Groups \X Topics \X Parts

ASSUME StoreAssumption ==
  /\ Groups # {} /\ Topics # {}
  /\ Parts \subseteq Nat /\ Parts # {}
  /\ AckOffsets \subseteq Nat
  /\ MaxLog \in [Slots -> Nat]

VARIABLES
  stored,   \* stored[k]: the messages, each the caller that appended it
  bad,      \* bad[k]: indexes of messages that cannot be decoded (any more)
  commits,  \* commits[e]: the offset in commit entry e; the domain is what exists
  call,     \* the Append call of a caller: pc, slot, offset
  answer,   \* answer[c]: result of c's last Append, -1 for an error
  last      \* history: the offset committed last for a group, topic and partition

storeVars == <<stored, bad, commits, call, answer, last>>

Idle == [pc |-> "idle", slot |-> CHOOSE k \in Slots : TRUE, off |-> 0]

At(c, pc) == call[c].pc = pc
Room(k)   == Len(stored[k]) < MaxLog[k]

\* The start of a read: every implementation takes a negative offset for 0.
From(offset) == IF offset < 0 THEN 0 ELSE offset

\* A process that has just started, over a store with these contents.
Fresh ==
  /\ call' = [c \in Callers |-> Idle]
  /\ answer' = [c \in Callers |-> -1]

\* An error is returned: nothing else is left of the call.
Fail(c) ==
  /\ call' = [call EXCEPT ![c] = Idle]
  /\ answer' = [answer EXCEPT ![c] = -1]

\* The offset is returned.
Return(c) ==
  /\ At(c, "done")
  /\ answer' = [answer EXCEPT ![c] = call[c].off]
  /\ call' = [call EXCEPT ![c] = Idle]
  /\ UNCHANGED <<stored, bad, commits, last>>

PutNext(entry, x, o) ==   \* mutant of PutCommit: the next offset to read is kept
  /\ commits' = [e \in DOMAIN commits \cup {entry} |-> IF e = entry THEN o + 1 ELSE commits[e]]
  /\ last' = [last EXCEPT ![x] = o]
  /\ UNCHANGED <<stored, bad, call, answer>>

PutLargest(entry, x, o) ==   \* mutant of PutCommit: a commit never moves backwards
  /\ commits' = [e \in DOMAIN commits \cup {entry} |->
                   IF e = entry /\ (e \notin DOMAIN commits \/ commits[e] < o) THEN o ELSE commits[e]]
  /\ last' = [last EXCEPT ![x] = o]
  /\ UNCHANGED <<stored, bad, call, answer>>

\* CommitOffset overwrites the entry of the group, topic and partition x.
PutCommit(entry, x, o) ==
  /\ commits' = [e \in DOMAIN commits \cup {entry} |-> IF e = entry THEN o ELSE commits[e]]
  /\ last' = [last EXCEPT ![x] = o]
  /\ UNCHANGED <<stored, bad, call, answer>>
=============================================================================

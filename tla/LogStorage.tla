----------------------------- MODULE LogStorage -----------------------------
(***************************************************************************)
(* What the broker relies on when it appends (the Append method of the     *)
(* LogStorage interface, internal/storage/storage.go): a call takes effect *)
(* at one instant, the offset it returns is the index at which its own     *)
(* message was stored, and an error may hide a message that was stored.  A *)
(* driver that repeats a command may store the message again, in the same  *)
(* slot; the offset is then that of the last copy.                         *)
(***************************************************************************)
EXTENDS Integers, Sequences

CONSTANTS
  Slots,     \* topic:partition
  Callers    \* goroutines that call Append

VARIABLES
  log,       \* log[k]: the stored messages, each the caller that appended it
  op,        \* op[c]: where c's call has stored its message: slot (if any) and offset
  answer     \* answer[c]: the result of c's last call: an offset, -1 for an error

lsVars == <<log, op, answer>>

NoOp == [at |-> {}, off |-> -1]

LSInit ==
  /\ log = [k \in Slots |-> <<>>]
  /\ op = [c \in Callers |-> NoOp]
  /\ answer = [c \in Callers |-> -1]

\* The call takes effect (again, if its driver repeats it).
LSStore(c, k) ==
  /\ op[c].at \subseteq {k}
  /\ log' = [log EXCEPT ![k] = Append(@, c)]
  /\ op' = [op EXCEPT ![c] = [at |-> {k}, off |-> Len(log[k])]]
  /\ UNCHANGED answer

\* The call returns the offset of its message ...
LSAnswer(c) ==
  /\ op[c] # NoOp
  /\ answer' = [answer EXCEPT ![c] = op[c].off]
  /\ op' = [op EXCEPT ![c] = NoOp]
  /\ UNCHANGED log

\* ... or an error, whether or not it has stored it.
LSFail(c) ==
  /\ answer' = [answer EXCEPT ![c] = -1]
  /\ op' = [op EXCEPT ![c] = NoOp]
  /\ UNCHANGED log

\* The process restarts: calls are forgotten; a store in memory is emptied.
LSRestart ==
  /\ op' = [c \in Callers |-> NoOp]
  /\ answer' = [c \in Callers |-> -1]
  /\ \/ UNCHANGED log
     \/ log' = [k \in Slots |-> <<>>]

LSNext ==
  \/ \E c \in Callers, k \in Slots : LSStore(c, k)
  \/ \E c \in Callers : LSAnswer(c) \/ LSFail(c)
  \/ LSRestart

LSSpec == LSInit /\ [][LSNext]_lsVars
=============================================================================

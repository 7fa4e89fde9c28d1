--------------------------- MODULE BrokerRestart ---------------------------
(***************************************************************************)
(* The broker over a store that survives it (Redis, PostgreSQL): the       *)
(* process stops and is started again by cmd/server/main.go, groups come   *)
(* back with new subscriptions and resume from their committed offsets.    *)
(*                                                                         *)
(* Everything the broker keeps is in memory except the log and the         *)
(* commits.  The clients outlive it: what they have received stays         *)
(* received, and a message they have in hand is acked to the new process.  *)
(* Topics are those InitBroker creates again: the default topic.           *)
(***************************************************************************)
EXTENDS Broker

CONSTANT MaxCrashes   \* bound on the number of stops

VARIABLES
  crashes,    \* stops so far
  overtaken,  \* overtaken[c]: on their way to the client of c when it received a
              \* message of a higher offset (history, read by no action)
  fresh       \* the members since whose Join nobody has joined or left (history)

restartVars == <<vars, crashes, overtaken, fresh>>

RestartInit ==
  /\ Init
  /\ crashes = 0
  /\ overtaken = [c \in Chans |-> {}]
  /\ fresh = {}
-----------------------------------------------------------------------------
\* Publish calls that have stored their message and not told every subscriber.
Unfinished(k) ==
  {pub[p].msg.off : p \in {q \in Publishers : (pub[q].st = "appended" \/ pub[q].todo # {})
                                              /\ pub[q].msg.key = k}}

\* The process ends, whatever its goroutines are doing, and a new one starts
\* with the maps of NewBroker.  The calls in progress end with an error.
Crash ==
  /\ crashes < MaxCrashes
  /\ crashes' = crashes + 1
  /\ groups' = [g \in Groups |-> [t \in Topics |-> {}]]
  /\ assignments' = [g \in Groups |-> [t \in Topics |-> [m \in Members |-> {}]]]
  /\ unannounced' = [k \in Keys |-> unannounced[k] \cup Unfinished(k)]
  /\ pub' = [p \in Publishers |-> Idle]
  /\ subs' = [k \in Keys |-> {}]
  /\ chan' = [c \in Chans |-> "none"]
  /\ buf' = [c \in Chans |-> <<>>]
  /\ fwd' = [c \in Chans |-> "none"]
  /\ hand' = [c \in Chans |-> <<>>]
  /\ central' = [s \in Members |-> <<>>]
  /\ centralClosed' = [s \in Members |-> FALSE]
  /\ h' = [s \in Members |-> IF h[s].pc = "idle" THEN h[s] ELSE [h[s] EXCEPT !.pc = "returned"]]
  /\ ctxDone' = [s \in Members |-> h[s].pc # "idle"]
  /\ UNCHANGED <<issued, logs, commits, stream, acked, from, upto, gap, dropped, overtaken, fresh>>
-----------------------------------------------------------------------------
\* Offset o is on its way to the client of channel c.
OnItsWay(c, o) == StillToCome(c, o) \/ (Reaches(c, o) /\ MsgAt(c[2], o) \notin ToSet(stream[c[1]]))

\* What the message that a step puts last on the stream of c's client overtakes.
Overtakes(c) ==
  LET m == stream'[c[1]][Len(stream'[c[1]])]
  IN  IF stream'[c[1]] = stream[c[1]] \/ m.key # c[2] THEN {}
      ELSE {o \in 0 .. (m.off - 1) : OnItsWay(c, o)}

\* Since whose Join nobody has joined or left, after a step that changes the groups.
FreshNow ==
  {s \in Members :
     /\ GroupOf(s)' \in Groups
     /\ LET t   == h'[s].req.topic
            old == groups[GroupOf(s)'][t]
            new == groups'[GroupOf(s)'][t]
        IN  s \in IF old = new THEN fresh ELSE new \ old}

\* The history of a step of the broker.
Record ==
  /\ overtaken' = IF stream' = stream THEN overtaken
                  ELSE [c \in Chans |-> overtaken[c] \cup Overtakes(c)]
  /\ fresh' = IF groups' = groups THEN fresh ELSE FreshNow

RestartNext ==
  \/ Next /\ Record /\ UNCHANGED crashes
  \/ Crash

RestartSpec == RestartInit /\ [][RestartNext]_restartVars
-----------------------------------------------------------------------------
\* The offsets of key k that a member of group g has received.
Has(g, k, o) == \E s \in Members : GroupOf(s) = g /\ MsgAt(k, o) \in ToSet(stream[s])

\* Why a member of group g can have been passed over with offset o of key k.
Excused(g, k, o) ==
  \/ o \in unannounced[k]
  \/ \E s \in Members : GroupOf(s) = g /\ o \in gap[<<s, k>>] \cup dropped[<<s, k>>] \cup overtaken[<<s, k>>]

\* CommitOffset says "processed up to offset"; what holds, across takeovers by
\* another member, failures of the store and restarts, is that every offset up to the
\* committed one was received by a member of the group, or was passed over for
\* one of four reasons: its Publish did not end well, it was announced between a
\* read and a registration, its channel was full, or a later message overtook it
\* on its way to the client.  So a resume after the commit skips nothing else.
SkipsAccounted ==
  \A g \in Groups, k \in Keys : \A o \in 0 .. commits[g][k] : Has(g, k, o) \/ Excused(g, k, o)

\* A running group stream serves exactly the partitions the table gives it, as
\* long as no other member has joined or left since its own Join.  (Afterwards
\* it may not: a running stream is not told of a rebalance.)
AssignmentServedUntilRebalance ==
  \A s \in fresh : h[s].pc = "loop" =>
    {j \in Keys : <<s, j>> \in subs[j]} =
      {<<h[s].req.topic, p>> : p \in GetAssignment(GroupOf(s), s, h[s].req.topic)}
=============================================================================

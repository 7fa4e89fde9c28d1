------------------------------- MODULE Broker -------------------------------
(***************************************************************************)
(* Publish, Subscribe and Ack of the broker (internal/broker/broker.go),   *)
(* composed with the group manager and with the shipped consumer client.   *)
(*                                                                         *)
(* Goroutines: one per Publish call in progress (Publishers), one per      *)
(* Subscribe call (Members: a subscription is named by the member id it    *)
(* draws), one forwarder per partition a group subscription serves.  They  *)
(* meet in b.subs (guarded by b.mu), in buffered channels and in the log.  *)
(*                                                                         *)
(* b.mu: a critical section of a writer is one action, which waits until   *)
(* no publisher is inside its RLock section (publisher state "fanout").    *)
(* A channel of b.subs is named by the subscription and the key it serves; *)
(* the order of the slice b.subs[key] is left out: a publisher visits the  *)
(* channels in any order.                                                  *)
(***************************************************************************)
EXTENDS GroupManager, Sequences, SequencesExt

CONSTANTS
  Publishers,   \* goroutines that serve Publish calls, one call at a time each
  NoGroup,      \* the empty group name
  NoMsg,        \* no message in hand
  Requests,     \* the Subscribe requests that clients send
  ChanCap,      \* capacity of a partition channel (64)
  CentralCap,   \* capacity of the central channel (256)
  StoreFails,   \* whether a storage call may fail (Redis, Postgres: TRUE)
  MaxLog        \* bound on the messages per partition

Keys  == UNION {{t} \X PartitionsOf(t) : t \in Topics}   \* tpKey(topic, partition)
Msgs  == [key : Keys, off : Nat]
Chans == Members \X Keys

ASSUME BrokerAssumption ==
  /\ NoGroup \notin Groups
  /\ NoMsg \notin Msgs
  /\ Requests \subseteq [group : Groups \cup {NoGroup}, topic : Topics,
                         partition : Int, offset : Int]
  /\ ChanCap \in Nat \ {0} /\ CentralCap \in Nat \ {0}
  /\ StoreFails \in BOOLEAN
  /\ MaxLog \in Nat

VARIABLES
  logs,         \* logs[k]: the stored messages, each the goroutine that published it
  commits,      \* commits[g][k]: committed offset, -1 if none
  pub,          \* Publish goroutines
  subs,         \* b.subs
  chan,         \* "none", "open" or "closed"
  buf,          \* contents of a partition channel
  fwd,          \* forwarder goroutine: "none", "idle", "holding" or "done"
  hand,         \* the message a forwarder holds, as a sequence of length 0 or 1
  central,      \* contents of the central channel of a group subscription
  centralClosed,
  h,            \* Subscribe goroutines: pc and local variables
  ctxDone,      \* stream.Context() is done
  stream,       \* what stream.Send has handed to the client
  acked         \* how many messages of its stream the client has acked

\* History of a subscription, read by no action: what is needed to tell which
\* messages it has missed and why.
VARIABLES
  from,         \* from[c]: first offset the subscription asked for
  upto,         \* upto[c]: first offset that was not in the historical read
  gap,          \* gap[c]: not in what was read, and announced before the registration
  dropped,      \* dropped[c]: not enqueued because the channel was full
  unannounced   \* unannounced[k]: stored by a Publish that then returned an error

chanVars == <<chan, buf, fwd, hand, central, centralClosed>>
history  == <<from, upto, gap, dropped, unannounced>>
vars     == <<gmVars, logs, commits, pub, subs, chanVars, h, ctxDone, stream, acked, history>>
-----------------------------------------------------------------------------
NoReq == [group |-> NoGroup, topic |-> CHOOSE t \in Topics : TRUE, partition |-> 0, offset |-> 0]
Idle  == [st |-> "idle", msg |-> NoMsg, todo |-> {}]

\* NewBroker: everything empty.
Init ==
  /\ GMInit
  /\ logs = [k \in Keys |-> <<>>]
  /\ commits = [g \in Groups |-> [k \in Keys |-> -1]]
  /\ pub = [p \in Publishers |-> Idle]
  /\ subs = [k \in Keys |-> {}]
  /\ chan = [c \in Chans |-> "none"]
  /\ buf = [c \in Chans |-> <<>>]
  /\ fwd = [c \in Chans |-> "none"]
  /\ hand = [c \in Chans |-> <<>>]
  /\ central = [s \in Members |-> <<>>]
  /\ centralClosed = [s \in Members |-> FALSE]
  /\ h = [s \in Members |-> [pc |-> "idle", req |-> NoReq, todo |-> {}, cur |-> 0,
                             next |-> 0, end |-> 0, ret |-> "none"]]
  /\ ctxDone = [s \in Members |-> FALSE]
  /\ stream = [s \in Members |-> <<>>]
  /\ acked = [s \in Members |-> 0]
  /\ from = [c \in Chans |-> 0]
  /\ upto = [c \in Chans |-> 0]
  /\ gap = [c \in Chans |-> {}]
  /\ dropped = [c \in Chans |-> {}]
  /\ unannounced = [k \in Keys |-> {}]
-----------------------------------------------------------------------------
(* Publish *)

\* pm.Append has stored the message (the partition it chooses is the subject of
\* PartitionManager); the goroutine has the assigned offset and is about to
\* take b.mu.RLock.
PublishAppend(p, k) ==
  /\ pub[p].st = "idle"
  /\ Len(logs[k]) < MaxLog
  /\ logs' = [logs EXCEPT ![k] = Append(@, p)]
  /\ pub' = [pub EXCEPT ![p] = [st |-> "appended", msg |-> [key |-> k, off |-> Len(logs[k])],
                                todo |-> {}]]
  /\ UNCHANGED <<gmVars, commits, subs, chanVars, h, ctxDone, stream, acked, history>>

\* pm.Append returns an error although the message is in the store (Redis: RPUSH
\* done, LLEN failed; Postgres: COMMIT done, its answer lost): Publish returns
\* the error at once and no subscriber is told.
PublishAppendFails(p, k) ==
  /\ StoreFails
  /\ pub[p].st = "idle"
  /\ Len(logs[k]) < MaxLog
  /\ logs' = [logs EXCEPT ![k] = Append(@, p)]
  /\ unannounced' = [unannounced EXCEPT ![k] = @ \cup {Len(logs[k])}]
  /\ UNCHANGED <<gmVars, commits, pub, subs, chanVars, h, ctxDone, stream, acked,
                 from, upto, gap, dropped>>

\* b.mu.RLock and the read of b.subs[key].
PublishRLock(p) ==
  /\ pub[p].st = "appended"
  /\ pub' = [pub EXCEPT ![p].st = "fanout", ![p].todo = subs[pub[p].msg.key]]
  /\ UNCHANGED <<gmVars, logs, commits, subs, chanVars, h, ctxDone, stream, acked, history>>

\* One turn of the loop over subs: a non-blocking send, dropped if full.
PublishSend(p, c) ==
  /\ pub[p].st = "fanout"
  /\ c \in pub[p].todo
  /\ pub' = [pub EXCEPT ![p].todo = @ \ {c}]
  /\ \/ /\ Len(buf[c]) < ChanCap
        /\ buf' = [buf EXCEPT ![c] = Append(@, pub[p].msg)]
        /\ UNCHANGED dropped
     \/ /\ Len(buf[c]) >= ChanCap
        /\ dropped' = [dropped EXCEPT ![c] = @ \cup {pub[p].msg.off}]
        /\ UNCHANGED buf
  /\ UNCHANGED <<gmVars, logs, commits, subs, chan, fwd, hand, central, centralClosed,
                 h, ctxDone, stream, acked, from, upto, gap, unannounced>>

\* Mutants of PublishReturn: the loop over subs stops after its first send; a
\* message that was dropped somewhere is announced again to everybody.
PublishReturnFirst(p) ==
  /\ pub[p].st = "fanout"
  /\ pub[p].todo = {} \/ pub[p].todo # subs[pub[p].msg.key]
  /\ pub' = [pub EXCEPT ![p] = Idle]
  /\ UNCHANGED <<gmVars, logs, commits, subs, chanVars, h, ctxDone, stream, acked, history>>

PublishReturnRetry(p) ==
  /\ pub[p].st = "fanout"
  /\ pub[p].todo = {}
  /\ pub' = [pub EXCEPT ![p] =
               IF \E c \in subs[@.msg.key] : @.msg.off \in dropped[c]
               THEN [@ EXCEPT !.st = "appended"]
               ELSE Idle]
  /\ UNCHANGED <<gmVars, logs, commits, subs, chanVars, h, ctxDone, stream, acked, history>>

\* b.mu.RUnlock and return of the PublishResponse.
PublishReturn(p) ==
  /\ pub[p].st = "fanout"
  /\ pub[p].todo = {}
  /\ pub' = [pub EXCEPT ![p] = Idle]
  /\ UNCHANGED <<gmVars, logs, commits, subs, chanVars, h, ctxDone, stream, acked, history>>
-----------------------------------------------------------------------------
(* Subscribe *)

GroupOf(s) == h[s].req.group
KeyOf(s)   == <<h[s].req.topic, h[s].cur>>   \* the partition being set up
ChanOf(s)  == <<s, KeyOf(s)>>
ChansOf(s) == {c \in Chans : c[1] = s}

WriteLockIgnored == TRUE   \* mutant of WriteLockFree: cleanup without b.mu

\* b.mu.Lock can be granted: no goroutine holds the read lock.
WriteLockFree == \A p \in Publishers : pub[p].st # "fanout"

\* A return of the Subscribe handler from inside the set-up of a partition: of
\* the deferred calls only gm.Leave exists at that point.
ReturnEarly(s, why) ==
  h' = [h EXCEPT ![s].pc = IF GroupOf(s) = NoGroup THEN "returned" ELSE "leave",
                 ![s].ret = why]

\* Subscribe without a group: one partition, negative means partition 0.
SubscribeSolo(s, r) ==
  LET part == IF r.partition < 0 THEN 0 ELSE r.partition
      new  == [h[s] EXCEPT !.req = r, !.cur = part]
  IN  /\ h[s].pc = "idle"
      /\ r.group = NoGroup
      /\ \/ /\ part \notin PartitionsOf(r.topic)     \* tm.ValidatePartition
            /\ h' = [h EXCEPT ![s] = [new EXCEPT !.cur = 0, !.pc = "returned", !.ret = "invalid"]]
         \/ /\ part \in PartitionsOf(r.topic)
            /\ r.offset >= 0
            /\ h' = [h EXCEPT ![s] = [new EXCEPT !.pc = "read", !.next = r.offset]]
         \/ /\ part \in PartitionsOf(r.topic)
            /\ r.offset < 0
            /\ h' = [h EXCEPT ![s] = [new EXCEPT !.pc = "send"]]
      /\ UNCHANGED <<gmVars, logs, commits, pub, subs, chanVars, ctxDone, stream, acked, history>>

\* Subscribe with a group: draw a member id, join, keep a copy of the assignment.
SubscribeGroup(s, r) ==
  /\ h[s].pc = "idle"
  /\ r.group \in Groups
  /\ GMJoin(r.group, s, r.topic)
  /\ h' = [h EXCEPT ![s].pc = "next", ![s].req = r,
                    ![s].todo = assignments'[r.group][r.topic][s]]
  /\ UNCHANGED <<logs, commits, pub, subs, chanVars, ctxDone, stream, acked, history>>

\* The offset after the committed one; the error of GetCommittedOffset is
\* ignored and counts as "nothing committed".
ResumeOffsets(g, k) ==
  {IF commits[g][k] >= 0 THEN commits[g][k] + 1 ELSE 0} \cup (IF StoreFails THEN {0} ELSE {})

StartOffsetsRaw(s, p) == {h[s].req.offset}   \* mutant: a negative offset is kept

\* Where the historical read of partition p starts.
StartOffsets(s, p) ==
  IF h[s].req.offset >= 0 THEN {h[s].req.offset}
                          ELSE ResumeOffsets(GroupOf(s), <<h[s].req.topic, p>>)

\* Head of the loop over the assigned partitions, in ascending order.
NextPartition(s) ==
  /\ h[s].pc = "next"
  /\ \E p \in h[s].todo :
       /\ \A q \in h[s].todo : p <= q
       /\ \E o \in StartOffsets(s, p) :
            h' = [h EXCEPT ![s].pc = "read", ![s].todo = @ \ {p}, ![s].cur = p, ![s].next = o]
  /\ UNCHANGED <<gmVars, logs, commits, pub, subs, chanVars, ctxDone, stream, acked, history>>

\* Where the messages that pm.Read returns end: at the current end of the log, or
\* before, without an error, when a read from Postgres breaks off (PgReads).
ReadsUpTo(s) ==
  LET next == h[s].next
      len  == Len(logs[KeyOf(s)])
  IN  {end \in next .. (IF next < len THEN len ELSE next) : StoreFails \/ end >= len}

\* pm.Read: the messages from the start offset on.
ReadHistory(s) ==
  /\ h[s].pc = "read"
  /\ \E end \in ReadsUpTo(s) :
       /\ h' = [h EXCEPT ![s].pc = "send", ![s].end = end]
       /\ upto' = [upto EXCEPT ![ChanOf(s)] = end]
  /\ from' = [from EXCEPT ![ChanOf(s)] = h[s].next]
  /\ UNCHANGED <<gmVars, logs, commits, pub, subs, chanVars, ctxDone, stream, acked,
                 gap, dropped, unannounced>>

\* pm.Read returns an error: "fail fast".
ReadFails(s) ==
  /\ StoreFails
  /\ h[s].pc = "read"
  /\ ReturnEarly(s, "read error")
  /\ UNCHANGED <<gmVars, logs, commits, pub, subs, chanVars, ctxDone, stream, acked, history>>

HistoryOffsetDesc(s) == upto[ChanOf(s)] - 1 - (h[s].next - from[ChanOf(s)])  \* mutant

\* The historical message sent next: Read returns them in offset order.
HistoryOffset(s) == h[s].next

\* stream.Send of the next historical message.
SendHistory(s) ==
  /\ h[s].pc = "send" /\ h[s].next < h[s].end
  /\ ~ctxDone[s]
  /\ stream' = [stream EXCEPT ![s] = Append(@, [key |-> KeyOf(s), off |-> HistoryOffset(s)])]
  /\ h' = [h EXCEPT ![s].next = @ + 1]
  /\ UNCHANGED <<gmVars, logs, commits, pub, subs, chanVars, ctxDone, acked, history>>

\* The client is gone: the select sees the context done, or Send fails.
SendHistoryFails(s) ==
  /\ h[s].pc = "send" /\ h[s].next < h[s].end
  /\ ctxDone[s]
  /\ ReturnEarly(s, "client gone")
  /\ UNCHANGED <<gmVars, logs, commits, pub, subs, chanVars, ctxDone, stream, acked, history>>

\* b.mu.Lock, append the new channel to b.subs[key], b.mu.Unlock, and start the
\* forwarder of a group subscription.
Register(s) ==
  LET c == ChanOf(s)
      k == KeyOf(s)
      pending == {pub[p].msg.off : p \in {q \in Publishers : pub[q].st = "appended"
                                                              /\ pub[q].msg.key = k}}
  IN  /\ h[s].pc = "send" /\ h[s].next >= h[s].end
      /\ WriteLockFree
      /\ subs' = [subs EXCEPT ![k] = @ \cup {c}]
      /\ chan' = [chan EXCEPT ![c] = "open"]
      /\ fwd' = [fwd EXCEPT ![c] = IF GroupOf(s) = NoGroup THEN "none" ELSE "idle"]
      /\ h' = [h EXCEPT ![s].pc = IF GroupOf(s) = NoGroup THEN "loop" ELSE "next"]
      /\ gap' = [gap EXCEPT ![c] = (h[s].end .. (Len(logs[k]) - 1)) \ pending]
      /\ UNCHANGED <<gmVars, logs, commits, pub, buf, hand, central, centralClosed, ctxDone,
                     stream, acked, from, upto, dropped, unannounced>>

\* Mutant of EnterLoop: the loop over the partitions is left after any of them.
EnterLoopEarly(s) ==
  /\ h[s].pc = "next"
  /\ h' = [h EXCEPT ![s].pc = "loop"]
  /\ UNCHANGED <<gmVars, logs, commits, pub, subs, chanVars, ctxDone, stream, acked, history>>

\* All partitions are set up: the second deferred call is installed.
EnterLoop(s) ==
  /\ h[s].pc = "next" /\ h[s].todo = {}
  /\ h' = [h EXCEPT ![s].pc = "loop"]
  /\ UNCHANGED <<gmVars, logs, commits, pub, subs, chanVars, ctxDone, stream, acked, history>>

\* The stream loop: one message from the channel of a solo subscription ...
LoopSolo(s) ==
  LET c == ChanOf(s)
  IN  /\ h[s].pc = "loop" /\ GroupOf(s) = NoGroup
      /\ ~ctxDone[s] /\ buf[c] # <<>>
      /\ stream' = [stream EXCEPT ![s] = Append(@, Head(buf[c]))]
      /\ buf' = [buf EXCEPT ![c] = Tail(@)]
      /\ UNCHANGED <<gmVars, logs, commits, pub, subs, chan, fwd, hand, central,
                     centralClosed, h, ctxDone, acked, history>>

\* ... or from the central channel of a group subscription.
LoopGroup(s) ==
  /\ h[s].pc = "loop" /\ GroupOf(s) # NoGroup
  /\ ~ctxDone[s] /\ central[s] # <<>>
  /\ stream' = [stream EXCEPT ![s] = Append(@, Head(central[s]))]
  /\ central' = [central EXCEPT ![s] = Tail(@)]
  /\ UNCHANGED <<gmVars, logs, commits, pub, subs, chan, buf, fwd, hand, centralClosed,
                 h, ctxDone, acked, history>>

\* The context is done (or Send has failed): the deferred cleanup runs.  A solo
\* subscription unregisters under b.mu and closes its channel after Unlock ...
UnregisterSolo(s) ==
  /\ h[s].pc = "loop" /\ GroupOf(s) = NoGroup
  /\ ctxDone[s] /\ WriteLockFree
  /\ subs' = [subs EXCEPT ![KeyOf(s)] = @ \ {ChanOf(s)}]
  /\ h' = [h EXCEPT ![s].pc = "close"]
  /\ UNCHANGED <<gmVars, logs, commits, pub, chanVars, ctxDone, stream, acked, history>>

CloseSolo(s) ==
  /\ h[s].pc = "close"
  /\ chan' = [chan EXCEPT ![ChanOf(s)] = "closed"]
  /\ h' = [h EXCEPT ![s].pc = "returned", ![s].ret = "nil"]
  /\ UNCHANGED <<gmVars, logs, commits, pub, subs, buf, fwd, hand, central, centralClosed,
                 ctxDone, stream, acked, history>>

RegsButLast(s) == {c \in ChansOf(s) : chan[c] = "open" /\ c # ChanOf(s)}   \* mutant

\* regs: the channels the subscription has registered.
Regs(s) == {c \in ChansOf(s) : chan[c] = "open"}

\* ... a group subscription does both under b.mu ...
CleanupGroup(s) ==
  LET regs == Regs(s)
  IN  /\ h[s].pc = "loop" /\ GroupOf(s) # NoGroup
      /\ ctxDone[s] /\ WriteLockFree
      /\ subs' = [k \in Keys |-> subs[k] \ regs]
      /\ chan' = [c \in Chans |-> IF c \in regs THEN "closed" ELSE chan[c]]
      /\ h' = [h EXCEPT ![s].pc = "wait"]
      /\ UNCHANGED <<gmVars, logs, commits, pub, buf, fwd, hand, central, centralClosed,
                     ctxDone, stream, acked, history>>

NoForwarderHolds(s) == \A c \in ChansOf(s) : fwd[c] # "holding"   \* mutant

\* forwardWg is back to zero.
ForwardersDone(s) == \A c \in ChansOf(s) : fwd[c] \in {"none", "done"}

\* ... then waits for its forwarders and closes the central channel ...
WaitForwarders(s) ==
  /\ h[s].pc = "wait"
  /\ ForwardersDone(s)
  /\ centralClosed' = [centralClosed EXCEPT ![s] = TRUE]
  /\ h' = [h EXCEPT ![s].pc = "leave", ![s].ret = "nil"]
  /\ UNCHANGED <<gmVars, logs, commits, pub, subs, chan, buf, fwd, hand, central,
                 ctxDone, stream, acked, history>>

\* ... and leaves the group (the deferred call installed first runs last).
LeaveGroup(s) ==
  /\ h[s].pc = "leave"
  /\ GMLeave(GroupOf(s), s, h[s].req.topic)
  /\ h' = [h EXCEPT ![s].pc = "returned"]
  /\ UNCHANGED <<logs, commits, pub, subs, chanVars, ctxDone, stream, acked, history>>
-----------------------------------------------------------------------------
(* The forwarder goroutine of one partition of a group subscription *)

ForwardTake(c) ==
  /\ fwd[c] = "idle" /\ buf[c] # <<>>
  /\ fwd' = [fwd EXCEPT ![c] = "holding"]
  /\ hand' = [hand EXCEPT ![c] = <<Head(buf[c])>>]
  /\ buf' = [buf EXCEPT ![c] = Tail(@)]
  /\ UNCHANGED <<gmVars, logs, commits, pub, subs, chan, central, centralClosed, h,
                 ctxDone, stream, acked, history>>

\* Mutant of ForwardPut: a full central channel drops the message.
ForwardPutOrDrop(c) ==
  /\ fwd[c] = "holding"
  /\ fwd' = [fwd EXCEPT ![c] = "idle"]
  /\ central' = [central EXCEPT ![c[1]] = IF Len(@) < CentralCap THEN @ \o hand[c] ELSE @]
  /\ hand' = [hand EXCEPT ![c] = <<>>]
  /\ UNCHANGED <<gmVars, logs, commits, pub, subs, chan, buf, centralClosed, h, ctxDone,
                 stream, acked, history>>

\* case central <- m
ForwardPut(c) ==
  /\ fwd[c] = "holding" /\ Len(central[c[1]]) < CentralCap
  /\ fwd' = [fwd EXCEPT ![c] = "idle"]
  /\ central' = [central EXCEPT ![c[1]] = @ \o hand[c]]
  /\ hand' = [hand EXCEPT ![c] = <<>>]
  /\ UNCHANGED <<gmVars, logs, commits, pub, subs, chan, buf, centralClosed, h, ctxDone,
                 stream, acked, history>>

ForwardStaysBlocked(c) == FALSE /\ UNCHANGED vars   \* mutant: no Done case in the select

\* case <-stream.Context().Done()
ForwardAbandon(c) ==
  /\ fwd[c] = "holding" /\ ctxDone[c[1]]
  /\ fwd' = [fwd EXCEPT ![c] = "done"]
  /\ hand' = [hand EXCEPT ![c] = <<>>]
  /\ UNCHANGED <<gmVars, logs, commits, pub, subs, chan, buf, central, centralClosed, h,
                 ctxDone, stream, acked, history>>

\* The range loop ends on a closed and drained channel.
ForwardEnd(c) ==
  /\ fwd[c] = "idle" /\ buf[c] = <<>> /\ chan[c] = "closed"
  /\ fwd' = [fwd EXCEPT ![c] = "done"]
  /\ UNCHANGED <<gmVars, logs, commits, pub, subs, chan, buf, hand, central, centralClosed,
                 h, ctxDone, stream, acked, history>>
-----------------------------------------------------------------------------
(* The client side *)

AckedNext(s) == stream[s][acked[s] + 1].off + 1   \* mutant: commits the next offset

\* The offset the consumer acks: that of the message.
AckedOffset(s) == stream[s][acked[s] + 1].off

\* The consumer acks the messages of its stream one by one, in stream order
\* (client/consumer); Broker.Ack stores the offset whatever it was before.
Ack(s) ==
  LET m == stream[s][acked[s] + 1]
  IN  /\ GroupOf(s) # NoGroup
      /\ acked[s] < Len(stream[s])
      /\ commits' = [commits EXCEPT ![GroupOf(s)][m.key] = AckedOffset(s)]
      /\ acked' = [acked EXCEPT ![s] = @ + 1]
      /\ UNCHANGED <<gmVars, logs, pub, subs, chanVars, h, ctxDone, stream, history>>

\* The store refuses the commit: the client logs it and goes on.
AckFails(s) ==
  /\ StoreFails
  /\ GroupOf(s) # NoGroup
  /\ acked[s] < Len(stream[s])
  /\ acked' = [acked EXCEPT ![s] = @ + 1]
  /\ UNCHANGED <<gmVars, logs, commits, pub, subs, chanVars, h, ctxDone, stream, history>>

\* The client goes away, or the handler has returned and gRPC ends the stream:
\* the context of the stream is cancelled.
Cancel(s) ==
  /\ h[s].pc # "idle"
  /\ ~ctxDone[s]
  /\ ctxDone' = [ctxDone EXCEPT ![s] = TRUE]
  /\ UNCHANGED <<gmVars, logs, commits, pub, subs, chanVars, h, stream, acked, history>>
-----------------------------------------------------------------------------
PublishStep(p) ==
  \/ PublishRLock(p) \/ PublishReturn(p)
  \/ \E c \in Chans : PublishSend(p, c)

HandlerStep(s) ==
  \/ NextPartition(s) \/ ReadHistory(s) \/ SendHistory(s) \/ SendHistoryFails(s)
  \/ Register(s) \/ EnterLoop(s) \/ LoopSolo(s) \/ LoopGroup(s)
  \/ UnregisterSolo(s) \/ CloseSolo(s) \/ CleanupGroup(s) \/ WaitForwarders(s)
  \/ LeaveGroup(s)

ForwarderStep(c) ==
  ForwardTake(c) \/ ForwardPut(c) \/ ForwardAbandon(c) \/ ForwardEnd(c)

Next ==
  \/ \E p \in Publishers, k \in Keys : PublishAppend(p, k) \/ PublishAppendFails(p, k)
  \/ \E p \in Publishers : PublishStep(p)
  \/ \E s \in Members, r \in Requests : SubscribeSolo(s, r) \/ SubscribeGroup(s, r)
  \/ \E s \in Members : HandlerStep(s) \/ ReadFails(s)
  \/ \E c \in Chans : ForwarderStep(c)
  \/ \E s \in Members : Ack(s) \/ AckFails(s) \/ Cancel(s)

Spec == Init /\ [][Next]_vars

\* A goroutine that can run is eventually scheduled, and sync.RWMutex lets a
\* waiting writer in.  Clients (new calls, acks, disconnects) owe nothing.
Fairness ==
  /\ \A p \in Publishers : WF_vars(PublishStep(p))
  /\ \A s \in Members : WF_vars(HandlerStep(s))
  /\ \A c \in Chans : WF_vars(ForwarderStep(c))

FairSpec == Spec /\ Fairness
-----------------------------------------------------------------------------
PCs == {"idle", "next", "read", "send", "loop", "close", "wait", "leave", "returned"}

\* Type invariant.
TypeOK ==
  /\ GMTypeOK
  /\ logs \in [Keys -> Seq(Publishers)]
  /\ commits \in [Groups -> [Keys -> Int]]
  /\ pub \in [Publishers -> [st : {"idle", "appended", "fanout"}, msg : Msgs \cup {NoMsg},
                             todo : SUBSET Chans]]
  /\ subs \in [Keys -> SUBSET Chans]
  /\ chan \in [Chans -> {"none", "open", "closed"}]
  /\ buf \in [Chans -> Seq(Msgs)]
  /\ fwd \in [Chans -> {"none", "idle", "holding", "done"}]
  /\ hand \in [Chans -> Seq(Msgs)]
  /\ central \in [Members -> Seq(Msgs)]
  /\ centralClosed \in [Members -> BOOLEAN]
  /\ h \in [Members -> [pc : PCs, req : Requests \cup {NoReq}, todo : SUBSET Nat, cur : Nat,
                        next : Nat, end : Nat,
                        ret : {"none", "nil", "invalid", "read error", "client gone"}]]
  /\ ctxDone \in [Members -> BOOLEAN]
  /\ stream \in [Members -> Seq(Msgs)]
  /\ acked \in [Members -> Nat]
  /\ from \in [Chans -> Nat] /\ upto \in [Chans -> Nat]
  /\ gap \in [Chans -> SUBSET Int] /\ dropped \in [Chans -> SUBSET Nat]
  /\ unannounced \in [Keys -> SUBSET Nat]

\* A send on a closed channel panics, with b.mu still read-locked.  No channel a
\* publisher has yet to send to is closed, although solo subscriptions close
\* theirs outside b.mu.
NoSendOnClosedChannel ==
  \A p \in Publishers : \A c \in pub[p].todo : chan[c] = "open"

\* Likewise for the central channel: it is closed only when no forwarder of the
\* subscription is left to send to it.
NoSendOnClosedCentral ==
  \A c \in Chans : centralClosed[c[1]] => fwd[c] \in {"none", "done"}

\* A subscription that ends through its cleanup leaves nothing behind: no
\* channel in b.subs, no forwarder, no membership.
CleanExit ==
  \A s \in Members : (h[s].pc = "returned" /\ h[s].ret = "nil") =>
    /\ \A k \in Keys : <<s, k>> \notin subs[k]
    /\ \A c \in ChansOf(s) : fwd[c] \in {"none", "done"}
    /\ \A g \in Groups, t \in Topics : s \notin groups[g][t]

MsgAt(k, o) == [key |-> k, off |-> o]

\* The publisher of offset o of key c[2] still has channel c to visit.
StillToCome(c, o) ==
  \E p \in Publishers :
    /\ pub[p].msg = MsgAt(c[2], o)
    /\ pub[p].st = "appended" \/ c \in pub[p].todo

\* Where a message can be between a partition channel and the client.
Reaches(c, o) ==
  LET m == MsgAt(c[2], o)
  IN  m \in ToSet(buf[c]) \cup ToSet(hand[c]) \cup ToSet(central[c[1]]) \cup ToSet(stream[c[1]])

\* Conservation: while a subscription is connected and registered for a
\* partition, every stored message from its start offset on has reached its
\* client, is on its way, or is lost for one of exactly three reasons: the
\* channel was full, the message was announced before the registration and is
\* not in what was read (it came after the read, or the read broke off), or its
\* Publish failed after storing it.
DeliveryAccounted ==
  \A k \in Keys : \A c \in subs[k] : ~ctxDone[c[1]] =>
    \A o \in from[c] .. (Len(logs[k]) - 1) :
      \/ Reaches(c, o) \/ StillToCome(c, o)
      \/ o \in gap[c] \cup dropped[c] \cup unannounced[k]

\* Messages of one publisher reach a client in the order they were published,
\* across the switch from the historical read to the live channel.
PublisherOrder ==
  \A s \in Members : \A i, j \in DOMAIN stream[s] :
    LET a == stream[s][i]
        b == stream[s][j]
    IN  (i < j /\ a.key = b.key /\ logs[a.key][a.off + 1] = logs[b.key][b.off + 1])
          => a.off <= b.off

\* A client sees a message twice only because it was both in the historical
\* read and announced live; never more often, never twice live.
DuplicatesOnlyAtHandover ==
  \A s \in Members : \A i, j \in DOMAIN stream[s] :
    (i < j /\ stream[s][i] = stream[s][j]) =>
      /\ stream[s][i].off < upto[<<s, stream[s][i].key>>]
      /\ \A l \in DOMAIN stream[s] : stream[s][l] = stream[s][i] => l \in {i, j}

\* A committed offset is the offset of a message some member of the group has
\* received: it never points past the log, so a resume never skips ahead of it.
CommitsWereReceived ==
  \A g \in Groups, k \in Keys : commits[g][k] >= 0 =>
    \E s \in Members : GroupOf(s) = g /\ MsgAt(k, commits[g][k]) \in ToSet(stream[s])

\* A cancelled subscription returns: neither the write lock nor the wait for
\* the forwarders (which may be blocked on a full central channel) holds it.
CancelReturns ==
  \A s \in Members : ctxDone[s] ~> h[s].pc = "returned"

\* A message that got into the channel of a connected subscription reaches the
\* client unless the client goes away.
EnqueuedIsDelivered ==
  \A c \in Chans, o \in 0 .. (MaxLog - 1) :
    (MsgAt(c[2], o) \in ToSet(buf[c]) /\ h[c[1]].pc = "loop") ~>
      (MsgAt(c[2], o) \in ToSet(stream[c[1]]) \/ ctxDone[c[1]])
-----------------------------------------------------------------------------
(* What the documentation says and the code does not do. *)

\* broker.go, on the return after a failed historical read: "cleanups deferred
\* below will run".
ReadErrorCleansUp ==
  \A s \in Members : (h[s].pc = "returned" /\ h[s].ret = "read error") =>
    \A k \in Keys : <<s, k>> \notin subs[k]

\* README, smoke test: "Validating all messages were received + acked".
NothingMissed ==
  \A k \in Keys : \A c \in subs[k] : gap[c] = {}
=============================================================================

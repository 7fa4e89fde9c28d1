---------------------------- MODULE BrokerProofs ----------------------------
(***************************************************************************)
(* Proofs about Broker for every set of members, publishers, topics and    *)
(* requests and every channel capacity: type correctness, and that nobody  *)
(* sends on a closed channel.                                              *)
(***************************************************************************)
EXTENDS Broker, GroupManagerProofs, SequenceTheorems

HandlerType ==
  [pc : PCs, req : Requests \cup {NoReq}, todo : SUBSET Nat, cur : Nat, next : Nat, end : Nat,
   ret : {"none", "nil", "invalid", "read error", "client gone"}]

PublisherType ==
  [st : {"idle", "appended", "fanout"}, msg : Msgs \cup {NoMsg}, todo : SUBSET Chans]

\* The part of TypeOK about what is stored, carried and counted.
DataTyped ==
  /\ logs \in [Keys -> Seq(Publishers)]
  /\ commits \in [Groups -> [Keys -> Int]]
  /\ buf \in [Chans -> Seq(Msgs)]
  /\ hand \in [Chans -> Seq(Msgs)]
  /\ central \in [Members -> Seq(Msgs)]
  /\ ctxDone \in [Members -> BOOLEAN]
  /\ stream \in [Members -> Seq(Msgs)]
  /\ acked \in [Members -> Nat]
  /\ from \in [Chans -> Nat] /\ upto \in [Chans -> Nat]
  /\ gap \in [Chans -> SUBSET Int] /\ dropped \in [Chans -> SUBSET Nat]
  /\ unannounced \in [Keys -> SUBSET Nat]

\* The part of TypeOK about goroutines and channels.
ControlTyped ==
  /\ pub \in [Publishers -> PublisherType]
  /\ h \in [Members -> HandlerType]
  /\ subs \in [Keys -> SUBSET Chans]
  /\ chan \in [Chans -> {"none", "open", "closed"}]
  /\ fwd \in [Chans -> {"none", "idle", "holding", "done"}]
  /\ centralClosed \in [Members -> BOOLEAN]

\* A handler that has started works on partitions of the topic it was asked
\* for, and is in a group in the parts of Subscribe that are about groups.
HandlersOK ==
  \A s \in Members :
    /\ h[s].pc = "idle" => GroupOf(s) = NoGroup /\ h[s].todo = {} /\ h[s].cur = 0
    /\ h[s].pc # "idle" => /\ h[s].req \in Requests
                           /\ h[s].todo \subseteq PartitionsOf(h[s].req.topic)
                           /\ h[s].cur \in PartitionsOf(h[s].req.topic)
    /\ h[s].pc \in {"next", "wait", "leave"} => GroupOf(s) # NoGroup

\* A publisher that holds the read lock has a message, and every channel it has
\* still to visit is registered; one that does not hold it has none to visit.
PublishersOK ==
  \A p \in Publishers :
    /\ pub[p].st # "idle" => pub[p].msg \in Msgs
    /\ pub[p].st = "fanout" => pub[p].todo \subseteq subs[pub[p].msg.key]
    /\ pub[p].st # "fanout" => pub[p].todo = {}

\* What is registered is open, and registered under its own key.
RegisteredIsOpen ==
  \A k \in Keys : \A c \in subs[k] : chan[c] = "open" /\ c[2] = k

\* A solo subscription has left b.subs when it is about to close its channel.
ClosingIsUnregistered ==
  \A s \in Members : h[s].pc = "close" => \A k \in Keys : ChanOf(s) \notin subs[k]

\* The central channel is closed at the end, when no forwarder is left.
CentralOutlivesForwarders ==
  \A s \in Members : centralClosed[s] => h[s].pc \in {"leave", "returned"} /\ ForwardersDone(s)

\* The inductive invariant.
BInv ==
  /\ GMInv /\ DataTyped /\ ControlTyped
  /\ HandlersOK /\ PublishersOK
  /\ RegisteredIsOpen /\ ClosingIsUnregistered /\ CentralOutlivesForwarders
-----------------------------------------------------------------------------
(* Which actions change what. *)

LEMMA GroupSteps ==
  ASSUME [Next]_vars
  PROVE  \/ UNCHANGED gmVars
         \/ \E s \in Members, r \in Requests : SubscribeGroup(s, r)
         \/ \E s \in Members : LeaveGroup(s)
<1>1. CASE UNCHANGED vars
  BY <1>1 DEF vars
<1>2. ASSUME NEW p \in Publishers, NEW k \in Keys, PublishAppend(p, k) \/ PublishAppendFails(p, k)
      PROVE  UNCHANGED gmVars
  BY <1>2 DEF PublishAppend, PublishAppendFails
<1>3. ASSUME NEW p \in Publishers, PublishStep(p)
      PROVE  UNCHANGED gmVars
  BY <1>3 DEF PublishStep, PublishRLock, PublishReturn, PublishSend
<1>4. ASSUME NEW s \in Members, NEW r \in Requests, SubscribeSolo(s, r)
      PROVE  UNCHANGED gmVars
  BY <1>4 DEF SubscribeSolo
<1>5. ASSUME NEW s \in Members, HandlerStep(s) \/ ReadFails(s)
      PROVE  UNCHANGED gmVars \/ LeaveGroup(s)
  BY <1>5 DEF HandlerStep, ReadFails, NextPartition, ReadHistory, SendHistory, SendHistoryFails,
     Register, EnterLoop, LoopSolo, LoopGroup, UnregisterSolo, CloseSolo, CleanupGroup,
     WaitForwarders
<1>6. ASSUME NEW c \in Chans, ForwarderStep(c)
      PROVE  UNCHANGED gmVars
  BY <1>6 DEF ForwarderStep, ForwardTake, ForwardPut, ForwardAbandon, ForwardEnd
<1>7. ASSUME NEW s \in Members, Ack(s) \/ AckFails(s) \/ Cancel(s)
      PROVE  UNCHANGED gmVars
  BY <1>7 DEF Ack, AckFails, Cancel
<1> QED BY <1>1, <1>2, <1>3, <1>4, <1>5, <1>6, <1>7 DEF Next

LEMMA PublisherSteps ==
  ASSUME [Next]_vars
  PROVE  \/ UNCHANGED pub
         \/ \E p \in Publishers, k \in Keys : PublishAppend(p, k)
         \/ \E p \in Publishers : PublishStep(p)
<1>1. CASE UNCHANGED vars
  BY <1>1 DEF vars
<1>2. ASSUME NEW p \in Publishers, NEW k \in Keys, PublishAppendFails(p, k)
      PROVE  UNCHANGED pub
  BY <1>2 DEF PublishAppendFails
<1>3. ASSUME NEW s \in Members, NEW r \in Requests, SubscribeSolo(s, r) \/ SubscribeGroup(s, r)
      PROVE  UNCHANGED pub
  BY <1>3 DEF SubscribeSolo, SubscribeGroup
<1>4. ASSUME NEW s \in Members, HandlerStep(s) \/ ReadFails(s)
      PROVE  UNCHANGED pub
  BY <1>4 DEF HandlerStep, ReadFails, NextPartition, ReadHistory, SendHistory, SendHistoryFails,
     Register, EnterLoop, LoopSolo, LoopGroup, UnregisterSolo, CloseSolo, CleanupGroup,
     WaitForwarders, LeaveGroup
<1>5. ASSUME NEW c \in Chans, ForwarderStep(c)
      PROVE  UNCHANGED pub
  BY <1>5 DEF ForwarderStep, ForwardTake, ForwardPut, ForwardAbandon, ForwardEnd
<1>6. ASSUME NEW s \in Members, Ack(s) \/ AckFails(s) \/ Cancel(s)
      PROVE  UNCHANGED pub
  BY <1>6 DEF Ack, AckFails, Cancel
<1> QED BY <1>1, <1>2, <1>3, <1>4, <1>5, <1>6 DEF Next

LEMMA HandlerSteps ==
  ASSUME [Next]_vars
  PROVE  \/ UNCHANGED h
         \/ \E s \in Members, r \in Requests : SubscribeSolo(s, r) \/ SubscribeGroup(s, r)
         \/ \E s \in Members : HandlerStep(s) \/ ReadFails(s)
<1>1. CASE UNCHANGED vars
  BY <1>1 DEF vars
<1>2. ASSUME NEW p \in Publishers, NEW k \in Keys, PublishAppend(p, k) \/ PublishAppendFails(p, k)
      PROVE  UNCHANGED h
  BY <1>2 DEF PublishAppend, PublishAppendFails
<1>3. ASSUME NEW p \in Publishers, PublishStep(p)
      PROVE  UNCHANGED h
  BY <1>3 DEF PublishStep, PublishRLock, PublishReturn, PublishSend
<1>4. ASSUME NEW c \in Chans, ForwarderStep(c)
      PROVE  UNCHANGED h
  BY <1>4 DEF ForwarderStep, ForwardTake, ForwardPut, ForwardAbandon, ForwardEnd
<1>5. ASSUME NEW s \in Members, Ack(s) \/ AckFails(s) \/ Cancel(s)
      PROVE  UNCHANGED h
  BY <1>5 DEF Ack, AckFails, Cancel
<1> QED BY <1>1, <1>2, <1>3, <1>4, <1>5 DEF Next

LEMMA ChannelSteps ==
  ASSUME [Next]_vars
  PROVE  \/ UNCHANGED <<subs, chan>>
         \/ \E s \in Members : Register(s) \/ UnregisterSolo(s) \/ CloseSolo(s) \/ CleanupGroup(s)
<1>1. CASE UNCHANGED vars
  BY <1>1 DEF vars, chanVars
<1>2. ASSUME NEW p \in Publishers, NEW k \in Keys, PublishAppend(p, k) \/ PublishAppendFails(p, k)
      PROVE  UNCHANGED <<subs, chan>>
  BY <1>2 DEF PublishAppend, PublishAppendFails, chanVars
<1>3. ASSUME NEW p \in Publishers, PublishStep(p)
      PROVE  UNCHANGED <<subs, chan>>
  BY <1>3 DEF PublishStep, PublishRLock, PublishReturn, PublishSend, chanVars
<1>4. ASSUME NEW s \in Members, NEW r \in Requests, SubscribeSolo(s, r) \/ SubscribeGroup(s, r)
      PROVE  UNCHANGED <<subs, chan>>
  BY <1>4 DEF SubscribeSolo, SubscribeGroup, chanVars
<1>5. ASSUME NEW s \in Members,
             \/ NextPartition(s) \/ ReadHistory(s) \/ SendHistory(s) \/ SendHistoryFails(s)
             \/ EnterLoop(s) \/ LoopSolo(s) \/ LoopGroup(s) \/ WaitForwarders(s) \/ LeaveGroup(s)
             \/ ReadFails(s)
      PROVE  UNCHANGED <<subs, chan>>
  BY <1>5 DEF ReadFails, NextPartition, ReadHistory, SendHistory, SendHistoryFails, EnterLoop,
     LoopSolo, LoopGroup, WaitForwarders, LeaveGroup, chanVars
<1>6. ASSUME NEW c \in Chans, ForwarderStep(c)
      PROVE  UNCHANGED <<subs, chan>>
  BY <1>6 DEF ForwarderStep, ForwardTake, ForwardPut, ForwardAbandon, ForwardEnd
<1>7. ASSUME NEW s \in Members, Ack(s) \/ AckFails(s) \/ Cancel(s)
      PROVE  UNCHANGED <<subs, chan>>
  BY <1>7 DEF Ack, AckFails, Cancel, chanVars
<1> QED BY <1>1, <1>2, <1>3, <1>4, <1>5, <1>6, <1>7 DEF Next, HandlerStep

LEMMA CentralSteps ==
  ASSUME [Next]_vars
  PROVE  \/ UNCHANGED <<fwd, centralClosed>>
         \/ \E s \in Members : Register(s) \/ WaitForwarders(s)
         \/ \E c \in Chans : ForwarderStep(c)
<1>1. ASSUME NEW s \in Members, HandlerStep(s) \/ ReadFails(s)
      PROVE  UNCHANGED <<fwd, centralClosed>> \/ Register(s) \/ WaitForwarders(s)
  BY <1>1 DEF chanVars, HandlerStep, ReadFails, NextPartition, ReadHistory, SendHistory,
     SendHistoryFails, EnterLoop, LoopSolo, LoopGroup, UnregisterSolo, CloseSolo, CleanupGroup,
     LeaveGroup
<1>2. ASSUME NEW s \in Members, Ack(s) \/ AckFails(s) \/ Cancel(s)
      PROVE  UNCHANGED <<fwd, centralClosed>>
  BY <1>2 DEF chanVars, Ack, AckFails, Cancel
<1>3. ASSUME NEW s \in Members, NEW r \in Requests, SubscribeSolo(s, r) \/ SubscribeGroup(s, r)
      PROVE  UNCHANGED <<fwd, centralClosed>>
  BY <1>3 DEF chanVars, SubscribeSolo, SubscribeGroup
<1>4. ASSUME NEW p \in Publishers, PublishStep(p)
      PROVE  UNCHANGED <<fwd, centralClosed>>
  BY <1>4 DEF chanVars, PublishStep, PublishRLock, PublishReturn, PublishSend
<1>5. ASSUME NEW p \in Publishers, NEW k \in Keys, PublishAppend(p, k) \/ PublishAppendFails(p, k)
      PROVE  UNCHANGED <<fwd, centralClosed>>
  BY <1>5 DEF chanVars, PublishAppend, PublishAppendFails
<1>6. CASE UNCHANGED vars
  BY <1>6 DEF vars, chanVars
<1> QED BY <1>1, <1>2, <1>3, <1>4, <1>5, <1>6 DEF Next
-----------------------------------------------------------------------------
LEMMA BInitially == Init => BInv
<1> SUFFICES ASSUME Init PROVE BInv
  OBVIOUS
<1>1. GMInv
  BY FS_EmptySet DEF Init, GMInit, GMInv, GMTypeOK, FiniteGroups, TableIsCurrent, EmptyGroupForgotten
<1>2. DataTyped
  BY DEF Init, DataTyped
<1>3. ControlTyped
  BY DEF Init, ControlTyped, PublisherType, HandlerType, Idle, PCs
<1>4. HandlersOK
  BY DEF Init, HandlersOK, GroupOf, NoReq
<1>5. PublishersOK
  BY DEF Init, PublishersOK, Idle
<1>6. RegisteredIsOpen /\ ClosingIsUnregistered /\ CentralOutlivesForwarders
  BY DEF Init, RegisteredIsOpen, ClosingIsUnregistered, CentralOutlivesForwarders
<1> QED BY <1>1, <1>2, <1>3, <1>4, <1>5, <1>6 DEF BInv
-----------------------------------------------------------------------------
\* What the constants say about a request.
LEMMA RequestFacts ==
  ASSUME NEW r \in Requests
  PROVE  /\ r.group \in Groups \cup {NoGroup} /\ r.topic \in Topics
         /\ r.partition \in Int /\ r.offset \in Int
         /\ PartitionsOf(r.topic) \subseteq Nat /\ 0 \in PartitionsOf(r.topic)
<1>1. r \in [group : Groups \cup {NoGroup}, topic : Topics, partition : Int, offset : Int]
  BY BrokerAssumption DEF BrokerAssumption
<1>2. Partitions[r.topic] \in Nat \ {0}
  BY <1>1, GroupAssumption DEF GroupAssumption
<1> QED BY <1>1, <1>2 DEF PartitionsOf

\* A handler that has started is at work on partitions that exist.
LEMMA HandlerFacts ==
  ASSUME BInv, NEW s \in Members, h[s].pc # "idle"
  PROVE  /\ h[s] \in HandlerType /\ h[s].req \in Requests
         /\ h[s].req.topic \in Topics /\ GroupOf(s) \in Groups \cup {NoGroup}
         /\ h[s].todo \subseteq PartitionsOf(h[s].req.topic)
         /\ h[s].cur \in PartitionsOf(h[s].req.topic)
         /\ KeyOf(s) \in Keys /\ ChanOf(s) \in Chans
<1>1. h[s] \in HandlerType
  BY DEF BInv, ControlTyped
<1>2. /\ h[s].req \in Requests /\ h[s].todo \subseteq PartitionsOf(h[s].req.topic)
      /\ h[s].cur \in PartitionsOf(h[s].req.topic)
  BY DEF BInv, HandlersOK
<1>3. h[s].req.topic \in Topics /\ GroupOf(s) \in Groups \cup {NoGroup}
  BY <1>2, RequestFacts DEF GroupOf
<1>4. KeyOf(s) \in Keys
  BY <1>2, <1>3 DEF KeyOf, Keys
<1> QED BY <1>1, <1>2, <1>3, <1>4 DEF ChanOf, Chans

\* The group manager is used through Join and Leave only.
LEMMA GroupsPreserved ==
  ASSUME BInv, [Next]_vars
  PROVE  GMInv'
<1>1. CASE UNCHANGED gmVars
  BY <1>1, UnchangedTables DEF BInv, gmVars, GMInv, GMTypeOK
<1>2. ASSUME NEW s \in Members, NEW r \in Requests, SubscribeGroup(s, r)
      PROVE  GMInv'
  <2>1. r.topic \in Topics /\ r.group \in Groups /\ GMJoin(r.group, s, r.topic)
    BY <1>2, RequestFacts DEF SubscribeGroup
  <2> QED BY <2>1, JoinPreserves, GroupAssumption DEF BInv
<1>3. ASSUME NEW s \in Members, LeaveGroup(s)
      PROVE  GMInv'
  <2>1. h[s].pc = "leave" /\ GMLeave(GroupOf(s), s, h[s].req.topic)
    BY <1>3 DEF LeaveGroup
  <2>2. GroupOf(s) \in Groups /\ h[s].req.topic \in Topics
    BY <2>1, HandlerFacts DEF BInv, HandlersOK
  <2> QED BY <2>1, <2>2, LeavePreserves, GroupAssumption DEF BInv
<1> QED BY <1>1, <1>2, <1>3, GroupSteps
-----------------------------------------------------------------------------
\* An update of one handler.
LEMMA HandlerUpdate ==
  ASSUME BInv, NEW s \in Members, NEW b \in HandlerType, h' = [h EXCEPT ![s] = b],
         b.pc # "idle", b.req \in Requests, b.todo \subseteq PartitionsOf(b.req.topic),
         b.cur \in PartitionsOf(b.req.topic),
         b.pc \in {"next", "wait", "leave"} => b.req.group # NoGroup
  PROVE  h' \in [Members -> HandlerType] /\ HandlersOK'
<1>1. h \in [Members -> HandlerType]
  BY DEF BInv, ControlTyped
<1>2. h' \in [Members -> HandlerType] /\ h'[s] = b /\ \A q \in Members \ {s} : h'[q] = h[q]
  BY <1>1
<1> QED BY <1>2 DEF BInv, HandlersOK, GroupOf

\* Steps in which a handler changes its program counter, and at most its result.
LEMMA HandlerTurns ==
  ASSUME BInv, NEW s \in Members, h[s].pc # "idle", NEW pc \in PCs, NEW ret,
         ret \in {"none", "nil", "invalid", "read error", "client gone"},
         pc # "idle", pc \in {"next", "wait", "leave"} => GroupOf(s) # NoGroup,
         \/ h' = [h EXCEPT ![s].pc = pc]
         \/ h' = [h EXCEPT ![s].pc = pc, ![s].ret = ret]
  PROVE  h' \in [Members -> HandlerType] /\ HandlersOK'
<1>1. /\ h[s] \in HandlerType /\ h[s].req \in Requests
      /\ h[s].todo \subseteq PartitionsOf(h[s].req.topic)
      /\ h[s].cur \in PartitionsOf(h[s].req.topic)
  BY HandlerFacts
<1>2. PICK b : /\ h' = [h EXCEPT ![s] = b]
               /\ b = [h[s] EXCEPT !.pc = pc] \/ b = [h[s] EXCEPT !.pc = pc, !.ret = ret]
  OBVIOUS
<1>3. /\ b \in HandlerType /\ b.pc = pc /\ b.req = h[s].req
      /\ b.todo = h[s].todo /\ b.cur = h[s].cur
  BY <1>1, <1>2 DEF HandlerType
<1> QED BY <1>1, <1>2, <1>3, HandlerUpdate DEF GroupOf

\* The read of a partition starts at a natural number.
LEMMA StartOffsetsTyped ==
  ASSUME BInv, NEW s \in Members, h[s].pc = "next", NEW p \in h[s].todo,
         NEW o \in StartOffsets(s, p)
  PROVE  o \in Nat
<1>1. /\ GroupOf(s) \in Groups /\ h[s].req.topic \in Topics /\ h[s].req \in Requests
      /\ p \in PartitionsOf(h[s].req.topic)
  BY HandlerFacts DEF BInv, HandlersOK
<1>2. h[s].req.offset \in Int
  BY <1>1, RequestFacts
<1>3. <<h[s].req.topic, p>> \in Keys
  BY <1>1 DEF Keys
<1>4. commits[GroupOf(s)][<<h[s].req.topic, p>>] \in Int
  BY <1>1, <1>3 DEF BInv, DataTyped
<1>5. CASE h[s].req.offset >= 0
  BY <1>2, <1>5 DEF StartOffsets
<1>6. CASE ~(h[s].req.offset >= 0)
  <2>1. o \in ResumeOffsets(GroupOf(s), <<h[s].req.topic, p>>)
    BY <1>6 DEF StartOffsets
  <2> QED BY <1>4, <2>1 DEF ResumeOffsets
<1> QED BY <1>5, <1>6

LEMMA HandlersPreserved ==
  ASSUME BInv, [Next]_vars
  PROVE  h' \in [Members -> HandlerType] /\ HandlersOK'
<1> DEFINE Goal == h' \in [Members -> HandlerType] /\ HandlersOK'
<1>1. CASE UNCHANGED h
  BY <1>1 DEF BInv, ControlTyped, HandlersOK, GroupOf
<1>2. ASSUME NEW s \in Members, NEW r \in Requests, SubscribeSolo(s, r)
      PROVE  Goal
  <2> DEFINE part == IF r.partition < 0 THEN 0 ELSE r.partition
             new  == [h[s] EXCEPT !.req = r, !.cur = part]
  <2>1. r.partition \in Int /\ 0 \in PartitionsOf(r.topic) /\ PartitionsOf(r.topic) \subseteq Nat
    BY RequestFacts
  <2>2. h[s] \in HandlerType /\ h[s].todo = {} /\ r.group = NoGroup
    BY <1>2 DEF SubscribeSolo, BInv, ControlTyped, HandlersOK
  <2>3. PICK b :
          /\ h' = [h EXCEPT ![s] = b]
          /\ \/ b = [new EXCEPT !.cur = 0, !.pc = "returned", !.ret = "invalid"]
             \/ part \in PartitionsOf(r.topic) /\ r.offset >= 0
                /\ b = [new EXCEPT !.pc = "read", !.next = r.offset]
             \/ part \in PartitionsOf(r.topic) /\ b = [new EXCEPT !.pc = "send"]
    BY <1>2 DEF SubscribeSolo
  <2>4. r.offset \in Int
    BY RequestFacts
  <2>5. part \in Nat
    BY <2>1
  <2> HIDE DEF part
  <2>6. new \in HandlerType /\ new.req = r /\ new.cur = part /\ new.todo = {}
    BY <2>2, <2>5 DEF HandlerType
  <2> HIDE DEF new
  <2>7. ASSUME b \in HandlerType, b.req = r, b.todo = {}, b.cur \in PartitionsOf(r.topic),
               b.pc \in {"returned", "read", "send"}
        PROVE  Goal
    BY <2>3, <2>7, HandlerUpdate
  <2>8. CASE b = [new EXCEPT !.cur = 0, !.pc = "returned", !.ret = "invalid"]
    <3>1. b \in HandlerType /\ b.req = r /\ b.todo = {} /\ b.cur = 0 /\ b.pc = "returned"
      BY <2>6, <2>8 DEF HandlerType, PCs
    <3> QED BY <2>1, <2>7, <3>1
  <2>9. CASE part \in PartitionsOf(r.topic) /\ r.offset >= 0
             /\ b = [new EXCEPT !.pc = "read", !.next = r.offset]
    <3>1. r.offset \in Nat
      BY <2>4, <2>9
    <3>2. b \in HandlerType /\ b.req = r /\ b.todo = {} /\ b.cur = part /\ b.pc = "read"
      BY <2>6, <2>9, <3>1 DEF HandlerType, PCs
    <3>3. b.cur \in PartitionsOf(r.topic)
      BY <2>9, <3>2
    <3> QED BY <2>7, <3>2, <3>3
  <2>10. CASE part \in PartitionsOf(r.topic) /\ b = [new EXCEPT !.pc = "send"]
    <3>1. b \in HandlerType /\ b.req = r /\ b.todo = {} /\ b.cur = part /\ b.pc = "send"
      BY <2>6, <2>10 DEF HandlerType, PCs
    <3>2. b.cur \in PartitionsOf(r.topic)
      BY <2>10, <3>1
    <3> QED BY <2>7, <3>1, <3>2
  <2> QED BY <2>3, <2>8, <2>9, <2>10
<1>3. ASSUME NEW s \in Members, NEW r \in Requests, SubscribeGroup(s, r)
      PROVE  Goal
  <2>1. /\ h[s] \in HandlerType /\ r.group \in Groups /\ r.topic \in Topics
        /\ PartitionsOf(r.topic) \subseteq Nat
    BY <1>3, RequestFacts DEF SubscribeGroup, BInv, ControlTyped
  <2> DEFINE part == assignments'[r.group][r.topic][s]
             b    == [h[s] EXCEPT !.pc = "next", !.req = r, !.todo = part]
  <2>2. part \subseteq PartitionsOf(r.topic)
    BY <2>1, GroupsPreserved DEF GMInv, GMTypeOK, PartitionsOf
  <2>3. h' = [h EXCEPT ![s] = b]
    BY <1>3 DEF SubscribeGroup
  <2> HIDE DEF part
  <2>4. h[s].cur = 0 /\ 0 \in PartitionsOf(r.topic)
    BY <1>3, RequestFacts DEF SubscribeGroup, BInv, HandlersOK
  <2>5. b \in HandlerType /\ b.pc = "next" /\ b.req = r /\ b.todo = part /\ b.cur = 0
    BY <2>1, <2>2, <2>4 DEF HandlerType, PCs
  <2>6. r.group # NoGroup
    BY <2>1, BrokerAssumption DEF BrokerAssumption
  <2> QED BY <2>2, <2>3, <2>4, <2>5, <2>6, HandlerUpdate
<1>4. ASSUME NEW s \in Members, NextPartition(s)
      PROVE  Goal
  <2>1. h[s].pc = "next" /\ GroupOf(s) # NoGroup
    BY <1>4 DEF NextPartition, BInv, HandlersOK
  <2>2. h[s] \in HandlerType /\ h[s].todo \subseteq PartitionsOf(h[s].req.topic)
    BY <2>1, HandlerFacts
  <2>3. PICK p \in h[s].todo : \E o \in StartOffsets(s, p) :
          h' = [h EXCEPT ![s].pc = "read", ![s].todo = @ \ {p}, ![s].cur = p, ![s].next = o]
    BY <1>4 DEF NextPartition
  <2>4. PICK o \in StartOffsets(s, p) :
          h' = [h EXCEPT ![s].pc = "read", ![s].todo = @ \ {p}, ![s].cur = p, ![s].next = o]
    BY <2>3
  <2>5. o \in Nat
    BY <2>1, StartOffsetsTyped
  <2> DEFINE b == [h[s] EXCEPT !.pc = "read", !.todo = @ \ {p}, !.cur = p, !.next = o]
  <2>6. h' = [h EXCEPT ![s] = b]
    BY <2>4
  <2>7. p \in Nat /\ h[s].req \in Requests /\ p \in PartitionsOf(h[s].req.topic)
    BY <2>1, <2>2, HandlerFacts, RequestFacts
  <2>8. /\ b \in HandlerType /\ b.pc = "read" /\ b.req = h[s].req
        /\ b.todo = h[s].todo \ {p} /\ b.cur = p
    BY <2>2, <2>5, <2>7 DEF HandlerType, PCs
  <2> QED BY <2>2, <2>6, <2>7, <2>8, HandlerUpdate
<1>5. ASSUME NEW s \in Members, ReadHistory(s)
      PROVE  Goal
  <2>1. PICK end \in ReadsUpTo(s) :
          h[s].pc = "read" /\ h' = [h EXCEPT ![s].pc = "send", ![s].end = end]
    BY <1>5 DEF ReadHistory
  <2> DEFINE b == [h[s] EXCEPT !.pc = "send", !.end = end]
  <2>2. /\ h[s] \in HandlerType /\ h[s].cur \in PartitionsOf(h[s].req.topic)
        /\ h[s].req \in Requests /\ h[s].todo \subseteq PartitionsOf(h[s].req.topic)
        /\ KeyOf(s) \in Keys
    BY <2>1, HandlerFacts
  <2>3. h[s].next \in Nat
    BY <2>2 DEF HandlerType
  <2>4. end \in Nat
    <3>1. logs[KeyOf(s)] \in Seq(Publishers)
      BY <2>2 DEF BInv, DataTyped
    <3> QED BY <2>3, <3>1 DEF ReadsUpTo
  <2>5. /\ b \in HandlerType /\ b.pc = "send" /\ b.req = h[s].req
        /\ b.todo = h[s].todo /\ b.cur = h[s].cur
    BY <2>2, <2>4 DEF HandlerType, PCs
  <2>6. h' = [h EXCEPT ![s] = b]
    BY <2>1
  <2> QED BY <2>2, <2>5, <2>6, HandlerUpdate
<1>6. ASSUME NEW s \in Members, SendHistory(s)
      PROVE  Goal
  <2> DEFINE b == [h[s] EXCEPT !.next = @ + 1]
  <2>1. h[s].pc = "send" /\ h' = [h EXCEPT ![s] = b]
    BY <1>6 DEF SendHistory
  <2>2. /\ h[s] \in HandlerType /\ h[s].cur \in PartitionsOf(h[s].req.topic)
        /\ h[s].req \in Requests /\ h[s].todo \subseteq PartitionsOf(h[s].req.topic)
    BY <2>1, HandlerFacts
  <2>3. h[s].next \in Nat
    BY <2>2 DEF HandlerType
  <2>4. h[s].next + 1 \in Nat
    BY <2>3
  <2>5. /\ b \in HandlerType /\ b.pc = "send" /\ b.req = h[s].req
        /\ b.todo = h[s].todo /\ b.cur = h[s].cur
    BY <2>1, <2>2, <2>4 DEF HandlerType, PCs
  <2> QED BY <2>1, <2>2, <2>5, HandlerUpdate
<1>7. ASSUME NEW s \in Members, SendHistoryFails(s) \/ ReadFails(s)
      PROVE  Goal
  <2>1. PICK ret \in {"read error", "client gone"} :
          h[s].pc \in {"read", "send"} /\ ReturnEarly(s, ret)
    BY <1>7 DEF SendHistoryFails, ReadFails
  <2> QED BY <2>1, HandlerTurns DEF ReturnEarly, PCs
<1>8. ASSUME NEW s \in Members, EnterLoop(s) \/ UnregisterSolo(s) \/ CleanupGroup(s)
      PROVE  Goal
  <2>1. PICK pc \in {"loop", "close", "wait"} :
          /\ h[s].pc \in {"next", "loop"} /\ h' = [h EXCEPT ![s].pc = pc]
          /\ pc = "wait" => GroupOf(s) # NoGroup
    BY <1>8 DEF EnterLoop, UnregisterSolo, CleanupGroup
  <2> QED BY <2>1, HandlerTurns DEF PCs
<1>9. ASSUME NEW s \in Members, Register(s)
      PROVE  Goal
  <2>1. /\ h[s].pc = "send"
        /\ h' = [h EXCEPT ![s].pc = IF GroupOf(s) = NoGroup THEN "loop" ELSE "next"]
    BY <1>9 DEF Register
  <2> QED BY <2>1, HandlerTurns DEF PCs
<1>10. ASSUME NEW s \in Members, CloseSolo(s) \/ WaitForwarders(s) \/ LeaveGroup(s)
       PROVE  Goal
  <2>1. CASE CloseSolo(s)
    BY <2>1, HandlerTurns DEF CloseSolo, PCs
  <2>2. CASE WaitForwarders(s)
    BY <2>2, HandlerTurns DEF WaitForwarders, PCs, BInv, HandlersOK
  <2>3. CASE LeaveGroup(s)
    BY <2>3, HandlerTurns DEF LeaveGroup, PCs
  <2> QED BY <1>10, <2>1, <2>2, <2>3
<1>11. ASSUME NEW s \in Members, LoopSolo(s) \/ LoopGroup(s)
       PROVE  UNCHANGED h
  BY <1>11 DEF LoopSolo, LoopGroup
<1> QED BY <1>1, <1>2, <1>3, <1>4, <1>5, <1>6, <1>7, <1>8, <1>9, <1>10, <1>11, HandlerSteps
        DEF HandlerStep
-----------------------------------------------------------------------------
(* The channels. *)

\* No writer of b.subs runs while a publisher is inside its loop.
LEMMA RegistryIsLocked ==
  ASSUME [Next]_vars, NEW p \in Publishers, pub[p].st = "fanout"
  PROVE  subs' = subs
<1>1. ~WriteLockFree
  BY DEF WriteLockFree
<1> QED BY <1>1, ChannelSteps DEF Register, UnregisterSolo, CloseSolo, CleanupGroup

LEMMA PublishersPreserved ==
  ASSUME BInv, [Next]_vars
  PROVE  pub' \in [Publishers -> PublisherType] /\ PublishersOK'
<1> DEFINE Goal == pub' \in [Publishers -> PublisherType] /\ PublishersOK'
<1>1. pub \in [Publishers -> PublisherType] /\ PublishersOK /\ subs \in [Keys -> SUBSET Chans]
  BY DEF BInv, ControlTyped
<1>2. CASE UNCHANGED pub
  BY <1>1, <1>2, RegistryIsLocked DEF PublishersOK
<1>3. ASSUME NEW p \in Publishers, NEW k \in Keys, PublishAppend(p, k)
      PROVE  Goal
  <2> DEFINE m == [key |-> k, off |-> Len(logs[k])]
  <2>1. m \in Msgs
    <3>1. logs[k] \in Seq(Publishers)
      BY DEF BInv, DataTyped
    <3>2. Len(logs[k]) \in Nat
      BY <3>1
    <3> QED BY <3>2 DEF Msgs
  <2>2. /\ pub' = [pub EXCEPT ![p] = [st |-> "appended", msg |-> m, todo |-> {}]]
        /\ subs' = subs
    BY <1>3 DEF PublishAppend
  <2> HIDE DEF m
  <2>3. pub' \in [Publishers -> PublisherType]
    BY <1>1, <2>1, <2>2 DEF PublisherType
  <2> QED BY <1>1, <2>1, <2>2, <2>3 DEF PublishersOK
<1>4. ASSUME NEW p \in Publishers, PublishRLock(p)
      PROVE  Goal
  <2>1. pub[p] \in PublisherType /\ pub[p].msg \in Msgs
    BY <1>1, <1>4 DEF PublishRLock, PublishersOK
  <2>2. subs[pub[p].msg.key] \in SUBSET Chans
    BY <1>1, <2>1 DEF Msgs
  <2> DEFINE b == [pub[p] EXCEPT !.st = "fanout", !.todo = subs[pub[p].msg.key]]
  <2>3. pub' = [pub EXCEPT ![p] = b] /\ subs' = subs
    BY <1>4 DEF PublishRLock
  <2>4. /\ b \in PublisherType /\ b.st = "fanout" /\ b.msg = pub[p].msg
        /\ b.todo = subs[pub[p].msg.key]
    BY <2>1, <2>2 DEF PublisherType
  <2> HIDE DEF b
  <2> QED BY <1>1, <2>1, <2>3, <2>4 DEF PublishersOK
<1>5. ASSUME NEW p \in Publishers, PublishReturn(p)
      PROVE  Goal
  <2>1. pub' = [pub EXCEPT ![p] = Idle] /\ subs' = subs
    BY <1>5 DEF PublishReturn
  <2>2. Idle \in PublisherType
    BY DEF Idle, PublisherType
  <2> QED BY <1>1, <2>1, <2>2 DEF PublishersOK, Idle
<1>6. ASSUME NEW p \in Publishers, NEW c \in Chans, PublishSend(p, c)
      PROVE  Goal
  <2> DEFINE b == [pub[p] EXCEPT !.todo = @ \ {c}]
  <2>1. pub[p] \in PublisherType /\ pub[p].st = "fanout"
    BY <1>1, <1>6 DEF PublishSend
  <2>2. pub' = [pub EXCEPT ![p] = b] /\ subs' = subs
    BY <1>6 DEF PublishSend
  <2>3. /\ b \in PublisherType /\ b.st = "fanout" /\ b.msg = pub[p].msg
        /\ b.todo \subseteq pub[p].todo
    BY <2>1 DEF PublisherType
  <2> HIDE DEF b
  <2> QED BY <1>1, <2>1, <2>2, <2>3 DEF PublishersOK
<1> QED BY <1>2, <1>3, <1>4, <1>5, <1>6, PublisherSteps DEF PublishStep

LEMMA RegistryPreserved ==
  ASSUME BInv, [Next]_vars
  PROVE  /\ subs' \in [Keys -> SUBSET Chans]
         /\ chan' \in [Chans -> {"none", "open", "closed"}]
         /\ RegisteredIsOpen'
<1> DEFINE Goal == /\ subs' \in [Keys -> SUBSET Chans]
                   /\ chan' \in [Chans -> {"none", "open", "closed"}]
                   /\ RegisteredIsOpen'
<1>1. /\ subs \in [Keys -> SUBSET Chans] /\ chan \in [Chans -> {"none", "open", "closed"}]
      /\ RegisteredIsOpen
  BY DEF BInv, ControlTyped
<1>2. CASE UNCHANGED <<subs, chan>>
  BY <1>1, <1>2 DEF RegisteredIsOpen
<1>3. ASSUME NEW s \in Members, Register(s)
      PROVE  Goal
  <2>1. /\ subs' = [subs EXCEPT ![KeyOf(s)] = @ \cup {ChanOf(s)}]
        /\ chan' = [chan EXCEPT ![ChanOf(s)] = "open"]
    BY <1>3 DEF Register
  <2>2. KeyOf(s) \in Keys /\ ChanOf(s) \in Chans /\ ChanOf(s)[2] = KeyOf(s)
    BY <1>3, HandlerFacts DEF Register, ChanOf
  <2> DEFINE c == ChanOf(s)
             k == KeyOf(s)
  <2> HIDE DEF c, k
  <2>3. /\ subs' = [subs EXCEPT ![k] = @ \cup {c}] /\ chan' = [chan EXCEPT ![c] = "open"]
        /\ k \in Keys /\ c \in Chans /\ c[2] = k
    BY <2>1, <2>2 DEF c, k
  <2>4. /\ subs' \in [Keys -> SUBSET Chans]
        /\ chan' \in [Chans -> {"none", "open", "closed"}]
    BY <1>1, <2>3
  <2>5. ASSUME NEW j \in Keys, NEW d \in subs'[j]
        PROVE  chan'[d] = "open" /\ d[2] = j
    <3>1. CASE d \in subs[j]
      BY <1>1, <2>3, <3>1 DEF RegisteredIsOpen
    <3>2. CASE d \notin subs[j]
      BY <1>1, <2>3, <2>5, <3>2
    <3> QED BY <3>1, <3>2
  <2>6. RegisteredIsOpen'
    BY <2>5 DEF RegisteredIsOpen
  <2> QED BY <2>4, <2>6
<1>4. ASSUME NEW s \in Members, UnregisterSolo(s)
      PROVE  Goal
  <2>1. /\ subs' = [subs EXCEPT ![KeyOf(s)] = @ \ {ChanOf(s)}]
        /\ chan' = chan
    BY <1>4 DEF UnregisterSolo, chanVars
  <2>2. subs' \in [Keys -> SUBSET Chans] /\ \A k \in Keys : subs'[k] \subseteq subs[k]
    BY <1>1, <2>1
  <2>3. RegisteredIsOpen'
    BY <1>1, <2>1, <2>2 DEF RegisteredIsOpen
  <2>4. chan' \in [Chans -> {"none", "open", "closed"}]
    BY <1>1, <2>1
  <2> QED BY <2>2, <2>3, <2>4
<1>5. ASSUME NEW s \in Members, CloseSolo(s)
      PROVE  Goal
  <2>1. chan' = [chan EXCEPT ![ChanOf(s)] = "closed"] /\ subs' = subs
    BY <1>5 DEF CloseSolo
  <2>2. \A k \in Keys : ChanOf(s) \notin subs[k]
    BY <1>5 DEF CloseSolo, BInv, ClosingIsUnregistered
  <2>3. /\ chan' \in [Chans -> {"none", "open", "closed"}]
        /\ \A k \in Keys : \A d \in subs[k] : d # ChanOf(s) /\ d \in Chans
    BY <1>1, <2>1, <2>2
  <2>4. \A k \in Keys : \A d \in subs[k] : chan'[d] = chan[d]
    BY <1>1, <2>1, <2>3
  <2>5. RegisteredIsOpen'
    BY <1>1, <2>1, <2>4 DEF RegisteredIsOpen
  <2> QED BY <1>1, <2>1, <2>3, <2>5
<1>6. ASSUME NEW s \in Members, CleanupGroup(s)
      PROVE  Goal
  <2>1. /\ subs' = [k \in Keys |-> subs[k] \ Regs(s)]
        /\ chan' = [c \in Chans |-> IF c \in Regs(s) THEN "closed" ELSE chan[c]]
    BY <1>6 DEF CleanupGroup
  <2> QED BY <1>1, <2>1 DEF RegisteredIsOpen
<1> QED BY <1>2, <1>3, <1>4, <1>5, <1>6, ChannelSteps

\* What the step of one handler does to the program counters of all.
LEMMA ProgramCounters ==
  ASSUME BInv, [Next]_vars, NEW q \in Members
  PROVE  /\ h'[q].pc = "close" => \/ h'[q] = h[q]
                                  \/ UnregisterSolo(q) /\ h'[q] = [h[q] EXCEPT !.pc = "close"]
         /\ h[q].pc \in {"leave", "returned"} => h'[q].pc \in {"leave", "returned"}
<1> DEFINE Goal ==
      /\ h'[q].pc = "close" => \/ h'[q] = h[q]
                               \/ UnregisterSolo(q) /\ h'[q] = [h[q] EXCEPT !.pc = "close"]
      /\ h[q].pc \in {"leave", "returned"} => h'[q].pc \in {"leave", "returned"}
<1>1. h \in [Members -> HandlerType] /\ h[q] \in HandlerType
  BY DEF BInv, ControlTyped
<1>2. CASE h'[q] = h[q]
  BY <1>2
<1>3. ASSUME NEW s \in Members, NEW r \in Requests, SubscribeSolo(s, r) \/ SubscribeGroup(s, r),
             s # q
      PROVE  h'[q] = h[q]
  BY <1>1, <1>3 DEF SubscribeSolo, SubscribeGroup
<1>4. ASSUME NEW s \in Members, HandlerStep(s) \/ ReadFails(s), s # q
      PROVE  h'[q] = h[q]
  BY <1>1, <1>4 DEF HandlerStep, ReadFails, ReturnEarly, NextPartition, ReadHistory, SendHistory,
     SendHistoryFails, Register, EnterLoop, LoopSolo, LoopGroup, UnregisterSolo, CloseSolo,
     CleanupGroup, WaitForwarders, LeaveGroup
<1>5. ASSUME NEW r \in Requests, SubscribeSolo(q, r) \/ SubscribeGroup(q, r)
      PROVE  h[q].pc = "idle" /\ h'[q].pc # "close"
  <2>1. CASE SubscribeSolo(q, r)
    <3>1. h'[q].pc \in {"returned", "read", "send"}
      BY <1>1, <2>1 DEF SubscribeSolo, HandlerType
    <3> QED BY <2>1, <3>1 DEF SubscribeSolo
  <2>2. CASE SubscribeGroup(q, r)
    BY <1>1, <2>2 DEF SubscribeGroup, HandlerType
  <2> QED BY <1>5, <2>1, <2>2
<1>6. CASE NextPartition(q)
  <2>1. PICK p \in h[q].todo : \E o \in StartOffsets(q, p) :
          h' = [h EXCEPT ![q].pc = "read", ![q].todo = @ \ {p}, ![q].cur = p, ![q].next = o]
    BY <1>6 DEF NextPartition
  <2>2. h[q].pc = "next" /\ h'[q].pc = "read"
    <3>1. PICK o \in StartOffsets(q, p) :
            h'[q] = [h[q] EXCEPT !.pc = "read", !.todo = @ \ {p}, !.cur = p, !.next = o]
      BY <1>1, <2>1
    <3> DEFINE b == [h[q] EXCEPT !.pc = "read", !.todo = @ \ {p}, !.cur = p, !.next = o]
    <3>2. b.pc = "read"
      BY <1>1 DEF HandlerType
    <3> QED BY <1>6, <3>1, <3>2 DEF NextPartition
  <2> QED BY <2>2
<1>7. CASE ReadHistory(q)
  <2>1. PICK end : h[q].pc = "read" /\ h' = [h EXCEPT ![q].pc = "send", ![q].end = end]
    BY <1>7 DEF ReadHistory
  <2>2. h'[q].pc = "send"
    BY <1>1, <2>1 DEF HandlerType
  <2> QED BY <2>1, <2>2
<1>8. CASE SendHistory(q)
  <2>1. h[q].pc = "send" /\ h'[q].pc = "send"
    BY <1>1, <1>8 DEF SendHistory, HandlerType
  <2> QED BY <2>1
<1>9. CASE SendHistoryFails(q) \/ ReadFails(q)
  <2>1. PICK ret \in {"read error", "client gone"} :
          h[q].pc \in {"read", "send"} /\ ReturnEarly(q, ret)
    BY <1>9 DEF SendHistoryFails, ReadFails
  <2>2. h'[q].pc \in {"leave", "returned"}
    BY <1>1, <2>1 DEF ReturnEarly, HandlerType
  <2> QED BY <2>1, <2>2
<1>10. CASE Register(q)
  <2>1. h[q].pc = "send" /\ h'[q].pc \in {"loop", "next"}
    BY <1>1, <1>10 DEF Register, HandlerType
  <2> QED BY <2>1
<1>11. CASE EnterLoop(q) \/ CleanupGroup(q)
  <2>1. PICK pc \in {"loop", "wait"} : h[q].pc \in {"next", "loop"} /\ h' = [h EXCEPT ![q].pc = pc]
    BY <1>11 DEF EnterLoop, CleanupGroup
  <2>2. h'[q].pc = pc
    BY <1>1, <2>1 DEF HandlerType
  <2> QED BY <2>1, <2>2
<1>12. CASE CloseSolo(q) \/ WaitForwarders(q) \/ LeaveGroup(q)
  <2>1. CASE CloseSolo(q)
    <3>1. h'[q].pc = "returned"
      BY <1>1, <2>1 DEF CloseSolo, HandlerType
    <3> QED BY <3>1
  <2>2. CASE WaitForwarders(q)
    <3>1. h'[q].pc = "leave"
      BY <1>1, <2>2 DEF WaitForwarders, HandlerType
    <3> QED BY <3>1
  <2>3. CASE LeaveGroup(q)
    <3>1. h'[q].pc = "returned"
      BY <1>1, <2>3 DEF LeaveGroup, HandlerType
    <3> QED BY <3>1
  <2> QED BY <1>12, <2>1, <2>2, <2>3
<1>13. CASE UnregisterSolo(q)
  <2>1. h[q].pc = "loop" /\ h'[q] = [h[q] EXCEPT !.pc = "close"]
    BY <1>1, <1>13 DEF UnregisterSolo
  <2> QED BY <1>13, <2>1
<1>14. CASE LoopSolo(q) \/ LoopGroup(q)
  BY <1>2, <1>14 DEF LoopSolo, LoopGroup
<1>15. CASE UNCHANGED h
  BY <1>2, <1>15
<1>16. ASSUME NEW s \in Members, NEW r \in Requests, SubscribeSolo(s, r) \/ SubscribeGroup(s, r)
       PROVE  Goal
  BY <1>2, <1>3, <1>5, <1>16
<1>17. ASSUME NEW s \in Members, HandlerStep(s) \/ ReadFails(s)
       PROVE  Goal
  BY <1>2, <1>4, <1>6, <1>7, <1>8, <1>9, <1>10, <1>11, <1>12, <1>13, <1>14, <1>17 DEF HandlerStep
<1> QED BY <1>15, <1>16, <1>17, HandlerSteps

LEMMA ClosingPreserved ==
  ASSUME BInv, [Next]_vars
  PROVE  ClosingIsUnregistered'
<1> SUFFICES ASSUME NEW q \in Members, h'[q].pc = "close", NEW k \in Keys
             PROVE  ChanOf(q)' \notin subs'[k]
  BY DEF ClosingIsUnregistered
<1>1. subs \in [Keys -> SUBSET Chans] /\ h[q] \in HandlerType
  BY DEF BInv, ControlTyped
<1>2. CASE UnregisterSolo(q) /\ h'[q] = [h[q] EXCEPT !.pc = "close"]
  <2>1. ChanOf(q)' = ChanOf(q) /\ ChanOf(q)[2] = KeyOf(q)
    BY <1>1, <1>2 DEF ChanOf, KeyOf, HandlerType
  <2>2. subs' = [subs EXCEPT ![KeyOf(q)] = @ \ {ChanOf(q)}]
    BY <1>2 DEF UnregisterSolo
  <2>3. ChanOf(q) \in subs[k] => k = KeyOf(q)
    BY <2>1 DEF BInv, RegisteredIsOpen
  <2> QED BY <1>1, <2>1, <2>2, <2>3
<1>3. CASE h'[q] = h[q]
  <2>1. ChanOf(q)' = ChanOf(q) /\ ChanOf(q) \notin subs[k] /\ ChanOf(q)[1] = q
    BY <1>3 DEF BInv, ClosingIsUnregistered, ChanOf, KeyOf
  <2>2. CASE UNCHANGED <<subs, chan>>
    BY <2>1, <2>2
  <2>3. ASSUME NEW s \in Members, Register(s)
        PROVE  ChanOf(q) \notin subs'[k]
    <3>1. subs' = [subs EXCEPT ![KeyOf(s)] = @ \cup {ChanOf(s)}] /\ s # q
      BY <1>3, <2>3 DEF Register
    <3>2. ChanOf(s) # ChanOf(q)
      BY <3>1 DEF ChanOf
    <3> QED BY <1>1, <2>1, <3>1, <3>2
  <2>4. ASSUME NEW s \in Members, UnregisterSolo(s) \/ CloseSolo(s) \/ CleanupGroup(s)
        PROVE  ChanOf(q) \notin subs'[k]
    BY <1>1, <2>1, <2>4 DEF UnregisterSolo, CloseSolo, CleanupGroup
  <2> QED BY <2>1, <2>2, <2>3, <2>4, ChannelSteps
<1> QED BY <1>2, <1>3, ProgramCounters

LEMMA CentralPreserved ==
  ASSUME BInv, [Next]_vars
  PROVE  /\ fwd' \in [Chans -> {"none", "idle", "holding", "done"}]
         /\ centralClosed' \in [Members -> BOOLEAN]
         /\ CentralOutlivesForwarders'
<1> DEFINE Goal == /\ fwd' \in [Chans -> {"none", "idle", "holding", "done"}]
                   /\ centralClosed' \in [Members -> BOOLEAN]
                   /\ \A q \in Members : centralClosed'[q] => ForwardersDone(q)'
<1>1. /\ fwd \in [Chans -> {"none", "idle", "holding", "done"}]
      /\ centralClosed \in [Members -> BOOLEAN]
  BY DEF BInv, ControlTyped
<1>2. \A q \in Members : centralClosed[q] => h[q].pc \in {"leave", "returned"} /\ ForwardersDone(q)
  BY DEF BInv, CentralOutlivesForwarders
<1>3. \A q \in Members : h[q].pc \in {"leave", "returned"} => h'[q].pc \in {"leave", "returned"}
  BY ProgramCounters
<1>4. ASSUME UNCHANGED <<fwd, centralClosed>>
      PROVE  Goal
  BY <1>1, <1>2, <1>4 DEF ForwardersDone
<1>5. ASSUME NEW s \in Members, Register(s)
      PROVE  Goal /\ centralClosed' = centralClosed
  <2>1. PICK f \in {"none", "idle"} :
          fwd' = [fwd EXCEPT ![ChanOf(s)] = f] /\ centralClosed' = centralClosed
    BY <1>5 DEF Register
  <2>2. ~centralClosed[s] /\ ChanOf(s)[1] = s
    BY <1>2, <1>5 DEF Register, ChanOf
  <2>3. ASSUME NEW q \in Members, centralClosed[q], NEW c \in ChansOf(q)
        PROVE  fwd'[c] = fwd[c]
    BY <1>1, <2>1, <2>2, <2>3 DEF ChansOf
  <2> QED BY <1>1, <1>2, <2>1, <2>3 DEF ForwardersDone
<1>6. ASSUME NEW s \in Members, WaitForwarders(s)
      PROVE  Goal /\ h'[s].pc = "leave" /\ centralClosed' = [centralClosed EXCEPT ![s] = TRUE]
  <2>1. /\ fwd' = fwd /\ centralClosed' = [centralClosed EXCEPT ![s] = TRUE]
        /\ ForwardersDone(s)
    BY <1>6 DEF WaitForwarders
  <2>2. h'[s].pc = "leave"
    BY <1>6 DEF WaitForwarders, BInv, ControlTyped, HandlerType
  <2> QED BY <1>1, <1>2, <2>1, <2>2 DEF ForwardersDone
<1>7. ASSUME NEW c \in Chans, ForwarderStep(c)
      PROVE  Goal /\ centralClosed' = centralClosed
  <2>1. PICK f \in {"holding", "idle", "done"} :
          /\ fwd' = [fwd EXCEPT ![c] = f] /\ centralClosed' = centralClosed
          /\ fwd[c] \in {"idle", "holding"}
    BY <1>7 DEF ForwarderStep, ForwardTake, ForwardPut, ForwardAbandon, ForwardEnd
  <2>2. ASSUME NEW q \in Members, centralClosed[q], NEW d \in ChansOf(q)
        PROVE  fwd'[d] = fwd[d]
    BY <1>1, <1>2, <2>1, <2>2 DEF ForwardersDone, ChansOf
  <2> QED BY <1>1, <1>2, <2>1, <2>2 DEF ForwardersDone
<1>8. /\ fwd' \in [Chans -> {"none", "idle", "holding", "done"}]
      /\ centralClosed' \in [Members -> BOOLEAN]
      /\ \A q \in Members : centralClosed'[q] => ForwardersDone(q)'
  BY <1>4, <1>5, <1>6, <1>7, CentralSteps
<1>9. ASSUME NEW q \in Members, centralClosed'[q]
      PROVE  h'[q].pc \in {"leave", "returned"}
  <2>1. CASE centralClosed[q]
    BY <1>2, <1>3, <2>1
  <2>2. CASE ~centralClosed[q]
    BY <1>1, <1>5, <1>6, <1>7, <1>9, <2>2, CentralSteps
  <2> QED BY <2>1, <2>2
<1> QED BY <1>8, <1>9 DEF CentralOutlivesForwarders
-----------------------------------------------------------------------------
(* What is stored, carried and counted. *)

dataVars ==
  <<logs, commits, buf, hand, central, ctxDone, stream, acked, from, upto, gap, dropped, unannounced>>

LEMMA DataSteps ==
  ASSUME [Next]_vars
  PROVE  \/ UNCHANGED dataVars
         \/ \E p \in Publishers, k \in Keys : PublishAppend(p, k) \/ PublishAppendFails(p, k)
         \/ \E p \in Publishers, c \in Chans : PublishSend(p, c)
         \/ \E s \in Members : \/ ReadHistory(s) \/ SendHistory(s) \/ Register(s)
                               \/ LoopSolo(s) \/ LoopGroup(s)
         \/ \E c \in Chans : ForwardTake(c) \/ ForwardPut(c) \/ ForwardAbandon(c)
         \/ \E s \in Members : Ack(s) \/ AckFails(s) \/ Cancel(s)
<1>1. CASE UNCHANGED vars
  BY <1>1 DEF vars, chanVars, history, dataVars
<1>2. ASSUME NEW p \in Publishers, PublishStep(p)
      PROVE  UNCHANGED dataVars \/ \E c \in Chans : PublishSend(p, c)
  BY <1>2 DEF PublishStep, PublishRLock, PublishReturn, chanVars, history, dataVars
<1>3. ASSUME NEW s \in Members, NEW r \in Requests, SubscribeSolo(s, r) \/ SubscribeGroup(s, r)
      PROVE  UNCHANGED dataVars
  BY <1>3 DEF SubscribeSolo, SubscribeGroup, chanVars, history, dataVars
<1>4. ASSUME NEW s \in Members,
             \/ NextPartition(s) \/ SendHistoryFails(s) \/ EnterLoop(s) \/ UnregisterSolo(s)
             \/ CloseSolo(s) \/ CleanupGroup(s) \/ WaitForwarders(s) \/ LeaveGroup(s)
             \/ ReadFails(s)
      PROVE  UNCHANGED dataVars
  BY <1>4 DEF NextPartition, SendHistoryFails, EnterLoop, UnregisterSolo, CloseSolo, CleanupGroup,
     WaitForwarders, LeaveGroup, ReadFails, chanVars, history, dataVars
<1>5. ASSUME NEW c \in Chans, ForwardEnd(c)
      PROVE  UNCHANGED dataVars
  BY <1>5 DEF ForwardEnd, history, dataVars
<1> QED BY <1>1, <1>2, <1>3, <1>4, <1>5 DEF Next, HandlerStep, ForwarderStep

LEMMA DataPreserved ==
  ASSUME BInv, [Next]_vars
  PROVE  DataTyped'
<1>1. DataTyped
  BY DEF BInv
<1>2. CASE UNCHANGED dataVars
  BY <1>1, <1>2 DEF DataTyped, dataVars
<1>3. ASSUME NEW p \in Publishers, NEW k \in Keys, PublishAppend(p, k) \/ PublishAppendFails(p, k)
      PROVE  DataTyped'
  <2>1. logs[k] \in Seq(Publishers) /\ Append(logs[k], p) \in Seq(Publishers)
    BY <1>1 DEF DataTyped
  <2>2. Len(logs[k]) \in Nat
    BY <2>1
  <2>3. logs' = [logs EXCEPT ![k] = Append(@, p)]
    BY <1>3 DEF PublishAppend, PublishAppendFails
  <2>4. logs' \in [Keys -> Seq(Publishers)]
    BY <1>1, <2>1, <2>3 DEF DataTyped
  <2>5. unannounced' \in [Keys -> SUBSET Nat]
    <3>1. \/ unannounced' = unannounced
          \/ unannounced' = [unannounced EXCEPT ![k] = @ \cup {Len(logs[k])}]
      BY <1>3 DEF PublishAppend, PublishAppendFails, history
    <3> QED BY <1>1, <2>2, <3>1 DEF DataTyped
  <2>6. UNCHANGED <<commits, buf, hand, central, ctxDone, stream, acked, from, upto, gap, dropped>>
    BY <1>3 DEF PublishAppend, PublishAppendFails, chanVars, history
  <2> QED BY <1>1, <2>4, <2>5, <2>6 DEF DataTyped
<1>4. ASSUME NEW p \in Publishers, NEW c \in Chans, PublishSend(p, c)
      PROVE  DataTyped'
  <2>1. pub[p].msg \in Msgs /\ pub[p].msg.off \in Nat
    BY <1>4 DEF PublishSend, BInv, PublishersOK, Msgs
  <2>2. Append(buf[c], pub[p].msg) \in Seq(Msgs)
    BY <1>1, <2>1 DEF DataTyped
  <2>3. buf' \in [Chans -> Seq(Msgs)]
    BY <1>1, <1>4, <2>2 DEF DataTyped, PublishSend
  <2>4. dropped' \in [Chans -> SUBSET Nat]
    <3>1. dropped' = dropped \/ dropped' = [dropped EXCEPT ![c] = @ \cup {pub[p].msg.off}]
      BY <1>4 DEF PublishSend
    <3> DEFINE o == pub[p].msg.off
    <3>2. o \in Nat
      BY <2>1
    <3> HIDE DEF o
    <3>3. dropped' = dropped \/ dropped' = [dropped EXCEPT ![c] = @ \cup {o}]
      BY <3>1 DEF o
    <3> QED BY <1>1, <3>2, <3>3 DEF DataTyped
  <2>5. UNCHANGED <<logs, commits, hand, central, ctxDone, stream, acked, from, upto, gap,
                    unannounced>>
    BY <1>4 DEF PublishSend
  <2> QED BY <1>1, <2>3, <2>4, <2>5 DEF DataTyped
<1>5. ASSUME NEW s \in Members, ReadHistory(s)
      PROVE  DataTyped'
  <2>1. h[s] \in HandlerType /\ KeyOf(s) \in Keys /\ ChanOf(s) \in Chans
    BY <1>5, HandlerFacts DEF ReadHistory
  <2>2. h[s].next \in Nat
    BY <2>1 DEF HandlerType
  <2>3. logs[KeyOf(s)] \in Seq(Publishers)
    BY <1>1, <2>1 DEF DataTyped
  <2>4. PICK end \in ReadsUpTo(s) : upto' = [upto EXCEPT ![ChanOf(s)] = end]
    BY <1>5 DEF ReadHistory
  <2>5. end \in Nat /\ from' = [from EXCEPT ![ChanOf(s)] = h[s].next]
    BY <1>5, <2>2, <2>3 DEF ReadHistory, ReadsUpTo
  <2>6. from' \in [Chans -> Nat] /\ upto' \in [Chans -> Nat]
    BY <1>1, <2>1, <2>2, <2>4, <2>5 DEF DataTyped
  <2>7. UNCHANGED <<logs, commits, buf, hand, central, ctxDone, stream, acked, gap, dropped,
                    unannounced>>
    BY <1>5 DEF ReadHistory, chanVars
  <2> QED BY <1>1, <2>6, <2>7 DEF DataTyped
<1>6. ASSUME NEW s \in Members, SendHistory(s)
      PROVE  DataTyped'
  <2> DEFINE m == [key |-> KeyOf(s), off |-> HistoryOffset(s)]
  <2>1. h[s] \in HandlerType /\ KeyOf(s) \in Keys
    BY <1>6, HandlerFacts DEF SendHistory
  <2>2. m \in Msgs
    BY <2>1 DEF HandlerType, HistoryOffset, Msgs
  <2>3. stream' = [stream EXCEPT ![s] = Append(@, m)]
    BY <1>6 DEF SendHistory
  <2> HIDE DEF m
  <2>4. stream' \in [Members -> Seq(Msgs)]
    BY <1>1, <2>2, <2>3 DEF DataTyped
  <2>5. UNCHANGED <<logs, commits, buf, hand, central, ctxDone, acked, history>>
    BY <1>6 DEF SendHistory, chanVars
  <2> QED BY <1>1, <2>4, <2>5 DEF DataTyped, history
<1>7. ASSUME NEW s \in Members, Register(s)
      PROVE  DataTyped'
  <2>1. PICK pending :
          gap' = [gap EXCEPT ![ChanOf(s)] = (h[s].end .. (Len(logs[KeyOf(s)]) - 1)) \ pending]
    BY <1>7 DEF Register
  <2>2. (h[s].end .. (Len(logs[KeyOf(s)]) - 1)) \ pending \subseteq Int
    OBVIOUS
  <2>3. gap' \in [Chans -> SUBSET Int]
    BY <1>1, <2>1, <2>2 DEF DataTyped
  <2>4. UNCHANGED <<logs, commits, buf, hand, central, ctxDone, stream, acked, from, upto, dropped,
                    unannounced>>
    BY <1>7 DEF Register
  <2> QED BY <1>1, <2>3, <2>4 DEF DataTyped
<1>8. ASSUME NEW s \in Members, LoopSolo(s)
      PROVE  DataTyped'
  <2> DEFINE c == ChanOf(s)
  <2>1. c \in Chans
    BY <1>8, HandlerFacts DEF LoopSolo
  <2>2. /\ buf[c] # <<>>
        /\ stream' = [stream EXCEPT ![s] = Append(@, Head(buf[c]))]
        /\ buf' = [buf EXCEPT ![c] = Tail(@)]
    BY <1>8 DEF LoopSolo
  <2> HIDE DEF c
  <2>3. buf[c] \in Seq(Msgs) /\ stream[s] \in Seq(Msgs)
    BY <1>1, <2>1 DEF DataTyped
  <2>4. Head(buf[c]) \in Msgs /\ Tail(buf[c]) \in Seq(Msgs)
    BY <2>2, <2>3, HeadTailProperties
  <2>5. stream' \in [Members -> Seq(Msgs)] /\ buf' \in [Chans -> Seq(Msgs)]
    BY <1>1, <2>1, <2>2, <2>3, <2>4 DEF DataTyped
  <2>6. UNCHANGED <<logs, commits, hand, central, ctxDone, acked, history>>
    BY <1>8 DEF LoopSolo
  <2> QED BY <1>1, <2>5, <2>6 DEF DataTyped, history
<1>9. ASSUME NEW s \in Members, LoopGroup(s)
      PROVE  DataTyped'
  <2>1. /\ central[s] # <<>>
        /\ stream' = [stream EXCEPT ![s] = Append(@, Head(central[s]))]
        /\ central' = [central EXCEPT ![s] = Tail(@)]
    BY <1>9 DEF LoopGroup
  <2>2. central[s] \in Seq(Msgs) /\ stream[s] \in Seq(Msgs)
    BY <1>1 DEF DataTyped
  <2>3. Head(central[s]) \in Msgs /\ Tail(central[s]) \in Seq(Msgs)
    BY <2>1, <2>2, HeadTailProperties
  <2>4. stream' \in [Members -> Seq(Msgs)] /\ central' \in [Members -> Seq(Msgs)]
    BY <1>1, <2>1, <2>2, <2>3 DEF DataTyped
  <2>5. UNCHANGED <<logs, commits, buf, hand, ctxDone, acked, history>>
    BY <1>9 DEF LoopGroup
  <2> QED BY <1>1, <2>4, <2>5 DEF DataTyped, history
<1>10. ASSUME NEW c \in Chans, ForwardTake(c)
       PROVE  DataTyped'
  <2>1. /\ buf[c] # <<>>
        /\ hand' = [hand EXCEPT ![c] = <<Head(buf[c])>>]
        /\ buf' = [buf EXCEPT ![c] = Tail(@)]
    BY <1>10 DEF ForwardTake
  <2>2. buf[c] \in Seq(Msgs)
    BY <1>1 DEF DataTyped
  <2>3. Head(buf[c]) \in Msgs /\ Tail(buf[c]) \in Seq(Msgs)
    BY <2>1, <2>2, HeadTailProperties
  <2>4. hand' \in [Chans -> Seq(Msgs)] /\ buf' \in [Chans -> Seq(Msgs)]
    BY <1>1, <2>1, <2>3 DEF DataTyped
  <2>5. UNCHANGED <<logs, commits, central, ctxDone, stream, acked, history>>
    BY <1>10 DEF ForwardTake
  <2> QED BY <1>1, <2>4, <2>5 DEF DataTyped, history
<1>11. ASSUME NEW c \in Chans, ForwardPut(c)
       PROVE  DataTyped'
  <2>1. c[1] \in Members
    BY DEF Chans
  <2>2. /\ central' = [central EXCEPT ![c[1]] = @ \o hand[c]]
        /\ hand' = [hand EXCEPT ![c] = <<>>]
    BY <1>11 DEF ForwardPut
  <2>3. central[c[1]] \o hand[c] \in Seq(Msgs)
    BY <1>1, <2>1, ConcatProperties DEF DataTyped
  <2>4. hand' \in [Chans -> Seq(Msgs)] /\ central' \in [Members -> Seq(Msgs)]
    BY <1>1, <2>1, <2>2, <2>3 DEF DataTyped
  <2>5. UNCHANGED <<logs, commits, buf, ctxDone, stream, acked, history>>
    BY <1>11 DEF ForwardPut
  <2> QED BY <1>1, <2>4, <2>5 DEF DataTyped, history
<1>12. ASSUME NEW c \in Chans, ForwardAbandon(c)
       PROVE  DataTyped'
  <2>1. hand' = [hand EXCEPT ![c] = <<>>]
    BY <1>12 DEF ForwardAbandon
  <2>2. hand' \in [Chans -> Seq(Msgs)]
    BY <1>1, <2>1 DEF DataTyped
  <2>3. UNCHANGED <<logs, commits, buf, central, ctxDone, stream, acked, history>>
    BY <1>12 DEF ForwardAbandon
  <2> QED BY <1>1, <2>2, <2>3 DEF DataTyped, history
<1>13. ASSUME NEW s \in Members, Ack(s) \/ AckFails(s)
       PROVE  DataTyped'
  <2> DEFINE m == stream[s][acked[s] + 1]
  <2>1. h[s].pc # "idle" /\ GroupOf(s) # NoGroup
    BY <1>13 DEF Ack, AckFails, BInv, HandlersOK
  <2>2. GroupOf(s) \in Groups
    BY <2>1, HandlerFacts
  <2>3. acked[s] \in Nat /\ stream[s] \in Seq(Msgs) /\ acked[s] < Len(stream[s])
    BY <1>1, <1>13 DEF DataTyped, Ack, AckFails
  <2>4. m \in Msgs
    BY <2>3
  <2>5. m.key \in Keys /\ m.off \in Int
    BY <2>4 DEF Msgs
  <2>6. commits' = commits \/ commits' = [commits EXCEPT ![GroupOf(s)][m.key] = m.off]
    BY <1>13 DEF Ack, AckFails, AckedOffset
  <2>7. commits' \in [Groups -> [Keys -> Int]]
    <3> DEFINE g == GroupOf(s)
               k == m.key
               o == m.off
    <3>1. g \in Groups /\ k \in Keys /\ o \in Int
      BY <2>2, <2>5
    <3>2. commits' = commits \/ commits' = [commits EXCEPT ![g][k] = o]
      BY <2>6
    <3> HIDE DEF g, k, o
    <3>3. [commits[g] EXCEPT ![k] = o] \in [Keys -> Int]
      BY <1>1, <3>1 DEF DataTyped
    <3>4. commits' = commits \/ commits' = [commits EXCEPT ![g] = [commits[g] EXCEPT ![k] = o]]
      BY <3>2
    <3> QED BY <1>1, <3>1, <3>3, <3>4 DEF DataTyped
  <2>8. acked' = [acked EXCEPT ![s] = @ + 1]
    BY <1>13 DEF Ack, AckFails
  <2>9. acked' \in [Members -> Nat]
    BY <1>1, <2>3, <2>8 DEF DataTyped
  <2>10. UNCHANGED <<logs, buf, hand, central, ctxDone, stream, history>>
    BY <1>13 DEF Ack, AckFails, chanVars
  <2> QED BY <1>1, <2>7, <2>9, <2>10 DEF DataTyped, history
<1>14. ASSUME NEW s \in Members, Cancel(s)
       PROVE  DataTyped'
  <2>1. ctxDone' \in [Members -> BOOLEAN]
    BY <1>1, <1>14 DEF DataTyped, Cancel
  <2>2. UNCHANGED <<logs, commits, buf, hand, central, stream, acked, history>>
    BY <1>14 DEF Cancel, chanVars
  <2> QED BY <1>1, <2>1, <2>2 DEF DataTyped, history
<1> QED BY <1>2, <1>3, <1>4, <1>5, <1>6, <1>7, <1>8, <1>9, <1>10, <1>11, <1>12, <1>13, <1>14,
           DataSteps
-----------------------------------------------------------------------------
LEMMA BPreserved ==
  ASSUME BInv, [Next]_vars
  PROVE  BInv'
BY GroupsPreserved, DataPreserved, HandlersPreserved, PublishersPreserved, RegistryPreserved,
   ClosingPreserved, CentralPreserved DEF BInv, ControlTyped

\* The inductive invariant holds in every reachable state of the broker.
THEOREM BInvariance == Spec => []BInv
<1>1. BInv /\ [Next]_vars => BInv'
  BY BPreserved
<1> QED BY BInitially, <1>1, PTL DEF Spec

\* The types of the broker's tables, channels and goroutines, for any number of
\* members, publishers, topics, partitions and messages.
THEOREM BrokerTypeCorrect == Spec => []TypeOK
<1>1. BInv => TypeOK
  BY DEF BInv, GMInv, DataTyped, ControlTyped, TypeOK, HandlerType, PublisherType
<1> QED BY <1>1, BInvariance, PTL

\* Publish never sends on a channel that Subscribe's cleanup has closed, so it
\* does not panic with b.mu read-locked: what is in b.subs is open, and b.subs
\* does not change while a publisher goes through it.
THEOREM PublishersSendOnOpenChannels == Spec => []NoSendOnClosedChannel
<1>1. BInv => NoSendOnClosedChannel
  <2> SUFFICES ASSUME BInv, NEW p \in Publishers, NEW c \in pub[p].todo
               PROVE  chan[c] = "open"
    BY DEF NoSendOnClosedChannel
  <2>1. pub[p].st = "fanout" /\ pub[p].msg \in Msgs /\ c \in subs[pub[p].msg.key]
    BY DEF BInv, PublishersOK
  <2>2. pub[p].msg.key \in Keys
    BY <2>1 DEF Msgs
  <2> QED BY <2>1, <2>2 DEF BInv, RegisteredIsOpen
<1> QED BY <1>1, BInvariance, PTL

\* No forwarder sends on the central channel after it is closed: the cleanup
\* closes it behind forwardWg.Wait, and starts no forwarder any more.
THEOREM ForwardersSendOnOpenCentral == Spec => []NoSendOnClosedCentral
<1>1. BInv => NoSendOnClosedCentral
  <2> SUFFICES ASSUME BInv, NEW c \in Chans, centralClosed[c[1]]
               PROVE  fwd[c] \in {"none", "done"}
    BY DEF NoSendOnClosedCentral
  <2>1. c[1] \in Members
    BY DEF Chans
  <2>2. ForwardersDone(c[1])
    BY <2>1 DEF BInv, CentralOutlivesForwarders
  <2> QED BY <2>2 DEF ForwardersDone, ChansOf
<1> QED BY <1>1, BInvariance, PTL

\* The broker implements the group manager: whatever Publish, Subscribe, Ack and
\* disconnecting clients do, the group tables change only by Join under a new
\* id and by Leave, so what is proved of GroupManager alone holds in the broker.
THEOREM BrokerUsesGroupManager == Spec => GMSpec
<1>1. Init => GMInit
  BY DEF Init
<1>2. BInv /\ [Next]_vars => [GMNext]_gmVars
  <2> SUFFICES ASSUME BInv, [Next]_vars PROVE [GMNext]_gmVars
    OBVIOUS
  <2>1. ASSUME NEW s \in Members, NEW r \in Requests, SubscribeGroup(s, r)
        PROVE  GMNext
    BY <2>1, RequestFacts DEF SubscribeGroup, GMNext
  <2>2. ASSUME NEW s \in Members, LeaveGroup(s)
        PROVE  GMNext
    <3>1. h[s].pc = "leave" /\ GMLeave(GroupOf(s), s, h[s].req.topic)
      BY <2>2 DEF LeaveGroup
    <3>2. GroupOf(s) \in Groups /\ h[s].req.topic \in Topics
      BY <3>1, HandlerFacts DEF BInv, HandlersOK
    <3> QED BY <3>1, <3>2 DEF GMNext
  <2> QED BY <2>1, <2>2, GroupSteps
<1> QED BY <1>1, <1>2, BInvariance, PTL DEF Spec, GMSpec

\* So the members of a group that the broker serves never own a partition
\* twice, and own all of them.
THEOREM BrokerGroupsPartition == Spec => [](DisjointOwners /\ NoOrphanPartition)
BY BrokerUsesGroupManager, OwnersAreDisjoint, NoPartitionIsOrphaned, PTL
=============================================================================

------------------------ MODULE BrokerDeliveryProofs ------------------------
(***************************************************************************)
(* More proofs about Broker, for every value of the constants: what a      *)
(* subscription leaves behind (CleanExit), where its messages are          *)
(* (DeliveryAccounted), what a commit means (CommitsWereReceived), and     *)
(* what a cancelled subscription waits for (ForwardersCanMove,             *)
(* BuffersDrain).                                                          *)
(***************************************************************************)
EXTENDS BrokerProofs

\* The channels a handler has still to register.
Ahead(s) ==
  {<<s, <<h[s].req.topic, p>>>> : p \in h[s].todo \cup (IF h[s].pc \in {"read", "send"} THEN {h[s].cur} ELSE {})}

\* A subscription has no channel before it registers one.
NothingAhead ==
  \A s \in Members :
    /\ h[s].pc = "idle" => \A c \in ChansOf(s) : chan[c] = "none"
    /\ h[s].pc \in {"next", "read", "send"} => \A c \in Ahead(s) : chan[c] = "none"
    /\ h[s].pc \in {"read", "send"} => h[s].cur \notin h[s].todo

\* A handler that has not started has done nothing.
IdleIsBlank ==
  \A s \in Members : h[s].pc = "idle" => h[s].ret = "none" /\ h[s].next = 0 /\ stream[s] = <<>>

\* A solo subscription is registered in its loop and for its one partition.
SoloRegistersOnce ==
  \A s \in Members : GroupOf(s) = NoGroup =>
    \A k \in Keys : <<s, k>> \in subs[k] => h[s].pc = "loop" /\ k = KeyOf(s)

\* Only a group subscription has forwarders, for the channels it has registered, and
\* only a forwarder that holds a message has one.
ForwardersOK ==
  \A c \in Chans :
    /\ GroupOf(c[1]) = NoGroup => fwd[c] = "none"
    /\ chan[c] = "none" => fwd[c] = "none"
    /\ fwd[c] # "holding" => hand[c] = <<>>

\* Behind its cleanup a subscription is not registered any more, and at the end of
\* it no forwarder runs.
CleanedUp ==
  \A s \in Members :
    /\ h[s].pc = "close" => GroupOf(s) = NoGroup
    /\ h[s].pc = "wait" \/ h[s].ret = "nil" => \A k \in Keys : <<s, k>> \notin subs[k]
    /\ h[s].ret = "nil" => h[s].pc \in {"leave", "returned"} /\ ForwardersDone(s)

\* A member of a group has a handler that is about to leave it.
MembersAreServed ==
  \A g \in Groups, t \in Topics : \A s \in groups[g][t] :
    h[s].pc \notin {"idle", "returned"} /\ GroupOf(s) = g /\ h[s].req.topic = t

\* What the handler has read of the history is on the stream, up to the next message.
HistorySent ==
  \A s \in Members : h[s].pc = "send" =>
    \A o \in from[ChanOf(s)] .. (h[s].next - 1) : MsgAt(KeyOf(s), o) \in ToSet(stream[s])

\* The inductive invariant, next to BInv.
DInv ==
  /\ NothingAhead /\ IdleIsBlank /\ SoloRegistersOnce /\ ForwardersOK
  /\ CleanedUp /\ MembersAreServed /\ HistorySent
  /\ DeliveryAccounted /\ CommitsWereReceived
-----------------------------------------------------------------------------
(* What a handler does to its own state. *)

\* A handler changes no other handler.
LEMMA HandlersAlone ==
  ASSUME BInv, NEW s \in Members, NEW q \in Members, s # q,
         \/ HandlerStep(s) \/ ReadFails(s)
         \/ \E r \in Requests : SubscribeSolo(s, r) \/ SubscribeGroup(s, r)
  PROVE  h'[q] = h[q]
<1>1. h \in [Members -> HandlerType]
  BY DEF BInv, ControlTyped
<1>2. CASE HandlerStep(s) \/ ReadFails(s)
  BY <1>1, <1>2 DEF HandlerStep, ReadFails, ReturnEarly, NextPartition, ReadHistory, SendHistory,
     SendHistoryFails, Register, EnterLoop, LoopSolo, LoopGroup, UnregisterSolo, CloseSolo,
     CleanupGroup, WaitForwarders, LeaveGroup
<1>3. ASSUME NEW r \in Requests, SubscribeSolo(s, r) \/ SubscribeGroup(s, r)
      PROVE  h'[q] = h[q]
  BY <1>1, <1>3 DEF SubscribeSolo, SubscribeGroup
<1> QED BY <1>2, <1>3

\* A step of handler q from one program counter to another, with the same request.
Moves(q, from_, to) == h[q].pc \in from_ /\ h'[q].pc \in to /\ h'[q].req = h[q].req
Keeps(q) == h'[q].todo = h[q].todo /\ h'[q].cur = h[q].cur

LEMMA SoloMoves ==
  ASSUME BInv, NEW q \in Members, NEW r \in Requests, SubscribeSolo(q, r)
  PROVE  /\ h[q].pc = "idle" /\ h'[q].pc \in {"returned", "read", "send"}
         /\ h'[q].req = r /\ r.group = NoGroup /\ h'[q].todo = {}
         /\ h'[q].ret \in {h[q].ret, "invalid"}
         /\ h'[q].pc = "send" => h'[q].next = h[q].next
<1>1. h \in [Members -> HandlerType] /\ h[q] \in HandlerType /\ h[q].pc = "idle"
  BY DEF BInv, ControlTyped, SubscribeSolo
<1>2. h[q].todo = {}
  BY <1>1 DEF BInv, HandlersOK
<1> DEFINE part == IF r.partition < 0 THEN 0 ELSE r.partition
           new  == [h[q] EXCEPT !.req = r, !.cur = part]
<1>3. new.todo = {} /\ new.req = r /\ new.ret = h[q].ret /\ new.next = h[q].next
      /\ DOMAIN new = DOMAIN h[q]
  BY <1>1, <1>2 DEF HandlerType
<1>4. \/ h'[q] = [new EXCEPT !.cur = 0, !.pc = "returned", !.ret = "invalid"]
      \/ h'[q] = [new EXCEPT !.pc = "read", !.next = r.offset]
      \/ h'[q] = [new EXCEPT !.pc = "send"]
  BY <1>1 DEF SubscribeSolo
<1>5. DOMAIN new = {"pc", "req", "todo", "cur", "next", "end", "ret"}
  BY <1>1 DEF HandlerType
<1> HIDE DEF new, part
<1> QED BY <1>1, <1>3, <1>4, <1>5 DEF SubscribeSolo

LEMMA GroupMoves ==
  ASSUME BInv, NEW q \in Members, NEW r \in Requests, SubscribeGroup(q, r)
  PROVE  /\ h[q].pc = "idle" /\ h'[q].pc = "next"
         /\ h'[q].req = r /\ r.group \in Groups
         /\ h'[q].todo = assignments'[r.group][r.topic][q]
         /\ h'[q].ret = h[q].ret
<1>1. h \in [Members -> HandlerType] /\ h[q] \in HandlerType
  BY DEF BInv, ControlTyped
<1> QED BY <1>1 DEF SubscribeGroup, HandlerType

LEMMA NextPartitionMoves ==
  ASSUME BInv, NEW q \in Members, NextPartition(q)
  PROVE  /\ Moves(q, {"next"}, {"read"}) /\ h'[q].ret = h[q].ret
         /\ h'[q].cur \in h[q].todo /\ h'[q].todo = h[q].todo \ {h'[q].cur}
<1>1. h \in [Members -> HandlerType] /\ h[q] \in HandlerType
  BY DEF BInv, ControlTyped
<1>2. PICK p \in h[q].todo : \E o \in StartOffsets(q, p) :
        h' = [h EXCEPT ![q].pc = "read", ![q].todo = @ \ {p}, ![q].cur = p, ![q].next = o]
  BY DEF NextPartition
<1>3. PICK o \in StartOffsets(q, p) :
        h'[q] = [h[q] EXCEPT !.pc = "read", !.todo = @ \ {p}, !.cur = p, !.next = o]
  BY <1>1, <1>2
<1>4. DOMAIN h[q] = {"pc", "req", "todo", "cur", "next", "end", "ret"}
  BY <1>1 DEF HandlerType
<1> DEFINE a == h[q]
           b == h'[q]
<1> HIDE DEF a, b
<1>5. b = [a EXCEPT !.pc = "read", !.todo = @ \ {p}, !.cur = p, !.next = o]
  BY <1>3 DEF a, b
<1>6. DOMAIN a = {"pc", "req", "todo", "cur", "next", "end", "ret"}
  BY <1>4 DEF a
<1>7. b.pc = "read" /\ b.req = a.req /\ b.ret = a.ret /\ b.cur = p /\ b.todo = a.todo \ {p}
  BY <1>5, <1>6
<1> QED BY <1>2, <1>7 DEF NextPartition, Moves, a, b

LEMMA ReadHistoryMoves ==
  ASSUME BInv, NEW q \in Members, ReadHistory(q)
  PROVE  /\ Moves(q, {"read"}, {"send"}) /\ Keeps(q) /\ h'[q].ret = h[q].ret
         /\ h'[q].next = h[q].next
<1>1. h \in [Members -> HandlerType] /\ h[q] \in HandlerType
  BY DEF BInv, ControlTyped
<1>2. PICK end : h[q].pc = "read" /\ h' = [h EXCEPT ![q].pc = "send", ![q].end = end]
  BY DEF ReadHistory
<1> QED BY <1>1, <1>2 DEF HandlerType, Moves, Keeps

LEMMA SendHistoryMoves ==
  ASSUME BInv, NEW q \in Members, SendHistory(q)
  PROVE  /\ Moves(q, {"send"}, {"send"}) /\ Keeps(q) /\ h'[q].ret = h[q].ret
         /\ h'[q].next = h[q].next + 1
<1>1. h \in [Members -> HandlerType] /\ h[q] \in HandlerType
  BY DEF BInv, ControlTyped
<1> QED BY <1>1 DEF SendHistory, HandlerType, Moves, Keeps

LEMMA EarlyMoves ==
  ASSUME BInv, NEW q \in Members, SendHistoryFails(q) \/ ReadFails(q)
  PROVE  /\ Moves(q, {"read", "send"}, {"leave", "returned"})
         /\ h'[q].ret # "nil"
         /\ h'[q].pc = "returned" <=> GroupOf(q) = NoGroup
<1>1. h \in [Members -> HandlerType] /\ h[q] \in HandlerType
  BY DEF BInv, ControlTyped
<1>2. PICK ret \in {"read error", "client gone"} :
        h[q].pc \in {"read", "send"} /\ ReturnEarly(q, ret)
  BY DEF SendHistoryFails, ReadFails
<1> QED BY <1>1, <1>2 DEF ReturnEarly, HandlerType, Moves

LEMMA RegisterMoves ==
  ASSUME BInv, NEW q \in Members, Register(q)
  PROVE  /\ Moves(q, {"send"}, {"loop", "next"}) /\ Keeps(q) /\ h'[q].ret = h[q].ret
         /\ h'[q].pc = "loop" <=> GroupOf(q) = NoGroup
<1>1. h \in [Members -> HandlerType] /\ h[q] \in HandlerType
  BY DEF BInv, ControlTyped
<1> QED BY <1>1 DEF Register, HandlerType, Moves, Keeps

LEMMA LateMoves ==
  ASSUME BInv, NEW q \in Members
  PROVE  /\ EnterLoop(q) => Moves(q, {"next"}, {"loop"}) /\ Keeps(q) /\ h'[q].ret = h[q].ret
         /\ UnregisterSolo(q) => Moves(q, {"loop"}, {"close"}) /\ Keeps(q) /\ h'[q].ret = h[q].ret
         /\ CloseSolo(q) => Moves(q, {"close"}, {"returned"}) /\ Keeps(q) /\ h'[q].ret = "nil"
         /\ CleanupGroup(q) => Moves(q, {"loop"}, {"wait"}) /\ Keeps(q) /\ h'[q].ret = h[q].ret
         /\ WaitForwarders(q) => Moves(q, {"wait"}, {"leave"}) /\ Keeps(q) /\ h'[q].ret = "nil"
         /\ LeaveGroup(q) => Moves(q, {"leave"}, {"returned"}) /\ Keeps(q) /\ h'[q].ret = h[q].ret
<1>1. h \in [Members -> HandlerType] /\ h[q] \in HandlerType
  BY DEF BInv, ControlTyped
<1>2. ASSUME EnterLoop(q)
      PROVE  Moves(q, {"next"}, {"loop"}) /\ Keeps(q) /\ h'[q].ret = h[q].ret
  BY <1>1, <1>2 DEF EnterLoop, HandlerType, Moves, Keeps
<1>3. ASSUME UnregisterSolo(q)
      PROVE  Moves(q, {"loop"}, {"close"}) /\ Keeps(q) /\ h'[q].ret = h[q].ret
  BY <1>1, <1>3 DEF UnregisterSolo, HandlerType, Moves, Keeps
<1>4. ASSUME CloseSolo(q)
      PROVE  Moves(q, {"close"}, {"returned"}) /\ Keeps(q) /\ h'[q].ret = "nil"
  BY <1>1, <1>4 DEF CloseSolo, HandlerType, Moves, Keeps
<1>5. ASSUME CleanupGroup(q)
      PROVE  Moves(q, {"loop"}, {"wait"}) /\ Keeps(q) /\ h'[q].ret = h[q].ret
  BY <1>1, <1>5 DEF CleanupGroup, HandlerType, Moves, Keeps
<1>6. ASSUME WaitForwarders(q)
      PROVE  Moves(q, {"wait"}, {"leave"}) /\ Keeps(q) /\ h'[q].ret = "nil"
  BY <1>1, <1>6 DEF WaitForwarders, HandlerType, Moves, Keeps
<1>7. ASSUME LeaveGroup(q)
      PROVE  Moves(q, {"leave"}, {"returned"}) /\ Keeps(q) /\ h'[q].ret = h[q].ret
  BY <1>1, <1>7 DEF LeaveGroup, HandlerType, Moves, Keeps
<1> QED BY <1>2, <1>3, <1>4, <1>5, <1>6, <1>7

\* One handler at most moves in a step.
Turns(q) ==
  \/ h'[q] = h[q]
  \/ \E r \in Requests : SubscribeSolo(q, r) \/ SubscribeGroup(q, r)
  \/ NextPartition(q) \/ ReadHistory(q) \/ SendHistory(q) \/ SendHistoryFails(q) \/ ReadFails(q)
  \/ Register(q) \/ EnterLoop(q) \/ UnregisterSolo(q) \/ CloseSolo(q) \/ CleanupGroup(q)
  \/ WaitForwarders(q) \/ LeaveGroup(q)

LEMMA HandlerMoves ==
  ASSUME BInv, [Next]_vars, NEW q \in Members
  PROVE  Turns(q)
<1>1. CASE UNCHANGED h
  BY <1>1 DEF Turns
<1>2. ASSUME NEW s \in Members, NEW r \in Requests, SubscribeSolo(s, r) \/ SubscribeGroup(s, r)
      PROVE  Turns(q)
  BY <1>2, HandlersAlone DEF Turns
<1>3. ASSUME NEW s \in Members, HandlerStep(s) \/ ReadFails(s)
      PROVE  Turns(q)
  <2>1. CASE s # q
    BY <1>3, <2>1, HandlersAlone DEF Turns
  <2>2. CASE s = q /\ (LoopSolo(q) \/ LoopGroup(q))
    BY <2>2 DEF LoopSolo, LoopGroup, Turns
  <2> QED BY <1>3, <2>1, <2>2 DEF HandlerStep, Turns
<1> QED BY <1>1, <1>2, <1>3, HandlerSteps

\* A handler that has started keeps its request, and never becomes idle again.
LEMMA StartedStays ==
  ASSUME BInv, [Next]_vars, NEW q \in Members, h[q].pc # "idle"
  PROVE  h'[q].pc # "idle" /\ h'[q].req = h[q].req
<1>1. Turns(q)
  BY HandlerMoves
<1>2. CASE h'[q] = h[q]
  BY <1>2
<1>3. ASSUME NEW r \in Requests, SubscribeSolo(q, r) \/ SubscribeGroup(q, r)
      PROVE  FALSE
  BY <1>3, SoloMoves, GroupMoves
<1> QED BY <1>1, <1>2, <1>3, NextPartitionMoves, ReadHistoryMoves, SendHistoryMoves, EarlyMoves,
           RegisterMoves, LateMoves DEF Turns, Moves
-----------------------------------------------------------------------------
(* What happens to the channels and forwarders of a subscription. *)

\* A channel that is not made yet is made by Register, or closed by mistake.
LEMMA ChannelMade ==
  ASSUME BInv, [Next]_vars, NEW c \in Chans
  PROVE  /\ chan[c] = "none" => \/ chan'[c] = "none"
                                \/ (Register(c[1]) \/ CloseSolo(c[1])) /\ c = ChanOf(c[1])
         /\ chan'[c] = "none" => chan[c] = "none"
<1>1. chan \in [Chans -> {"none", "open", "closed"}] /\ c[1] \in Members
  BY DEF BInv, ControlTyped, Chans
<1>2. CASE UNCHANGED <<subs, chan>>
  BY <1>2
<1>3. ASSUME NEW s \in Members, Register(s) \/ CloseSolo(s)
      PROVE  /\ chan'[c] = chan[c] \/ (c = ChanOf(s) /\ c[1] = s)
             /\ chan'[c] = "none" => chan[c] = "none"
  <2>1. \E v \in {"open", "closed"} : chan' = [chan EXCEPT ![ChanOf(s)] = v]
    BY <1>3 DEF Register, CloseSolo
  <2>2. ChanOf(s)[1] = s
    BY DEF ChanOf
  <2> QED BY <1>1, <2>1, <2>2
<1>4. ASSUME NEW s \in Members, CleanupGroup(s)
      PROVE  chan[c] = "none" <=> chan'[c] = "none"
  BY <1>1, <1>4 DEF CleanupGroup, Regs
<1>5. ASSUME NEW s \in Members, UnregisterSolo(s)
      PROVE  chan' = chan
  BY <1>5 DEF UnregisterSolo, chanVars
<1> QED BY <1>2, <1>3, <1>4, <1>5, ChannelSteps

\* A subscription gets into b.subs by its own Register, under the key it sets up.
LEMMA OwnRegistration ==
  ASSUME BInv, [Next]_vars, NEW q \in Members, NEW k \in Keys, <<q, k>> \in subs'[k]
  PROVE  <<q, k>> \in subs[k] \/ (Register(q) /\ k = KeyOf(q))
<1>1. subs \in [Keys -> SUBSET Chans]
  BY DEF BInv, ControlTyped
<1>2. CASE UNCHANGED <<subs, chan>>
  BY <1>2
<1>3. ASSUME NEW s \in Members, Register(s)
      PROVE  <<q, k>> \in subs[k] \/ (s = q /\ k = KeyOf(s))
  BY <1>1, <1>3 DEF Register, ChanOf
<1>4. ASSUME NEW s \in Members, CleanupGroup(s) \/ UnregisterSolo(s) \/ CloseSolo(s)
      PROVE  <<q, k>> \in subs[k]
  BY <1>1, <1>4 DEF CleanupGroup, UnregisterSolo, CloseSolo
<1> QED BY <1>2, <1>3, <1>4, ChannelSteps

LEMMA HandSteps ==
  ASSUME [Next]_vars
  PROVE  \/ UNCHANGED <<fwd, hand>>
         \/ \E s \in Members : Register(s)
         \/ \E c \in Chans : ForwarderStep(c)
<1>1. \/ hand' = hand
      \/ \E c \in Chans : ForwarderStep(c)
  <2>1. ASSUME NEW p \in Publishers, NEW k \in Keys, PublishAppend(p, k) \/ PublishAppendFails(p, k)
        PROVE  hand' = hand
    BY <2>1 DEF PublishAppend, PublishAppendFails, chanVars
  <2>2. ASSUME NEW p \in Publishers, NEW c \in Chans, PublishSend(p, c)
        PROVE  hand' = hand
    BY <2>2 DEF PublishSend
  <2>3. ASSUME NEW s \in Members,
               \/ ReadHistory(s) \/ SendHistory(s) \/ Register(s) \/ LoopSolo(s) \/ LoopGroup(s)
               \/ Ack(s) \/ AckFails(s) \/ Cancel(s)
        PROVE  hand' = hand
    BY <2>3 DEF ReadHistory, SendHistory, Register, LoopSolo, LoopGroup, Ack, AckFails, Cancel,
       chanVars
  <2> QED BY <2>1, <2>2, <2>3, DataSteps DEF dataVars, ForwarderStep
<1>2. ASSUME NEW s \in Members, WaitForwarders(s)
      PROVE  fwd' = fwd
  BY <1>2 DEF WaitForwarders
<1> QED BY <1>1, <1>2, CentralSteps

LEMMA AheadAreChannels ==
  ASSUME NEW s \in Members, HandlersOK, h[s].pc # "idle"
  PROVE  Ahead(s) \subseteq ChansOf(s)
<1>1. /\ h[s].req.topic \in Topics /\ h[s].todo \subseteq PartitionsOf(h[s].req.topic)
      /\ h[s].cur \in PartitionsOf(h[s].req.topic)
  BY RequestFacts DEF HandlersOK
<1> QED BY <1>1 DEF Ahead, ChansOf, Chans, Keys
LEMMA StreamSteps ==
  ASSUME [Next]_vars
  PROVE  stream' = stream \/ \E s \in Members : SendHistory(s) \/ LoopSolo(s) \/ LoopGroup(s)
<1>1. ASSUME NEW p \in Publishers, NEW k \in Keys, PublishAppend(p, k) \/ PublishAppendFails(p, k)
      PROVE  stream' = stream
  BY <1>1 DEF PublishAppend, PublishAppendFails
<1>2. ASSUME NEW p \in Publishers, NEW c \in Chans, PublishSend(p, c)
      PROVE  stream' = stream
  BY <1>2 DEF PublishSend
<1>3. ASSUME NEW s \in Members, ReadHistory(s) \/ Register(s) \/ Ack(s) \/ AckFails(s) \/ Cancel(s)
      PROVE  stream' = stream
  BY <1>3 DEF ReadHistory, Register, Ack, AckFails, Cancel
<1>4. ASSUME NEW c \in Chans, ForwardTake(c) \/ ForwardPut(c) \/ ForwardAbandon(c)
      PROVE  stream' = stream
  BY <1>4 DEF ForwardTake, ForwardPut, ForwardAbandon
<1> QED BY <1>1, <1>2, <1>3, <1>4, DataSteps DEF dataVars

\* Appending to a sequence adds to its elements, taking the head off takes one away.
LEMMA ToSetAppend ==
  ASSUME NEW S, NEW q \in Seq(S), NEW x \in S
  PROVE  ToSet(Append(q, x)) = ToSet(q) \cup {x}
<1> DEFINE a == Append(q, x)
<1>1. a \in Seq(S) /\ Len(a) = Len(q) + 1 /\ Len(q) \in Nat /\ DOMAIN q = 1 .. Len(q)
      /\ DOMAIN a = 1 .. Len(q) + 1
      /\ a[Len(q) + 1] = x /\ \A i \in 1 .. Len(q) : a[i] = q[i]
  BY AppendProperties
<1> HIDE DEF a
<1>2. ASSUME NEW i \in DOMAIN a
      PROVE  a[i] \in ToSet(q) \cup {x}
  <2>1. i \in 1 .. Len(q) \/ i = Len(q) + 1
    BY <1>1
  <2> QED BY <1>1, <2>1 DEF ToSet
<1>3. ASSUME NEW i \in DOMAIN q
      PROVE  q[i] \in ToSet(a)
  <2>1. i \in DOMAIN a /\ a[i] = q[i]
    BY <1>1
  <2> QED BY <2>1 DEF ToSet
<1>4. x \in ToSet(a)
  <2>1. Len(q) + 1 \in DOMAIN a
    BY <1>1
  <2> QED BY <1>1, <2>1 DEF ToSet
<1>5. ToSet(a) = ToSet(q) \cup {x}
  BY <1>2, <1>3, <1>4 DEF ToSet
<1> QED BY <1>5 DEF a

LEMMA ToSetTail ==
  ASSUME NEW S, NEW q \in Seq(S), q # <<>>
  PROVE  /\ Head(q) \in S /\ Tail(q) \in Seq(S)
         /\ ToSet(q) = {Head(q)} \cup ToSet(Tail(q))
<1> DEFINE a == Tail(q)
<1>1. /\ Head(q) \in S /\ a \in Seq(S) /\ Len(q) \in Nat /\ Len(q) > 0
      /\ DOMAIN q = 1 .. Len(q) /\ DOMAIN a = 1 .. Len(q) - 1
      /\ Head(q) = q[1] /\ \A i \in 1 .. Len(q) - 1 : a[i] = q[i + 1]
  BY HeadTailProperties, EmptySeq
<1> HIDE DEF a
<1>2. ASSUME NEW i \in DOMAIN q
      PROVE  q[i] \in {Head(q)} \cup ToSet(a)
  <2>1. CASE i = 1
    BY <1>1, <2>1
  <2>2. CASE i # 1
    <3>1. i - 1 \in DOMAIN a /\ a[i - 1] = q[i]
      <4>1. i - 1 \in 1 .. Len(q) - 1 /\ (i - 1) + 1 = i
        BY <1>1, <2>2
      <4> QED BY <1>1, <4>1
    <3> QED BY <3>1 DEF ToSet
  <2> QED BY <2>1, <2>2
<1>3. ASSUME NEW i \in DOMAIN a
      PROVE  a[i] \in ToSet(q)
  <2>1. i + 1 \in DOMAIN q /\ a[i] = q[i + 1]
    BY <1>1
  <2> QED BY <2>1 DEF ToSet
<1>4. Head(q) \in ToSet(q)
  BY <1>1 DEF ToSet
<1>5. ToSet(q) = {Head(q)} \cup ToSet(a)
  BY <1>2, <1>3, <1>4 DEF ToSet
<1> QED BY <1>1, <1>5 DEF a

LEMMA ToSetConcat ==
  ASSUME NEW S, NEW q \in Seq(S), NEW r \in Seq(S)
  PROVE  ToSet(q \o r) = ToSet(q) \cup ToSet(r)
<1> DEFINE a == q \o r
<1>1. /\ a \in Seq(S) /\ Len(q) \in Nat /\ Len(r) \in Nat
      /\ DOMAIN q = 1 .. Len(q) /\ DOMAIN r = 1 .. Len(r) /\ DOMAIN a = 1 .. Len(q) + Len(r)
      /\ \A i \in 1 .. Len(q) + Len(r) : a[i] = IF i <= Len(q) THEN q[i] ELSE r[i - Len(q)]
  BY ConcatProperties
<1> HIDE DEF a
<1>2. ASSUME NEW i \in DOMAIN a
      PROVE  a[i] \in ToSet(q) \cup ToSet(r)
  <2>1. CASE i <= Len(q)
    <3>1. i \in DOMAIN q /\ a[i] = q[i]
      BY <1>1, <2>1
    <3> QED BY <3>1 DEF ToSet
  <2>2. CASE ~(i <= Len(q))
    <3>1. i - Len(q) \in DOMAIN r /\ a[i] = r[i - Len(q)]
      BY <1>1, <2>2
    <3> QED BY <3>1 DEF ToSet
  <2> QED BY <2>1, <2>2
<1>3. ASSUME NEW i \in DOMAIN q
      PROVE  q[i] \in ToSet(a)
  <2>1. i \in DOMAIN a /\ a[i] = q[i]
    BY <1>1
  <2> QED BY <2>1 DEF ToSet
<1>4. ASSUME NEW i \in DOMAIN r
      PROVE  r[i] \in ToSet(a)
  <2>1. Len(q) + i \in DOMAIN a /\ a[Len(q) + i] = r[i]
    <3>1. Len(q) + i \in 1 .. Len(q) + Len(r) /\ ~(Len(q) + i <= Len(q)) /\ (Len(q) + i) - Len(q) = i
      BY <1>1
    <3> QED BY <1>1, <3>1
  <2> QED BY <2>1 DEF ToSet
<1>5. ToSet(a) = ToSet(q) \cup ToSet(r)
  BY <1>2, <1>3, <1>4 DEF ToSet
<1> QED BY <1>5 DEF a

\* What a client has received stays received.
LEMMA StreamGrows ==
  ASSUME BInv, [Next]_vars, NEW q \in Members
  PROVE  ToSet(stream[q]) \subseteq ToSet(stream'[q])
<1>1. stream \in [Members -> Seq(Msgs)]
  BY DEF BInv, DataTyped
<1>2. ASSUME NEW s \in Members, NEW m \in Msgs, stream' = [stream EXCEPT ![s] = Append(@, m)]
      PROVE  ToSet(stream[q]) \subseteq ToSet(stream'[q])
  BY <1>1, <1>2, ToSetAppend
<1>3. ASSUME NEW s \in Members, SendHistory(s)
      PROVE  \E m \in Msgs : stream' = [stream EXCEPT ![s] = Append(@, m)]
  <2> DEFINE m == [key |-> KeyOf(s), off |-> HistoryOffset(s)]
  <2>1. h[s] \in HandlerType /\ KeyOf(s) \in Keys
    BY <1>3, HandlerFacts DEF SendHistory
  <2>2. m \in Msgs
    BY <2>1 DEF HandlerType, HistoryOffset, Msgs
  <2>3. stream' = [stream EXCEPT ![s] = Append(@, m)]
    BY <1>3 DEF SendHistory
  <2> QED BY <2>2, <2>3
<1>4. ASSUME NEW s \in Members, LoopSolo(s)
      PROVE  \E m \in Msgs : stream' = [stream EXCEPT ![s] = Append(@, m)]
  <2>1. buf[ChanOf(s)] \in Seq(Msgs) /\ buf[ChanOf(s)] # <<>>
    BY <1>4, HandlerFacts DEF LoopSolo, BInv, DataTyped
  <2>2. Head(buf[ChanOf(s)]) \in Msgs
    BY <2>1, ToSetTail
  <2> QED BY <1>4, <2>2 DEF LoopSolo
<1>5. ASSUME NEW s \in Members, LoopGroup(s)
      PROVE  \E m \in Msgs : stream' = [stream EXCEPT ![s] = Append(@, m)]
  <2>1. central[s] \in Seq(Msgs) /\ central[s] # <<>>
    BY <1>5 DEF LoopGroup, BInv, DataTyped
  <2>2. Head(central[s]) \in Msgs
    BY <2>1, ToSetTail
  <2> QED BY <1>5, <2>2 DEF LoopGroup
<1> QED BY <1>2, <1>3, <1>4, <1>5, StreamSteps
-----------------------------------------------------------------------------
LEMMA AheadPreserved ==
  ASSUME BInv, NothingAhead, [Next]_vars
  PROVE  NothingAhead'
<1> SUFFICES ASSUME NEW q \in Members
             PROVE  /\ h'[q].pc = "idle" => \A c \in ChansOf(q) : chan'[c] = "none"
                    /\ h'[q].pc \in {"next", "read", "send"} => \A c \in Ahead(q)' : chan'[c] = "none"
                    /\ h'[q].pc \in {"read", "send"} => h'[q].cur \notin h'[q].todo
  BY DEF NothingAhead, ChansOf
<1> DEFINE Goal == /\ h'[q].pc = "idle" => \A c \in ChansOf(q) : chan'[c] = "none"
                   /\ h'[q].pc \in {"next", "read", "send"} => \A c \in Ahead(q)' : chan'[c] = "none"
                   /\ h'[q].pc \in {"read", "send"} => h'[q].cur \notin h'[q].todo
<1>1. ASSUME NEW c \in ChansOf(q), chan[c] = "none"
      PROVE  \/ chan'[c] = "none"
             \/ Register(q) /\ c = ChanOf(q)
             \/ CloseSolo(q)
  BY <1>1, ChannelMade DEF ChansOf
<1>2. h'[q].pc # "idle" => Ahead(q)' \subseteq ChansOf(q)
  <2>1. HandlersOK'
    BY HandlersPreserved
  <2>2. ASSUME HandlersOK', h'[q].pc # "idle"
        PROVE  Ahead(q)' \subseteq ChansOf(q)
    <3>1. /\ h'[q].req.topic \in Topics /\ h'[q].todo \subseteq PartitionsOf(h'[q].req.topic)
          /\ h'[q].cur \in PartitionsOf(h'[q].req.topic)
      BY <2>2, RequestFacts DEF HandlersOK
    <3> QED BY <3>1 DEF Ahead, ChansOf, Chans, Keys
  <2> QED BY <2>1, <2>2
<1>3. CASE h'[q] = h[q]
  <2>1. ~Register(q) /\ ~CloseSolo(q)
    BY <1>3, RegisterMoves, LateMoves DEF Moves
  <2>2. Ahead(q)' = Ahead(q)
    BY <1>3 DEF Ahead
  <2> QED BY <1>1, <1>2, <1>3, <2>1, <2>2 DEF NothingAhead
<1>4. ASSUME h[q].pc = "idle", h'[q].pc # "idle", h'[q].pc \in {"read", "send"} => h'[q].todo = {}
      PROVE  Goal
  <2>1. ~Register(q) /\ ~CloseSolo(q)
    BY <1>4, RegisterMoves, LateMoves DEF Moves
  <2>2. \A c \in ChansOf(q) : chan'[c] = "none"
    BY <1>1, <1>4, <2>1 DEF NothingAhead
  <2> QED BY <1>2, <1>4, <2>2
<1>5. ASSUME NEW r \in Requests, SubscribeSolo(q, r) \/ SubscribeGroup(q, r)
      PROVE  Goal
  BY <1>4, <1>5, SoloMoves, GroupMoves
<1>6. ASSUME h[q].pc \in {"next", "read", "send"}, h'[q].pc # "idle", Ahead(q)' \subseteq Ahead(q),
             h'[q].pc \in {"read", "send"} => h'[q].cur \notin h'[q].todo,
             Register(q) => h'[q].pc = "loop" \/ ChanOf(q) \notin Ahead(q)'
      PROVE  Goal
  <2>1. ~CloseSolo(q)
    BY <1>6, LateMoves DEF Moves
  <2> QED BY <1>1, <1>2, <1>6, <2>1 DEF NothingAhead
<1>7. CASE NextPartition(q)
  <2>1. /\ h[q].pc = "next" /\ h'[q].pc = "read" /\ h'[q].req = h[q].req
        /\ h'[q].cur \in h[q].todo /\ h'[q].todo = h[q].todo \ {h'[q].cur}
    BY <1>7, NextPartitionMoves DEF Moves
  <2>2. Ahead(q)' \subseteq Ahead(q)
    BY <2>1 DEF Ahead
  <2>3. ~Register(q)
    BY <2>1, RegisterMoves DEF Moves
  <2> QED BY <1>6, <2>1, <2>2, <2>3
<1>8. CASE ReadHistory(q) \/ SendHistory(q)
  <2>1. /\ h[q].pc \in {"read", "send"} /\ h'[q].pc = "send" /\ h'[q].req = h[q].req
        /\ h'[q].cur = h[q].cur /\ h'[q].todo = h[q].todo
    BY <1>8, ReadHistoryMoves, SendHistoryMoves DEF Moves, Keeps
  <2>2. Ahead(q)' \subseteq Ahead(q)
    BY <2>1 DEF Ahead
  <2>3. ~Register(q)
    BY <2>1, RegisterMoves DEF Moves
  <2> QED BY <1>6, <2>1, <2>2, <2>3 DEF NothingAhead
<1>9. CASE Register(q)
  <2>1. /\ h[q].pc = "send" /\ h'[q].pc \in {"loop", "next"} /\ h'[q].req = h[q].req
        /\ h'[q].cur = h[q].cur /\ h'[q].todo = h[q].todo
    BY <1>9, RegisterMoves DEF Moves, Keeps
  <2>2. h[q].cur \notin h[q].todo
    BY <2>1 DEF NothingAhead
  <2>3. Ahead(q)' \subseteq Ahead(q) /\ ChanOf(q) \notin Ahead(q)'
    BY <2>1, <2>2 DEF Ahead, ChanOf, KeyOf
  <2> QED BY <1>6, <2>1, <2>3
<1>10. ASSUME h'[q].pc \in {"loop", "close", "wait", "leave", "returned"}
       PROVE  Goal
  BY <1>10
<1> QED BY <1>3, <1>5, <1>7, <1>8, <1>9, <1>10, HandlerMoves, EarlyMoves, LateMoves
        DEF Turns, Moves

\* No handler becomes idle again, so what an idle one has not done it has never done.
LEMMA BlankPreserved ==
  ASSUME BInv, IdleIsBlank, [Next]_vars
  PROVE  IdleIsBlank'
<1> SUFFICES ASSUME NEW q \in Members, h'[q].pc = "idle"
             PROVE  h'[q].ret = "none" /\ h'[q].next = 0 /\ stream'[q] = <<>>
  BY DEF IdleIsBlank
<1>1. h[q].pc = "idle" /\ stream[q] = <<>>
  BY StartedStays DEF IdleIsBlank
<1>2. h'[q] = h[q]
  BY <1>1, HandlerMoves, SoloMoves, GroupMoves, NextPartitionMoves, ReadHistoryMoves,
     SendHistoryMoves, EarlyMoves, RegisterMoves, LateMoves DEF Turns, Moves
<1>3. stream'[q] = stream[q]
  <2>1. stream \in [Members -> Seq(Msgs)]
    BY DEF BInv, DataTyped
  <2>2. ASSUME NEW s \in Members, SendHistory(s) \/ LoopSolo(s) \/ LoopGroup(s)
        PROVE  stream'[q] = stream[q]
    <3>1. s # q
      BY <1>1, <2>2 DEF SendHistory, LoopSolo, LoopGroup
    <3> QED BY <2>1, <2>2, <3>1 DEF SendHistory, LoopSolo, LoopGroup
  <2> QED BY <2>2, StreamSteps
<1> QED BY <1>1, <1>2, <1>3 DEF IdleIsBlank
-----------------------------------------------------------------------------
LEMMA SoloPreserved ==
  ASSUME BInv, SoloRegistersOnce, [Next]_vars
  PROVE  SoloRegistersOnce'
<1> SUFFICES ASSUME NEW q \in Members, GroupOf(q)' = NoGroup,
                    NEW k \in Keys, <<q, k>> \in subs'[k]
             PROVE  h'[q].pc = "loop" /\ k = KeyOf(q)'
  BY DEF SoloRegistersOnce
<1>1. GroupOf(q) = NoGroup
  BY StartedStays DEF GroupOf, BInv, HandlersOK
<1>2. CASE Register(q) /\ k = KeyOf(q)
  <2>1. h'[q].pc = "loop" /\ h'[q].req = h[q].req /\ h'[q].cur = h[q].cur
    BY <1>1, <1>2, RegisterMoves DEF Moves, Keeps
  <2> QED BY <1>2, <2>1 DEF KeyOf
<1>3. CASE <<q, k>> \in subs[k]
  <2>1. h[q].pc = "loop" /\ k = KeyOf(q)
    BY <1>1, <1>3 DEF SoloRegistersOnce
  <2>2. ~UnregisterSolo(q)
    <3>1. subs \in [Keys -> SUBSET Chans]
      BY DEF BInv, ControlTyped
    <3> QED BY <2>1, <3>1 DEF UnregisterSolo, ChanOf
  <2>3. ~CleanupGroup(q)
    BY <1>1 DEF CleanupGroup
  <2>4. h'[q] = h[q]
    BY <2>1, <2>2, <2>3, HandlerMoves, SoloMoves, GroupMoves, NextPartitionMoves, ReadHistoryMoves,
       SendHistoryMoves, EarlyMoves, RegisterMoves, LateMoves DEF Turns, Moves
  <2> QED BY <2>1, <2>4 DEF KeyOf
<1> QED BY <1>2, <1>3, OwnRegistration

\* A handler that registers a partition has no forwarder for it yet.
LEMMA RegistersFresh ==
  ASSUME BInv, NothingAhead, ForwardersOK, NEW s \in Members, Register(s)
  PROVE  /\ ChanOf(s) \in Chans /\ ChanOf(s)[1] = s
         /\ chan[ChanOf(s)] = "none" /\ fwd[ChanOf(s)] = "none" /\ hand[ChanOf(s)] = <<>>
<1>1. h[s].pc = "send"
  BY DEF Register
<1>2. ChanOf(s) \in Chans /\ ChanOf(s) \in Ahead(s) /\ ChanOf(s)[1] = s
  BY <1>1, HandlerFacts DEF Ahead, ChanOf, KeyOf
<1>3. chan[ChanOf(s)] = "none"
  BY <1>1, <1>2 DEF NothingAhead
<1> QED BY <1>2, <1>3 DEF ForwardersOK

\* What a step does to the forwarder of channel c.
LEMMA ForwarderMoves ==
  ASSUME BInv, [Next]_vars, NEW c \in Chans
  PROVE  \/ fwd'[c] = fwd[c] /\ hand'[c] = hand[c]
         \/ Register(c[1]) /\ c = ChanOf(c[1]) /\ hand' = hand
            /\ fwd'[c] = IF GroupOf(c[1]) = NoGroup THEN "none" ELSE "idle"
         \/ fwd[c] = "idle" /\ fwd'[c] = "holding"
         \/ fwd[c] = "holding" /\ fwd'[c] \in {"idle", "done"} /\ hand'[c] = <<>>
         \/ fwd[c] = "idle" /\ fwd'[c] = "done" /\ hand' = hand
<1> DEFINE Goal ==
         \/ fwd'[c] = fwd[c] /\ hand'[c] = hand[c]
         \/ Register(c[1]) /\ c = ChanOf(c[1]) /\ hand' = hand
            /\ fwd'[c] = IF GroupOf(c[1]) = NoGroup THEN "none" ELSE "idle"
         \/ fwd[c] = "idle" /\ fwd'[c] = "holding"
         \/ fwd[c] = "holding" /\ fwd'[c] \in {"idle", "done"} /\ hand'[c] = <<>>
         \/ fwd[c] = "idle" /\ fwd'[c] = "done" /\ hand' = hand
<1>1. /\ fwd \in [Chans -> {"none", "idle", "holding", "done"}]
      /\ hand \in [Chans -> Seq(Msgs)]
  BY DEF BInv, ControlTyped, DataTyped
<1>2. CASE UNCHANGED <<fwd, hand>>
  BY <1>2
<1>3. ASSUME NEW s \in Members, Register(s)
      PROVE  Goal
  <2>1. /\ fwd' = [fwd EXCEPT ![ChanOf(s)] = IF GroupOf(s) = NoGroup THEN "none" ELSE "idle"]
        /\ hand' = hand /\ ChanOf(s)[1] = s
    BY <1>3 DEF Register, ChanOf
  <2> QED BY <1>1, <1>3, <2>1
<1>4. ASSUME NEW d \in Chans, ForwardTake(d)
      PROVE  Goal
  BY <1>1, <1>4 DEF ForwardTake
<1>5. ASSUME NEW d \in Chans, ForwardPut(d) \/ ForwardAbandon(d)
      PROVE  Goal
  BY <1>1, <1>5 DEF ForwardPut, ForwardAbandon
<1>6. ASSUME NEW d \in Chans, ForwardEnd(d)
      PROVE  Goal
  BY <1>1, <1>6 DEF ForwardEnd
<1> QED BY <1>2, <1>3, <1>4, <1>5, <1>6, HandSteps DEF ForwarderStep

LEMMA ForwardersPreserved ==
  ASSUME BInv, NothingAhead, ForwardersOK, [Next]_vars
  PROVE  ForwardersOK'
<1> SUFFICES ASSUME NEW c \in Chans
             PROVE  /\ GroupOf(c[1])' = NoGroup => fwd'[c] = "none"
                    /\ chan'[c] = "none" => fwd'[c] = "none"
                    /\ fwd'[c] # "holding" => hand'[c] = <<>>
  BY DEF ForwardersOK
<1>1. c[1] \in Members
  BY DEF Chans
<1>2. GroupOf(c[1])' = NoGroup => GroupOf(c[1]) = NoGroup
  BY <1>1, StartedStays DEF GroupOf, BInv, HandlersOK
<1>3. chan'[c] = "none" => chan[c] = "none"
  BY ChannelMade
<1>4. /\ GroupOf(c[1]) = NoGroup => fwd[c] = "none"
      /\ chan[c] = "none" => fwd[c] = "none"
      /\ fwd[c] # "holding" => hand[c] = <<>>
  BY DEF ForwardersOK
<1>5. CASE Register(c[1]) /\ c = ChanOf(c[1]) /\ hand' = hand
           /\ fwd'[c] = IF GroupOf(c[1]) = NoGroup THEN "none" ELSE "idle"
  <2>1. chan \in [Chans -> {"none", "open", "closed"}]
    BY DEF BInv, ControlTyped
  <2>2. chan'[c] = "open"
    BY <1>5, <2>1 DEF Register
  <2>3. hand[c] = <<>>
    BY <1>1, <1>5, RegistersFresh
  <2> QED BY <1>2, <1>5, <2>2, <2>3
<1> QED BY <1>2, <1>3, <1>4, <1>5, ForwarderMoves

LEMMA CleanedUpPreserved ==
  ASSUME BInv, SoloRegistersOnce, ForwardersOK, CleanedUp, [Next]_vars
  PROVE  CleanedUp'
<1> SUFFICES ASSUME NEW q \in Members
             PROVE  /\ h'[q].pc = "close" => GroupOf(q)' = NoGroup
                    /\ h'[q].pc = "wait" \/ h'[q].ret = "nil" => \A k \in Keys : <<q, k>> \notin subs'[k]
                    /\ h'[q].ret = "nil" => h'[q].pc \in {"leave", "returned"} /\ ForwardersDone(q)'
  BY DEF CleanedUp
<1> DEFINE Goal ==
      /\ h'[q].pc = "close" => GroupOf(q)' = NoGroup
      /\ h'[q].pc = "wait" \/ h'[q].ret = "nil" => \A k \in Keys : <<q, k>> \notin subs'[k]
      /\ h'[q].ret = "nil" => h'[q].pc \in {"leave", "returned"} /\ ForwardersDone(q)'
<1>1. ASSUME ~Register(q), \A k \in Keys : <<q, k>> \notin subs[k]
      PROVE  \A k \in Keys : <<q, k>> \notin subs'[k]
  BY <1>1, OwnRegistration
<1>2. ASSUME ~Register(q), ForwardersDone(q)
      PROVE  ForwardersDone(q)'
  <2> SUFFICES ASSUME NEW c \in ChansOf(q) PROVE fwd'[c] \in {"none", "done"}
    BY DEF ForwardersDone, ChansOf
  <2>1. c \in Chans /\ c[1] = q /\ fwd[c] \in {"none", "done"}
    BY <1>2 DEF ForwardersDone, ChansOf
  <2> QED BY <1>2, <2>1, ForwarderMoves
<1>3. CASE h'[q] = h[q]
  <2>1. ~Register(q)
    BY <1>3, RegisterMoves DEF Moves
  <2> QED BY <1>1, <1>2, <1>3, <2>1 DEF CleanedUp, GroupOf
<1>4. ASSUME h'[q].pc \notin {"close", "wait"}, h'[q].ret # "nil"
      PROVE  Goal
  BY <1>4
<1>5. ASSUME h[q].pc \notin {"leave", "returned"}
      PROVE  h[q].ret # "nil"
  BY <1>5 DEF CleanedUp
<1>6. ASSUME NEW r \in Requests, SubscribeSolo(q, r) \/ SubscribeGroup(q, r)
      PROVE  Goal
  BY <1>4, <1>5, <1>6, SoloMoves, GroupMoves
<1>7. CASE \/ NextPartition(q) \/ ReadHistory(q) \/ SendHistory(q) \/ SendHistoryFails(q)
           \/ ReadFails(q) \/ Register(q) \/ EnterLoop(q)
  BY <1>4, <1>5, <1>7, NextPartitionMoves, ReadHistoryMoves, SendHistoryMoves, EarlyMoves,
     RegisterMoves, LateMoves DEF Moves
<1>8. CASE UnregisterSolo(q)
  <2>1. /\ h[q].pc = "loop" /\ h'[q].pc = "close" /\ h'[q].req = h[q].req /\ h'[q].ret = h[q].ret
        /\ GroupOf(q) = NoGroup
    BY <1>8, LateMoves DEF Moves, UnregisterSolo
  <2> QED BY <1>5, <2>1 DEF GroupOf
<1>9. CASE CleanupGroup(q)
  <2>1. h[q].pc = "loop" /\ h'[q].pc = "wait" /\ h'[q].ret = h[q].ret
    BY <1>9, LateMoves DEF Moves
  <2>2. ASSUME NEW k \in Keys
        PROVE  <<q, k>> \notin subs'[k]
    <3>1. subs'[k] = subs[k] \ Regs(q)
      BY <1>9 DEF CleanupGroup
    <3>2. <<q, k>> \in subs[k] => <<q, k>> \in Regs(q)
      BY DEF BInv, RegisteredIsOpen, Regs, ChansOf, Chans
    <3> QED BY <3>1, <3>2
  <2> QED BY <1>5, <2>1, <2>2
<1>10. CASE CloseSolo(q)
  <2>1. h[q].pc = "close" /\ h'[q].pc = "returned"
    BY <1>10, LateMoves DEF Moves
  <2>2. GroupOf(q) = NoGroup
    BY <2>1 DEF CleanedUp
  <2>3. \A k \in Keys : <<q, k>> \notin subs[k]
    BY <2>1, <2>2 DEF SoloRegistersOnce
  <2>4. ForwardersDone(q)
    BY <2>2 DEF ForwardersDone, ForwardersOK, ChansOf
  <2>5. ~Register(q)
    BY <2>1 DEF Register
  <2> QED BY <1>1, <1>2, <2>1, <2>3, <2>4, <2>5
<1>11. CASE WaitForwarders(q)
  <2>1. h[q].pc = "wait" /\ h'[q].pc = "leave" /\ ForwardersDone(q)
    BY <1>11, LateMoves DEF Moves, WaitForwarders
  <2>2. ~Register(q)
    BY <2>1 DEF Register
  <2> QED BY <1>1, <1>2, <2>1, <2>2 DEF CleanedUp
<1>12. CASE LeaveGroup(q)
  <2>1. h[q].pc = "leave" /\ h'[q].pc = "returned" /\ h'[q].ret = h[q].ret
    BY <1>12, LateMoves DEF Moves
  <2>2. ~Register(q)
    BY <2>1 DEF Register
  <2> QED BY <1>1, <1>2, <2>1, <2>2 DEF CleanedUp
<1> QED BY <1>3, <1>6, <1>7, <1>8, <1>9, <1>10, <1>11, <1>12, HandlerMoves DEF Turns

LEMMA ServedPreserved ==
  ASSUME BInv, CleanedUp, MembersAreServed, [Next]_vars
  PROVE  MembersAreServed'
<1> SUFFICES ASSUME NEW g \in Groups, NEW t \in Topics, NEW q \in groups'[g][t]
             PROVE  h'[q].pc \notin {"idle", "returned"} /\ GroupOf(q)' = g /\ h'[q].req.topic = t
  BY DEF MembersAreServed
<1> DEFINE Goal == h'[q].pc \notin {"idle", "returned"} /\ GroupOf(q)' = g /\ h'[q].req.topic = t
<1>1. groups \in [Groups -> [Topics -> SUBSET Members]]
  BY DEF BInv, GMInv, GMTypeOK
<1>2. ASSUME q \in groups[g][t], ~LeaveGroup(q)
      PROVE  Goal
  <2>1. /\ q \in Members /\ h[q].pc \notin {"idle", "returned"} /\ GroupOf(q) = g
        /\ h[q].req.topic = t /\ g # NoGroup
    BY <1>1, <1>2, BrokerAssumption DEF MembersAreServed, BrokerAssumption
  <2>2. h'[q].pc # "idle" /\ h'[q].req = h[q].req
    BY <2>1, StartedStays
  <2>3. ~CloseSolo(q)
    BY <2>1 DEF CloseSolo, CleanedUp
  <2>4. h'[q].pc # "returned"
    <3>1. CASE h'[q] = h[q]
      BY <2>1, <3>1
    <3>2. CASE \E r \in Requests : SubscribeSolo(q, r) \/ SubscribeGroup(q, r)
      BY <2>1, <3>2 DEF SubscribeSolo, SubscribeGroup
    <3>3. CASE SendHistoryFails(q) \/ ReadFails(q)
      BY <2>1, <3>3, EarlyMoves DEF Moves
    <3> QED BY <1>2, <2>1, <2>3, <3>1, <3>2, <3>3, HandlerMoves, NextPartitionMoves,
               ReadHistoryMoves, SendHistoryMoves, RegisterMoves, LateMoves DEF Turns, Moves
  <2> QED BY <2>1, <2>2, <2>4 DEF GroupOf
<1>3. CASE \E s \in Members : LeaveGroup(s)
  <2>1. PICK s \in Members : LeaveGroup(s)
    BY <1>3
  <2>2. h[s].pc = "leave" /\ GMLeave(GroupOf(s), s, h[s].req.topic)
    BY <2>1 DEF LeaveGroup
  <2>3. GroupOf(s) \in Groups /\ h[s].req.topic \in Topics
    BY <2>2, HandlerFacts DEF BInv, HandlersOK
  <2> DEFINE a == GroupOf(s)
             u == h[s].req.topic
  <2> HIDE DEF a, u
  <2>4. a \in Groups /\ u \in Topics /\ GMLeave(a, s, u)
    BY <2>2, <2>3 DEF a, u
  <2>5. q \in groups[g][t] /\ ~(q = s /\ g = a /\ t = u)
    BY <1>1, <2>4 DEF GMLeave, Leave
  <2>6. q = s => g = a /\ t = u
    BY <2>5 DEF MembersAreServed, a, u
  <2>7. q # s
    BY <2>5, <2>6
  <2>8. ~LeaveGroup(q)
    <3>1. q \in Members /\ h[q] \in HandlerType /\ h[q].pc # "idle"
      BY <1>1, <2>5 DEF BInv, ControlTyped, MembersAreServed
    <3>2. h'[q] = h[q]
      BY <2>1, <2>7, <3>1, HandlersAlone DEF HandlerStep
    <3> QED BY <3>1, <3>2, LateMoves DEF Moves
  <2> QED BY <1>2, <2>5, <2>8
<1>4. ASSUME ~\E s \in Members : LeaveGroup(s), UNCHANGED gmVars
      PROVE  Goal
  <2>1. q \in groups[g][t]
    BY <1>4 DEF gmVars
  <2> QED BY <1>1, <1>2, <1>4, <2>1
<1>5. ASSUME ~\E s \in Members : LeaveGroup(s),
             NEW s \in Members, NEW r \in Requests, SubscribeGroup(s, r)
      PROVE  Goal
  <2>1. r.group \in Groups /\ r.topic \in Topics /\ h[s].pc = "idle"
        /\ GMJoin(r.group, s, r.topic) /\ h'[s].pc = "next" /\ h'[s].req = r
    BY <1>5, GroupMoves, RequestFacts DEF SubscribeGroup
  <2>2. q \in groups[g][t] \/ (q = s /\ g = r.group /\ t = r.topic)
    BY <1>1, <2>1 DEF GMJoin, Join
  <2>3. CASE q \in groups[g][t]
    BY <1>1, <1>2, <1>5, <2>3
  <2>4. CASE q = s /\ g = r.group /\ t = r.topic
    BY <2>1, <2>4 DEF GroupOf
  <2> QED BY <2>2, <2>3, <2>4
<1> QED BY <1>3, <1>4, <1>5, GroupSteps
-----------------------------------------------------------------------------
(* Where messages are. *)

LEMMA FromSteps ==
  ASSUME [Next]_vars
  PROVE  from' = from \/ \E s \in Members : ReadHistory(s)
<1>1. ASSUME NEW p \in Publishers, NEW k \in Keys, PublishAppend(p, k) \/ PublishAppendFails(p, k)
      PROVE  from' = from
  BY <1>1 DEF PublishAppend, PublishAppendFails, history
<1>2. ASSUME NEW p \in Publishers, NEW c \in Chans, PublishSend(p, c)
      PROVE  from' = from
  BY <1>2 DEF PublishSend
<1>3. ASSUME NEW s \in Members,
             \/ SendHistory(s) \/ Register(s) \/ LoopSolo(s) \/ LoopGroup(s)
             \/ Ack(s) \/ AckFails(s) \/ Cancel(s)
      PROVE  from' = from
  BY <1>3 DEF SendHistory, Register, LoopSolo, LoopGroup, Ack, AckFails, Cancel, history
<1>4. ASSUME NEW c \in Chans, ForwardTake(c) \/ ForwardPut(c) \/ ForwardAbandon(c)
      PROVE  from' = from
  BY <1>4 DEF ForwardTake, ForwardPut, ForwardAbandon, history
<1> QED BY <1>1, <1>2, <1>3, <1>4, DataSteps DEF dataVars

\* Only its own historical read sets the start of a channel.
LEMMA FromMoves ==
  ASSUME BInv, [Next]_vars, NEW c \in Chans
  PROVE  from'[c] = from[c] \/ (ReadHistory(c[1]) /\ c = ChanOf(c[1]))
<1>1. from \in [Chans -> Nat]
  BY DEF BInv, DataTyped
<1>2. ASSUME NEW s \in Members, ReadHistory(s)
      PROVE  from'[c] = from[c] \/ (c[1] = s /\ c = ChanOf(s))
  BY <1>1, <1>2 DEF ReadHistory, ChanOf
<1> QED BY <1>2, FromSteps

LEMMA HistoryPreserved ==
  ASSUME BInv, IdleIsBlank, HistorySent, [Next]_vars
  PROVE  HistorySent'
<1> SUFFICES ASSUME NEW q \in Members, h'[q].pc = "send",
                    NEW o \in from'[ChanOf(q)'] .. (h'[q].next - 1)
             PROVE  MsgAt(KeyOf(q), o)' \in ToSet(stream'[q])
  BY DEF HistorySent
<1>1. /\ from \in [Chans -> Nat] /\ from' \in [Chans -> Nat]
      /\ stream \in [Members -> Seq(Msgs)]
  BY DataPreserved DEF BInv, DataTyped
<1>2. CASE h'[q] = h[q]
  <2>1. /\ h[q].pc = "send" /\ KeyOf(q)' = KeyOf(q) /\ ChanOf(q)' = ChanOf(q)
        /\ ChanOf(q) \in Chans /\ ChanOf(q)[1] = q
    BY <1>2, HandlerFacts DEF KeyOf, ChanOf
  <2>2. ~ReadHistory(q)
    BY <2>1 DEF ReadHistory
  <2>3. from'[ChanOf(q)] = from[ChanOf(q)]
    BY <2>1, <2>2, FromMoves
  <2>4. MsgAt(KeyOf(q), o) \in ToSet(stream[q])
    BY <1>2, <2>1, <2>3 DEF HistorySent
  <2> QED BY <2>1, <2>4, StreamGrows DEF MsgAt
<1>3. ASSUME NEW r \in Requests, SubscribeSolo(q, r)
      PROVE  FALSE
  <2>1. h[q].pc = "idle" /\ h'[q].next = h[q].next
    BY <1>3, SoloMoves
  <2>2. h'[q].next = 0
    BY <2>1 DEF IdleIsBlank
  <2>3. ChanOf(q)' \in Chans
    <3>1. HandlersOK'
      BY HandlersPreserved
    <3>2. h'[q].req.topic \in Topics /\ h'[q].cur \in PartitionsOf(h'[q].req.topic)
      BY <3>1, RequestFacts DEF HandlersOK
    <3> QED BY <3>2 DEF ChanOf, KeyOf, Chans, Keys
  <2>4. from'[ChanOf(q)'] \in Nat
    BY <1>1, <2>3
  <2> QED BY <2>2, <2>4
<1>4. ASSUME NEW r \in Requests, SubscribeGroup(q, r)
      PROVE  FALSE
  BY <1>4, GroupMoves
<1>5. CASE ReadHistory(q)
  <2>1. /\ h[q].pc = "read" /\ h'[q].next = h[q].next /\ h'[q].req = h[q].req /\ h'[q].cur = h[q].cur
    BY <1>5, ReadHistoryMoves DEF Moves, Keeps
  <2>2. ChanOf(q)' = ChanOf(q) /\ ChanOf(q) \in Chans /\ h[q].next \in Nat
    BY <2>1, HandlerFacts DEF ChanOf, KeyOf, HandlerType
  <2>3. from'[ChanOf(q)] = h[q].next
    BY <1>1, <1>5, <2>2 DEF ReadHistory
  <2> QED BY <2>1, <2>2, <2>3
<1>6. CASE SendHistory(q)
  <2>1. /\ h[q].pc = "send" /\ h'[q].next = h[q].next + 1
        /\ h'[q].req = h[q].req /\ h'[q].cur = h[q].cur
    BY <1>6, SendHistoryMoves DEF Moves, Keeps
  <2>2. /\ ChanOf(q)' = ChanOf(q) /\ KeyOf(q)' = KeyOf(q) /\ ChanOf(q) \in Chans /\ ChanOf(q)[1] = q
        /\ h[q].next \in Nat /\ KeyOf(q) \in Keys
    BY <2>1, HandlerFacts DEF ChanOf, KeyOf, HandlerType
  <2>3. from'[ChanOf(q)] = from[ChanOf(q)] /\ from[ChanOf(q)] \in Nat
    BY <1>1, <1>6, <2>2 DEF SendHistory, history
  <2> DEFINE m == MsgAt(KeyOf(q), h[q].next)
  <2>4. m \in Msgs
    BY <2>2 DEF MsgAt, Msgs
  <2>5. stream' = [stream EXCEPT ![q] = Append(@, m)]
    BY <1>6 DEF SendHistory, HistoryOffset, MsgAt
  <2>6. MsgAt(KeyOf(q), o)' = MsgAt(KeyOf(q), o)
    BY <2>2 DEF MsgAt
  <2>7. CASE o = h[q].next
    <3>1. m = MsgAt(KeyOf(q), o)
      BY <2>7
    <3> HIDE DEF m
    <3> QED BY <1>1, <2>4, <2>5, <2>6, <3>1, ToSetAppend
  <2>8. CASE o # h[q].next
    <3>1. o \in from[ChanOf(q)] .. (h[q].next - 1)
      BY <2>1, <2>2, <2>3, <2>8
    <3>2. MsgAt(KeyOf(q), o) \in ToSet(stream[q])
      BY <2>1, <3>1 DEF HistorySent
    <3> QED BY <2>6, <3>2, StreamGrows
  <2> QED BY <2>7, <2>8
<1> QED BY <1>2, <1>3, <1>4, <1>5, <1>6, HandlerMoves, NextPartitionMoves, EarlyMoves, RegisterMoves,
           LateMoves DEF Turns, Moves

\* The messages between the channel c and its client.
Carried(c) == ToSet(buf[c]) \cup ToSet(hand[c]) \cup ToSet(central[c[1]]) \cup ToSet(stream[c[1]])

\* A context that is done stays done.
LEMMA DoneStays ==
  ASSUME BInv, [Next]_vars, NEW q \in Members, ctxDone[q]
  PROVE  ctxDone'[q]
<1>1. ASSUME NEW p \in Publishers, NEW k \in Keys, PublishAppend(p, k) \/ PublishAppendFails(p, k)
      PROVE  ctxDone' = ctxDone
  BY <1>1 DEF PublishAppend, PublishAppendFails
<1>2. ASSUME NEW p \in Publishers, NEW c \in Chans, PublishSend(p, c)
      PROVE  ctxDone' = ctxDone
  BY <1>2 DEF PublishSend
<1>3. ASSUME NEW s \in Members,
             \/ ReadHistory(s) \/ SendHistory(s) \/ Register(s) \/ LoopSolo(s) \/ LoopGroup(s)
             \/ Ack(s) \/ AckFails(s)
      PROVE  ctxDone' = ctxDone
  BY <1>3 DEF ReadHistory, SendHistory, Register, LoopSolo, LoopGroup, Ack, AckFails
<1>4. ASSUME NEW c \in Chans, ForwardTake(c) \/ ForwardPut(c) \/ ForwardAbandon(c)
      PROVE  ctxDone' = ctxDone
  BY <1>4 DEF ForwardTake, ForwardPut, ForwardAbandon
<1>5. ASSUME NEW s \in Members, Cancel(s)
      PROVE  ctxDone'[q]
  <2>1. ctxDone \in [Members -> BOOLEAN] /\ ctxDone' = [ctxDone EXCEPT ![s] = TRUE]
    BY <1>5 DEF Cancel, BInv, DataTyped
  <2>2. CASE s = q
    BY <2>1, <2>2
  <2>3. CASE s # q
    BY <2>1, <2>3
  <2> QED BY <2>2, <2>3
<1> QED BY <1>1, <1>2, <1>3, <1>4, <1>5, DataSteps DEF dataVars

\* No step takes a message away from a client that is connected.
LEMMA CarriedGrows ==
  ASSUME BInv, ForwardersOK, [Next]_vars, NEW c \in Chans, ~ctxDone[c[1]]
  PROVE  Carried(c) \subseteq Carried(c)'
<1>1. /\ buf \in [Chans -> Seq(Msgs)] /\ hand \in [Chans -> Seq(Msgs)]
      /\ central \in [Members -> Seq(Msgs)] /\ stream \in [Members -> Seq(Msgs)]
      /\ c[1] \in Members
  BY DEF BInv, DataTyped, Chans
<1>2. ToSet(stream[c[1]]) \subseteq ToSet(stream'[c[1]])
  BY <1>1, StreamGrows
<1>3. ASSUME ToSet(buf[c]) \subseteq ToSet(buf'[c]), UNCHANGED <<hand, central>>
      PROVE  Carried(c) \subseteq Carried(c)'
  BY <1>2, <1>3 DEF Carried
<1>4. ASSUME NEW p \in Publishers, NEW d \in Chans, PublishSend(p, d)
      PROVE  ToSet(buf[c]) \subseteq ToSet(buf'[c]) /\ UNCHANGED <<hand, central>>
  <2>1. pub[p].msg \in Msgs
    BY <1>4 DEF PublishSend, BInv, PublishersOK
  <2>2. buf' = buf \/ buf' = [buf EXCEPT ![d] = Append(@, pub[p].msg)]
    BY <1>4 DEF PublishSend
  <2>3. ToSet(Append(buf[d], pub[p].msg)) = ToSet(buf[d]) \cup {pub[p].msg}
    BY <1>1, <2>1, ToSetAppend
  <2> QED BY <1>1, <1>4, <2>2, <2>3 DEF PublishSend
<1>5. ASSUME NEW s \in Members, LoopSolo(s)
      PROVE  Carried(c) \subseteq Carried(c)'
  <2>1. CASE c # ChanOf(s)
    <3>1. buf'[c] = buf[c] /\ UNCHANGED <<hand, central>>
      BY <1>1, <1>5, <2>1 DEF LoopSolo
    <3> QED BY <1>3, <3>1
  <2>2. CASE c = ChanOf(s)
    <3>1. /\ buf[c] # <<>> /\ buf' = [buf EXCEPT ![c] = Tail(@)]
          /\ stream' = [stream EXCEPT ![s] = Append(@, Head(buf[c]))]
          /\ UNCHANGED <<hand, central>> /\ c[1] = s
      BY <1>5, <2>2 DEF LoopSolo, ChanOf
    <3>2. Head(buf[c]) \in Msgs /\ ToSet(buf[c]) = {Head(buf[c])} \cup ToSet(Tail(buf[c]))
      BY <1>1, <3>1, ToSetTail
    <3>3. ToSet(Append(stream[s], Head(buf[c]))) = ToSet(stream[s]) \cup {Head(buf[c])}
      BY <1>1, <3>2, ToSetAppend
    <3>4. buf'[c] = Tail(buf[c]) /\ stream'[s] = Append(stream[s], Head(buf[c]))
      BY <1>1, <3>1
    <3> QED BY <3>1, <3>2, <3>3, <3>4 DEF Carried
  <2> QED BY <2>1, <2>2
<1>6. ASSUME NEW s \in Members, LoopGroup(s)
      PROVE  Carried(c) \subseteq Carried(c)'
  <2>1. /\ central[s] # <<>> /\ central' = [central EXCEPT ![s] = Tail(@)]
        /\ stream' = [stream EXCEPT ![s] = Append(@, Head(central[s]))]
        /\ UNCHANGED <<buf, hand>>
    BY <1>6 DEF LoopGroup
  <2>2. CASE c[1] # s
    <3>1. central'[c[1]] = central[c[1]]
      BY <1>1, <2>1, <2>2
    <3> QED BY <1>2, <2>1, <3>1 DEF Carried
  <2>3. CASE c[1] = s
    <3>1. Head(central[s]) \in Msgs /\ ToSet(central[s]) = {Head(central[s])} \cup ToSet(Tail(central[s]))
      BY <1>1, <2>1, ToSetTail
    <3>2. ToSet(Append(stream[s], Head(central[s]))) = ToSet(stream[s]) \cup {Head(central[s])}
      BY <1>1, <3>1, ToSetAppend
    <3>3. central'[s] = Tail(central[s]) /\ stream'[s] = Append(stream[s], Head(central[s]))
      BY <1>1, <2>1
    <3> QED BY <2>1, <2>3, <3>1, <3>2, <3>3 DEF Carried
  <2> QED BY <2>2, <2>3
<1>7. ASSUME NEW d \in Chans, ForwardTake(d)
      PROVE  Carried(c) \subseteq Carried(c)'
  <2>1. /\ fwd[d] = "idle" /\ buf[d] # <<>>
        /\ buf' = [buf EXCEPT ![d] = Tail(@)] /\ hand' = [hand EXCEPT ![d] = <<Head(buf[d])>>]
        /\ UNCHANGED <<central, stream>>
    BY <1>7 DEF ForwardTake
  <2>2. CASE c # d
    <3>1. buf'[c] = buf[c] /\ hand'[c] = hand[c]
      BY <1>1, <2>1, <2>2
    <3> QED BY <2>1, <3>1 DEF Carried
  <2>3. CASE c = d
    <3>1. hand[c] = <<>>
      BY <2>1, <2>3 DEF ForwardersOK
    <3>2. ToSet(hand[c]) = {}
      BY <3>1 DEF ToSet
    <3>3. ToSet(buf[c]) = {Head(buf[c])} \cup ToSet(Tail(buf[c]))
      BY <1>1, <2>1, <2>3, ToSetTail
    <3>4. buf'[c] = Tail(buf[c]) /\ hand'[c] = <<Head(buf[c])>>
      BY <1>1, <2>1, <2>3
    <3>5. ToSet(hand'[c]) = {Head(buf[c])}
      BY <3>4 DEF ToSet
    <3> QED BY <2>1, <3>2, <3>3, <3>4, <3>5 DEF Carried
  <2> QED BY <2>2, <2>3
<1>8. ASSUME NEW d \in Chans, ForwardPut(d)
      PROVE  Carried(c) \subseteq Carried(c)'
  <2>1. /\ central' = [central EXCEPT ![d[1]] = @ \o hand[d]] /\ hand' = [hand EXCEPT ![d] = <<>>]
        /\ UNCHANGED <<buf, stream>> /\ d[1] \in Members
    BY <1>8 DEF ForwardPut, Chans
  <2>2. ToSet(central[d[1]] \o hand[d]) = ToSet(central[d[1]]) \cup ToSet(hand[d])
    BY <1>1, <2>1, ToSetConcat
  <2>3. ToSet(central[c[1]]) \subseteq ToSet(central'[c[1]])
    BY <1>1, <2>1, <2>2
  <2>4. CASE c # d
    <3>1. hand'[c] = hand[c]
      BY <1>1, <2>1, <2>4
    <3> QED BY <2>1, <2>3, <3>1 DEF Carried
  <2>5. CASE c = d
    <3>1. ToSet(hand[c]) \subseteq ToSet(central'[c[1]])
      BY <1>1, <2>1, <2>2, <2>5
    <3> QED BY <2>1, <2>3, <3>1 DEF Carried
  <2> QED BY <2>4, <2>5
<1>9. ASSUME NEW d \in Chans, ForwardAbandon(d)
      PROVE  Carried(c) \subseteq Carried(c)'
  <2>1. c # d
    BY <1>9 DEF ForwardAbandon
  <2>2. hand'[c] = hand[c] /\ UNCHANGED <<buf, central, stream>>
    BY <1>1, <1>9, <2>1 DEF ForwardAbandon
  <2> QED BY <2>2 DEF Carried
<1>10. ASSUME NEW p \in Publishers, NEW k \in Keys, PublishAppend(p, k) \/ PublishAppendFails(p, k)
       PROVE  UNCHANGED <<buf, hand, central>>
  BY <1>10 DEF PublishAppend, PublishAppendFails, chanVars
<1>11. ASSUME NEW s \in Members,
              \/ ReadHistory(s) \/ SendHistory(s) \/ Register(s)
              \/ Ack(s) \/ AckFails(s) \/ Cancel(s)
       PROVE  UNCHANGED <<buf, hand, central>>
  BY <1>11 DEF ReadHistory, SendHistory, Register, Ack, AckFails, Cancel, chanVars
<1>12. CASE UNCHANGED dataVars
  BY <1>12 DEF dataVars, Carried
<1> QED BY <1>3, <1>4, <1>5, <1>6, <1>7, <1>8, <1>9, <1>10, <1>11, <1>12, DataSteps
-----------------------------------------------------------------------------
\* A message that its publisher has still to send to a registered channel is sent,
\* dropped, or still to come.
LEMMA ComesOrDrops ==
  ASSUME BInv, [Next]_vars, NEW c \in Chans, c \in subs[c[2]], c[2] \in Keys, NEW o,
         StillToCome(c, o)
  PROVE  StillToCome(c, o)' \/ MsgAt(c[2], o) \in ToSet(buf'[c]) \/ o \in dropped'[c]
<1> DEFINE m == MsgAt(c[2], o)
           Goal == StillToCome(c, o)' \/ m \in ToSet(buf'[c]) \/ o \in dropped'[c]
<1>1. PICK p \in Publishers : pub[p].msg = m /\ (pub[p].st = "appended" \/ c \in pub[p].todo)
  BY DEF StillToCome
<1>2. m' = m /\ m.key = c[2] /\ m.off = o
  BY DEF MsgAt
<1>3. /\ pub \in [Publishers -> PublisherType] /\ pub[p] \in PublisherType
      /\ pub[p].st # "fanout" => pub[p].todo = {}
  BY DEF BInv, ControlTyped, PublishersOK
<1>4. /\ buf \in [Chans -> Seq(Msgs)] /\ dropped \in [Chans -> SUBSET Nat]
  BY DEF BInv, DataTyped
<1> HIDE DEF m
<1>5. ASSUME pub'[p].msg = m, pub'[p].st = "appended" \/ c \in pub'[p].todo
      PROVE  StillToCome(c, o)'
  BY <1>2, <1>5 DEF StillToCome, m
<1>6. ASSUME UNCHANGED pub
      PROVE  StillToCome(c, o)'
  BY <1>1, <1>5, <1>6
<1>7. ASSUME NEW q \in Publishers, NEW k \in Keys, PublishAppend(q, k)
      PROVE  StillToCome(c, o)'
  <2>1. q # p
    BY <1>1, <1>3, <1>7 DEF PublishAppend
  <2>2. pub'[p] = pub[p]
    BY <1>3, <1>7, <2>1 DEF PublishAppend
  <2> QED BY <1>1, <1>5, <2>2
<1>8. ASSUME NEW q \in Publishers, q # p, PublishStep(q)
      PROVE  StillToCome(c, o)'
  <2>1. pub'[p] = pub[p]
    BY <1>3, <1>8 DEF PublishStep, PublishRLock, PublishSend, PublishReturn
  <2> QED BY <1>1, <1>5, <2>1
<1>9. ASSUME PublishRLock(p)
      PROVE  StillToCome(c, o)'
  <2>1. pub' = [pub EXCEPT ![p].st = "fanout", ![p].todo = subs[pub[p].msg.key]]
    BY <1>9 DEF PublishRLock
  <2> DEFINE a == pub[p]
             b == [pub[p] EXCEPT !.st = "fanout", !.todo = subs[c[2]]]
  <2>2. pub'[p] = b
    BY <1>1, <1>2, <1>3, <2>1
  <2>3. b.msg = m /\ b.todo = subs[c[2]]
    BY <1>1, <1>3 DEF PublisherType
  <2> HIDE DEF b
  <2> QED BY <1>5, <2>2, <2>3
<1>10. ASSUME PublishReturn(p)
       PROVE  FALSE
  BY <1>1, <1>10 DEF PublishReturn
<1>11. ASSUME NEW d \in Chans, PublishSend(p, d)
       PROVE  Goal
  <2>1. pub' = [pub EXCEPT ![p].todo = @ \ {d}] /\ pub[p].st = "fanout"
    BY <1>11 DEF PublishSend
  <2>2. CASE d # c
    <3>1. pub'[p].msg = m /\ c \in pub'[p].todo
      BY <1>1, <1>3, <2>1, <2>2 DEF PublisherType
    <3> QED BY <1>5, <3>1
  <2>3. CASE d = c
    <3>1. CASE buf' = [buf EXCEPT ![c] = Append(@, pub[p].msg)]
      <4>1. pub[p].msg \in Msgs
        BY <2>1 DEF BInv, PublishersOK
      <4>2. ToSet(Append(buf[c], m)) = ToSet(buf[c]) \cup {m}
        BY <1>1, <1>4, <4>1, ToSetAppend
      <4>3. buf'[c] = Append(buf[c], m)
        BY <1>1, <1>4, <3>1
      <4> QED BY <4>2, <4>3
    <3>2. CASE dropped' = [dropped EXCEPT ![c] = @ \cup {pub[p].msg.off}]
      BY <1>1, <1>2, <1>4, <3>2
    <3> QED BY <1>11, <2>3, <3>1, <3>2 DEF PublishSend
  <2> QED BY <2>2, <2>3
<1> HIDE DEF Goal
<1>12. ASSUME NEW q \in Publishers, PublishStep(q)
       PROVE  Goal
  <2>1. CASE q # p
    <3>1. StillToCome(c, o)'
      BY <1>8, <1>12, <2>1
    <3> QED BY <3>1 DEF Goal
  <2>2. CASE q = p
    <3>1. PublishRLock(p) \/ PublishReturn(p) \/ \E d \in Chans : PublishSend(p, d)
      BY <1>12, <2>2 DEF PublishStep
    <3>2. CASE PublishRLock(p)
      <4>1. StillToCome(c, o)'
        BY <1>9, <3>2
      <4> QED BY <4>1 DEF Goal
    <3>3. CASE PublishReturn(p)
      BY <1>10, <3>3
    <3>4. CASE \E d \in Chans : PublishSend(p, d)
      BY <1>11, <3>4
    <3> QED BY <3>1, <3>2, <3>3, <3>4
  <2> QED BY <2>1, <2>2
<1>13. ASSUME StillToCome(c, o)'
       PROVE  Goal
  BY <1>13 DEF Goal
<1>14. ASSUME UNCHANGED pub
       PROVE  Goal
  BY <1>6, <1>13, <1>14
<1>15. ASSUME NEW q \in Publishers, NEW k \in Keys, PublishAppend(q, k)
       PROVE  Goal
  BY <1>7, <1>13, <1>15
<1>16. Goal
  <2>1. \/ UNCHANGED pub
        \/ \E q \in Publishers, k \in Keys : PublishAppend(q, k)
        \/ \E q \in Publishers : PublishStep(q)
    BY PublisherSteps
  <2>2. CASE \E q \in Publishers, k \in Keys : PublishAppend(q, k)
    BY <1>15, <2>2
  <2>3. CASE \E q \in Publishers : PublishStep(q)
    BY <1>12, <2>3
  <2>4. CASE UNCHANGED pub
    BY <1>14, <2>4
  <2> QED BY <2>1, <2>2, <2>3, <2>4
<1> QED BY <1>16 DEF m, Goal

\* What is lost stays lost, but for a channel that is registered again.
LEMMA LostStaysLost ==
  ASSUME BInv, [Next]_vars, NEW c \in Chans, c[2] \in Keys
  PROVE  /\ dropped[c] \subseteq dropped'[c]
         /\ unannounced[c[2]] \subseteq unannounced'[c[2]]
         /\ gap'[c] = gap[c] \/ (Register(c[1]) /\ c = ChanOf(c[1]))
<1>1. /\ dropped \in [Chans -> SUBSET Nat] /\ gap \in [Chans -> SUBSET Int]
      /\ unannounced \in [Keys -> SUBSET Nat]
  BY DEF BInv, DataTyped
<1>2. ASSUME NEW p \in Publishers, NEW k \in Keys, PublishAppend(p, k) \/ PublishAppendFails(p, k)
      PROVE  /\ UNCHANGED <<dropped, gap>> /\ unannounced[c[2]] \subseteq unannounced'[c[2]]
  BY <1>1, <1>2 DEF PublishAppend, PublishAppendFails, history
<1>3. ASSUME NEW p \in Publishers, NEW d \in Chans, PublishSend(p, d)
      PROVE  /\ UNCHANGED <<unannounced, gap>> /\ dropped[c] \subseteq dropped'[c]
  BY <1>1, <1>3 DEF PublishSend
<1>4. ASSUME NEW s \in Members, Register(s)
      PROVE  /\ UNCHANGED <<unannounced, dropped>>
             /\ gap'[c] = gap[c] \/ (c[1] = s /\ c = ChanOf(s))
  <2>1. PICK v : gap' = [gap EXCEPT ![ChanOf(s)] = v]
    BY <1>4 DEF Register
  <2> QED BY <1>1, <1>4, <2>1 DEF Register, ChanOf
<1>5. ASSUME NEW s \in Members,
             \/ ReadHistory(s) \/ SendHistory(s) \/ LoopSolo(s) \/ LoopGroup(s)
             \/ Ack(s) \/ AckFails(s) \/ Cancel(s)
      PROVE  UNCHANGED <<unannounced, dropped, gap>>
  BY <1>5 DEF ReadHistory, SendHistory, LoopSolo, LoopGroup, Ack, AckFails, Cancel, history
<1>6. ASSUME NEW d \in Chans, ForwardTake(d) \/ ForwardPut(d) \/ ForwardAbandon(d)
      PROVE  UNCHANGED <<unannounced, dropped, gap>>
  BY <1>6 DEF ForwardTake, ForwardPut, ForwardAbandon, history
<1> QED BY <1>2, <1>3, <1>4, <1>5, <1>6, DataSteps DEF dataVars

\* The log grows by a message that is still to come, or is unannounced.
LEMMA LogGrows ==
  ASSUME BInv, [Next]_vars, NEW k \in Keys, NEW c \in Chans, c[2] = k
  PROVE  \/ logs'[k] = logs[k]
         \/ \E n \in Nat : /\ Len(logs[k]) = n /\ Len(logs'[k]) = n + 1
                           /\ StillToCome(c, n)' \/ n \in unannounced'[k]
<1> DEFINE Goal == \/ logs'[k] = logs[k]
                   \/ \E n \in Nat : /\ Len(logs[k]) = n /\ Len(logs'[k]) = n + 1
                                     /\ StillToCome(c, n)' \/ n \in unannounced'[k]
<1>1. /\ logs \in [Keys -> Seq(Publishers)] /\ pub \in [Publishers -> PublisherType]
      /\ unannounced \in [Keys -> SUBSET Nat]
  BY DEF BInv, DataTyped, ControlTyped
<1>2. ASSUME NEW p \in Publishers, NEW j \in Keys, PublishAppend(p, j) \/ PublishAppendFails(p, j)
      PROVE  Goal
  <2>1. logs' = [logs EXCEPT ![j] = Append(@, p)]
    BY <1>2 DEF PublishAppend, PublishAppendFails
  <2>2. CASE j # k
    BY <1>1, <2>1, <2>2
  <2>3. CASE j = k
    <3>1. Len(logs'[k]) = Len(logs[k]) + 1 /\ Len(logs[k]) \in Nat
      <4>1. logs[k] \in Seq(Publishers) /\ logs'[k] = Append(logs[k], p)
        BY <1>1, <2>1, <2>3
      <4> QED BY <4>1, AppendProperties
    <3>2. PICK n \in Nat : n = Len(logs[k])
      BY <3>1
    <3>3. CASE PublishAppend(p, j)
      <4> DEFINE b == [st |-> "appended", msg |-> [key |-> k, off |-> n], todo |-> {}]
      <4>1. pub' = [pub EXCEPT ![p] = b]
        BY <2>3, <3>2, <3>3 DEF PublishAppend
      <4>2. pub'[p] = b
        BY <1>1, <4>1
      <4>3. pub'[p].msg = [key |-> k, off |-> n] /\ pub'[p].st = "appended"
        BY <4>2
      <4>4. StillToCome(c, n)'
        BY <4>3 DEF StillToCome, MsgAt
      <4> QED BY <3>1, <3>2, <4>4
    <3>4. CASE PublishAppendFails(p, j)
      <4>1. n \in unannounced'[k]
        BY <1>1, <2>3, <3>2, <3>4 DEF PublishAppendFails
      <4> QED BY <3>1, <3>2, <4>1
    <3> QED BY <1>2, <3>3, <3>4
  <2> QED BY <2>2, <2>3
<1>3. ASSUME NEW p \in Publishers, NEW d \in Chans, PublishSend(p, d)
      PROVE  logs' = logs
  BY <1>3 DEF PublishSend
<1>4. ASSUME NEW s \in Members,
             \/ ReadHistory(s) \/ SendHistory(s) \/ Register(s) \/ LoopSolo(s) \/ LoopGroup(s)
             \/ Ack(s) \/ AckFails(s) \/ Cancel(s)
      PROVE  logs' = logs
  BY <1>4 DEF ReadHistory, SendHistory, Register, LoopSolo, LoopGroup, Ack, AckFails, Cancel
<1>5. ASSUME NEW d \in Chans, ForwardTake(d) \/ ForwardPut(d) \/ ForwardAbandon(d)
      PROVE  logs' = logs
  BY <1>5 DEF ForwardTake, ForwardPut, ForwardAbandon
<1> QED BY <1>2, <1>3, <1>4, <1>5, DataSteps DEF dataVars

\* A subscription that registers has sent the history, and knows of the rest either
\* its publisher or the gap.
LEMMA RegistersAccounted ==
  ASSUME BInv, HistorySent, [Next]_vars, NEW s \in Members, Register(s),
         NEW c \in Chans, c = ChanOf(s), NEW k \in Keys, k = KeyOf(s),
         NEW o \in from'[c] .. (Len(logs'[k]) - 1)
  PROVE  Reaches(c, o)' \/ StillToCome(c, o)' \/ o \in gap'[c]
<1> DEFINE pending == {pub[p].msg.off : p \in {q \in Publishers : pub[q].st = "appended"
                                                                    /\ pub[q].msg.key = k}}
<1>1. /\ h[s].pc = "send" /\ h[s].next >= h[s].end
      /\ gap' = [gap EXCEPT ![c] = (h[s].end .. (Len(logs[k]) - 1)) \ pending]
      /\ UNCHANGED <<logs, pub, from, stream>>
  BY DEF Register
<1>2. /\ c \in Chans /\ k \in Keys /\ c[1] = s /\ c[2] = k
      /\ h[s].next \in Nat /\ h[s].end \in Nat
  BY <1>1, HandlerFacts DEF HandlerType, ChanOf
<1>3. /\ from[c] \in Nat /\ Len(logs[k]) \in Nat /\ gap \in [Chans -> SUBSET Int]
  BY <1>2 DEF BInv, DataTyped
<1>4. o \in from[c] .. (Len(logs[k]) - 1)
  BY <1>1
<1>5. CASE o < h[s].next
  <2>1. o \in from[c] .. (h[s].next - 1)
    BY <1>2, <1>3, <1>4, <1>5
  <2>2. MsgAt(k, o) \in ToSet(stream[s])
    BY <1>1, <2>1 DEF HistorySent
  <2>3. MsgAt(c[2], o) \in ToSet(stream'[c[1]])
    BY <1>1, <1>2, <2>2
  <2>4. Reaches(c, o)'
    BY <2>3 DEF Reaches, MsgAt
  <2> QED BY <2>4
<1>6. CASE ~(o < h[s].next)
  <2>1. o \in h[s].end .. (Len(logs[k]) - 1)
    BY <1>1, <1>2, <1>3, <1>4, <1>6
  <2>2. CASE o \in pending
    <3>1. PICK p \in Publishers : pub[p].st = "appended" /\ pub[p].msg.key = k /\ pub[p].msg.off = o
      BY <2>2
    <3>2. pub[p].msg \in Msgs
      BY <3>1 DEF BInv, PublishersOK
    <3>3. pub[p].msg = MsgAt(k, o)
      BY <3>1, <3>2 DEF Msgs, MsgAt
    <3>4. StillToCome(c, o)'
      BY <1>1, <1>2, <3>1, <3>3 DEF StillToCome, MsgAt
    <3> QED BY <3>4
  <2>3. CASE o \notin pending
    <3>1. gap'[c] = (h[s].end .. (Len(logs[k]) - 1)) \ pending
      BY <1>1, <1>2, <1>3
    <3> QED BY <2>1, <2>3, <3>1
  <2> QED BY <2>2, <2>3
<1> QED BY <1>5, <1>6

LEMMA AccountPreserved ==
  ASSUME BInv, NothingAhead, ForwardersOK, HistorySent, DeliveryAccounted, [Next]_vars
  PROVE  DeliveryAccounted'
<1> SUFFICES ASSUME NEW k \in Keys, NEW c \in subs'[k], ~ctxDone'[c[1]],
                    NEW o \in from'[c] .. (Len(logs'[k]) - 1)
             PROVE  \/ Reaches(c, o)' \/ StillToCome(c, o)'
                    \/ o \in gap'[c] \cup dropped'[c] \cup unannounced'[k]
  BY DEF DeliveryAccounted
<1>1. c \in Chans /\ c[2] = k /\ c[1] \in Members /\ c = <<c[1], k>>
  BY RegistryPreserved DEF RegisteredIsOpen, Chans
<1>2. ~ctxDone[c[1]]
  BY <1>1, DoneStays
<1>3. CASE Register(c[1]) /\ k = KeyOf(c[1])
  <2>1. c = ChanOf(c[1])
    BY <1>1, <1>3 DEF ChanOf
  <2> DEFINE s == c[1]
  <2> HIDE DEF s
  <2>2. s \in Members /\ Register(s) /\ k = KeyOf(s) /\ c = ChanOf(s)
    BY <1>1, <1>3, <2>1 DEF s
  <2> QED BY <1>1, <2>2, RegistersAccounted
<1>4. CASE ~(Register(c[1]) /\ k = KeyOf(c[1]))
  <2>1. c \in subs[k]
    BY <1>1, <1>4, OwnRegistration
  <2>2. chan[c] = "open"
    BY <2>1 DEF BInv, RegisteredIsOpen
  <2>3. from'[c] = from[c]
    <3>1. ASSUME ReadHistory(c[1]), c = ChanOf(c[1])
          PROVE  FALSE
      <4> DEFINE s == c[1]
      <4> HIDE DEF s
      <4>1. s \in Members /\ h[s].pc = "read" /\ c = ChanOf(s)
        BY <1>1, <3>1 DEF ReadHistory, s
      <4>2. ChanOf(s) \in Ahead(s)
        BY <4>1 DEF Ahead, ChanOf, KeyOf
      <4> QED BY <2>2, <4>1, <4>2 DEF NothingAhead
    <3> QED BY <1>1, <3>1, FromMoves
  <2>4. /\ dropped[c] \subseteq dropped'[c] /\ unannounced[k] \subseteq unannounced'[k]
        /\ gap'[c] = gap[c]
    BY <1>1, <1>4, LostStaysLost DEF ChanOf
  <2>5. ASSUME o \in from[c] .. (Len(logs[k]) - 1)
        PROVE  \/ Reaches(c, o)' \/ StillToCome(c, o)'
               \/ o \in gap'[c] \cup dropped'[c] \cup unannounced'[k]
    <3>1. \/ Reaches(c, o) \/ StillToCome(c, o)
          \/ o \in gap[c] \cup dropped[c] \cup unannounced[k]
      BY <1>2, <2>1, <2>5 DEF DeliveryAccounted
    <3>2. ASSUME MsgAt(c[2], o) \in Carried(c)'
          PROVE  Reaches(c, o)'
      BY <3>2 DEF Reaches, Carried, MsgAt
    <3>3. CASE Reaches(c, o)
      <4>1. MsgAt(c[2], o) \in Carried(c)
        BY <3>3 DEF Reaches, Carried
      <4> QED BY <1>1, <1>2, <3>2, <4>1, CarriedGrows
    <3>4. CASE StillToCome(c, o)
      <4>1. StillToCome(c, o)' \/ MsgAt(c[2], o) \in ToSet(buf'[c]) \/ o \in dropped'[c]
        BY <1>1, <2>1, <3>4, ComesOrDrops
      <4> QED BY <3>2, <4>1 DEF Carried
    <3> QED BY <2>4, <3>1, <3>3, <3>4
  <2>6. CASE logs'[k] = logs[k]
    BY <2>3, <2>5, <2>6
  <2>7. ASSUME NEW n \in Nat, Len(logs[k]) = n, Len(logs'[k]) = n + 1,
               StillToCome(c, n)' \/ n \in unannounced'[k]
        PROVE  \/ Reaches(c, o)' \/ StillToCome(c, o)'
               \/ o \in gap'[c] \cup dropped'[c] \cup unannounced'[k]
    <3>1. from[c] \in Nat
      BY <1>1 DEF BInv, DataTyped
    <3>2. o \in from[c] .. (n - 1) \/ o = n
      BY <2>3, <2>7, <3>1
    <3> QED BY <2>5, <2>7, <3>2
  <2> QED BY <1>1, <2>6, <2>7, LogGrows
<1> QED BY <1>3, <1>4
-----------------------------------------------------------------------------
(* Commits. *)

\* The only step that changes a commit acks a message of the member's own stream.
LEMMA CommitSteps ==
  ASSUME BInv, [Next]_vars, NEW g \in Groups, NEW k \in Keys
  PROVE  \/ commits'[g][k] = commits[g][k]
         \/ \E s \in Members : /\ GroupOf(s) = g
                               /\ MsgAt(k, commits'[g][k]) \in ToSet(stream[s])
<1>1. commits \in [Groups -> [Keys -> Int]] /\ stream \in [Members -> Seq(Msgs)]
  BY DEF BInv, DataTyped
<1>2. ASSUME NEW s \in Members, Ack(s)
      PROVE  \/ commits'[g][k] = commits[g][k]
             \/ GroupOf(s) = g /\ MsgAt(k, commits'[g][k]) \in ToSet(stream[s])
  <2> DEFINE m == stream[s][acked[s] + 1]
  <2>1. acked[s] \in Nat /\ acked[s] < Len(stream[s])
    BY <1>2 DEF Ack, BInv, DataTyped
  <2>2. acked[s] + 1 \in DOMAIN stream[s]
    BY <1>1, <2>1
  <2>3. m \in Msgs /\ m \in ToSet(stream[s])
    BY <1>1, <2>2 DEF ToSet
  <2>4. commits' = [commits EXCEPT ![GroupOf(s)][m.key] = m.off]
    BY <1>2 DEF Ack, AckedOffset
  <2> HIDE DEF m
  <2>5. CASE GroupOf(s) = g /\ m.key = k
    <3>1. commits'[g][k] = m.off
      BY <1>1, <2>4, <2>5
    <3>2. m = MsgAt(k, m.off)
      BY <2>3, <2>5 DEF Msgs, MsgAt
    <3> QED BY <2>3, <2>5, <3>1, <3>2
  <2>6. CASE ~(GroupOf(s) = g /\ m.key = k)
    BY <1>1, <2>4, <2>6
  <2> QED BY <2>5, <2>6
<1>3. ASSUME NEW p \in Publishers, NEW j \in Keys, PublishAppend(p, j) \/ PublishAppendFails(p, j)
      PROVE  commits' = commits
  BY <1>3 DEF PublishAppend, PublishAppendFails
<1>4. ASSUME NEW p \in Publishers, NEW c \in Chans, PublishSend(p, c)
      PROVE  commits' = commits
  BY <1>4 DEF PublishSend
<1>5. ASSUME NEW s \in Members,
             \/ ReadHistory(s) \/ SendHistory(s) \/ Register(s) \/ LoopSolo(s)
             \/ LoopGroup(s) \/ AckFails(s) \/ Cancel(s)
      PROVE  commits' = commits
  BY <1>5 DEF ReadHistory, SendHistory, Register, LoopSolo, LoopGroup, AckFails, Cancel
<1>6. ASSUME NEW c \in Chans, ForwardTake(c) \/ ForwardPut(c) \/ ForwardAbandon(c)
      PROVE  commits' = commits
  BY <1>6 DEF ForwardTake, ForwardPut, ForwardAbandon
<1> QED BY <1>2, <1>3, <1>4, <1>5, <1>6, DataSteps DEF dataVars

\* What a member of a group has received stays received by a member of the group.
LEMMA ReceivedStays ==
  ASSUME BInv, [Next]_vars, NEW g \in Groups, NEW s \in Members, GroupOf(s) = g
  PROVE  GroupOf(s)' = g /\ ToSet(stream[s]) \subseteq ToSet(stream'[s])
<1>1. h[s].pc # "idle"
  BY BrokerAssumption DEF BInv, HandlersOK, BrokerAssumption
<1>2. h'[s].req = h[s].req
  BY <1>1, StartedStays
<1> QED BY <1>2, StreamGrows DEF GroupOf

LEMMA CommitsPreserved ==
  ASSUME BInv, CommitsWereReceived, [Next]_vars
  PROVE  CommitsWereReceived'
<1> SUFFICES ASSUME NEW g \in Groups, NEW k \in Keys, commits'[g][k] >= 0
             PROVE  \E s \in Members : /\ GroupOf(s)' = g
                                       /\ MsgAt(k, commits'[g][k]) \in ToSet(stream'[s])
  BY DEF CommitsWereReceived, MsgAt
<1>1. \E s \in Members : GroupOf(s) = g /\ MsgAt(k, commits'[g][k]) \in ToSet(stream[s])
  BY CommitSteps DEF CommitsWereReceived
<1> QED BY <1>1, ReceivedStays
-----------------------------------------------------------------------------
LEMMA DInitially == Init => DInv
<1> SUFFICES ASSUME Init PROVE DInv
  OBVIOUS
<1>1. NothingAhead /\ IdleIsBlank /\ SoloRegistersOnce /\ ForwardersOK
  BY DEF Init, NothingAhead, IdleIsBlank, SoloRegistersOnce, ForwardersOK, ChansOf, Chans
<1>2. CleanedUp /\ MembersAreServed /\ HistorySent
  BY DEF Init, GMInit, CleanedUp, MembersAreServed, HistorySent
<1>3. DeliveryAccounted /\ CommitsWereReceived
  BY DEF Init, DeliveryAccounted, CommitsWereReceived
<1> QED BY <1>1, <1>2, <1>3 DEF DInv

LEMMA DPreserved ==
  ASSUME BInv, DInv, [Next]_vars
  PROVE  DInv'
BY AheadPreserved, BlankPreserved, SoloPreserved, ForwardersPreserved, CleanedUpPreserved,
   ServedPreserved, HistoryPreserved, AccountPreserved, CommitsPreserved DEF DInv

\* The inductive invariant about deliveries holds in every reachable state of the broker.
THEOREM DInvariance == Spec => []DInv
<1>1. BInv /\ DInv /\ [Next]_vars => DInv'
  BY DPreserved
<1> QED BY BInvariance, DInitially, <1>1, PTL DEF Spec

\* A subscription whose cleanup has run is in no list of b.subs and in no group, and no
\* forwarder of it is left, however its steps interleave with publishers and members.
THEOREM ExitsAreClean == Spec => []CleanExit
<1>1. BInv /\ DInv => CleanExit
  <2> SUFFICES ASSUME BInv, DInv, NEW s \in Members, h[s].pc = "returned", h[s].ret = "nil"
               PROVE  /\ \A k \in Keys : <<s, k>> \notin subs[k]
                      /\ \A c \in ChansOf(s) : fwd[c] \in {"none", "done"}
                      /\ \A g \in Groups, t \in Topics : s \notin groups[g][t]
    BY DEF CleanExit
  <2>1. \A k \in Keys : <<s, k>> \notin subs[k]
    BY DEF DInv, CleanedUp
  <2>2. \A c \in ChansOf(s) : fwd[c] \in {"none", "done"}
    BY DEF DInv, CleanedUp, ForwardersDone
  <2>3. \A g \in Groups, t \in Topics : s \notin groups[g][t]
    BY DEF DInv, MembersAreServed
  <2> QED BY <2>1, <2>2, <2>3
<1> QED BY <1>1, BInvariance, DInvariance, PTL

\* Conservation of messages from the log to the client: nothing a connected and
\* registered subscription asked for is lost but for the three reasons that
\* DeliveryAccounted names.
THEOREM DeliveriesAreAccounted == Spec => []DeliveryAccounted
<1>1. DInv => DeliveryAccounted
  BY DEF DInv
<1> QED BY <1>1, DInvariance, PTL

\* A commit is the offset of a message that a member of the group has received.
THEOREM CommitsAreOfReceived == Spec => []CommitsWereReceived
<1>1. DInv => CommitsWereReceived
  BY DEF DInv
<1> QED BY <1>1, DInvariance, PTL
-----------------------------------------------------------------------------
(* What can be said of CancelReturns without fairness: whatever a cancelled  *)
(* group subscription waits for at forwardWg.Wait can move, and has only so  *)
(* many moves left as there are messages in its buffers.                     *)

\* Behind its cleanup no channel of a subscription is open, and its context is done.
WaitsClosed ==
  \A s \in Members : h[s].pc = "wait" =>
    ctxDone[s] /\ \A c \in ChansOf(s) : chan[c] # "open"

\* A forwarder that the handler waits for takes a message, gives up the one it holds, or
\* ends: neither an empty buffer nor a full central channel holds it.
ForwardersCanMove ==
  \A s \in Members : h[s].pc = "wait" =>
    \A c \in ChansOf(s) :
      \/ fwd[c] \in {"none", "done"}
      \/ fwd[c] = "holding" /\ ctxDone[s]
      \/ fwd[c] = "idle" /\ (buf[c] # <<>> \/ chan[c] = "closed")

\* Nothing is put into a buffer that the handler waits to see drained, and no forwarder
\* of it starts or starts again.
BuffersDrain ==
  [][\A s \in Members : h[s].pc = "wait" =>
       \A c \in ChansOf(s) :
         /\ buf'[c] = buf[c] \/ (buf[c] # <<>> /\ buf'[c] = Tail(buf[c]))
         /\ fwd[c] \in {"none", "done"} => fwd'[c] = fwd[c]]_vars

\* Only its own Register opens a channel.
LEMMA ChannelOpens ==
  ASSUME BInv, [Next]_vars, NEW c \in Chans, chan'[c] = "open"
  PROVE  chan[c] = "open" \/ Register(c[1])
<1>1. chan \in [Chans -> {"none", "open", "closed"}]
  BY DEF BInv, ControlTyped
<1>2. CASE UNCHANGED <<subs, chan>>
  BY <1>2
<1>3. ASSUME NEW s \in Members, Register(s)
      PROVE  chan[c] = "open" \/ Register(c[1])
  <2>1. chan' = [chan EXCEPT ![ChanOf(s)] = "open"] /\ ChanOf(s)[1] = s
    BY <1>3 DEF Register, ChanOf
  <2>2. c # ChanOf(s) => chan[c] = "open"
    BY <1>1, <2>1
  <2> QED BY <1>3, <2>1, <2>2
<1>4. ASSUME NEW s \in Members, UnregisterSolo(s) \/ CloseSolo(s) \/ CleanupGroup(s)
      PROVE  chan[c] = "open"
  BY <1>1, <1>4 DEF UnregisterSolo, CloseSolo, CleanupGroup, chanVars
<1> QED BY <1>2, <1>3, <1>4, ChannelSteps

LEMMA WaitsPreserved ==
  ASSUME BInv, WaitsClosed, [Next]_vars
  PROVE  WaitsClosed'
<1> SUFFICES ASSUME NEW q \in Members, h'[q].pc = "wait"
             PROVE  ctxDone'[q] /\ \A c \in ChansOf(q) : chan'[c] # "open"
  BY DEF WaitsClosed, ChansOf
<1>1. CASE h[q].pc = "wait"
  <2>1. ctxDone'[q]
    BY <1>1, DoneStays DEF WaitsClosed
  <2>2. ASSUME NEW c \in ChansOf(q)
        PROVE  chan'[c] # "open"
    <3>1. c \in Chans /\ c[1] = q /\ chan[c] # "open"
      BY <1>1 DEF ChansOf, WaitsClosed
    <3>2. ~Register(q)
      BY <1>1 DEF Register
    <3> QED BY <3>1, <3>2, ChannelOpens
  <2> QED BY <2>1, <2>2
<1>2. CASE CleanupGroup(q)
  <2>1. ctxDone'[q]
    BY <1>2 DEF CleanupGroup
  <2>2. ASSUME NEW c \in ChansOf(q)
        PROVE  chan'[c] # "open"
    <3>1. c \in Chans
      BY DEF ChansOf
    <3>2. chan'[c] = IF c \in Regs(q) THEN "closed" ELSE chan[c]
      BY <1>2, <3>1 DEF CleanupGroup
    <3> QED BY <3>2 DEF Regs
  <2> QED BY <2>1, <2>2
<1>3. ASSUME h[q].pc # "wait", ~CleanupGroup(q)
      PROVE  FALSE
  <2>1. ASSUME NEW r \in Requests, SubscribeSolo(q, r) \/ SubscribeGroup(q, r)
        PROVE  FALSE
    BY <2>1, SoloMoves, GroupMoves
  <2>2. CASE \/ NextPartition(q) \/ ReadHistory(q) \/ SendHistory(q) \/ SendHistoryFails(q)
             \/ ReadFails(q) \/ Register(q)
    BY <2>2, NextPartitionMoves, ReadHistoryMoves, SendHistoryMoves, EarlyMoves, RegisterMoves
       DEF Moves
  <2>3. CASE \/ EnterLoop(q) \/ UnregisterSolo(q) \/ CloseSolo(q) \/ WaitForwarders(q)
             \/ LeaveGroup(q)
    BY <2>3, LateMoves DEF Moves
  <2> QED BY <1>3, <2>1, <2>2, <2>3, HandlerMoves DEF Turns
<1> QED BY <1>1, <1>2, <1>3

THEOREM WaitsAreClosed == Spec => []WaitsClosed
<1>1. Init => WaitsClosed
  BY DEF Init, WaitsClosed
<1>2. BInv /\ WaitsClosed /\ [Next]_vars => WaitsClosed'
  BY WaitsPreserved
<1> QED BY BInvariance, <1>1, <1>2, PTL DEF Spec

\* A subscription whose client is gone and whose channels are closed waits for no
\* forwarder that is stuck, whatever else goes on.
THEOREM ForwardersAreNeverStuck == Spec => []ForwardersCanMove
<1>1. BInv /\ DInv /\ WaitsClosed => ForwardersCanMove
  <2> SUFFICES ASSUME BInv, DInv, WaitsClosed, NEW s \in Members, h[s].pc = "wait",
                      NEW c \in ChansOf(s), fwd[c] \notin {"none", "done"}
               PROVE  \/ fwd[c] = "holding" /\ ctxDone[s]
                      \/ fwd[c] = "idle" /\ (buf[c] # <<>> \/ chan[c] = "closed")
    BY DEF ForwardersCanMove
  <2>1. c \in Chans /\ ctxDone[s] /\ chan[c] # "open"
    BY DEF ChansOf, WaitsClosed
  <2>2. fwd[c] \in {"idle", "holding"} /\ chan[c] \in {"none", "open", "closed"}
    BY <2>1 DEF BInv, ControlTyped
  <2>3. chan[c] # "none"
    BY <2>1 DEF DInv, ForwardersOK
  <2> QED BY <2>1, <2>2, <2>3
<1> QED BY <1>1, BInvariance, DInvariance, WaitsAreClosed, PTL

\* What a step does to the buffer of a channel.
LEMMA BufferMoves ==
  ASSUME BInv, [Next]_vars, NEW c \in Chans
  PROVE  \/ buf'[c] = buf[c]
         \/ buf[c] # <<>> /\ buf'[c] = Tail(buf[c])
         \/ \E p \in Publishers : c \in pub[p].todo
<1> DEFINE Goal == \/ buf'[c] = buf[c]
                   \/ buf[c] # <<>> /\ buf'[c] = Tail(buf[c])
                   \/ \E p \in Publishers : c \in pub[p].todo
<1>1. buf \in [Chans -> Seq(Msgs)]
  BY DEF BInv, DataTyped
<1>2. ASSUME NEW p \in Publishers, NEW d \in Chans, PublishSend(p, d)
      PROVE  Goal
  <2>1. d \in pub[p].todo /\ (buf' = buf \/ buf' = [buf EXCEPT ![d] = Append(@, pub[p].msg)])
    BY <1>2 DEF PublishSend
  <2> QED BY <1>1, <2>1
<1>3. ASSUME NEW d \in Chans, buf[d] # <<>>, buf' = [buf EXCEPT ![d] = Tail(@)]
      PROVE  Goal
  BY <1>1, <1>3
<1>4. ASSUME NEW s \in Members, LoopSolo(s)
      PROVE  Goal
  <2>1. ChanOf(s) \in Chans
    BY <1>4, HandlerFacts DEF LoopSolo
  <2> QED BY <1>3, <1>4, <2>1 DEF LoopSolo
<1>5. ASSUME NEW d \in Chans, ForwardTake(d)
      PROVE  Goal
  BY <1>3, <1>5 DEF ForwardTake
<1>6. ASSUME buf' = buf
      PROVE  Goal
  BY <1>6
<1>7. ASSUME NEW p \in Publishers, NEW k \in Keys, PublishAppend(p, k) \/ PublishAppendFails(p, k)
      PROVE  buf' = buf
  BY <1>7 DEF PublishAppend, PublishAppendFails, chanVars
<1>8. ASSUME NEW s \in Members,
             \/ ReadHistory(s) \/ SendHistory(s) \/ Register(s)
             \/ LoopGroup(s) \/ Ack(s) \/ AckFails(s) \/ Cancel(s)
      PROVE  buf' = buf
  BY <1>8 DEF ReadHistory, SendHistory, Register, LoopGroup, Ack, AckFails, Cancel, chanVars
<1>9. ASSUME NEW d \in Chans, ForwardPut(d) \/ ForwardAbandon(d)
      PROVE  buf' = buf
  BY <1>9 DEF ForwardPut, ForwardAbandon
<1> HIDE DEF Goal
<1>10. Goal
  BY <1>2, <1>4, <1>5, <1>6, <1>7, <1>8, <1>9, DataSteps DEF dataVars
<1> QED BY <1>10 DEF Goal

\* Behind the cleanup a buffer only gets shorter and a forwarder that has ended stays so:
\* a wait ends after at most as many takes as there were messages. No publisher still
\* has the channel on its round, since that holds the lock the cleanup waits for.
THEOREM DrainsOnly == Spec => BuffersDrain
<1> DEFINE Drain ==
      \A s \in Members : h[s].pc = "wait" =>
        \A c \in ChansOf(s) :
          /\ buf'[c] = buf[c] \/ (buf[c] # <<>> /\ buf'[c] = Tail(buf[c]))
          /\ fwd[c] \in {"none", "done"} => fwd'[c] = fwd[c]
<1>1. BInv /\ DInv /\ [Next]_vars => Drain
  <2> SUFFICES ASSUME BInv, DInv, [Next]_vars, NEW s \in Members, h[s].pc = "wait",
                      NEW c \in ChansOf(s)
               PROVE  /\ buf'[c] = buf[c] \/ (buf[c] # <<>> /\ buf'[c] = Tail(buf[c]))
                      /\ fwd[c] \in {"none", "done"} => fwd'[c] = fwd[c]
    OBVIOUS
  <2>1. c \in Chans /\ c[1] = s /\ c = <<s, c[2]>> /\ c[2] \in Keys
    BY DEF ChansOf, Chans
  <2>2. ASSUME NEW p \in Publishers, c \in pub[p].todo
        PROVE  FALSE
    <3>1. c \in subs[pub[p].msg.key] /\ pub[p].msg \in Msgs
      BY <2>2 DEF BInv, PublishersOK
    <3>2. pub[p].msg.key \in Keys
      BY <3>1 DEF Msgs
    <3>3. pub[p].msg.key = c[2]
      BY <3>1, <3>2 DEF BInv, RegisteredIsOpen
    <3> QED BY <2>1, <3>1, <3>3 DEF DInv, CleanedUp
  <2>3. buf'[c] = buf[c] \/ (buf[c] # <<>> /\ buf'[c] = Tail(buf[c]))
    BY <2>1, <2>2, BufferMoves
  <2>4. ~Register(s)
    BY DEF Register
  <2>5. fwd[c] \in {"none", "done"} => fwd'[c] = fwd[c]
    BY <2>1, <2>4, ForwarderMoves
  <2> QED BY <2>3, <2>5
<1> QED BY <1>1, BInvariance, DInvariance, PTL DEF Spec, BuffersDrain
=============================================================================

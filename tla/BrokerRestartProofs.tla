------------------------ MODULE BrokerRestartProofs ------------------------
(***************************************************************************)
(* The theorems about Broker hold across stops of the process as well, for *)
(* any number of them: a stop, at any point of any call, leads to a state  *)
(* of the inductive invariants.  What a resume can skip (SkipsAccounted),  *)
(* and the order in which a client receives the messages of one publisher, *)
(* with and without stops (PublisherOrder, DuplicatesOnlyAtHandover).      *)
(***************************************************************************)
EXTENDS BrokerRestart, BrokerDeliveryProofs

\* A stop leaves the tables empty, the started handlers returned, and what is
\* stored and received as it was.
LEMMA CrashKeepsBInv ==
  ASSUME BInv, Crash
  PROVE  BInv'
<1>1. GMInv'
  BY FS_EmptySet DEF Crash, BInv, GMInv, GMTypeOK, FiniteGroups, TableIsCurrent, EmptyGroupForgotten
<1>2. DataTyped'
  <2>1. \A k \in Keys : Unfinished(k) \subseteq Nat
    <3> SUFFICES ASSUME NEW k \in Keys,
                        NEW p \in Publishers, pub[p].st = "appended" \/ pub[p].todo # {}
                 PROVE  pub[p].msg.off \in Nat
      BY DEF Unfinished
    <3>1. pub[p].st # "idle"
      BY DEF BInv, PublishersOK
    <3>2. pub[p].msg \in Msgs
      BY <3>1 DEF BInv, PublishersOK
    <3> QED BY <3>2 DEF Msgs
  <2>2. unannounced' \in [Keys -> SUBSET Nat]
    BY <2>1 DEF Crash, BInv, DataTyped
  <2> QED BY <2>2 DEF Crash, BInv, DataTyped
<1>3. h' \in [Members -> HandlerType]
  <2> SUFFICES ASSUME NEW s \in Members
               PROVE  h'[s] \in HandlerType
    BY DEF Crash
  <2>1. h[s] \in HandlerType
    BY DEF BInv, ControlTyped
  <2>2. h'[s] \in {h[s], [h[s] EXCEPT !.pc = "returned"]}
    BY DEF Crash
  <2> QED BY <2>1, <2>2 DEF HandlerType, PCs
<1>4. ControlTyped'
  BY <1>3 DEF Crash, ControlTyped, Idle, PublisherType
<1>5. \A s \in Members : /\ h'[s].pc = "idle" => h'[s] = h[s]
                         /\ h'[s].pc # "idle" => h[s].pc # "idle" /\ h'[s].pc = "returned"
                         /\ h'[s].req = h[s].req /\ h'[s].todo = h[s].todo /\ h'[s].cur = h[s].cur
  <2> SUFFICES ASSUME NEW s \in Members
               PROVE  /\ h'[s].pc = "idle" => h'[s] = h[s]
                      /\ h'[s].pc # "idle" => h[s].pc # "idle" /\ h'[s].pc = "returned"
                      /\ h'[s].req = h[s].req /\ h'[s].todo = h[s].todo /\ h'[s].cur = h[s].cur
    OBVIOUS
  <2>1. h[s] \in HandlerType
    BY DEF BInv, ControlTyped
  <2>2. h'[s] = IF h[s].pc = "idle" THEN h[s] ELSE [h[s] EXCEPT !.pc = "returned"]
    BY DEF Crash
  <2> QED BY <2>1, <2>2 DEF HandlerType
<1>6. HandlersOK'
  BY <1>5 DEF BInv, HandlersOK, GroupOf, PartitionsOf
<1>7. PublishersOK'
  BY DEF Crash, PublishersOK, Idle
<1>8. RegisteredIsOpen' /\ ClosingIsUnregistered' /\ CentralOutlivesForwarders'
  BY DEF Crash, RegisteredIsOpen, ClosingIsUnregistered, CentralOutlivesForwarders
<1> QED BY <1>1, <1>2, <1>4, <1>6, <1>7, <1>8 DEF BInv

\* What a stop does to a handler.
LEMMA CrashedHandlers ==
  ASSUME BInv, Crash, NEW s \in Members
  PROVE  /\ h'[s].pc \in {"idle", "returned"} /\ h'[s].req = h[s].req /\ h'[s].ret = h[s].ret
         /\ h'[s].pc = "idle" => h'[s] = h[s]
<1>1. h[s] \in HandlerType
  BY DEF BInv, ControlTyped
<1>2. h'[s] = IF h[s].pc = "idle" THEN h[s] ELSE [h[s] EXCEPT !.pc = "returned"]
  BY DEF Crash
<1> QED BY <1>1, <1>2 DEF HandlerType

LEMMA CrashKeepsDInv ==
  ASSUME BInv, DInv, Crash
  PROVE  DInv'
<1>1. NothingAhead'
  BY CrashedHandlers DEF Crash, NothingAhead, ChansOf
<1>2. IdleIsBlank'
  BY CrashedHandlers DEF Crash, DInv, IdleIsBlank
<1>3. SoloRegistersOnce' /\ ForwardersOK'
  BY DEF Crash, SoloRegistersOnce, ForwardersOK
<1>4. CleanedUp'
  <2> SUFFICES ASSUME NEW s \in Members
               PROVE  /\ h'[s].pc # "close"
                      /\ \A k \in Keys : <<s, k>> \notin subs'[k]
                      /\ h'[s].ret = "nil" => h'[s].pc \in {"leave", "returned"} /\ ForwardersDone(s)'
    BY DEF CleanedUp
  <2>1. ForwardersDone(s)'
    BY DEF Crash, ForwardersDone, ChansOf
  <2>2. h'[s].ret = "nil" => h'[s].pc = "returned"
    BY CrashedHandlers DEF DInv, CleanedUp
  <2> QED BY <2>1, <2>2, CrashedHandlers DEF Crash
<1>5. MembersAreServed'
  BY DEF Crash, MembersAreServed
<1>6. HistorySent'
  BY CrashedHandlers DEF HistorySent
<1>7. DeliveryAccounted'
  BY DEF Crash, DeliveryAccounted
<1>8. CommitsWereReceived'
  BY CrashedHandlers DEF Crash, DInv, CommitsWereReceived, GroupOf, MsgAt
<1> QED BY <1>1, <1>2, <1>3, <1>4, <1>5, <1>6, <1>7, <1>8 DEF DInv
-----------------------------------------------------------------------------
\* The inductive invariants hold in every reachable state, whenever the process stops.
THEOREM RestartInvariance == RestartSpec => [](BInv /\ DInv)
<1>1. RestartInit => BInv /\ DInv
  BY BInitially, DInitially DEF RestartInit
<1>2. BInv /\ DInv /\ [RestartNext]_restartVars => (BInv /\ DInv)'
  <2> SUFFICES ASSUME BInv, DInv, [RestartNext]_restartVars
               PROVE  BInv' /\ DInv'
    OBVIOUS
  <2>1. CASE Crash
    BY <2>1, CrashKeepsBInv, CrashKeepsDInv
  <2>2. CASE ~Crash
    <3>1. [Next]_vars
      BY <2>2 DEF RestartNext, restartVars
    <3> QED BY <3>1, BPreserved, DPreserved
  <2> QED BY <2>1, <2>2
<1> QED BY <1>1, <1>2, PTL DEF RestartSpec

\* A commit is the offset of a message some member of the group has received, also
\* when the process has stopped any number of times in between: a resume from the
\* store never starts past what a client was given.
THEOREM CommitsSurviveRestarts == RestartSpec => []CommitsWereReceived
<1>1. DInv => CommitsWereReceived
  BY DEF DInv
<1> QED BY <1>1, RestartInvariance, PTL
-----------------------------------------------------------------------------
(* What a running group stream serves. *)

Active == {"next", "read", "send", "loop"}

\* The partitions a subscription is registered for, and those it is about to be.
ServedKeys(s) == {j \in Keys : <<s, j>> \in subs[j]}
AheadKeys(s) ==
  {<<h[s].req.topic, p>> :
     p \in h[s].todo \cup (IF h[s].pc \in {"read", "send"} THEN {h[s].cur} ELSE {})}

\* The partitions the group's members of now give to s.
OwnKeys(s) ==
  {<<h[s].req.topic, p>> :
     p \in ShareOf(groups[GroupOf(s)][h[s].req.topic], h[s].req.topic, s)}

\* While nobody has joined or left since its Join, a handler serves or is about to
\* serve its share.
FreshServes ==
  /\ fresh \subseteq Members
  /\ \A s \in fresh :
       /\ GroupOf(s) \in Groups
       /\ h[s].pc \in Active => /\ s \in groups[GroupOf(s)][h[s].req.topic]
                               /\ ServedKeys(s) \cup AheadKeys(s) = OwnKeys(s)
       /\ h[s].pc = "loop" => h[s].todo = {}

LEMMA RegistrationStays ==
  ASSUME BInv, [Next]_vars, NEW q \in Members, h[q].pc \in Active, h'[q].pc \in Active
  PROVE  /\ \A k \in Keys : <<q, k>> \in subs[k] => <<q, k>> \in subs'[k]
         /\ Register(q) => <<q, KeyOf(q)>> \in subs'[KeyOf(q)]
<1>1. subs \in [Keys -> SUBSET Chans]
  BY DEF BInv, ControlTyped
<1>2. ASSUME NEW s \in Members, Register(s), NEW k \in Keys, <<q, k>> \in subs[k]
      PROVE  <<q, k>> \in subs'[k]
  BY <1>1, <1>2 DEF Register
<1>3. ASSUME NEW s \in Members, CleanupGroup(s) \/ UnregisterSolo(s) \/ CloseSolo(s),
             NEW k \in Keys, <<q, k>> \in subs[k]
      PROVE  <<q, k>> \in subs'[k]
  <2>1. s # q
    BY <1>3, LateMoves DEF Moves, Active
  <2>2. <<q, k>> # ChanOf(s) /\ <<q, k>> \notin Regs(s)
    BY <2>1 DEF ChanOf, Regs, ChansOf
  <2>3. CASE CleanupGroup(s)
    BY <1>1, <1>3, <2>2, <2>3 DEF CleanupGroup
  <2>4. CASE UnregisterSolo(s)
    BY <1>1, <1>3, <2>2, <2>4 DEF UnregisterSolo
  <2>5. CASE CloseSolo(s)
    BY <1>3, <2>5 DEF CloseSolo
  <2> QED BY <1>3, <2>3, <2>4, <2>5
<1>4. ASSUME NEW k \in Keys, <<q, k>> \in subs[k]
      PROVE  <<q, k>> \in subs'[k]
  BY <1>2, <1>3, <1>4, ChannelSteps
<1>5. ASSUME Register(q)
      PROVE  <<q, KeyOf(q)>> \in subs'[KeyOf(q)]
  <2>1. KeyOf(q) \in Keys
    BY <1>5, HandlerFacts DEF Register
  <2> QED BY <1>1, <1>5, <2>1 DEF Register, ChanOf
<1> QED BY <1>4, <1>5

\* A handler of a group works its assignment off: what it has registered and what is
\* ahead of it stay the same together.
LEMMA WorksOff ==
  ASSUME BInv, [Next]_vars, NEW q \in Members, GroupOf(q) \in Groups,
         h[q].pc = "loop" => h[q].todo = {}, h'[q].pc \in Active, h[q].pc # "idle"
  PROVE  /\ h[q].pc \in Active
         /\ ServedKeys(q)' \cup AheadKeys(q)' = ServedKeys(q) \cup AheadKeys(q)
         /\ h'[q].pc = "loop" => h'[q].todo = {}
<1> DEFINE t == h[q].req.topic
           S == {j \in Keys : <<q, j>> \in subs[j]}
           T == {j \in Keys : <<q, j>> \in subs'[j]}
<1>1. GroupOf(q) # NoGroup
  BY BrokerAssumption DEF BrokerAssumption
<1>2. h'[q].req.topic = t
  BY StartedStays
<1>3. \/ h'[q] = h[q]
      \/ NextPartition(q) \/ ReadHistory(q) \/ SendHistory(q) \/ Register(q) \/ EnterLoop(q)
  BY HandlerMoves, SoloMoves, GroupMoves, EarlyMoves, LateMoves DEF Turns, Moves, Active
<1>4. h[q].pc \in Active
  BY <1>3 DEF NextPartition, ReadHistory, SendHistory, Register, EnterLoop, Active
<1>5. T \subseteq S \cup (IF Register(q) THEN {KeyOf(q)} ELSE {})
  BY OwnRegistration
<1>6. S \subseteq T /\ (Register(q) => KeyOf(q) \in Keys /\ KeyOf(q) \in T)
  BY <1>4, RegistrationStays, HandlerFacts DEF Register
<1>7. CASE Register(q)
  <2>1. /\ h[q].pc = "send" /\ h'[q].pc = "next"
        /\ h'[q].todo = h[q].todo /\ h'[q].cur = h[q].cur
    BY <1>1, <1>7, RegisterMoves DEF Moves, Keeps
  <2>2. T = S \cup {<<t, h[q].cur>>}
    BY <1>5, <1>6, <1>7 DEF KeyOf
  <2>3. AheadKeys(q) = AheadKeys(q)' \cup {<<t, h[q].cur>>}
    BY <1>2, <2>1 DEF AheadKeys
  <2> QED BY <1>4, <2>1, <2>2, <2>3 DEF ServedKeys
<1>8. ASSUME ~Register(q), h'[q].pc = "loop" => h'[q].todo = {}, AheadKeys(q)' = AheadKeys(q)
      PROVE  /\ ServedKeys(q)' \cup AheadKeys(q)' = ServedKeys(q) \cup AheadKeys(q)
             /\ h'[q].pc = "loop" => h'[q].todo = {}
  <2>1. S = T
    BY <1>5, <1>6, <1>8
  <2> QED BY <1>8, <2>1 DEF ServedKeys
<1>9. CASE ~Register(q)
  <2>1. CASE h'[q] = h[q]
    <3>1. AheadKeys(q)' = AheadKeys(q)
      BY <2>1 DEF AheadKeys
    <3> QED BY <1>4, <1>8, <1>9, <2>1, <3>1
  <2>2. CASE NextPartition(q)
    <3>1. /\ h[q].pc = "next" /\ h'[q].pc = "read"
          /\ h'[q].cur \in h[q].todo /\ h'[q].todo = h[q].todo \ {h'[q].cur}
      BY <2>2, NextPartitionMoves DEF Moves
    <3>2. h'[q].todo \cup {h'[q].cur} = h[q].todo
      BY <3>1
    <3>3. AheadKeys(q)' = AheadKeys(q)
      BY <1>2, <3>1, <3>2 DEF AheadKeys
    <3> QED BY <1>4, <1>8, <1>9, <3>1, <3>3
  <2>3. CASE ReadHistory(q) \/ SendHistory(q)
    <3>1. /\ h[q].pc \in {"read", "send"} /\ h'[q].pc = "send"
          /\ h'[q].todo = h[q].todo /\ h'[q].cur = h[q].cur
      BY <2>3, ReadHistoryMoves, SendHistoryMoves DEF Moves, Keeps
    <3>2. AheadKeys(q)' = AheadKeys(q)
      BY <1>2, <3>1 DEF AheadKeys
    <3> QED BY <1>4, <1>8, <1>9, <3>1, <3>2
  <2>4. CASE EnterLoop(q)
    <3>1. h[q].pc = "next" /\ h'[q].pc = "loop" /\ h'[q].todo = h[q].todo /\ h[q].todo = {}
      BY <2>4, LateMoves DEF Moves, Keeps, EnterLoop
    <3>2. AheadKeys(q)' = AheadKeys(q)
      BY <1>2, <3>1 DEF AheadKeys
    <3> QED BY <1>4, <1>8, <1>9, <3>1, <3>2
  <2> QED BY <1>3, <1>9, <2>1, <2>2, <2>3, <2>4
<1> QED BY <1>4, <1>7, <1>9

\* A member whose group and topic are as before, or which has just joined.
LEMMA FreshSteps ==
  ASSUME BInv, DInv, [Next]_vars, Record, FreshServes, NEW q \in fresh'
  PROVE  /\ q \in Members /\ GroupOf(q)' \in Groups
         /\ \/ /\ q \in fresh /\ GroupOf(q)' = GroupOf(q) /\ h'[q].req = h[q].req
               /\ groups'[GroupOf(q)][h[q].req.topic] = groups[GroupOf(q)][h[q].req.topic]
            \/ \E r \in Requests : SubscribeGroup(q, r)
<1>1. ASSUME q \in fresh
      PROVE  /\ q \in Members /\ GroupOf(q) \in Groups /\ h[q].pc # "idle"
             /\ h'[q].req = h[q].req /\ GroupOf(q)' = GroupOf(q)
  <2>1. q \in Members /\ GroupOf(q) \in Groups
    BY <1>1 DEF FreshServes
  <2>2. h[q].pc # "idle"
    BY <2>1, BrokerAssumption DEF BInv, HandlersOK, BrokerAssumption
  <2>3. h'[q].req = h[q].req
    BY <2>1, <2>2, StartedStays
  <2> QED BY <2>1, <2>2, <2>3 DEF GroupOf
<1>2. CASE groups' = groups
  BY <1>1, <1>2 DEF Record
<1>3. CASE groups' # groups
  <2> DEFINE g == GroupOf(q)'
             t == h'[q].req.topic
  <2>1. /\ q \in Members /\ g \in Groups
        /\ q \in IF groups[g][t] = groups'[g][t] THEN fresh ELSE groups'[g][t] \ groups[g][t]
    BY <1>3 DEF Record, FreshNow
  <2>2. CASE groups[g][t] = groups'[g][t]
    <3>1. q \in fresh
      BY <2>1, <2>2
    <3> QED BY <1>1, <2>1, <2>2, <3>1
  <2>3. CASE groups[g][t] # groups'[g][t]
    <3>1. q \in groups'[g][t] /\ q \notin groups[g][t]
      BY <2>1, <2>3
    <3>2. groups \in [Groups -> [Topics -> SUBSET Members]]
      BY DEF BInv, GMInv, GMTypeOK
    <3>3. t \in Topics
      <4>1. h'[q].pc # "idle" /\ BInv'
        BY <2>1, BPreserved, BrokerAssumption DEF BInv, HandlersOK, BrokerAssumption
      <4>2. h'[q].req \in Requests
        BY <2>1, <4>1 DEF BInv, HandlersOK
      <4> QED BY <4>2, RequestFacts
    <3> HIDE DEF g, t
    <3>4. ASSUME NEW s \in Members, LeaveGroup(s)
          PROVE  FALSE
      <4>1. groups' = groups \/ groups' = [groups EXCEPT ![GroupOf(s)][h[s].req.topic] = @ \ {s}]
        <5>1. PICK u, v : u = GroupOf(s) /\ v = h[s].req.topic
          OBVIOUS
        <5>2. Leave(u, s, v)
          BY <3>4, <5>1 DEF LeaveGroup, GMLeave
        <5> QED BY <3>2, <5>1, <5>2 DEF Leave
      <4> QED BY <2>1, <3>1, <3>2, <3>3, <4>1
    <3>5. ASSUME NEW s \in Members, NEW r \in Requests, SubscribeGroup(s, r)
          PROVE  s = q
      <4>1. groups' = [groups EXCEPT ![r.group][r.topic] = @ \cup {s}]
        BY <3>2, <3>5, RequestFacts DEF SubscribeGroup, GMJoin, Join
      <4> QED BY <2>1, <3>1, <3>2, <3>3, <4>1
    <3>6. \E r \in Requests : SubscribeGroup(q, r)
      BY <1>3, <3>4, <3>5, GroupSteps DEF gmVars
    <3> QED BY <2>1, <3>6 DEF g
  <2> QED BY <2>2, <2>3
<1> QED BY <1>2, <1>3

\* A member that joins has its share ahead of it.
LEMMA JoinsFresh ==
  ASSUME BInv, DInv, [Next]_vars, NEW q \in Members, NEW r \in Requests, SubscribeGroup(q, r)
  PROVE  /\ h'[q].pc = "next" /\ q \in groups'[GroupOf(q)'][h'[q].req.topic]
         /\ ServedKeys(q)' \cup AheadKeys(q)' = OwnKeys(q)'
<1>1. /\ h[q].pc = "idle" /\ h'[q].pc = "next" /\ h'[q].req = r /\ r.group \in Groups
      /\ h'[q].todo = assignments'[r.group][r.topic][q] /\ r.topic \in Topics
  BY GroupMoves, RequestFacts
<1>2. groups \in [Groups -> [Topics -> SUBSET Members]] /\ BInv'
  BY BPreserved DEF BInv, GMInv, GMTypeOK
<1>3. q \in groups'[r.group][r.topic]
  BY <1>1, <1>2 DEF SubscribeGroup, GMJoin, Join
<1>4. assignments'[r.group][r.topic][q] = ShareOf(groups'[r.group][r.topic], r.topic, q)
  <2>1. TableIsCurrent'
    BY <1>2 DEF BInv, GMInv
  <2> QED BY <1>1, <1>3, <2>1 DEF TableIsCurrent
<1>5. AheadKeys(q)' = OwnKeys(q)'
  BY <1>1, <1>4 DEF AheadKeys, OwnKeys, GroupOf, ShareOf, PartitionsOf, Rank
<1>6. ServedKeys(q)' = {}
  <2> SUFFICES ASSUME NEW k \in Keys, <<q, k>> \in subs'[k]
               PROVE  FALSE
    BY DEF ServedKeys
  <2>1. <<q, k>> \in subs[k]
    BY <1>1, OwnRegistration DEF Register
  <2>2. <<q, k>> \in ChansOf(q) /\ chan[<<q, k>>] = "open"
    BY <2>1 DEF BInv, RegisteredIsOpen, ChansOf, Chans
  <2> QED BY <1>1, <2>2 DEF DInv, NothingAhead
<1> QED BY <1>1, <1>3, <1>5, <1>6 DEF GroupOf

LEMMA FreshPreserved ==
  ASSUME BInv, DInv, FreshServes, [Next]_vars, Record
  PROVE  FreshServes'
<1> SUFFICES ASSUME NEW q \in fresh'
             PROVE  /\ q \in Members /\ GroupOf(q)' \in Groups
                    /\ h'[q].pc \in Active => /\ q \in groups'[GroupOf(q)'][h'[q].req.topic]
                                             /\ ServedKeys(q)' \cup AheadKeys(q)' = OwnKeys(q)'
                    /\ h'[q].pc = "loop" => h'[q].todo = {}
  BY DEF FreshServes
<1>1. q \in Members /\ GroupOf(q)' \in Groups
  BY FreshSteps
<1>2. CASE \E r \in Requests : SubscribeGroup(q, r)
  BY <1>1, <1>2, JoinsFresh
<1>3. CASE /\ q \in fresh /\ GroupOf(q)' = GroupOf(q) /\ h'[q].req = h[q].req
           /\ groups'[GroupOf(q)][h[q].req.topic] = groups[GroupOf(q)][h[q].req.topic]
  <2>1. GroupOf(q) \in Groups /\ (h[q].pc = "loop" => h[q].todo = {})
    BY <1>3 DEF FreshServes
  <2>2. h[q].pc # "idle"
    BY <1>1, <2>1, BrokerAssumption DEF BInv, HandlersOK, BrokerAssumption
  <2>3. OwnKeys(q)' = OwnKeys(q)
    BY <1>3 DEF OwnKeys, ShareOf, PartitionsOf, Rank
  <2>4. ASSUME h'[q].pc \in Active
        PROVE  /\ q \in groups'[GroupOf(q)'][h'[q].req.topic]
               /\ ServedKeys(q)' \cup AheadKeys(q)' = OwnKeys(q)'
               /\ h'[q].pc = "loop" => h'[q].todo = {}
    <3>1. /\ h[q].pc \in Active
          /\ ServedKeys(q)' \cup AheadKeys(q)' = ServedKeys(q) \cup AheadKeys(q)
          /\ h'[q].pc = "loop" => h'[q].todo = {}
      BY <1>1, <2>1, <2>2, <2>4, WorksOff
    <3>2. /\ q \in groups[GroupOf(q)][h[q].req.topic]
          /\ ServedKeys(q) \cup AheadKeys(q) = OwnKeys(q)
      BY <1>3, <3>1 DEF FreshServes
    <3> QED BY <1>3, <2>3, <3>1, <3>2
  <2> QED BY <1>1, <2>4 DEF Active
<1> QED BY <1>2, <1>3, FreshSteps

LEMMA CrashKeepsFresh ==
  ASSUME BInv, FreshServes, Crash
  PROVE  FreshServes'
<1> SUFFICES ASSUME NEW q \in fresh
             PROVE  q \in Members /\ GroupOf(q)' \in Groups /\ h'[q].pc \notin Active
  BY DEF Crash, FreshServes, Active
<1>1. q \in Members /\ GroupOf(q) \in Groups
  BY DEF FreshServes
<1> QED BY <1>1, CrashedHandlers DEF GroupOf, Active

\* A group stream in its loop serves exactly what the table gives it, as long as no
\* other member has joined or left since its own Join.
THEOREM AssignmentIsServed == RestartSpec => []AssignmentServedUntilRebalance
<1>1. RestartInit => FreshServes
  BY DEF RestartInit, FreshServes
<1>2. BInv /\ DInv /\ FreshServes /\ [RestartNext]_restartVars => FreshServes'
  <2> SUFFICES ASSUME BInv, DInv, FreshServes, [RestartNext]_restartVars
               PROVE  FreshServes'
    OBVIOUS
  <2>1. CASE Crash
    BY <2>1, CrashKeepsFresh
  <2>2. CASE Next /\ Record
    BY <2>2, FreshPreserved
  <2>3. CASE UNCHANGED restartVars
    <3>1. UNCHANGED <<fresh, groups, subs, h>>
      BY <2>3 DEF restartVars, vars, gmVars
    <3>2. \A s \in Members : /\ ServedKeys(s)' = ServedKeys(s) /\ AheadKeys(s)' = AheadKeys(s)
                             /\ OwnKeys(s)' = OwnKeys(s)
      BY <3>1 DEF ServedKeys, AheadKeys, OwnKeys, GroupOf
    <3> QED BY <3>1, <3>2 DEF FreshServes, GroupOf
  <2> QED BY <2>1, <2>2, <2>3 DEF RestartNext
<1>3. BInv /\ FreshServes => AssignmentServedUntilRebalance
  <2> SUFFICES ASSUME BInv, FreshServes, NEW s \in fresh, h[s].pc = "loop"
               PROVE  {j \in Keys : <<s, j>> \in subs[j]} =
                        {<<h[s].req.topic, p>> : p \in GetAssignment(GroupOf(s), s, h[s].req.topic)}
    BY DEF AssignmentServedUntilRebalance
  <2>1. /\ s \in Members /\ GroupOf(s) \in Groups
        /\ s \in groups[GroupOf(s)][h[s].req.topic]
        /\ ServedKeys(s) \cup AheadKeys(s) = OwnKeys(s) /\ h[s].todo = {}
    BY DEF FreshServes, Active
  <2>2. AheadKeys(s) = {}
    BY <2>1 DEF AheadKeys
  <2>3. h[s].req.topic \in Topics
    BY <2>1, HandlerFacts
  <2>4. assignments[GroupOf(s)][h[s].req.topic][s] =
          ShareOf(groups[GroupOf(s)][h[s].req.topic], h[s].req.topic, s)
    BY <2>1, <2>3 DEF BInv, GMInv, TableIsCurrent
  <2> QED BY <2>1, <2>2, <2>4 DEF ServedKeys, OwnKeys, GetAssignment
<1> QED BY <1>1, <1>2, <1>3, RestartInvariance, PTL DEF RestartSpec
-----------------------------------------------------------------------------
(* What a resume can skip. *)

Accounted(g, k, o) == Has(g, k, o) \/ Excused(g, k, o)

\* A gap is that of a channel that has been made.
GapsAreMade ==
  \A c \in Chans : gap[c] # {} => chan[c] # "none" \/ h[c[1]].pc = "returned"

\* A message on its way is in the log, and its channel is registered while the
\* client is there.
Stored(m) == m.off < Len(logs[m.key])
Sound(c, m) ==
  m \in Msgs /\ m.key = c[2] /\ Stored(m) /\ (~ctxDone[c[1]] => c \in subs[c[2]])
FlightOK ==
  /\ \A p \in Publishers : pub[p].st # "idle" => Stored(pub[p].msg)
  /\ \A c \in Chans : \A m \in ToSet(buf[c]) \cup ToSet(hand[c]) : Sound(c, m)
  /\ \A s \in Members : \A m \in ToSet(central[s]) : Sound(<<s, m.key>>, m)

\* What is below the start of a group's read is accounted for.
StartsAccounted ==
  \A s \in Members :
    /\ h[s].pc = "idle" => \A k \in Keys : from[<<s, k>>] = 0
    /\ GroupOf(s) \in Groups =>
         /\ \A k \in Keys : \A o \in 0 .. (from[<<s, k>>] - 1) : Accounted(GroupOf(s), k, o)
         /\ h[s].pc = "read" =>
              \A o \in 0 .. (h[s].next - 1) : Accounted(GroupOf(s), KeyOf(s), o)

\* What is below a message that a member has received is accounted for.
StreamsAccounted ==
  \A s \in Members : GroupOf(s) \in Groups =>
    \A m \in ToSet(stream[s]) : \A o \in 0 .. (m.off - 1) : Accounted(GroupOf(s), m.key, o)

SInv == GapsAreMade /\ FlightOK /\ StartsAccounted /\ StreamsAccounted /\ SkipsAccounted

LEMMA GapsPreserved ==
  ASSUME BInv, DInv, GapsAreMade, [Next]_vars
  PROVE  GapsAreMade'
<1> SUFFICES ASSUME NEW c \in Chans, gap'[c] # {}, chan'[c] = "none"
             PROVE  h'[c[1]].pc = "returned"
  BY DEF GapsAreMade
<1>1. c[1] \in Members /\ c[2] \in Keys /\ chan[c] = "none"
  BY ChannelMade DEF Chans
<1>2. ~(Register(c[1]) /\ c = ChanOf(c[1]))
  <2>1. chan \in [Chans -> {"none", "open", "closed"}]
    BY DEF BInv, ControlTyped
  <2> QED BY <2>1 DEF Register
<1>3. gap'[c] = gap[c]
  BY <1>1, <1>2, LostStaysLost
<1>4. h[c[1]].pc = "returned"
  BY <1>1, <1>3 DEF GapsAreMade
<1> QED BY <1>1, <1>4, HandlerMoves, SoloMoves, GroupMoves, NextPartitionMoves, ReadHistoryMoves,
           SendHistoryMoves, EarlyMoves, RegisterMoves, LateMoves DEF Turns, Moves

\* What is accounted for stays so.
LEMMA AccountedStays ==
  ASSUME BInv, DInv, GapsAreMade, [Next]_vars, Record,
         NEW g \in Groups, NEW k \in Keys, NEW o, Accounted(g, k, o)
  PROVE  Accounted(g, k, o)'
<1>1. ASSUME NEW s \in Members, GroupOf(s) = g, MsgAt(k, o) \in ToSet(stream[s])
      PROVE  Has(g, k, o)'
  BY <1>1, ReceivedStays DEF Has, MsgAt
<1>2. ASSUME o \in unannounced[k]
      PROVE  Excused(g, k, o)'
  <2>1. unannounced \in [Keys -> SUBSET Nat]
    BY DEF BInv, DataTyped
  <2>2. ASSUME NEW p \in Publishers, NEW j \in Keys,
               PublishAppend(p, j) \/ PublishAppendFails(p, j)
        PROVE  unannounced[k] \subseteq unannounced'[k]
    BY <2>1, <2>2 DEF PublishAppend, PublishAppendFails, history
  <2>3. ASSUME NEW p \in Publishers, NEW c \in Chans, PublishSend(p, c)
        PROVE  unannounced' = unannounced
    BY <2>3 DEF PublishSend
  <2>4. ASSUME NEW s \in Members,
               \/ ReadHistory(s) \/ SendHistory(s) \/ Register(s) \/ LoopSolo(s)
               \/ LoopGroup(s) \/ Ack(s) \/ AckFails(s) \/ Cancel(s)
        PROVE  unannounced' = unannounced
    BY <2>4 DEF ReadHistory, SendHistory, Register, LoopSolo, LoopGroup, Ack, AckFails, Cancel,
       history
  <2>5. ASSUME NEW c \in Chans, ForwardTake(c) \/ ForwardPut(c) \/ ForwardAbandon(c)
        PROVE  unannounced' = unannounced
    BY <2>5 DEF ForwardTake, ForwardPut, ForwardAbandon, history
  <2>6. unannounced[k] \subseteq unannounced'[k]
    BY <2>2, <2>3, <2>4, <2>5, DataSteps DEF dataVars
  <2> QED BY <1>2, <2>6 DEF Excused
<1>3. ASSUME NEW s \in Members, GroupOf(s) = g, NEW c \in Chans, c = <<s, k>>,
             o \in gap[c] \cup dropped[c] \cup overtaken[c]
      PROVE  Excused(g, k, o)'
  <2>1. GroupOf(s)' = g
    BY <1>3, ReceivedStays
  <2>2. overtaken[c] \subseteq overtaken'[c]
    BY DEF Record
  <2>3. c[1] = s /\ c[2] = k
    BY <1>3
  <2>4. dropped[c] \subseteq dropped'[c]
    BY <2>3, LostStaysLost
  <2>5. CASE Register(s) /\ c = ChanOf(s)
    <3>1. chan[c] = "none" /\ h[s].pc = "send"
      BY <2>5, RegistersFresh DEF DInv, Register
    <3>2. gap[c] = {}
      BY <2>3, <3>1 DEF GapsAreMade
    <3> QED BY <1>3, <2>1, <2>2, <2>4, <3>2 DEF Excused
  <2>6. CASE ~(Register(s) /\ c = ChanOf(s))
    <3>1. gap'[c] = gap[c]
      BY <2>3, <2>6, LostStaysLost
    <3> QED BY <1>3, <2>1, <2>2, <2>4, <3>1 DEF Excused
  <2> QED BY <2>5, <2>6
<1>4. \A s \in Members : <<s, k>> \in Chans
  BY DEF Chans
<1> QED BY <1>1, <1>2, <1>3, <1>4 DEF Accounted, Has, Excused
-----------------------------------------------------------------------------
(* Messages on their way. *)

LEMMA LenGrows ==
  ASSUME BInv, [Next]_vars, NEW k \in Keys
  PROVE  Len(logs[k]) \in Nat /\ Len(logs'[k]) \in Nat /\ Len(logs[k]) <= Len(logs'[k])
<1>1. logs \in [Keys -> Seq(Publishers)] /\ logs[k] \in Seq(Publishers) /\ Len(logs[k]) \in Nat
  BY DEF BInv, DataTyped
<1>2. ASSUME NEW p \in Publishers, NEW j \in Keys, PublishAppend(p, j) \/ PublishAppendFails(p, j)
      PROVE  Len(logs[k]) <= Len(logs'[k]) /\ Len(logs'[k]) \in Nat
  <2>1. logs' = [logs EXCEPT ![j] = Append(@, p)]
    BY <1>2 DEF PublishAppend, PublishAppendFails
  <2>2. logs'[k] = logs[k] \/ logs'[k] = Append(logs[k], p)
    BY <1>1, <2>1
  <2> QED BY <1>1, <2>2
<1>3. ASSUME NEW p \in Publishers, NEW c \in Chans, PublishSend(p, c)
      PROVE  logs' = logs
  BY <1>3 DEF PublishSend
<1>4. ASSUME NEW s \in Members,
             \/ ReadHistory(s) \/ SendHistory(s) \/ Register(s) \/ LoopSolo(s)
             \/ LoopGroup(s) \/ Ack(s) \/ AckFails(s) \/ Cancel(s)
      PROVE  logs' = logs
  BY <1>4 DEF ReadHistory, SendHistory, Register, LoopSolo, LoopGroup, Ack, AckFails, Cancel
<1>5. ASSUME NEW c \in Chans, ForwardTake(c) \/ ForwardPut(c) \/ ForwardAbandon(c)
      PROVE  logs' = logs
  BY <1>5 DEF ForwardTake, ForwardPut, ForwardAbandon
<1> QED BY <1>1, <1>2, <1>3, <1>4, <1>5, DataSteps DEF dataVars

LEMMA StoredStays ==
  ASSUME BInv, [Next]_vars, NEW m \in Msgs, Stored(m)
  PROVE  Stored(m)'
<1>1. m.key \in Keys /\ m.off \in Nat
  BY DEF Msgs
<1> QED BY <1>1, LenGrows DEF Stored

LEMMA SoundStays ==
  ASSUME BInv, [Next]_vars, NEW c \in Chans, NEW m, Sound(c, m)
  PROVE  Sound(c, m)'
<1>1. c[1] \in Members /\ c[2] \in Keys /\ subs \in [Keys -> SUBSET Chans]
  BY DEF Chans, BInv, ControlTyped
<1>2. Stored(m)'
  BY StoredStays DEF Sound
<1>3. ASSUME ~ctxDone'[c[1]]
      PROVE  c \in subs'[c[2]]
  <2>1. ~ctxDone[c[1]] /\ c \in subs[c[2]]
    BY <1>1, <1>3, DoneStays DEF Sound
  <2>2. ASSUME NEW s \in Members, Register(s)
        PROVE  c \in subs'[c[2]]
    BY <1>1, <2>1, <2>2 DEF Register
  <2>3. ASSUME NEW s \in Members, UnregisterSolo(s) \/ CleanupGroup(s)
        PROVE  c \in subs'[c[2]]
    <3>1. s # c[1]
      BY <2>1, <2>3 DEF UnregisterSolo, CleanupGroup
    <3>2. c # ChanOf(s) /\ c \notin Regs(s)
      BY <3>1 DEF ChanOf, Regs, ChansOf
    <3>3. CASE UnregisterSolo(s)
      BY <1>1, <2>1, <3>2, <3>3 DEF UnregisterSolo
    <3>4. CASE CleanupGroup(s)
      BY <1>1, <2>1, <3>2, <3>4 DEF CleanupGroup
    <3> QED BY <2>3, <3>3, <3>4
  <2>4. ASSUME NEW s \in Members, CloseSolo(s)
        PROVE  c \in subs'[c[2]]
    BY <2>1, <2>4 DEF CloseSolo
  <2> QED BY <2>1, <2>2, <2>3, <2>4, ChannelSteps
<1> QED BY <1>2, <1>3 DEF Sound

\* Where the contents of a channel, of a forwarder's hand and of the central channel
\* come from.
LEMMA BufComesFrom ==
  ASSUME BInv, [Next]_vars, NEW c \in Chans, NEW m \in ToSet(buf'[c])
  PROVE  \/ m \in ToSet(buf[c])
         \/ \E p \in Publishers : pub[p].st = "fanout" /\ c \in pub[p].todo /\ m = pub[p].msg
<1> DEFINE Goal == \/ m \in ToSet(buf[c])
                   \/ \E p \in Publishers : pub[p].st = "fanout" /\ c \in pub[p].todo
                                             /\ m = pub[p].msg
<1>1. buf \in [Chans -> Seq(Msgs)]
  BY DEF BInv, DataTyped
<1>2. ASSUME NEW p \in Publishers, NEW d \in Chans, PublishSend(p, d)
      PROVE  Goal
  <2>1. pub[p].st = "fanout" /\ d \in pub[p].todo /\ pub[p].msg \in Msgs
    BY <1>2 DEF PublishSend, BInv, PublishersOK
  <2>2. buf' = buf \/ buf' = [buf EXCEPT ![d] = Append(@, pub[p].msg)]
    BY <1>2 DEF PublishSend
  <2>3. CASE c = d /\ buf' = [buf EXCEPT ![d] = Append(@, pub[p].msg)]
    <3>1. ToSet(buf'[c]) = ToSet(buf[c]) \cup {pub[p].msg}
      BY <1>1, <2>1, <2>3, ToSetAppend
    <3> QED BY <2>1, <2>3, <3>1
  <2>4. CASE buf'[c] = buf[c]
    BY <2>4
  <2> QED BY <1>1, <2>2, <2>3, <2>4
<1>3. ASSUME NEW d \in Chans, buf[d] # <<>>, buf' = [buf EXCEPT ![d] = Tail(@)]
      PROVE  Goal
  <2>1. ToSet(Tail(buf[d])) \subseteq ToSet(buf[d])
    BY <1>1, <1>3, ToSetTail
  <2> QED BY <1>1, <1>3, <2>1
<1>4. ASSUME NEW s \in Members, LoopSolo(s)
      PROVE  Goal
  <2>1. ChanOf(s) \in Chans
    BY <1>4, HandlerFacts DEF LoopSolo
  <2> QED BY <1>3, <1>4, <2>1 DEF LoopSolo
<1>5. ASSUME NEW d \in Chans, ForwardTake(d)
      PROVE  Goal
  BY <1>3, <1>5 DEF ForwardTake
<1>6. ASSUME buf' = buf
      PROVE  Goal
  BY <1>6
<1>7. ASSUME NEW p \in Publishers, NEW k \in Keys, PublishAppend(p, k) \/ PublishAppendFails(p, k)
      PROVE  buf' = buf
  BY <1>7 DEF PublishAppend, PublishAppendFails, chanVars
<1>8. ASSUME NEW s \in Members,
             \/ ReadHistory(s) \/ SendHistory(s) \/ Register(s)
             \/ LoopGroup(s) \/ Ack(s) \/ AckFails(s) \/ Cancel(s)
      PROVE  buf' = buf
  BY <1>8 DEF ReadHistory, SendHistory, Register, LoopGroup, Ack, AckFails, Cancel, chanVars
<1>9. ASSUME NEW d \in Chans, ForwardPut(d) \/ ForwardAbandon(d)
      PROVE  buf' = buf
  BY <1>9 DEF ForwardPut, ForwardAbandon
<1> HIDE DEF Goal
<1>10. Goal
  BY <1>2, <1>4, <1>5, <1>6, <1>7, <1>8, <1>9, DataSteps DEF dataVars
<1> QED BY <1>10 DEF Goal

LEMMA HandComesFrom ==
  ASSUME BInv, [Next]_vars, NEW c \in Chans
  PROVE  ToSet(hand'[c]) \subseteq ToSet(hand[c]) \cup ToSet(buf[c])
<1>1. buf \in [Chans -> Seq(Msgs)] /\ hand \in [Chans -> Seq(Msgs)]
  BY DEF BInv, DataTyped
<1>2. ToSet(<<>>) = {}
  BY DEF ToSet
<1>3. ASSUME NEW d \in Chans, ForwardTake(d)
      PROVE  ToSet(hand'[c]) \subseteq ToSet(hand[c]) \cup ToSet(buf[c])
  <2>1. buf[d] # <<>> /\ hand' = [hand EXCEPT ![d] = <<Head(buf[d])>>]
    BY <1>3 DEF ForwardTake
  <2>2. Head(buf[d]) \in ToSet(buf[d])
    BY <1>1, <2>1, ToSetTail
  <2>3. ToSet(<<Head(buf[d])>>) = {Head(buf[d])}
    BY DEF ToSet
  <2> QED BY <1>1, <2>1, <2>2, <2>3
<1>4. ASSUME NEW d \in Chans, ForwardPut(d) \/ ForwardAbandon(d)
      PROVE  ToSet(hand'[c]) \subseteq ToSet(hand[c]) \cup ToSet(buf[c])
  <2>1. hand' = [hand EXCEPT ![d] = <<>>]
    BY <1>4 DEF ForwardPut, ForwardAbandon
  <2> QED BY <1>1, <1>2, <2>1
<1>5. ASSUME NEW s \in Members, Register(s)
      PROVE  hand' = hand
  BY <1>5 DEF Register
<1>6. ASSUME NEW d \in Chans, ForwardEnd(d)
      PROVE  hand' = hand
  BY <1>6 DEF ForwardEnd
<1> QED BY <1>3, <1>4, <1>5, <1>6, HandSteps DEF ForwarderStep

LEMMA CentralComesFrom ==
  ASSUME BInv, [Next]_vars, NEW s \in Members, NEW m \in ToSet(central'[s])
  PROVE  m \in ToSet(central[s]) \/ \E c \in Chans : c[1] = s /\ m \in ToSet(hand[c])
<1> DEFINE Goal == m \in ToSet(central[s]) \/ \E c \in Chans : c[1] = s /\ m \in ToSet(hand[c])
<1>1. central \in [Members -> Seq(Msgs)] /\ hand \in [Chans -> Seq(Msgs)]
  BY DEF BInv, DataTyped
<1>2. ASSUME NEW d \in Chans, ForwardPut(d)
      PROVE  Goal
  <2>1. central' = [central EXCEPT ![d[1]] = @ \o hand[d]] /\ d[1] \in Members
    BY <1>2 DEF ForwardPut, Chans
  <2>2. ToSet(central[d[1]] \o hand[d]) = ToSet(central[d[1]]) \cup ToSet(hand[d])
    BY <1>1, <2>1, ToSetConcat
  <2>3. CASE d[1] = s
    BY <1>1, <2>1, <2>2, <2>3
  <2>4. CASE d[1] # s
    BY <1>1, <2>1, <2>4
  <2> QED BY <2>3, <2>4
<1>3. ASSUME NEW q \in Members, LoopGroup(q)
      PROVE  Goal
  <2>1. central[q] # <<>> /\ central' = [central EXCEPT ![q] = Tail(@)]
    BY <1>3 DEF LoopGroup
  <2>2. ToSet(Tail(central[q])) \subseteq ToSet(central[q])
    BY <1>1, <2>1, ToSetTail
  <2> QED BY <1>1, <2>1, <2>2
<1>4. ASSUME central' = central
      PROVE  Goal
  BY <1>4
<1>5. ASSUME NEW p \in Publishers, NEW k \in Keys, PublishAppend(p, k) \/ PublishAppendFails(p, k)
      PROVE  central' = central
  BY <1>5 DEF PublishAppend, PublishAppendFails, chanVars
<1>6. ASSUME NEW p \in Publishers, NEW c \in Chans, PublishSend(p, c)
      PROVE  central' = central
  BY <1>6 DEF PublishSend
<1>7. ASSUME NEW q \in Members,
             \/ ReadHistory(q) \/ SendHistory(q) \/ Register(q) \/ LoopSolo(q)
             \/ Ack(q) \/ AckFails(q) \/ Cancel(q)
      PROVE  central' = central
  BY <1>7 DEF ReadHistory, SendHistory, Register, LoopSolo, Ack, AckFails, Cancel, chanVars
<1>8. ASSUME NEW d \in Chans, ForwardTake(d) \/ ForwardAbandon(d)
      PROVE  central' = central
  BY <1>8 DEF ForwardTake, ForwardAbandon
<1> HIDE DEF Goal
<1>9. Goal
  BY <1>2, <1>3, <1>4, <1>5, <1>6, <1>7, <1>8, DataSteps DEF dataVars
<1> QED BY <1>9 DEF Goal

LEMMA PublishedIsStored ==
  ASSUME BInv, FlightOK, [Next]_vars, NEW p \in Publishers, pub'[p].st # "idle"
  PROVE  Stored(pub[p].msg)'
<1>1. pub \in [Publishers -> PublisherType] /\ pub[p] \in PublisherType
  BY DEF BInv, ControlTyped
<1>2. ASSUME pub[p].st # "idle", pub'[p].msg = pub[p].msg
      PROVE  Stored(pub[p].msg)'
  <2> DEFINE m == pub[p].msg
  <2>1. PICK n : n = m
    OBVIOUS
  <2>2. n \in Msgs /\ Stored(n)
    BY <1>2, <2>1 DEF BInv, PublishersOK, FlightOK
  <2>3. Stored(n)'
    BY <2>2, StoredStays
  <2> QED BY <1>2, <2>1, <2>3
<1>3. ASSUME NEW q \in Publishers, NEW k \in Keys, PublishAppend(q, k)
      PROVE  Stored(pub[p].msg)'
  <2>1. CASE p = q
    <3>1. /\ logs' = [logs EXCEPT ![k] = Append(@, q)]
          /\ pub'[p].msg = [key |-> k, off |-> Len(logs[k])]
      BY <1>1, <1>3, <2>1 DEF PublishAppend
    <3>2. logs \in [Keys -> Seq(Publishers)] /\ logs[k] \in Seq(Publishers)
      BY DEF BInv, DataTyped
    <3>3. logs'[k] = Append(logs[k], q)
      BY <3>1, <3>2
    <3>4. Len(logs[k]) < Len(logs'[k])
      BY <3>2, <3>3
    <3> QED BY <3>1, <3>4 DEF Stored
  <2>2. CASE p # q
    <3>1. pub'[p] = pub[p]
      BY <1>1, <1>3, <2>2 DEF PublishAppend
    <3> QED BY <1>2, <3>1
  <2> QED BY <2>1, <2>2
<1>4. ASSUME NEW q \in Publishers, PublishStep(q)
      PROVE  Stored(pub[p].msg)'
  <2>1. pub'[p] = pub[p] \/ pub'[p] = Idle \/ (p = q /\ pub[p].st # "idle" /\ pub'[p].msg = pub[p].msg)
    <3>1. CASE PublishRLock(q)
      BY <1>1, <3>1 DEF PublishRLock, PublisherType
    <3>2. CASE PublishReturn(q)
      BY <1>1, <3>2 DEF PublishReturn
    <3>3. ASSUME NEW c \in Chans, PublishSend(q, c)
          PROVE  pub'[p] = pub[p] \/ (p = q /\ pub[p].st # "idle" /\ pub'[p].msg = pub[p].msg)
      BY <1>1, <3>3 DEF PublishSend, PublisherType
    <3> QED BY <1>4, <3>1, <3>2, <3>3 DEF PublishStep
  <2>2. pub'[p] # Idle
    BY DEF Idle
  <2> QED BY <1>2, <2>1, <2>2
<1>5. ASSUME UNCHANGED pub
      PROVE  Stored(pub[p].msg)'
  BY <1>2, <1>5
<1> QED BY <1>3, <1>4, <1>5, PublisherSteps

LEMMA FlightPreserved ==
  ASSUME BInv, FlightOK, [Next]_vars
  PROVE  FlightOK'
<1>1. ASSUME NEW c \in Chans, NEW m \in ToSet(buf'[c])
      PROVE  Sound(c, m)'
  <2>1. ASSUME NEW p \in Publishers, pub[p].st = "fanout", c \in pub[p].todo, m = pub[p].msg
        PROVE  Sound(c, m)
    <3>1. m \in Msgs /\ c \in subs[m.key] /\ Stored(m)
      BY <2>1 DEF BInv, PublishersOK, FlightOK
    <3>2. c[2] = m.key
      BY <3>1 DEF Msgs, BInv, RegisteredIsOpen
    <3> QED BY <3>1, <3>2 DEF Sound
  <2>2. Sound(c, m)
    BY <2>1, BufComesFrom DEF FlightOK
  <2> QED BY <2>2, SoundStays
<1>2. ASSUME NEW c \in Chans, NEW m \in ToSet(hand'[c])
      PROVE  Sound(c, m)'
  <2>1. Sound(c, m)
    BY HandComesFrom, <1>2 DEF FlightOK
  <2> QED BY <2>1, SoundStays
<1>3. ASSUME NEW s \in Members, NEW m \in ToSet(central'[s])
      PROVE  Sound(<<s, m.key>>, m)'
  <2>1. ASSUME NEW c \in Chans, c[1] = s, m \in ToSet(hand[c])
        PROVE  Sound(<<s, m.key>>, m)
    <3>1. Sound(c, m)
      BY <2>1 DEF FlightOK
    <3>2. c = <<s, m.key>>
      BY <2>1, <3>1 DEF Sound, Chans
    <3> QED BY <3>1, <3>2
  <2>2. Sound(<<s, m.key>>, m)
    BY <2>1, CentralComesFrom DEF FlightOK
  <2>3. PICK c \in Chans : c = <<s, m.key>>
    BY <2>2 DEF Sound, Msgs, Chans
  <2> QED BY <2>2, <2>3, SoundStays
<1>4. ASSUME NEW p \in Publishers, pub'[p].st # "idle"
      PROVE  Stored(pub[p].msg)'
  BY <1>4, PublishedIsStored
<1> QED BY <1>1, <1>2, <1>3, <1>4 DEF FlightOK
-----------------------------------------------------------------------------
(* What comes to a client. *)

LEMMA StreamTyped ==
  ASSUME BInv, NEW q \in Members, NEW m \in ToSet(stream[q])
  PROVE  m \in Msgs /\ m.key \in Keys
<1>1. stream[q] \in Seq(Msgs)
  BY DEF BInv, DataTyped
<1>2. PICK i \in DOMAIN stream[q] : m = stream[q][i]
  BY DEF ToSet
<1>3. m \in Msgs
  BY <1>1, <1>2
<1> QED BY <1>3 DEF Msgs

LEMMA StreamComesFrom ==
  ASSUME BInv, [Next]_vars, NEW q \in Members, NEW m \in ToSet(stream'[q])
  PROVE  \/ m \in ToSet(stream[q])
         \/ SendHistory(q) /\ m = MsgAt(KeyOf(q), h[q].next)
         \/ LoopSolo(q)
         \/ LoopGroup(q) /\ m = Head(central[q])
<1> DEFINE Goal == \/ m \in ToSet(stream[q])
                   \/ SendHistory(q) /\ m = MsgAt(KeyOf(q), h[q].next)
                   \/ LoopSolo(q)
                   \/ LoopGroup(q) /\ m = Head(central[q])
<1>1. stream \in [Members -> Seq(Msgs)]
  BY DEF BInv, DataTyped
<1>2. ASSUME NEW s \in Members, NEW n \in Msgs, stream' = [stream EXCEPT ![s] = Append(@, n)]
      PROVE  m \in ToSet(stream[q]) \/ (s = q /\ m = n)
  BY <1>1, <1>2, ToSetAppend
<1>3. ASSUME NEW s \in Members, SendHistory(s)
      PROVE  Goal
  <2> DEFINE n == MsgAt(KeyOf(s), h[s].next)
  <2>1. h[s] \in HandlerType /\ KeyOf(s) \in Keys
    BY <1>3, HandlerFacts DEF SendHistory
  <2>2. n \in Msgs
    BY <2>1 DEF HandlerType, MsgAt, Msgs
  <2>3. stream' = [stream EXCEPT ![s] = Append(@, n)]
    BY <1>3 DEF SendHistory, HistoryOffset, MsgAt
  <2> HIDE DEF n
  <2>4. m \in ToSet(stream[q]) \/ (s = q /\ m = n)
    BY <1>2, <2>2, <2>3
  <2> QED BY <1>3, <2>4 DEF n
<1>4. ASSUME NEW s \in Members, LoopSolo(s)
      PROVE  Goal
  <2>1. buf[ChanOf(s)] \in Seq(Msgs) /\ buf[ChanOf(s)] # <<>>
    BY <1>4, HandlerFacts DEF LoopSolo, BInv, DataTyped
  <2>2. Head(buf[ChanOf(s)]) \in Msgs
    BY <2>1, ToSetTail
  <2>3. m \in ToSet(stream[q]) \/ s = q
    BY <1>2, <1>4, <2>2 DEF LoopSolo
  <2> QED BY <1>4, <2>3
<1>5. ASSUME NEW s \in Members, LoopGroup(s)
      PROVE  Goal
  <2>1. central[s] \in Seq(Msgs) /\ central[s] # <<>>
    BY <1>5 DEF LoopGroup, BInv, DataTyped
  <2>2. Head(central[s]) \in Msgs
    BY <2>1, ToSetTail
  <2>3. m \in ToSet(stream[q]) \/ (s = q /\ m = Head(central[s]))
    BY <1>2, <1>5, <2>2 DEF LoopGroup
  <2> QED BY <1>5, <2>3
<1>6. ASSUME stream' = stream
      PROVE  Goal
  BY <1>6
<1> HIDE DEF Goal
<1>7. Goal
  BY <1>3, <1>4, <1>5, <1>6, StreamSteps
<1> QED BY <1>7 DEF Goal

\* What a message of the history passes over was accounted for when the read started,
\* or was sent before it.
LEMMA HistoryAccounted ==
  ASSUME BInv, DInv, SInv, NEW q \in Members, SendHistory(q),
         NEW g \in Groups, GroupOf(q) = g, NEW k \in Keys, k = KeyOf(q),
         NEW o \in 0 .. (h[q].next - 1)
  PROVE  Accounted(g, k, o)
<1>1. h[q].pc = "send" /\ h[q].next \in Nat /\ ChanOf(q) = <<q, k>> /\ ChanOf(q) \in Chans
  BY HandlerFacts DEF SendHistory, HandlerType, ChanOf
<1>2. from[<<q, k>>] \in Nat
  BY <1>1 DEF BInv, DataTyped
<1>3. CASE o < from[<<q, k>>]
  BY <1>2, <1>3 DEF SInv, StartsAccounted
<1>4. CASE ~(o < from[<<q, k>>])
  <2>1. o \in from[ChanOf(q)] .. (h[q].next - 1)
    BY <1>1, <1>2, <1>4
  <2>2. MsgAt(k, o) \in ToSet(stream[q])
    BY <1>1, <2>1 DEF DInv, HistorySent
  <2> QED BY <2>2 DEF Accounted, Has
<1> QED BY <1>3, <1>4

\* What a live message passes over has reached the client, is lost, or is overtaken
\* by it.
LEMMA LiveAccounted ==
  ASSUME BInv, DInv, SInv, [Next]_vars, Record, NEW q \in Members, LoopGroup(q),
         NEW g \in Groups, GroupOf(q) = g, NEW m, m = Head(central[q]),
         NEW o \in 0 .. (m.off - 1)
  PROVE  Accounted(g, m.key, o)'
<1>1. /\ central[q] \in Seq(Msgs) /\ central[q] # <<>> /\ ~ctxDone[q]
      /\ stream' = [stream EXCEPT ![q] = Append(@, m)] /\ stream \in [Members -> Seq(Msgs)]
  BY DEF LoopGroup, BInv, DataTyped
<1>2. m \in ToSet(central[q])
  BY <1>1, ToSetTail
<1>3. Sound(<<q, m.key>>, m)
  BY <1>2 DEF SInv, FlightOK
<1>4. PICK c : c = <<q, m.key>>
  OBVIOUS
<1>5. PICK k : k = m.key
  OBVIOUS
<1>6. /\ m \in Msgs /\ k \in Keys /\ m.off \in Nat /\ c \in Chans /\ c[1] = q /\ c[2] = k
      /\ c \in subs[k] /\ m.off < Len(logs[k]) /\ c = <<q, k>>
  BY <1>1, <1>3, <1>4, <1>5 DEF Sound, Stored, Msgs, Chans
<1>7. from[c] \in Nat /\ Len(logs[k]) \in Nat
  BY <1>6, LenGrows DEF BInv, DataTyped
<1>8. ASSUME Accounted(g, k, o)
      PROVE  Accounted(g, k, o)'
  BY <1>6, <1>8, AccountedStays DEF SInv
<1>9. CASE o < from[c]
  <2>1. Accounted(g, k, o)
    BY <1>6, <1>7, <1>9 DEF SInv, StartsAccounted
  <2> QED BY <1>5, <1>8, <2>1
<1>10. CASE ~(o < from[c])
  <2>1. o \in from[c] .. (Len(logs[k]) - 1)
    BY <1>6, <1>7, <1>10
  <2>2. \/ Reaches(c, o) \/ StillToCome(c, o)
        \/ o \in gap[c] \cup dropped[c] \cup unannounced[k]
    BY <1>1, <1>6, <2>1 DEF DInv, DeliveryAccounted
  <2>3. CASE o \in gap[c] \cup dropped[c] \cup unannounced[k]
    <3>1. Accounted(g, k, o)
      BY <1>6, <2>3 DEF Accounted, Excused
    <3> QED BY <1>5, <1>8, <3>1
  <2>4. CASE MsgAt(k, o) \in ToSet(stream[q])
    <3>1. Accounted(g, k, o)
      BY <2>4 DEF Accounted, Has
    <3> QED BY <1>5, <1>8, <3>1
  <2>5. CASE (Reaches(c, o) \/ StillToCome(c, o)) /\ MsgAt(k, o) \notin ToSet(stream[q])
    <3>1. OnItsWay(c, o)
      BY <1>6, <2>5 DEF OnItsWay
    <3>2. stream[q] \in Seq(Msgs) /\ stream'[q] = Append(stream[q], m)
      BY <1>1
    <3>3. stream'[q][Len(stream'[q])] = m /\ stream'[q] # stream[q]
      BY <1>6, <3>2
    <3>4. o \in Overtakes(c)
      BY <1>5, <1>6, <3>1, <3>3 DEF Overtakes
    <3>5. o \in overtaken'[c]
      BY <1>6, <3>3, <3>4 DEF Record
    <3>6. GroupOf(q)' = g
      BY ReceivedStays
    <3>7. Excused(g, k, o)'
      BY <1>6, <3>5, <3>6 DEF Excused
    <3> QED BY <1>5, <3>7 DEF Accounted
  <2> QED BY <2>2, <2>3, <2>4, <2>5
<1> QED BY <1>9, <1>10

LEMMA StreamsPreserved ==
  ASSUME BInv, DInv, SInv, [Next]_vars, Record
  PROVE  StreamsAccounted'
<1> SUFFICES ASSUME NEW q \in Members, NEW g \in Groups, GroupOf(q)' = g,
                    NEW m \in ToSet(stream'[q]), NEW o \in 0 .. (m.off - 1)
             PROVE  Accounted(g, m.key, o)'
  BY DEF StreamsAccounted
<1>1. stream \in [Members -> Seq(Msgs)] /\ ToSet(<<>>) = {}
  BY DEF BInv, DataTyped, ToSet
<1>2. h[q].pc # "idle"
  BY <1>1, StreamComesFrom DEF SendHistory, LoopSolo, LoopGroup, DInv, IdleIsBlank
<1>3. GroupOf(q) = g /\ g # NoGroup
  BY <1>2, StartedStays, BrokerAssumption DEF GroupOf, BrokerAssumption
<1>4. CASE m \in ToSet(stream[q])
  <2>1. m.key \in Keys
    BY <1>4, StreamTyped
  <2>2. Accounted(g, m.key, o)
    BY <1>3, <1>4 DEF SInv, StreamsAccounted
  <2> QED BY <2>1, <2>2, AccountedStays DEF SInv
<1>5. CASE SendHistory(q) /\ m = MsgAt(KeyOf(q), h[q].next)
  <2>1. m.key = KeyOf(q) /\ m.off = h[q].next /\ KeyOf(q) \in Keys
    BY <1>2, <1>5, HandlerFacts DEF MsgAt
  <2>2. Accounted(g, m.key, o)
    BY <1>3, <1>5, <2>1, HistoryAccounted
  <2> QED BY <2>1, <2>2, AccountedStays DEF SInv
<1>6. CASE LoopGroup(q) /\ m = Head(central[q])
  BY <1>3, <1>6, LiveAccounted
<1>7. ~LoopSolo(q)
  BY <1>3 DEF LoopSolo
<1> QED BY <1>4, <1>5, <1>6, <1>7, StreamComesFrom
-----------------------------------------------------------------------------
(* Where a group starts, and what it commits. *)

\* Group clients ask to resume (client/consumer sends the offset -1).
GroupsResume == \A r \in Requests : r.group \in Groups => r.offset < 0

\* A new read starts behind the commit, or at 0.
LEMMA ReadsResume ==
  ASSUME GroupsResume, BInv, NEW q \in Members, NextPartition(q)
  PROVE  /\ GroupOf(q) \in Groups /\ KeyOf(q)' \in Keys
         /\ h'[q].next \in {0, commits[GroupOf(q)][KeyOf(q)'] + 1}
<1>1. h \in [Members -> HandlerType] /\ h[q] \in HandlerType /\ h[q].pc = "next"
  BY DEF NextPartition, BInv, ControlTyped
<1>2. /\ GroupOf(q) \in Groups /\ h[q].req \in Requests /\ h[q].req.topic \in Topics
      /\ h[q].todo \subseteq PartitionsOf(h[q].req.topic)
  BY <1>1, HandlerFacts DEF BInv, HandlersOK
<1>3. PICK p \in h[q].todo : \E o \in StartOffsets(q, p) :
        h' = [h EXCEPT ![q].pc = "read", ![q].todo = @ \ {p}, ![q].cur = p, ![q].next = o]
  BY DEF NextPartition
<1>4. PICK o \in StartOffsets(q, p) :
        h'[q] = [h[q] EXCEPT !.pc = "read", !.todo = @ \ {p}, !.cur = p, !.next = o]
  BY <1>1, <1>3
<1> DEFINE a == h[q]
           b == h'[q]
<1> HIDE DEF a, b
<1>5. b = [a EXCEPT !.pc = "read", !.todo = @ \ {p}, !.cur = p, !.next = o]
  BY <1>4 DEF a, b
<1>6. DOMAIN a = {"pc", "req", "todo", "cur", "next", "end", "ret"}
  BY <1>1 DEF a, HandlerType
<1>7. b.req = a.req /\ b.cur = p /\ b.next = o
  BY <1>5, <1>6
<1>8. h'[q].req = h[q].req /\ h'[q].cur = p /\ h'[q].next = o
  BY <1>7 DEF a, b
<1>9. KeyOf(q)' = <<h[q].req.topic, p>> /\ <<h[q].req.topic, p>> \in Keys
  BY <1>2, <1>3, <1>8 DEF KeyOf, Keys
<1>10. h[q].req.offset \in Int /\ h[q].req.offset < 0
  BY <1>2, RequestFacts DEF GroupsResume, GroupOf
<1>11. o \in ResumeOffsets(GroupOf(q), <<h[q].req.topic, p>>)
  BY <1>4, <1>10 DEF StartOffsets
<1> QED BY <1>2, <1>8, <1>9, <1>11 DEF ResumeOffsets

LEMMA StartsPreserved ==
  ASSUME GroupsResume, BInv, DInv, SInv, [Next]_vars, Record
  PROVE  StartsAccounted'
<1>1. ASSUME NEW q \in Members, h'[q].pc = "idle", NEW k \in Keys
      PROVE  from'[<<q, k>>] = 0
  <2>1. h[q].pc = "idle" /\ <<q, k>> \in Chans
    BY <1>1, StartedStays DEF Chans
  <2>2. from'[<<q, k>>] = from[<<q, k>>]
    BY <2>1, FromMoves DEF ReadHistory
  <2> QED BY <2>1, <2>2 DEF SInv, StartsAccounted
<1>2. ASSUME NEW q \in Members, NEW g \in Groups, GroupOf(q)' = g, NEW k \in Keys,
             NEW o \in 0 .. (from'[<<q, k>>] - 1)
      PROVE  Accounted(g, k, o)'
  <2>1. <<q, k>> \in Chans /\ from[<<q, k>>] \in Nat
    BY DEF Chans, BInv, DataTyped
  <2>2. CASE from'[<<q, k>>] = from[<<q, k>>]
    <3>1. h[q].pc # "idle"
      BY <1>2, <2>2 DEF SInv, StartsAccounted
    <3>2. GroupOf(q) = g
      BY <1>2, <3>1, StartedStays DEF GroupOf
    <3>3. Accounted(g, k, o)
      BY <1>2, <2>2, <3>2 DEF SInv, StartsAccounted
    <3> QED BY <3>3, AccountedStays DEF SInv
  <2>3. CASE ReadHistory(q) /\ <<q, k>> = ChanOf(q)
    <3>1. h[q].pc = "read" /\ from' = [from EXCEPT ![ChanOf(q)] = h[q].next] /\ k = KeyOf(q)
      BY <2>3 DEF ReadHistory, ChanOf
    <3>2. GroupOf(q) = g
      BY <1>2, <3>1, StartedStays DEF GroupOf
    <3>3. from'[<<q, k>>] = h[q].next
      BY <2>1, <2>3, <3>1 DEF BInv, DataTyped
    <3>4. Accounted(g, k, o)
      BY <1>2, <3>1, <3>2, <3>3 DEF SInv, StartsAccounted
    <3> QED BY <3>4, AccountedStays DEF SInv
  <2> QED BY <2>1, <2>2, <2>3, FromMoves
<1>3. ASSUME NEW q \in Members, NEW g \in Groups, GroupOf(q)' = g, h'[q].pc = "read",
             NEW o \in 0 .. (h'[q].next - 1), NEW k, k = KeyOf(q)'
      PROVE  Accounted(g, k, o)'
  <2>1. ~\E r \in Requests : SubscribeSolo(q, r)
    BY <1>3, SoloMoves, BrokerAssumption DEF GroupOf, BrokerAssumption
  <2>2. h'[q] = h[q] \/ NextPartition(q)
    BY <1>3, <2>1, HandlerMoves, GroupMoves, ReadHistoryMoves, SendHistoryMoves, EarlyMoves,
       RegisterMoves, LateMoves DEF Turns, Moves
  <2>3. CASE h'[q] = h[q]
    <3>1. GroupOf(q) = g /\ k = KeyOf(q) /\ h[q].pc = "read"
      BY <1>3, <2>3 DEF GroupOf, KeyOf
    <3>2. k \in Keys
      BY <3>1, HandlerFacts
    <3>3. Accounted(g, k, o)
      BY <1>3, <2>3, <3>1 DEF SInv, StartsAccounted
    <3> QED BY <3>2, <3>3, AccountedStays DEF SInv
  <2>4. CASE NextPartition(q)
    <3>1. GroupOf(q) = g
      BY <1>3, <2>4, NextPartitionMoves DEF Moves, GroupOf
    <3>2. k \in Keys /\ h'[q].next \in {0, commits[g][k] + 1}
      BY <1>3, <2>4, <3>1, ReadsResume
    <3>3. commits[g][k] \in Int
      BY <3>2 DEF BInv, DataTyped
    <3>4. o \in 0 .. commits[g][k]
      BY <1>3, <3>2, <3>3
    <3>5. Accounted(g, k, o)
      BY <3>2, <3>4 DEF SInv, SkipsAccounted, Accounted
    <3> QED BY <3>2, <3>5, AccountedStays DEF SInv
  <2> QED BY <2>2, <2>3, <2>4
<1> QED BY <1>1, <1>2, <1>3 DEF StartsAccounted

LEMMA SkipsPreserved ==
  ASSUME BInv, DInv, SInv, [Next]_vars, Record
  PROVE  SkipsAccounted'
<1> SUFFICES ASSUME NEW g \in Groups, NEW k \in Keys, NEW o \in 0 .. commits'[g][k]
             PROVE  Accounted(g, k, o)'
  BY DEF SkipsAccounted, Accounted
<1>1. CASE commits'[g][k] = commits[g][k]
  <2>1. Accounted(g, k, o)
    BY <1>1 DEF SInv, SkipsAccounted, Accounted
  <2> QED BY <2>1, AccountedStays DEF SInv
<1>2. ASSUME NEW s \in Members, GroupOf(s) = g, MsgAt(k, commits'[g][k]) \in ToSet(stream[s])
      PROVE  Accounted(g, k, o)'
  <2>1. MsgAt(k, commits'[g][k]).key = k /\ MsgAt(k, commits'[g][k]).off = commits'[g][k]
    BY DEF MsgAt
  <2>2. CASE o = commits'[g][k]
    <3>1. Accounted(g, k, o)
      BY <1>2, <2>2 DEF Accounted, Has
    <3> QED BY <3>1, AccountedStays DEF SInv
  <2>3. CASE o # commits'[g][k]
    <3>1. commits'[g][k] \in Int
      BY BPreserved DEF BInv, DataTyped
    <3>2. o \in 0 .. (commits'[g][k] - 1)
      BY <2>3, <3>1
    <3>3. Accounted(g, k, o)
      BY <1>2, <2>1, <3>2 DEF SInv, StreamsAccounted
    <3> QED BY <3>3, AccountedStays DEF SInv
  <2> QED BY <2>2, <2>3
<1> QED BY <1>1, <1>2, CommitSteps

\* A stop loses what is on its way, and all that was on its way was announced or is in
\* the log: what was accounted for stays so.
LEMMA CrashKeepsSInv ==
  ASSUME BInv, DInv, SInv, Crash
  PROVE  SInv'
<1>1. ASSUME NEW g \in Groups, NEW k \in Keys, NEW o, Accounted(g, k, o)
      PROVE  Accounted(g, k, o)'
  <2>1. \A s \in Members : GroupOf(s)' = GroupOf(s)
    BY CrashedHandlers DEF GroupOf
  <2>2. /\ unannounced[k] \subseteq unannounced'[k]
        /\ UNCHANGED <<stream, gap, dropped, overtaken>>
    BY DEF Crash
  <2> QED BY <1>1, <2>1, <2>2 DEF Accounted, Has, Excused, MsgAt
<1>2. GapsAreMade'
  <2> SUFFICES ASSUME NEW c \in Chans, gap[c] # {}
               PROVE  h'[c[1]].pc = "returned"
    BY DEF Crash, GapsAreMade
  <2>1. c[1] \in Members /\ c \in ChansOf(c[1])
    BY DEF Chans, ChansOf
  <2>2. h[c[1]].pc # "idle"
    BY <2>1 DEF SInv, GapsAreMade, DInv, NothingAhead
  <2>3. h[c[1]] \in HandlerType
    BY <2>1 DEF BInv, ControlTyped
  <2> QED BY <2>1, <2>2, <2>3 DEF Crash, HandlerType
<1>3. FlightOK'
  BY DEF Crash, FlightOK, Idle, ToSet
<1>4. StartsAccounted'
  <2>1. ASSUME NEW s \in Members
        PROVE  /\ h'[s].pc # "read" /\ (h'[s].pc = "idle" => h[s].pc = "idle")
               /\ GroupOf(s)' = GroupOf(s) /\ from' = from
    BY CrashedHandlers DEF Crash, GroupOf
  <2>2. ASSUME NEW s \in Members, h'[s].pc = "idle", NEW k \in Keys
        PROVE  from'[<<s, k>>] = 0
    BY <2>1, <2>2 DEF SInv, StartsAccounted
  <2>3. ASSUME NEW s \in Members, NEW g \in Groups, GroupOf(s)' = g, NEW k \in Keys,
               NEW o \in 0 .. (from'[<<s, k>>] - 1)
        PROVE  Accounted(g, k, o)'
    BY <1>1, <2>1, <2>3 DEF SInv, StartsAccounted
  <2> QED BY <2>1, <2>2, <2>3 DEF StartsAccounted
<1>5. StreamsAccounted'
  <2> SUFFICES ASSUME NEW s \in Members, NEW g \in Groups, GroupOf(s)' = g,
                      NEW m \in ToSet(stream'[s]), NEW o \in 0 .. (m.off - 1)
               PROVE  Accounted(g, m.key, o)'
    BY DEF StreamsAccounted
  <2>1. GroupOf(s) = g /\ m \in ToSet(stream[s])
    BY CrashedHandlers DEF Crash, GroupOf
  <2>2. m.key \in Keys
    BY <2>1, StreamTyped
  <2>3. Accounted(g, m.key, o)
    BY <2>1 DEF SInv, StreamsAccounted
  <2> QED BY <1>1, <2>2, <2>3
<1>6. SkipsAccounted'
  <2> SUFFICES ASSUME NEW g \in Groups, NEW k \in Keys, NEW o \in 0 .. commits'[g][k]
               PROVE  Accounted(g, k, o)'
    BY DEF SkipsAccounted, Accounted
  <2>1. Accounted(g, k, o)
    BY DEF Crash, SInv, SkipsAccounted, Accounted
  <2> QED BY <1>1, <2>1
<1> QED BY <1>2, <1>3, <1>4, <1>5, <1>6 DEF SInv

\* If the clients of groups ask to resume, a group is never resumed past a message that
\* none of its members has received, but for the four reasons of SkipsAccounted;
\* through any number of stops, takeovers and failures of the store.
THEOREM NothingElseIsSkipped ==
  ASSUME GroupsResume
  PROVE  RestartSpec => []SkipsAccounted
<1>1. RestartInit => SInv
  <2> SUFFICES ASSUME RestartInit PROVE SInv
    OBVIOUS
  <2>1. GapsAreMade /\ FlightOK
    BY DEF RestartInit, Init, GapsAreMade, FlightOK, Idle, ToSet
  <2>2. StartsAccounted
    <3>1. \A s \in Members : GroupOf(s) = NoGroup
      BY DEF RestartInit, Init, GroupOf, NoReq
    <3>2. \A s \in Members, k \in Keys : from[<<s, k>>] = 0
      BY DEF RestartInit, Init, Chans
    <3> QED BY <3>1, <3>2, BrokerAssumption DEF StartsAccounted, BrokerAssumption
  <2>3. StreamsAccounted /\ SkipsAccounted
    BY DEF RestartInit, Init, StreamsAccounted, SkipsAccounted, ToSet
  <2> QED BY <2>1, <2>2, <2>3 DEF SInv
<1>2. BInv /\ DInv /\ SInv /\ [RestartNext]_restartVars => SInv'
  <2> SUFFICES ASSUME BInv, DInv, SInv, [RestartNext]_restartVars
               PROVE  SInv'
    OBVIOUS
  <2>1. CASE Crash
    BY <2>1, CrashKeepsSInv
  <2>2. CASE [Next]_vars /\ Record
    BY <2>2, GapsPreserved, FlightPreserved, StartsPreserved, StreamsPreserved, SkipsPreserved
       DEF SInv
  <2>3. CASE UNCHANGED restartVars
    BY <2>2, <2>3 DEF restartVars, vars, gmVars, Record
  <2> QED BY <2>1, <2>2, <2>3 DEF RestartNext
<1>3. SInv => SkipsAccounted
  BY DEF SInv
<1> QED BY <1>1, <1>2, <1>3, RestartInvariance, PTL DEF RestartSpec
-----------------------------------------------------------------------------
(* Order and duplicates: the messages of a channel, from the one received first *)
(* to the one sent last, form one line.                                         *)

\* The positions of key k in a line.
Mine(L, k) == {i \in DOMAIN L : L[i].key = k}

InLog(L, k, n) == \A i \in Mine(L, k) : L[i].off < n

\* PublisherOrder, for one line.
InOrder(L, k, log) ==
  \A i, j \in Mine(L, k) :
    i < j /\ log[L[i].off + 1] = log[L[j].off + 1] => L[i].off <= L[j].off

\* DuplicatesOnlyAtHandover, for one line; u is where its live part began.
Handed(L, k, u) ==
  \A i, j \in Mine(L, k) : i < j /\ L[i].off = L[j].off =>
    /\ L[i].off < u
    /\ \A l \in Mine(L, k) : L[l].off = L[i].off => l \in {i, j}

\* What may still join the line has joined it once at most, and then as history.
OnceYet(L, k, u, o) ==
  \A i, j \in Mine(L, k) : L[i].off = o /\ L[j].off = o => i = j /\ o < u

\* Line M holds before position x of the messages of key k what L holds, in the same
\* order, and behind x none.
Follows(M, L, k, x) ==
  \E f \in [DOMAIN M -> Nat] :
    /\ \A i \in Mine(M, k) : i <= x
    /\ \A i \in Mine(M, k) : i < x => f[i] \in Mine(L, k) /\ L[f[i]] = M[i]
    /\ \A i, j \in Mine(M, k) : i < j /\ j < x => f[i] < f[j]

\* Line M holds of key k what L holds.
Embeds(M, L, k) == Follows(M, L, k, Len(M) + 1)

\* Nothing its publisher has published since is in the log.
Latest(log, n, o) == \A q \in 0 .. (n - 1) : log[q + 1] = log[o + 1] => q <= o

\* What is in the line has the properties it had ...
LEMMA Carry ==
  ASSUME NEW M \in Seq(Msgs), NEW L \in Seq(Msgs), NEW k, Embeds(M, L, k),
         NEW log, NEW u, NEW n
  PROVE  /\ InLog(L, k, n) => InLog(M, k, n)
         /\ InOrder(L, k, log) => InOrder(M, k, log)
         /\ Handed(L, k, u) => Handed(M, k, u)
         /\ \A o : OnceYet(L, k, u, o) => OnceYet(M, k, u, o)
<1>1. PICK f \in [DOMAIN M -> Nat] :
        /\ \A i \in Mine(M, k) : i < Len(M) + 1 => f[i] \in Mine(L, k) /\ L[f[i]] = M[i]
        /\ \A i, j \in Mine(M, k) : i < j /\ j < Len(M) + 1 => f[i] < f[j]
  BY DEF Embeds, Follows
<1>2. \A i \in Mine(M, k) : i \in Nat /\ i < Len(M) + 1
  BY DEF Mine
<1>3. /\ \A i \in Mine(M, k) : f[i] \in Mine(L, k) /\ L[f[i]] = M[i] /\ f[i] \in Nat
      /\ \A i, j \in Mine(M, k) : i < j => f[i] < f[j]
  BY <1>1, <1>2 DEF Mine
<1>4. \A i, j \in Mine(M, k) : f[i] = f[j] => i = j
  BY <1>2, <1>3
<1>5. ASSUME InLog(L, k, n)
      PROVE  InLog(M, k, n)
  BY <1>3, <1>5 DEF InLog
<1>6. ASSUME InOrder(L, k, log)
      PROVE  InOrder(M, k, log)
  BY <1>3, <1>6 DEF InOrder
<1>7. ASSUME Handed(L, k, u)
      PROVE  Handed(M, k, u)
  <2> SUFFICES ASSUME NEW i \in Mine(M, k), NEW j \in Mine(M, k), i < j, M[i].off = M[j].off
               PROVE  /\ M[i].off < u
                      /\ \A l \in Mine(M, k) : M[l].off = M[i].off => l \in {i, j}
    BY DEF Handed
  <2>1. /\ f[i] \in Mine(L, k) /\ f[j] \in Mine(L, k) /\ f[i] < f[j]
        /\ L[f[i]] = M[i] /\ L[f[j]] = M[j]
    BY <1>3
  <2>2. /\ M[i].off < u
        /\ \A l \in Mine(L, k) : L[l].off = M[i].off => l \in {f[i], f[j]}
    BY <1>7, <2>1 DEF Handed
  <2>3. ASSUME NEW l \in Mine(M, k), M[l].off = M[i].off
        PROVE  l \in {i, j}
    <3>1. f[l] \in {f[i], f[j]}
      BY <1>3, <2>2, <2>3
    <3> QED BY <1>4, <3>1
  <2> QED BY <2>2, <2>3
<1>8. ASSUME NEW o, OnceYet(L, k, u, o)
      PROVE  OnceYet(M, k, u, o)
  BY <1>3, <1>4, <1>8 DEF OnceYet
<1> QED BY <1>5, <1>6, <1>7, <1>8

\* ... and a message that joins it joins it at the end.
LEMMA JoinsLast ==
  ASSUME NEW M \in Seq(Msgs), NEW L \in Seq(Msgs), NEW k, NEW x \in Mine(M, k), Follows(M, L, k, x),
         NEW log, NEW u, NEW n \in Nat
  PROVE  /\ InLog(L, k, n) /\ M[x].off < n => InLog(M, k, n)
         /\ InOrder(L, k, log) /\ InLog(L, k, n) /\ Latest(log, n, M[x].off) => InOrder(M, k, log)
         /\ Handed(L, k, u) /\ OnceYet(L, k, u, M[x].off) => Handed(M, k, u)
         /\ \A o : OnceYet(L, k, u, o) /\ o # M[x].off => OnceYet(M, k, u, o)
<1>1. PICK f \in [DOMAIN M -> Nat] :
        /\ \A i \in Mine(M, k) : i <= x
        /\ \A i \in Mine(M, k) : i < x => f[i] \in Mine(L, k) /\ L[f[i]] = M[i]
        /\ \A i, j \in Mine(M, k) : i < j /\ j < x => f[i] < f[j]
  BY DEF Follows
<1>2. ASSUME NEW q \in Seq(Msgs), NEW i \in Mine(q, k)
      PROVE  i \in Nat /\ q[i].off \in Nat
  <2>1. i \in 1 .. Len(q) /\ q[i] \in Msgs
    BY <1>2 DEF Mine
  <2> QED BY <2>1 DEF Msgs
<1>3. /\ \A i \in Mine(M, k) : i \in Nat /\ M[i].off \in Nat /\ (i = x \/ i < x)
      /\ \A i \in Mine(L, k) : i \in Nat /\ L[i].off \in Nat
      /\ \A i \in Mine(M, k) : f[i] \in Nat
  <2>1. \A i \in Mine(M, k) : i \in DOMAIN M /\ i \in Nat /\ M[i].off \in Nat
    BY <1>2 DEF Mine
  <2>2. \A i \in Mine(L, k) : i \in Nat /\ L[i].off \in Nat
    BY <1>2
  <2> QED BY <1>1, <2>1, <2>2
<1>4. \A i, j \in Mine(M, k) : i < x /\ j < x /\ f[i] = f[j] => i = j
  BY <1>1, <1>3
<1>5. ASSUME InLog(L, k, n), M[x].off < n
      PROVE  InLog(M, k, n)
  BY <1>1, <1>3, <1>5 DEF InLog
<1>6. ASSUME InOrder(L, k, log), InLog(L, k, n), Latest(log, n, M[x].off)
      PROVE  InOrder(M, k, log)
  <2> SUFFICES ASSUME NEW i \in Mine(M, k), NEW j \in Mine(M, k), i < j,
                      log[M[i].off + 1] = log[M[j].off + 1]
               PROVE  M[i].off <= M[j].off
    BY DEF InOrder
  <2>1. i < x /\ f[i] \in Mine(L, k) /\ L[f[i]] = M[i]
    BY <1>1, <1>3
  <2>2. CASE j = x
    <3>1. M[i].off < n /\ M[i].off \in Nat
      BY <1>3, <1>6, <2>1 DEF InLog
    <3>2. M[i].off \in 0 .. (n - 1)
      BY <3>1
    <3> QED BY <1>6, <2>2, <3>2 DEF Latest
  <2>3. CASE j < x
    <3>1. f[j] \in Mine(L, k) /\ L[f[j]] = M[j] /\ f[i] < f[j]
      BY <1>1, <2>3
    <3> QED BY <1>6, <2>1, <3>1 DEF InOrder
  <2> QED BY <1>3, <2>2, <2>3
<1>7. ASSUME Handed(L, k, u), OnceYet(L, k, u, M[x].off)
      PROVE  Handed(M, k, u)
  <2> SUFFICES ASSUME NEW i \in Mine(M, k), NEW j \in Mine(M, k), i < j, M[i].off = M[j].off
               PROVE  /\ M[i].off < u
                      /\ \A l \in Mine(M, k) : M[l].off = M[i].off => l \in {i, j}
    BY DEF Handed
  <2>1. i < x /\ f[i] \in Mine(L, k) /\ L[f[i]] = M[i]
    BY <1>1, <1>3
  <2>2. CASE j = x
    <3>1. L[f[i]].off = M[x].off
      BY <2>1, <2>2
    <3>2. M[i].off < u
      BY <1>7, <2>1, <3>1 DEF OnceYet
    <3>3. ASSUME NEW l \in Mine(M, k), M[l].off = M[i].off, l < x
          PROVE  l = i
      <4>1. f[l] \in Mine(L, k) /\ L[f[l]].off = M[x].off
        BY <1>1, <2>2, <3>3
      <4>2. f[l] = f[i]
        BY <1>7, <2>1, <3>1, <4>1 DEF OnceYet
      <4> QED BY <1>4, <2>1, <3>3, <4>2
    <3> QED BY <1>3, <2>2, <3>2, <3>3
  <2>3. CASE j < x
    <3>1. f[j] \in Mine(L, k) /\ L[f[j]] = M[j] /\ f[i] < f[j]
      BY <1>1, <2>3
    <3>2. L[f[i]].off = L[f[j]].off
      BY <2>1, <3>1
    <3>3. /\ M[i].off < u
          /\ \A l \in Mine(L, k) : L[l].off = L[f[i]].off => l \in {f[i], f[j]}
      BY <1>7, <2>1, <3>1, <3>2 DEF Handed
    <3>4. M[x].off # M[i].off
      <4> SUFFICES ASSUME M[x].off = M[i].off PROVE FALSE
        OBVIOUS
      <4>1. f[i] = f[j]
        BY <1>7, <2>1, <3>1, <3>2 DEF OnceYet
      <4> QED BY <1>3, <3>1, <4>1
    <3>5. ASSUME NEW l \in Mine(M, k), M[l].off = M[i].off
          PROVE  l \in {i, j}
      <4>1. l < x
        BY <1>3, <3>4, <3>5
      <4>2. f[l] \in Mine(L, k) /\ L[f[l]].off = L[f[i]].off
        BY <1>1, <2>1, <3>5, <4>1
      <4>3. f[l] \in {f[i], f[j]}
        BY <3>3, <4>2
      <4> QED BY <1>4, <2>1, <2>3, <4>1, <4>3
    <3> QED BY <3>3, <3>5
  <2> QED BY <1>3, <2>2, <2>3
<1>8. ASSUME NEW o, OnceYet(L, k, u, o), o # M[x].off
      PROVE  OnceYet(M, k, u, o)
  <2> SUFFICES ASSUME NEW i \in Mine(M, k), NEW j \in Mine(M, k), M[i].off = o, M[j].off = o
               PROVE  i = j /\ o < u
    BY DEF OnceYet
  <2>1. i < x /\ j < x
    BY <1>3, <1>8
  <2>2. f[i] \in Mine(L, k) /\ f[j] \in Mine(L, k) /\ L[f[i]].off = o /\ L[f[j]].off = o
    BY <1>1, <2>1
  <2>3. f[i] = f[j] /\ o < u
    BY <1>8, <2>2 DEF OnceYet
  <2> QED BY <1>4, <2>1, <2>3
<1>9. InLog(L, k, n) /\ M[x].off < n => InLog(M, k, n)
  BY <1>5
<1>10. InOrder(L, k, log) /\ InLog(L, k, n) /\ Latest(log, n, M[x].off) => InOrder(M, k, log)
  BY <1>6
<1>11. Handed(L, k, u) /\ OnceYet(L, k, u, M[x].off) => Handed(M, k, u)
  BY <1>7
<1>12. \A o : OnceYet(L, k, u, o) /\ o # M[x].off => OnceYet(M, k, u, o)
  BY <1>8
<1>13. QED BY <1>9, <1>10, <1>11, <1>12

LEMMA Ends ==
  ASSUME NEW A \in Seq(Msgs), NEW B \in Seq(Msgs)
  PROVE  /\ A \o B \in Seq(Msgs) /\ Len(A) \in Nat /\ Len(B) \in Nat
         /\ Len(A \o B) = Len(A) + Len(B)
         /\ \A i \in 1 .. Len(A) : (A \o B)[i] = A[i]
         /\ \A i \in 1 .. Len(B) : (A \o B)[i + Len(A)] = B[i]
<1> DEFINE P == A \o B
<1>1. Len(A) \in Nat /\ Len(B) \in Nat
  BY LenProperties
<1>2. /\ P \in Seq(Msgs) /\ Len(P) = Len(A) + Len(B)
      /\ \A i \in 1 .. Len(A) + Len(B) : P[i] = IF i <= Len(A) THEN A[i] ELSE B[i - Len(A)]
  BY ConcatProperties
<1> HIDE DEF P
<1>3. ASSUME NEW i \in 1 .. Len(A)
      PROVE  P[i] = A[i]
  BY <1>1, <1>2
<1>4. ASSUME NEW i \in 1 .. Len(B)
      PROVE  P[i + Len(A)] = B[i]
  <2>1. i + Len(A) \in 1 .. Len(A) + Len(B) /\ ~(i + Len(A) <= Len(A)) /\ i + Len(A) - Len(A) = i
    BY <1>1
  <2> QED BY <1>2, <2>1
<1>5. /\ P \in Seq(Msgs) /\ Len(P) = Len(A) + Len(B)
      /\ \A i \in 1 .. Len(A) : P[i] = A[i]
      /\ \A i \in 1 .. Len(B) : P[i + Len(A)] = B[i]
  BY <1>2, <1>3, <1>4
<1> QED BY <1>1, <1>5 DEF P

LEMMA Parts ==
  ASSUME NEW A \in Seq(Msgs), NEW H \in Seq(Msgs), NEW B \in Seq(Msgs)
  PROVE  /\ A \o H \o B \in Seq(Msgs)
         /\ Len(A \o H \o B) = Len(A) + Len(H) + Len(B)
         /\ \A i \in 1 .. Len(A) : (A \o H \o B)[i] = A[i]
         /\ \A i \in 1 .. Len(H) : (A \o H \o B)[i + Len(A)] = H[i]
         /\ \A i \in 1 .. Len(B) : (A \o H \o B)[i + Len(A) + Len(H)] = B[i]
<1>1. PICK P \in Seq(Msgs) : P = A \o H
  BY Ends
<1>2. /\ Len(A) \in Nat /\ Len(H) \in Nat /\ Len(P) = Len(A) + Len(H)
      /\ \A i \in 1 .. Len(A) : P[i] = A[i]
      /\ \A i \in 1 .. Len(H) : P[i + Len(A)] = H[i]
  BY <1>1, Ends
<1>3. PICK L \in Seq(Msgs) : L = P \o B
  BY Ends
<1>4. /\ Len(B) \in Nat /\ Len(L) = Len(P) + Len(B)
      /\ \A i \in 1 .. Len(P) : L[i] = P[i]
      /\ \A i \in 1 .. Len(B) : L[i + Len(P)] = B[i]
  BY <1>3, Ends
<1>5. \A i \in 1 .. Len(A) : L[i] = A[i]
  BY <1>2, <1>4
<1>6. \A i \in 1 .. Len(H) : L[i + Len(A)] = H[i]
  BY <1>2, <1>4
<1>7. \A i \in 1 .. Len(B) : i + Len(P) = i + Len(A) + Len(H)
  BY <1>2
<1>8. \A i \in 1 .. Len(B) : L[i + Len(A) + Len(H)] = B[i]
  BY <1>4, <1>7
<1>9. L = A \o H \o B
  BY <1>1, <1>3
<1> QED BY <1>2, <1>4, <1>5, <1>6, <1>8, <1>9

\* A line keeps its order when something is taken out of it ...
LEMMA TakenOut ==
  ASSUME NEW A \in Seq(Msgs), NEW H \in Seq(Msgs), NEW B \in Seq(Msgs), NEW k
  PROVE  Embeds(A \o B, A \o H \o B, k)
<1> DEFINE M == A \o B
           L == A \o H \o B
           f == [i \in DOMAIN M |-> IF i <= Len(A) THEN i ELSE i + Len(H)]
<1>1. /\ M \in Seq(Msgs) /\ Len(M) = Len(A) + Len(B) /\ DOMAIN M = 1 .. Len(M)
      /\ Len(A) \in Nat /\ Len(B) \in Nat /\ Len(H) \in Nat
      /\ \A i \in 1 .. Len(A) : M[i] = A[i]
      /\ \A i \in 1 .. Len(B) : M[i + Len(A)] = B[i]
  BY Ends, LenProperties
<1>2. /\ L \in Seq(Msgs) /\ Len(L) = Len(A) + Len(H) + Len(B) /\ DOMAIN L = 1 .. Len(L)
      /\ \A i \in 1 .. Len(A) : L[i] = A[i]
      /\ \A i \in 1 .. Len(B) : L[i + Len(A) + Len(H)] = B[i]
  BY Parts, LenProperties
<1> HIDE DEF M, L
<1>3. \A i \in DOMAIN M : f[i] \in DOMAIN L /\ f[i] \in Nat /\ L[f[i]] = M[i]
  <2> SUFFICES ASSUME NEW i \in DOMAIN M
               PROVE  f[i] \in DOMAIN L /\ f[i] \in Nat /\ L[f[i]] = M[i]
    OBVIOUS
  <2>1. CASE i <= Len(A)
    <3>1. i \in 1 .. Len(A) /\ f[i] = i
      BY <1>1, <2>1
    <3> QED BY <1>1, <1>2, <3>1
  <2>2. CASE ~(i <= Len(A))
    <3>1. PICK j : j = i - Len(A)
      OBVIOUS
    <3>2. j \in 1 .. Len(B) /\ i = j + Len(A) /\ f[i] = j + Len(A) + Len(H)
      BY <1>1, <2>2, <3>1
    <3>3. L[f[i]] = M[i]
      BY <1>1, <1>2, <3>2
    <3> QED BY <1>1, <1>2, <3>2, <3>3
  <2> QED BY <2>1, <2>2
<1>4. \A i, j \in DOMAIN M : i < j => f[i] < f[j]
  BY <1>1
<1>5. f \in [DOMAIN M -> Nat] /\ \A i \in DOMAIN M : i <= Len(M) + 1
  BY <1>1, <1>3
<1> HIDE DEF f
<1>6. Embeds(M, L, k)
  <2>1. \A i \in Mine(M, k) : i \in DOMAIN M /\ f[i] \in Mine(L, k)
    BY <1>3 DEF Mine
  <2> QED BY <1>3, <1>4, <1>5, <2>1 DEF Embeds, Follows
<1> QED BY <1>6 DEF M, L

\* ... and for key k when something of another key is put into it.
LEMMA PutInto ==
  ASSUME NEW A \in Seq(Msgs), NEW H \in Seq(Msgs), NEW B \in Seq(Msgs), NEW k,
         Mine(H, k) = {}
  PROVE  Embeds(A \o H \o B, A \o B, k)
<1> DEFINE L == A \o B
           M == A \o H \o B
           f == [i \in DOMAIN M |-> IF i <= Len(A) + Len(H) THEN i ELSE i - Len(H)]
<1>1. /\ L \in Seq(Msgs) /\ Len(L) = Len(A) + Len(B) /\ DOMAIN L = 1 .. Len(L)
      /\ Len(A) \in Nat /\ Len(B) \in Nat /\ Len(H) \in Nat /\ DOMAIN H = 1 .. Len(H)
      /\ \A i \in 1 .. Len(A) : L[i] = A[i]
      /\ \A i \in 1 .. Len(B) : L[i + Len(A)] = B[i]
  BY Ends, LenProperties
<1>2. /\ M \in Seq(Msgs) /\ Len(M) = Len(A) + Len(H) + Len(B) /\ DOMAIN M = 1 .. Len(M)
      /\ \A i \in 1 .. Len(A) : M[i] = A[i]
      /\ \A i \in 1 .. Len(H) : M[i + Len(A)] = H[i]
      /\ \A i \in 1 .. Len(B) : M[i + Len(A) + Len(H)] = B[i]
  BY Parts, LenProperties
<1> HIDE DEF M, L
<1>3. \A i \in Mine(M, k) : i \in DOMAIN M /\ (i <= Len(A) \/ i > Len(A) + Len(H))
  <2> SUFFICES ASSUME NEW i \in Mine(M, k), ~(i <= Len(A)), i <= Len(A) + Len(H), i \in 1 .. Len(M)
               PROVE  FALSE
    BY <1>1, <1>2 DEF Mine
  <2>1. PICK j : j = i - Len(A)
    OBVIOUS
  <2>2. j \in 1 .. Len(H) /\ i = j + Len(A)
    BY <1>1, <2>1
  <2>3. H[j] = M[i]
    BY <1>2, <2>2
  <2>4. j \in Mine(H, k)
    BY <1>1, <2>2, <2>3 DEF Mine
  <2> QED BY <2>4
<1>4. \A i \in Mine(M, k) : f[i] \in DOMAIN L /\ f[i] \in Nat /\ L[f[i]] = M[i]
  <2> SUFFICES ASSUME NEW i \in Mine(M, k)
               PROVE  f[i] \in DOMAIN L /\ f[i] \in Nat /\ L[f[i]] = M[i]
    OBVIOUS
  <2>1. CASE i <= Len(A)
    <3>1. i \in 1 .. Len(A) /\ f[i] = i
      BY <1>1, <1>2, <1>3, <2>1
    <3> QED BY <1>1, <1>2, <3>1
  <2>2. CASE i > Len(A) + Len(H)
    <3>1. PICK j : j = i - Len(A) - Len(H)
      OBVIOUS
    <3>2. j \in 1 .. Len(B) /\ i = j + Len(A) + Len(H) /\ f[i] = j + Len(A)
      BY <1>1, <1>2, <1>3, <2>2, <3>1
    <3>3. L[f[i]] = M[i]
      BY <1>1, <1>2, <3>2
    <3> QED BY <1>1, <1>2, <3>2, <3>3
  <2> QED BY <1>3, <2>1, <2>2
<1>5. \A i, j \in Mine(M, k) : i < j => f[i] < f[j]
  BY <1>1, <1>2, <1>3
<1>6. f \in [DOMAIN M -> Nat] /\ \A i \in Mine(M, k) : i <= Len(M) + 1
  BY <1>1, <1>2, <1>3
<1> HIDE DEF f
<1>7. Embeds(M, L, k)
  <2>1. \A i \in Mine(M, k) : f[i] \in Mine(L, k)
    BY <1>4 DEF Mine
  <2> QED BY <1>4, <1>5, <1>6, <2>1 DEF Embeds, Follows
<1> QED BY <1>7 DEF M, L

\* A message that is put behind all others of its key joins the line.
LEMMA PutLast ==
  ASSUME NEW A \in Seq(Msgs), NEW B \in Seq(Msgs), NEW m \in Msgs, Mine(B, m.key) = {}
  PROVE  /\ Follows(A \o <<m>> \o B, A \o B, m.key, Len(A) + 1)
         /\ Len(A) + 1 \in Mine(A \o <<m>> \o B, m.key)
         /\ (A \o <<m>> \o B)[Len(A) + 1] = m
<1> DEFINE H == <<m>>
           L == A \o B
           M == A \o H \o B
           k == m.key
           x == Len(A) + 1
           f == [i \in DOMAIN M |-> i]
<1>1. H \in Seq(Msgs) /\ Len(H) = 1 /\ H[1] = m
  OBVIOUS
<1> HIDE DEF H
<1>2. /\ L \in Seq(Msgs) /\ Len(L) = Len(A) + Len(B) /\ DOMAIN L = 1 .. Len(L)
      /\ Len(A) \in Nat /\ Len(B) \in Nat /\ DOMAIN B = 1 .. Len(B)
      /\ \A i \in 1 .. Len(A) : L[i] = A[i]
  BY Ends, LenProperties
<1>3. /\ M \in Seq(Msgs) /\ Len(M) = Len(A) + Len(H) + Len(B) /\ DOMAIN M = 1 .. Len(M)
      /\ \A i \in 1 .. Len(A) : M[i] = A[i]
      /\ \A i \in 1 .. Len(H) : M[i + Len(A)] = H[i]
      /\ \A i \in 1 .. Len(B) : M[i + Len(A) + Len(H)] = B[i]
  <2>1. PICK N \in Seq(Msgs) : N = H
    BY <1>1
  <2>2. /\ A \o N \o B \in Seq(Msgs) /\ Len(A \o N \o B) = Len(A) + Len(N) + Len(B)
        /\ \A i \in 1 .. Len(A) : (A \o N \o B)[i] = A[i]
        /\ \A i \in 1 .. Len(N) : (A \o N \o B)[i + Len(A)] = N[i]
        /\ \A i \in 1 .. Len(B) : (A \o N \o B)[i + Len(A) + Len(N)] = B[i]
    BY Parts
  <2>3. M = A \o N \o B
    BY <2>1
  <2> QED BY <2>1, <2>2, <2>3, LenProperties
<1> HIDE DEF M, L
<1>4. M[x] = m /\ x \in DOMAIN M
  BY <1>1, <1>2, <1>3
<1>5. \A i \in Mine(M, k) : i \in DOMAIN M /\ i <= x
  <2> SUFFICES ASSUME NEW i \in Mine(M, k), ~(i <= x), i \in 1 .. Len(M)
               PROVE  FALSE
    BY <1>3 DEF Mine
  <2>1. PICK j : j = i - Len(A) - Len(H)
    OBVIOUS
  <2>2. j \in 1 .. Len(B) /\ i = j + Len(A) + Len(H)
    BY <1>1, <1>2, <1>3, <2>1
  <2>3. B[j] = M[i]
    BY <1>3, <2>2
  <2>4. j \in Mine(B, k)
    BY <1>2, <2>2, <2>3 DEF Mine
  <2> QED BY <2>4
<1>6. \A i \in Mine(M, k) : i < x => f[i] \in Mine(L, k) /\ L[f[i]] = M[i]
  <2> SUFFICES ASSUME NEW i \in Mine(M, k), i < x
               PROVE  f[i] \in Mine(L, k) /\ L[f[i]] = M[i]
    OBVIOUS
  <2>1. i \in 1 .. Len(A) /\ f[i] = i
    BY <1>2, <1>3, <1>5
  <2>2. i \in DOMAIN L /\ L[i] = M[i]
    BY <1>2, <1>3, <2>1
  <2> QED BY <2>1, <2>2 DEF Mine
<1>7. f \in [DOMAIN M -> Nat] /\ \A i, j \in Mine(M, k) : i < j => f[i] < f[j]
  BY <1>3, <1>5
<1> HIDE DEF f
<1>8. Follows(M, L, k, x) /\ x \in Mine(M, k)
  BY <1>4, <1>5, <1>6, <1>7 DEF Follows, Mine
<1> QED BY <1>4, <1>8 DEF M, L, H

\* Message m joins the line, behind all others of its key.
Joins(M, L, m) ==
  \E x \in Mine(M, m.key) : Follows(M, L, m.key, x) /\ M[x] = m

LEMMA One ==
  ASSUME NEW m \in Msgs
  PROVE  /\ <<m>> \in Seq(Msgs) /\ Len(<<m>>) = 1 /\ <<m>>[1] = m
         /\ \A k : k # m.key => Mine(<<m>>, k) = {}
<1>1. <<m>> \in Seq(Msgs) /\ Len(<<m>>) = 1 /\ <<m>>[1] = m
  OBVIOUS
<1>2. DOMAIN <<m>> = {1}
  OBVIOUS
<1>3. \A k : k # m.key => Mine(<<m>>, k) = {}
  BY <1>1, <1>2, Zenon DEF Mine
<1> QED BY <1>1, <1>3

LEMMA Same ==
  ASSUME NEW L \in Seq(Msgs), NEW k
  PROVE  Embeds(L, L, k)
<1>1. <<>> \in Seq(Msgs) /\ L \o <<>> = L /\ L \o <<>> \o <<>> = L
  OBVIOUS
<1>2. Embeds(L \o <<>>, L \o <<>> \o <<>>, k)
  BY <1>1, TakenOut
<1> QED BY <1>1, <1>2

\* The parts of a line: what the client has received, the central channel, the
\* forwarder's hand and the buffer.
Chain(S, C, H, B) == S \o C \o H \o B
InFlight(C, H, B) == C \o H \o B
Joined(A, B) == A \o B

LEMMA ChainTyped ==
  ASSUME NEW S \in Seq(Msgs), NEW C \in Seq(Msgs), NEW H \in Seq(Msgs), NEW B \in Seq(Msgs)
  PROVE  /\ Chain(S, C, H, B) \in Seq(Msgs) /\ InFlight(C, H, B) \in Seq(Msgs)
         /\ Chain(S, C, H, B) = Joined(S, InFlight(C, H, B))
<1>1. S \o C \o H \o B \in Seq(Msgs) /\ C \o H \o B \in Seq(Msgs)
  OBVIOUS
<1>2. S \o C \o H \o B = S \o (C \o H \o B)
  OBVIOUS
<1> QED BY <1>1, <1>2 DEF Chain, InFlight, Joined

\* What each step does to a line.
LEMMA AppendJoins ==
  ASSUME NEW S \in Seq(Msgs), NEW C \in Seq(Msgs), NEW H \in Seq(Msgs), NEW B \in Seq(Msgs),
         NEW m \in Msgs
  PROVE  Joins(Chain(S, C, H, Append(B, m)), Chain(S, C, H, B), m)
<1>1. PICK L \in Seq(Msgs) : L = Chain(S, C, H, B)
  BY ChainTyped
<1>2. PICK I \in Seq(Msgs) : I = <<m>>
  BY One
<1>3. Mine(<<>>, m.key) = {}
  BY DEF Mine
<1>4. Joins(L \o I, L, m)
  <2>1. <<>> \in Seq(Msgs) /\ L \o I \o <<>> = L \o I /\ L \o <<>> = L
    OBVIOUS
  <2>2. /\ Follows(L \o I \o <<>>, L \o <<>>, m.key, Len(L) + 1)
        /\ Len(L) + 1 \in Mine(L \o I \o <<>>, m.key)
        /\ (L \o I \o <<>>)[Len(L) + 1] = m
    BY <1>2, <1>3, <2>1, PutLast
  <2> QED BY <2>1, <2>2 DEF Joins
<1>5. \A P \in Seq(Msgs) : P \o B \o I = P \o (B \o I)
  OBVIOUS
<1>6. S \o C \o H \in Seq(Msgs)
  OBVIOUS
<1>7. Chain(S, C, H, B) \o I = Chain(S, C, H, B \o I)
  BY <1>5, <1>6 DEF Chain
<1>8. Append(B, m) = B \o I
  BY <1>2, AppendIsConcat
<1> QED BY <1>1, <1>4, <1>7, <1>8

LEMMA SendJoins ==
  ASSUME NEW S \in Seq(Msgs), NEW C \in Seq(Msgs), NEW m \in Msgs, Mine(C, m.key) = {}
  PROVE  Joins(Chain(Append(S, m), C, <<>>, <<>>), Chain(S, C, <<>>, <<>>), m)
<1>1. PICK I \in Seq(Msgs) : I = <<m>>
  BY One
<1>2. /\ Follows(S \o I \o C, S \o C, m.key, Len(S) + 1)
      /\ Len(S) + 1 \in Mine(S \o I \o C, m.key)
      /\ (S \o I \o C)[Len(S) + 1] = m
  BY <1>1, PutLast
<1>3. Joins(S \o I \o C, S \o C, m)
  BY <1>2 DEF Joins
<1>4. \A P \in Seq(Msgs) : P \o C = P \o C \o <<>> \o <<>>
  OBVIOUS
<1>5. S \o I \in Seq(Msgs)
  OBVIOUS
<1>6. S \o I \o C = Chain(S \o I, C, <<>>, <<>>) /\ S \o C = Chain(S, C, <<>>, <<>>)
  BY <1>4, <1>5 DEF Chain
<1>7. Append(S, m) = S \o I
  BY <1>1, AppendIsConcat
<1> QED BY <1>3, <1>6, <1>7

LEMMA SendOtherEmbeds ==
  ASSUME NEW S \in Seq(Msgs), NEW C \in Seq(Msgs), NEW H \in Seq(Msgs), NEW B \in Seq(Msgs),
         NEW m \in Msgs, NEW k, m.key # k
  PROVE  Embeds(Chain(Append(S, m), C, H, B), Chain(S, C, H, B), k)
<1>1. PICK T \in Seq(Msgs) : T = Append(S, m)
  BY AppendProperties
<1>2. PICK R \in Seq(Msgs) : R = InFlight(C, H, B)
  BY ChainTyped
<1>3. Embeds(Joined(T, R), Joined(S, R), k)
  <2>1. PICK I \in Seq(Msgs) : I = <<m>> /\ Mine(I, k) = {}
    BY One
  <2>2. Embeds(S \o I \o R, S \o R, k)
    BY <2>1, PutInto
  <2>3. T = S \o I
    BY <1>1, <2>1, AppendIsConcat
  <2> QED BY <2>2, <2>3 DEF Joined
<1>4. Chain(T, C, H, B) = Joined(T, R) /\ Chain(S, C, H, B) = Joined(S, R)
  BY <1>2, ChainTyped
<1> QED BY <1>1, <1>3, <1>4

LEMMA PutOtherEmbeds ==
  ASSUME NEW S \in Seq(Msgs), NEW C \in Seq(Msgs), NEW H \in Seq(Msgs), NEW B \in Seq(Msgs),
         NEW G \in Seq(Msgs), NEW k, Mine(G, k) = {}
  PROVE  Embeds(Chain(S, C \o G, H, B), Chain(S, C, H, B), k)
<1>1. S \o C \in Seq(Msgs) /\ H \o B \in Seq(Msgs)
  OBVIOUS
<1>2. Embeds((S \o C) \o G \o (H \o B), (S \o C) \o (H \o B), k)
  BY <1>1, PutInto
<1>3. (S \o C) \o G \o (H \o B) = S \o (C \o G) \o H \o B
  OBVIOUS
<1>4. (S \o C) \o (H \o B) = S \o C \o H \o B
  OBVIOUS
<1> QED BY <1>2, <1>3, <1>4 DEF Chain

LEMMA AbandonEmbeds ==
  ASSUME NEW S \in Seq(Msgs), NEW C \in Seq(Msgs), NEW H \in Seq(Msgs), NEW B \in Seq(Msgs), NEW k
  PROVE  Embeds(Chain(S, C, <<>>, B), Chain(S, C, H, B), k)
<1>1. S \o C \in Seq(Msgs) /\ S \o C \o B = S \o C \o <<>> \o B
  OBVIOUS
<1>2. Embeds((S \o C) \o B, (S \o C) \o H \o B, k)
  BY <1>1, TakenOut
<1> QED BY <1>1, <1>2 DEF Chain

\* A stop leaves what has been received.
LEMMA PrefixEmbeds ==
  ASSUME NEW S \in Seq(Msgs), NEW C \in Seq(Msgs), NEW H \in Seq(Msgs), NEW B \in Seq(Msgs), NEW k
  PROVE  Embeds(Chain(S, <<>>, <<>>, <<>>), Chain(S, C, H, B), k)
<1>1. C \o H \o B \in Seq(Msgs) /\ <<>> \in Seq(Msgs)
  OBVIOUS
<1>2. Embeds(S \o <<>>, S \o (C \o H \o B) \o <<>>, k)
  BY <1>1, TakenOut
<1>3. S \o <<>> = S \o <<>> \o <<>> \o <<>>
  OBVIOUS
<1>4. S \o (C \o H \o B) \o <<>> = S \o C \o H \o B
  OBVIOUS
<1> QED BY <1>2, <1>3, <1>4 DEF Chain

LEMMA HeadFirst ==
  ASSUME NEW D \in Seq(Msgs), D # <<>>
  PROVE  /\ Head(D) \in Msgs /\ Tail(D) \in Seq(Msgs) /\ <<Head(D)>> \in Seq(Msgs)
         /\ <<Head(D)>> \o Tail(D) = D
<1>1. PICK m \in Msgs : m = Head(D)
  BY ToSetTail
<1>2. PICK T \in Seq(Msgs) : T = Tail(D)
  BY ToSetTail
<1>3. PICK I \in Seq(Msgs) : I = <<m>> /\ Len(I) = 1 /\ I[1] = m
  BY <1>1, One, HeadTailProperties
<1>4. Len(D) \in Nat \ {0} /\ Len(T) = Len(D) - 1 /\ \A i \in 1 .. Len(T) : T[i] = D[i + 1]
  BY <1>2, HeadTailProperties, EmptySeq
<1>5. PICK E \in Seq(Msgs) : E = I \o T
  BY Ends
<1>6. Len(E) = 1 + Len(T) /\ E[1] = I[1] /\ \A i \in 1 .. Len(T) : E[i + 1] = T[i]
  <2>1. /\ Len(E) = Len(I) + Len(T) /\ \A i \in 1 .. Len(I) : E[i] = I[i]
        /\ \A i \in 1 .. Len(T) : E[i + Len(I)] = T[i]
    BY <1>5, Ends
  <2> QED BY <1>3, <2>1
<1>7. Len(E) = Len(D)
  BY <1>4, <1>6
<1>8. ASSUME NEW i \in 1 .. Len(E)
      PROVE  E[i] = D[i]
  <2>1. CASE i = 1
    BY <1>1, <1>3, <1>6, <2>1
  <2>2. CASE i # 1
    <3>1. PICK j : j = i - 1
      OBVIOUS
    <3>2. j \in 1 .. Len(T) /\ i = j + 1
      BY <1>4, <1>7, <2>2, <3>1
    <3> QED BY <1>4, <1>6, <3>2
  <2> QED BY <2>1, <2>2
<1>9. E = D
  BY <1>7, <1>8, SeqEqual
<1> QED BY <1>1, <1>2, <1>3, <1>5, <1>9

\* The rest moves a message within the line.
LEMMA PutMoves ==
  ASSUME NEW S \in Seq(Msgs), NEW C \in Seq(Msgs), NEW H \in Seq(Msgs), NEW B \in Seq(Msgs)
  PROVE  Chain(S, Joined(C, H), <<>>, B) = Chain(S, C, H, B)
<1>1. S \o (C \o H) \o <<>> \o B = S \o C \o H \o B
  OBVIOUS
<1> QED BY <1>1 DEF Chain, Joined

LEMMA HeadMoves ==
  ASSUME NEW S \in Seq(Msgs), NEW D \in Seq(Msgs), D # <<>>
  PROVE  \E I \in Seq(Msgs), T \in Seq(Msgs) :
           I = <<Head(D)>> /\ T = Tail(D) /\ I \o T = D /\ Append(S, Head(D)) = S \o I
<1>1. Head(D) \in Msgs
  BY HeadFirst
<1>2. Append(S, Head(D)) = S \o <<Head(D)>>
  BY <1>1, AppendIsConcat
<1> QED BY <1>2, HeadFirst

LEMMA TakeMoves ==
  ASSUME NEW S \in Seq(Msgs), NEW C \in Seq(Msgs), NEW B \in Seq(Msgs), B # <<>>
  PROVE  Chain(S, C, <<Head(B)>>, Tail(B)) = Chain(S, C, <<>>, B)
<1>1. PICK I \in Seq(Msgs), T \in Seq(Msgs) :
        I = <<Head(B)>> /\ T = Tail(B) /\ I \o T = B /\ Append(S, Head(B)) = S \o I
  BY HeadMoves
<1>2. S \o C \o I \o T = S \o C \o <<>> \o (I \o T)
  OBVIOUS
<1>3. Chain(S, C, I, T) = Chain(S, C, <<>>, B)
  BY <1>1, <1>2 DEF Chain
<1> QED BY <1>1, <1>3

LEMMA LoopMoves ==
  ASSUME NEW S \in Seq(Msgs), NEW C \in Seq(Msgs), NEW H \in Seq(Msgs), NEW B \in Seq(Msgs), C # <<>>
  PROVE  Chain(Append(S, Head(C)), Tail(C), H, B) = Chain(S, C, H, B)
<1>1. PICK I \in Seq(Msgs), T \in Seq(Msgs) :
        I = <<Head(C)>> /\ T = Tail(C) /\ I \o T = C /\ Append(S, Head(C)) = S \o I
  BY HeadMoves
<1>2. S \o I \o T \o H \o B = S \o (I \o T) \o H \o B
  OBVIOUS
<1>3. Chain(S \o I, T, H, B) = Chain(S, C, H, B)
  BY <1>1, <1>2 DEF Chain
<1> QED BY <1>1, <1>3

LEMMA SoloMovesOn ==
  ASSUME NEW S \in Seq(Msgs), NEW B \in Seq(Msgs), B # <<>>
  PROVE  Chain(Append(S, Head(B)), <<>>, <<>>, Tail(B)) = Chain(S, <<>>, <<>>, B)
<1>1. PICK I \in Seq(Msgs), T \in Seq(Msgs) :
        I = <<Head(B)>> /\ T = Tail(B) /\ I \o T = B /\ Append(S, Head(B)) = S \o I
  BY HeadMoves
<1>2. S \o I \o <<>> \o <<>> \o T = S \o <<>> \o <<>> \o (I \o T)
  OBVIOUS
<1>3. Chain(S \o I, <<>>, <<>>, T) = Chain(S, <<>>, <<>>, B)
  BY <1>1, <1>2 DEF Chain
<1> QED BY <1>1, <1>3
-----------------------------------------------------------------------------
(* The inductive invariant for PublisherOrder and DuplicatesOnlyAtHandover. *)

\* The messages of a channel, from the one received first to the one sent last.
Line(c) == Chain(stream[c[1]], central[c[1]], hand[c], buf[c])

\* Publisher p has stored offset o of a log, and nothing in it since.
Newest(p, log, o) ==
  /\ o < Len(log) /\ log[o + 1] = p
  /\ \A q \in (o + 1) .. (Len(log) - 1) : log[q + 1] # p

PublishedLast ==
  \A p \in Publishers : pub[p].st # "idle" => Newest(p, logs[pub[p].msg.key], pub[p].msg.off)

\* Nothing is on its way for a channel that has not been made.
FlightMade ==
  \A c \in Chans : chan[c] = "none" =>
    buf[c] = <<>> /\ hand[c] = <<>> /\ \A m \in ToSet(central[c[1]]) : m.key # c[2]

SoloSkipsCentral == \A s \in Members : GroupOf(s) = NoGroup => central[s] = <<>>

\* Of a key it has still to register, a handler has sent only the history, up to the next
\* message; the history ends where the live part of the line begins.
HistoryOnly ==
  \A s \in Members :
    /\ h[s].pc = "idle" => h[s].end = 0
    /\ h[s].pc \in {"next", "read", "send"} =>
         \A c \in Ahead(s) : \A i \in Mine(stream[s], c[2]) :
           h[s].pc = "send" /\ c = ChanOf(s) /\ stream[s][i].off < h[s].next
    /\ h[s].pc = "send" =>
         /\ h[s].end <= upto[ChanOf(s)]
         /\ h[s].next < h[s].end => h[s].end <= Len(logs[KeyOf(s)])

LineOK(c, L) ==
  /\ InLog(L, c[2], Len(logs[c[2]])) /\ InOrder(L, c[2], logs[c[2]])
  /\ Handed(L, c[2], upto[c])
  /\ \A o \in Nat : StillToCome(c, o) => OnceYet(L, c[2], upto[c], o)

LinesOK == \A c \in Chans : LineOK(c, Line(c))

OInv ==
  /\ FlightOK /\ FlightMade /\ SoloSkipsCentral /\ PublishedLast /\ HistoryOnly /\ LinesOK

LEMMA PartsTyped ==
  ASSUME BInv, NEW c \in Chans
  PROVE  /\ c[1] \in Members /\ c[2] \in Keys /\ c = <<c[1], c[2]>>
         /\ stream[c[1]] \in Seq(Msgs) /\ central[c[1]] \in Seq(Msgs)
         /\ hand[c] \in Seq(Msgs) /\ buf[c] \in Seq(Msgs)
         /\ Line(c) \in Seq(Msgs) /\ logs[c[2]] \in Seq(Publishers) /\ upto[c] \in Nat
<1>1. c[1] \in Members /\ c[2] \in Keys /\ c = <<c[1], c[2]>>
  BY DEF Chans
<1>2. /\ stream[c[1]] \in Seq(Msgs) /\ central[c[1]] \in Seq(Msgs)
      /\ hand[c] \in Seq(Msgs) /\ buf[c] \in Seq(Msgs)
      /\ logs[c[2]] \in Seq(Publishers) /\ upto[c] \in Nat
  BY <1>1 DEF BInv, DataTyped
<1>3. Line(c) \in Seq(Msgs)
  BY <1>2, ChainTyped DEF Line
<1> QED BY <1>1, <1>2, <1>3

\* A line is what it is made of.
LEMMA LineIs ==
  ASSUME NEW c \in Chans
  PROVE  Line(c)' = Chain(stream'[c[1]], central'[c[1]], hand'[c], buf'[c])
BY DEF Line

LEMMA NewestStays ==
  ASSUME NEW log \in Seq(Publishers), NEW p \in Publishers, NEW q \in Publishers, p # q,
         NEW o \in Nat, Newest(p, log, o)
  PROVE  Newest(p, Append(log, q), o)
<1>1. PICK new \in Seq(Publishers) : new = Append(log, q)
  BY AppendProperties
<1>2. /\ Len(log) \in Nat /\ Len(new) = Len(log) + 1 /\ new[Len(log) + 1] = q
      /\ \A i \in 1 .. Len(log) : new[i] = log[i]
  BY <1>1, AppendProperties, LenProperties
<1>3. o < Len(new) /\ new[o + 1] = p
  BY <1>2 DEF Newest
<1>4. ASSUME NEW r \in (o + 1) .. (Len(new) - 1)
      PROVE  new[r + 1] # p
  <2>1. CASE r = Len(log)
    BY <1>2, <2>1
  <2>2. CASE r # Len(log)
    <3>1. r \in (o + 1) .. (Len(log) - 1) /\ r + 1 \in 1 .. Len(log)
      BY <1>2, <1>4, <2>2
    <3> QED BY <1>2, <3>1 DEF Newest
  <2> QED BY <2>1, <2>2
<1>5. Newest(p, new, o)
  BY <1>3, <1>4 DEF Newest
<1> QED BY <1>1, <1>5

LEMMA NewestIsLatest ==
  ASSUME NEW log \in Seq(Publishers), NEW p \in Publishers, NEW o \in Nat, Newest(p, log, o)
  PROVE  Latest(log, Len(log), o)
<1> SUFFICES ASSUME NEW q \in 0 .. (Len(log) - 1), log[q + 1] = log[o + 1], ~(q <= o)
             PROVE  FALSE
  BY DEF Latest
<1>1. Len(log) \in Nat
  BY LenProperties
<1>2. q \in (o + 1) .. (Len(log) - 1)
  BY <1>1
<1> QED BY <1>2 DEF Newest

\* A log grows by one message of one publisher.
LEMMA LogSteps ==
  ASSUME [Next]_vars
  PROVE  \/ logs' = logs
         \/ \E q \in Publishers, k \in Keys : /\ PublishAppend(q, k) \/ PublishAppendFails(q, k)
                                              /\ logs' = [logs EXCEPT ![k] = Append(@, q)]
<1>1. ASSUME NEW q \in Publishers, NEW c \in Chans, PublishSend(q, c)
      PROVE  logs' = logs
  BY <1>1 DEF PublishSend
<1>2. ASSUME NEW s \in Members,
             \/ ReadHistory(s) \/ SendHistory(s) \/ Register(s) \/ LoopSolo(s) \/ LoopGroup(s)
             \/ Ack(s) \/ AckFails(s) \/ Cancel(s)
      PROVE  logs' = logs
  BY <1>2 DEF ReadHistory, SendHistory, Register, LoopSolo, LoopGroup, Ack, AckFails, Cancel
<1>3. ASSUME NEW c \in Chans, ForwardTake(c) \/ ForwardPut(c) \/ ForwardAbandon(c)
      PROVE  logs' = logs
  BY <1>3 DEF ForwardTake, ForwardPut, ForwardAbandon
<1>4. ASSUME NEW q \in Publishers, NEW k \in Keys, PublishAppend(q, k) \/ PublishAppendFails(q, k)
      PROVE  logs' = [logs EXCEPT ![k] = Append(@, q)]
  BY <1>4 DEF PublishAppend, PublishAppendFails
<1> QED BY <1>1, <1>2, <1>3, <1>4, DataSteps DEF dataVars

\* What a publisher's step does to what it has published, and to who it still visits.
LEMMA PublisherMoves ==
  ASSUME BInv, [Next]_vars, NEW p \in Publishers
  PROVE  \/ pub'[p] = pub[p] /\ logs' = logs
         \/ pub'[p] = Idle
         \/ /\ pub[p].st # "idle" /\ pub'[p].msg = pub[p].msg /\ logs' = logs
            /\ \/ pub[p].st = "appended"
               \/ pub'[p].st = "fanout" /\ pub'[p].todo \subseteq pub[p].todo
         \/ \E q \in Publishers, k \in Keys :
              /\ logs' = [logs EXCEPT ![k] = Append(@, q)]
              /\ \/ pub'[p] = pub[p] /\ (p # q \/ pub[p].st = "idle")
                 \/ p = q /\ pub'[p].msg = [key |-> k, off |-> Len(logs[k])]
<1> DEFINE Goal ==
         \/ pub'[p] = pub[p] /\ logs' = logs
         \/ pub'[p] = Idle
         \/ /\ pub[p].st # "idle" /\ pub'[p].msg = pub[p].msg /\ logs' = logs
            /\ \/ pub[p].st = "appended"
               \/ pub'[p].st = "fanout" /\ pub'[p].todo \subseteq pub[p].todo
         \/ \E q \in Publishers, k \in Keys :
              /\ logs' = [logs EXCEPT ![k] = Append(@, q)]
              /\ \/ pub'[p] = pub[p] /\ (p # q \/ pub[p].st = "idle")
                 \/ p = q /\ pub'[p].msg = [key |-> k, off |-> Len(logs[k])]
<1>1. pub \in [Publishers -> PublisherType] /\ pub[p] \in PublisherType
  BY DEF BInv, ControlTyped
<1>2. ASSUME NEW q \in Publishers, NEW k \in Keys, PublishAppend(q, k)
      PROVE  Goal
  <2>1. (pub'[p] = pub[p] /\ p # q) \/ (p = q /\ pub'[p].msg = [key |-> k, off |-> Len(logs[k])])
    BY <1>1, <1>2 DEF PublishAppend
  <2> QED BY <1>2, <2>1 DEF PublishAppend
<1>3. ASSUME NEW q \in Publishers, NEW k \in Keys, PublishAppendFails(q, k)
      PROVE  Goal
  BY <1>3 DEF PublishAppendFails
<1>4. ASSUME NEW q \in Publishers, PublishRLock(q)
      PROVE  Goal
  <2>1. CASE p = q
    BY <1>1, <1>4, <2>1 DEF PublishRLock, PublisherType
  <2>2. CASE p # q
    BY <1>1, <1>4, <2>2 DEF PublishRLock
  <2> QED BY <2>1, <2>2
<1>5. ASSUME NEW q \in Publishers, PublishReturn(q)
      PROVE  Goal
  <2>1. CASE p = q
    BY <1>1, <1>5, <2>1 DEF PublishReturn
  <2>2. CASE p # q
    BY <1>1, <1>5, <2>2 DEF PublishReturn
  <2> QED BY <2>1, <2>2
<1>6. ASSUME NEW q \in Publishers, NEW c \in Chans, PublishSend(q, c)
      PROVE  Goal
  <2>1. CASE p = q
    BY <1>1, <1>6, <2>1 DEF PublishSend, PublisherType
  <2>2. CASE p # q
    BY <1>1, <1>6, <2>2 DEF PublishSend
  <2> QED BY <2>1, <2>2
<1>7. ASSUME logs' = logs, pub' = pub
      PROVE  Goal
  BY <1>7
<1>8. logs' = logs \/ \E q \in Publishers, k \in Keys : PublishAppend(q, k) \/ PublishAppendFails(q, k)
  BY LogSteps
<1> HIDE DEF Goal
<1>9. Goal
  BY <1>2, <1>3, <1>4, <1>5, <1>6, <1>7, <1>8, PublisherSteps DEF PublishStep
<1> QED BY <1>9 DEF Goal
-----------------------------------------------------------------------------
LEMMA NothingIn ==
  ASSUME NEW L \in Seq(Msgs), \A m \in ToSet(L) : FALSE
  PROVE  L = <<>>
<1> SUFFICES ASSUME L # <<>> PROVE FALSE
  OBVIOUS
<1> QED BY ToSetTail

LEMMA PublishedLastPreserved ==
  ASSUME BInv, PublishedLast, [Next]_vars
  PROVE  PublishedLast'
<1> SUFFICES ASSUME NEW p \in Publishers, pub'[p].st # "idle"
             PROVE  Newest(p, logs'[pub'[p].msg.key], pub'[p].msg.off)
  BY DEF PublishedLast, Newest
<1>1. /\ logs \in [Keys -> Seq(Publishers)]
      /\ pub[p].st # "idle" => pub[p].msg \in Msgs /\ pub[p].msg.key \in Keys /\ pub[p].msg.off \in Nat
  BY DEF BInv, DataTyped, PublishersOK, Msgs
<1>2. ASSUME pub[p].st # "idle", pub'[p].msg = pub[p].msg, logs' = logs
      PROVE  Newest(p, logs'[pub'[p].msg.key], pub'[p].msg.off)
  BY <1>2 DEF PublishedLast
<1>3. pub'[p] # Idle
  BY DEF Idle
<1>4. ASSUME NEW q \in Publishers, NEW k \in Keys, logs' = [logs EXCEPT ![k] = Append(@, q)],
             pub'[p] = pub[p], p # q \/ pub[p].st = "idle"
      PROVE  Newest(p, logs'[pub'[p].msg.key], pub'[p].msg.off)
  <2>1. p # q /\ pub[p].st # "idle" /\ Newest(p, logs[pub[p].msg.key], pub[p].msg.off)
    BY <1>4 DEF PublishedLast
  <2>2. CASE pub[p].msg.key = k
    <3>1. logs'[k] = Append(logs[k], q)
      BY <1>1, <1>4
    <3>2. Newest(p, Append(logs[k], q), pub[p].msg.off)
      BY <1>1, <2>1, <2>2, NewestStays
    <3> QED BY <1>4, <2>2, <3>1, <3>2
  <2>3. CASE pub[p].msg.key # k
    <3>1. logs'[pub[p].msg.key] = logs[pub[p].msg.key]
      BY <1>1, <1>4, <2>1, <2>3
    <3> QED BY <1>4, <2>1, <3>1
  <2> QED BY <2>2, <2>3
<1>5. ASSUME NEW k \in Keys, logs' = [logs EXCEPT ![k] = Append(@, p)],
             pub'[p].msg = [key |-> k, off |-> Len(logs[k])]
      PROVE  Newest(p, logs'[pub'[p].msg.key], pub'[p].msg.off)
  <2>1. PICK new : new = Append(logs[k], p)
    OBVIOUS
  <2>2. logs'[k] = new
    BY <1>1, <1>5, <2>1
  <2>3. Len(logs[k]) \in Nat /\ Len(new) = Len(logs[k]) + 1 /\ new[Len(logs[k]) + 1] = p
    BY <1>1, <2>1, AppendProperties, LenProperties
  <2>4. PICK n \in Nat : n = Len(logs[k])
    BY <2>3
  <2>5. n < Len(new) /\ new[n + 1] = p /\ \A r \in (n + 1) .. (Len(new) - 1) : new[r + 1] # p
    BY <2>3, <2>4
  <2>6. Newest(p, new, n)
    BY <2>5 DEF Newest
  <2>7. pub'[p].msg.key = k /\ pub'[p].msg.off = n
    BY <1>5, <2>4
  <2> QED BY <2>2, <2>6, <2>7
<1> QED BY <1>2, <1>3, <1>4, <1>5, PublisherMoves

\* A message becomes still to come for a channel when it is stored.
LEMMA ComingMoves ==
  ASSUME BInv, [Next]_vars, NEW c \in Chans, NEW o \in Nat, StillToCome(c, o)'
  PROVE  StillToCome(c, o) \/ o = Len(logs[c[2]])
<1>1. PICK p \in Publishers : /\ pub'[p].msg = MsgAt(c[2], o)
                              /\ pub'[p].st = "appended" \/ c \in pub'[p].todo
  BY DEF StillToCome, MsgAt
<1>2. pub'[p] # Idle
  BY <1>1 DEF Idle
<1>3. pub[p].st # "fanout" => pub[p].todo = {}
  BY DEF BInv, PublishersOK
<1>4. ASSUME pub'[p] = pub[p]
      PROVE  StillToCome(c, o)
  BY <1>1, <1>4 DEF StillToCome
<1>5. ASSUME pub'[p].msg = pub[p].msg,
             pub[p].st = "appended" \/ (pub'[p].st = "fanout" /\ pub'[p].todo \subseteq pub[p].todo)
      PROVE  StillToCome(c, o)
  BY <1>1, <1>5 DEF StillToCome
<1>6. ASSUME NEW k \in Keys, pub'[p].msg = [key |-> k, off |-> Len(logs[k])]
      PROVE  o = Len(logs[c[2]])
  BY <1>1, <1>6 DEF MsgAt
<1> QED BY <1>2, <1>4, <1>5, <1>6, PublisherMoves

\* What a publisher has sent to a channel is not still to come.
LEMMA SentIsNotToCome ==
  ASSUME BInv, PublishedLast, NEW p \in Publishers, NEW c \in Chans, PublishSend(p, c),
         pub[p].msg.key = c[2], NEW o, StillToCome(c, o)'
  PROVE  o # pub[p].msg.off
<1> SUFFICES ASSUME o = pub[p].msg.off PROVE FALSE
  OBVIOUS
<1>1. /\ pub \in [Publishers -> PublisherType] /\ pub[p].st = "fanout"
      /\ pub' = [pub EXCEPT ![p].todo = @ \ {c}] /\ pub[p].msg \in Msgs
  BY DEF PublishSend, BInv, ControlTyped, PublishersOK
<1>2. PICK q \in Publishers : /\ pub'[q].msg = MsgAt(c[2], o)
                              /\ pub'[q].st = "appended" \/ c \in pub'[q].todo
  BY DEF StillToCome, MsgAt
<1>3. pub'[p].st = "fanout" /\ c \notin pub'[p].todo
  BY <1>1 DEF PublisherType
<1>4. q # p /\ pub'[q] = pub[q]
  BY <1>1, <1>2, <1>3
<1>5. pub[q].st # "idle"
  BY <1>2, <1>4 DEF BInv, PublishersOK
<1>6. pub[q].msg.key = c[2] /\ pub[q].msg.off = o
  BY <1>2, <1>4 DEF MsgAt
<1>7. logs[c[2]][o + 1] = q /\ logs[c[2]][o + 1] = p
  BY <1>1, <1>5, <1>6 DEF PublishedLast, Newest
<1> QED BY <1>4, <1>7

LEMMA FlightMadePreserved ==
  ASSUME BInv, FlightOK, FlightMade, [Next]_vars
  PROVE  FlightMade'
<1> SUFFICES ASSUME NEW c \in Chans, chan'[c] = "none"
             PROVE  buf'[c] = <<>> /\ hand'[c] = <<>> /\ \A m \in ToSet(central'[c[1]]) : m.key # c[2]
  BY DEF FlightMade
<1>1. chan[c] = "none"
  BY ChannelMade
<1>2. buf[c] = <<>> /\ hand[c] = <<>> /\ \A m \in ToSet(central[c[1]]) : m.key # c[2]
  BY <1>1 DEF FlightMade
<1>3. ToSet(<<>>) = {}
  BY DEF ToSet
<1>4. buf' \in [Chans -> Seq(Msgs)] /\ hand' \in [Chans -> Seq(Msgs)]
  BY DataPreserved DEF DataTyped
<1>5. buf'[c] = <<>>
  <2>1. ASSUME NEW p \in Publishers, pub[p].st = "fanout", c \in pub[p].todo
        PROVE  FALSE
    <3>1. pub[p].msg.key \in Keys /\ c \in subs[pub[p].msg.key]
      BY <2>1 DEF BInv, PublishersOK, Msgs
    <3> QED BY <1>1, <3>1 DEF BInv, RegisteredIsOpen
  <2>2. \A m \in ToSet(buf'[c]) : FALSE
    BY <1>2, <1>3, <2>1, BufComesFrom
  <2> QED BY <1>4, <2>2, NothingIn
<1>6. hand'[c] = <<>>
  <2>1. \A m \in ToSet(hand'[c]) : FALSE
    BY <1>2, <1>3, HandComesFrom
  <2> QED BY <1>4, <2>1, NothingIn
<1>7. ASSUME NEW m \in ToSet(central'[c[1]]), m.key = c[2]
      PROVE  FALSE
  <2>1. c[1] \in Members /\ c = <<c[1], c[2]>>
    BY DEF Chans
  <2>2. PICK d \in Chans : d[1] = c[1] /\ m \in ToSet(hand[d])
    BY <1>2, <1>7, <2>1, CentralComesFrom
  <2>3. d[2] = m.key /\ d = <<d[1], d[2]>>
    BY <2>2 DEF FlightOK, Sound, Chans
  <2> QED BY <1>2, <1>3, <1>7, <2>1, <2>2, <2>3
<1> QED BY <1>5, <1>6, <1>7

LEMMA SkipsPreservedForSolo ==
  ASSUME BInv, ForwardersOK, SoloSkipsCentral, [Next]_vars
  PROVE  SoloSkipsCentral'
<1> SUFFICES ASSUME NEW s \in Members, GroupOf(s)' = NoGroup
             PROVE  central'[s] = <<>>
  BY DEF SoloSkipsCentral
<1>1. GroupOf(s) = NoGroup
  BY StartedStays DEF GroupOf, BInv, HandlersOK
<1>2. central[s] = <<>> /\ ToSet(<<>>) = {}
  BY <1>1 DEF SoloSkipsCentral, ToSet
<1>3. ASSUME NEW c \in Chans, c[1] = s
      PROVE  hand[c] = <<>>
  BY <1>1, <1>3 DEF ForwardersOK
<1>4. \A m \in ToSet(central'[s]) : FALSE
  BY <1>2, <1>3, CentralComesFrom
<1>5. central'[s] \in Seq(Msgs)
  BY DataPreserved DEF DataTyped
<1> QED BY <1>4, <1>5, NothingIn

LEMMA UptoSteps ==
  ASSUME [Next]_vars
  PROVE  upto' = upto \/ \E s \in Members : ReadHistory(s)
<1>1. ASSUME NEW p \in Publishers, NEW k \in Keys, PublishAppend(p, k) \/ PublishAppendFails(p, k)
      PROVE  upto' = upto
  BY <1>1 DEF PublishAppend, PublishAppendFails, history
<1>2. ASSUME NEW p \in Publishers, NEW c \in Chans, PublishSend(p, c)
      PROVE  upto' = upto
  BY <1>2 DEF PublishSend
<1>3. ASSUME NEW s \in Members,
             \/ SendHistory(s) \/ Register(s) \/ LoopSolo(s) \/ LoopGroup(s)
             \/ Ack(s) \/ AckFails(s) \/ Cancel(s)
      PROVE  upto' = upto
  BY <1>3 DEF SendHistory, Register, LoopSolo, LoopGroup, Ack, AckFails, Cancel, history
<1>4. ASSUME NEW c \in Chans, ForwardTake(c) \/ ForwardPut(c) \/ ForwardAbandon(c)
      PROVE  upto' = upto
  BY <1>4 DEF ForwardTake, ForwardPut, ForwardAbandon, history
<1> QED BY <1>1, <1>2, <1>3, <1>4, DataSteps DEF dataVars

\* Only its own historical read says where the live part of a line begins.
LEMMA UptoMoves ==
  ASSUME BInv, [Next]_vars, NEW c \in Chans
  PROVE  upto'[c] = upto[c] \/ (ReadHistory(c[1]) /\ c = ChanOf(c[1]))
<1>1. upto \in [Chans -> Nat]
  BY DEF BInv, DataTyped
<1>2. ASSUME NEW s \in Members, ReadHistory(s)
      PROVE  upto'[c] = upto[c] \/ (c[1] = s /\ c = ChanOf(s))
  BY <1>1, <1>2 DEF ReadHistory, ChanOf
<1> QED BY <1>2, UptoSteps
-----------------------------------------------------------------------------
(* The history of a handler. *)

LEMMA OwnStream ==
  ASSUME BInv, [Next]_vars, NEW s \in Members
  PROVE  \/ stream'[s] = stream[s]
         \/ SendHistory(s)
         \/ h[s].pc = "loop" /\ h'[s] = h[s]
<1>1. stream \in [Members -> Seq(Msgs)]
  BY DEF BInv, DataTyped
<1>2. ASSUME NEW q \in Members, q # s, SendHistory(q) \/ LoopSolo(q) \/ LoopGroup(q)
      PROVE  stream'[s] = stream[s]
  BY <1>1, <1>2 DEF SendHistory, LoopSolo, LoopGroup
<1>3. ASSUME LoopSolo(s) \/ LoopGroup(s)
      PROVE  h[s].pc = "loop" /\ h'[s] = h[s]
  BY <1>3 DEF LoopSolo, LoopGroup
<1> QED BY <1>2, <1>3, StreamSteps

\* Where the history of a handler ends is set by its read, and starts as 0.
LEMMA EndMoves ==
  ASSUME BInv, NEW s \in Members
  PROVE  /\ \A r \in Requests : SubscribeSolo(s, r) => h'[s].end = h[s].end
         /\ SendHistory(s) => h'[s].end = h[s].end
         /\ ReadHistory(s) => /\ upto'[ChanOf(s)] = h'[s].end
                              /\ h'[s].next < h'[s].end => h'[s].end <= Len(logs[KeyOf(s)])
<1>1. h \in [Members -> HandlerType] /\ h[s] \in HandlerType /\ upto \in [Chans -> Nat]
  BY DEF BInv, ControlTyped, DataTyped
<1>2. ASSUME NEW r \in Requests, SubscribeSolo(s, r)
      PROVE  h'[s].end = h[s].end
  <2>0. PICK part : part = IF r.partition < 0 THEN 0 ELSE r.partition
    OBVIOUS
  <2> DEFINE new == [h[s] EXCEPT !.req = r, !.cur = part]
  <2>1. new.end = h[s].end /\ new \in [pc : PCs, req : {r}, todo : SUBSET Nat, cur : {part},
                                       next : Nat, end : Nat, ret : {h[s].ret}]
    BY <1>1 DEF HandlerType
  <2>2. \/ h' = [h EXCEPT ![s] = [new EXCEPT !.cur = 0, !.pc = "returned", !.ret = "invalid"]]
        \/ h' = [h EXCEPT ![s] = [new EXCEPT !.pc = "read", !.next = r.offset]]
        \/ h' = [h EXCEPT ![s] = [new EXCEPT !.pc = "send"]]
    BY <1>2, <2>0 DEF SubscribeSolo
  <2> HIDE DEF new
  <2> QED BY <1>1, <2>1, <2>2
<1>3. SendHistory(s) => h'[s].end = h[s].end
  BY <1>1 DEF SendHistory, HandlerType
<1>4. ASSUME ReadHistory(s)
      PROVE  /\ upto'[ChanOf(s)] = h'[s].end
             /\ h'[s].next < h'[s].end => h'[s].end <= Len(logs[KeyOf(s)])
  <2>1. ChanOf(s) \in Chans
    BY <1>4, HandlerFacts DEF ReadHistory
  <2>2. PICK e : /\ e \in h[s].next .. (IF h[s].next < Len(logs[KeyOf(s)])
                                        THEN Len(logs[KeyOf(s)]) ELSE h[s].next)
                 /\ h' = [h EXCEPT ![s].pc = "send", ![s].end = e]
                 /\ upto' = [upto EXCEPT ![ChanOf(s)] = e]
    BY <1>4 DEF ReadHistory, ReadsUpTo
  <2>3. upto'[ChanOf(s)] = e /\ h'[s].end = e /\ h'[s].next = h[s].next /\ h[s].next \in Nat
    BY <1>1, <2>1, <2>2 DEF HandlerType
  <2>4. Len(logs[KeyOf(s)]) \in Nat
    <3>1. KeyOf(s) \in Keys
      BY <1>4, HandlerFacts DEF ReadHistory
    <3> QED BY <3>1 DEF BInv, DataTyped
  <2> QED BY <2>2, <2>3, <2>4
<1> QED BY <1>2, <1>3, <1>4

LEMMA HistoryOnlyPreserved ==
  ASSUME BInv, NothingAhead, IdleIsBlank, HistoryOnly, [Next]_vars
  PROVE  HistoryOnly'
<1> SUFFICES ASSUME NEW s \in Members
             PROVE  /\ h'[s].pc = "idle" => h'[s].end = 0
                    /\ h'[s].pc \in {"next", "read", "send"} =>
                         \A c \in Ahead(s)' : \A i \in Mine(stream'[s], c[2]) :
                           h'[s].pc = "send" /\ c = ChanOf(s)' /\ stream'[s][i].off < h'[s].next
                    /\ h'[s].pc = "send" =>
                         /\ h'[s].end <= upto'[ChanOf(s)']
                         /\ h'[s].next < h'[s].end => h'[s].end <= Len(logs'[KeyOf(s)'])
  BY DEF HistoryOnly, Mine
<1> DEFINE Goal == /\ h'[s].pc = "idle" => h'[s].end = 0
                   /\ h'[s].pc \in {"next", "read", "send"} =>
                        \A c \in Ahead(s)' : \A i \in Mine(stream'[s], c[2]) :
                          h'[s].pc = "send" /\ c = ChanOf(s)' /\ stream'[s][i].off < h'[s].next
                   /\ h'[s].pc = "send" =>
                        /\ h'[s].end <= upto'[ChanOf(s)']
                        /\ h'[s].next < h'[s].end => h'[s].end <= Len(logs'[KeyOf(s)'])
<1>1. /\ h[s] \in HandlerType /\ h[s].next \in Nat /\ h[s].end \in Nat
      /\ upto \in [Chans -> Nat] /\ upto' \in [Chans -> Nat]
      /\ stream[s] \in Seq(Msgs)
  BY DataPreserved DEF BInv, ControlTyped, DataTyped, HandlerType
<1>2. h[s].pc # "idle" => /\ KeyOf(s) \in Keys /\ ChanOf(s) \in Chans /\ ChanOf(s) = <<s, KeyOf(s)>>
                          /\ Ahead(s) \subseteq ChansOf(s)
  BY HandlerFacts, AheadAreChannels DEF ChanOf, BInv
<1>3. ASSUME h'[s] = h[s]
      PROVE  Goal
  <2>1. Ahead(s)' = Ahead(s) /\ ChanOf(s)' = ChanOf(s) /\ KeyOf(s)' = KeyOf(s)
    BY <1>3 DEF Ahead, ChanOf, KeyOf
  <2>2. ~SendHistory(s) /\ ~ReadHistory(s)
    BY <1>1, <1>3, SendHistoryMoves, ReadHistoryMoves DEF Moves
  <2>3. h[s].pc # "loop" => stream'[s] = stream[s]
    BY <2>2, OwnStream
  <2>4. h[s].pc = "send" => /\ upto'[ChanOf(s)] = upto[ChanOf(s)]
                            /\ Len(logs[KeyOf(s)]) \in Nat /\ Len(logs'[KeyOf(s)]) \in Nat
                            /\ Len(logs[KeyOf(s)]) <= Len(logs'[KeyOf(s)])
    BY <1>2, <2>2, UptoMoves, LenGrows
  <2>5. h[s].pc = "send" => /\ h[s].end <= upto[ChanOf(s)]
                            /\ h[s].next < h[s].end => h[s].end <= Len(logs[KeyOf(s)])
    BY DEF HistoryOnly
  <2>6. h[s].pc = "send" /\ h[s].next < h[s].end => h[s].end <= Len(logs'[KeyOf(s)])
    BY <1>1, <2>4, <2>5
  <2> QED BY <1>3, <2>1, <2>3, <2>4, <2>5, <2>6 DEF HistoryOnly
<1>4. ASSUME NEW r \in Requests, SubscribeSolo(s, r) \/ SubscribeGroup(s, r)
      PROVE  Goal
  <2>1. h[s].pc = "idle" /\ h'[s].pc \in {"returned", "read", "send", "next"}
    BY <1>4, SoloMoves, GroupMoves
  <2>2. stream[s] = <<>> /\ h[s].next = 0 /\ h[s].end = 0
    BY <2>1 DEF IdleIsBlank, HistoryOnly
  <2>3. stream'[s] = <<>>
    BY <2>1, <2>2, OwnStream DEF SendHistory
  <2>4. \A k : Mine(stream'[s], k) = {}
    BY <2>3 DEF Mine
  <2>5. h'[s].pc = "send" => h'[s].end = 0 /\ h'[s].next = 0
    BY <1>4, <2>2, EndMoves, SoloMoves, GroupMoves
  <2>6. h'[s].pc = "send" => upto'[ChanOf(s)'] \in Nat
    <3>1. BInv'
      BY BPreserved
    <3>2. ASSUME BInv', h'[s].pc = "send"
          PROVE  ChanOf(s)' \in Chans
      <4>1. h'[s].req \in Requests /\ h'[s].cur \in PartitionsOf(h'[s].req.topic)
        BY <3>2 DEF BInv, HandlersOK
      <4> QED BY <4>1, RequestFacts DEF ChanOf, KeyOf, Chans, Keys
    <3> QED BY <1>1, <3>1, <3>2
  <2> QED BY <2>1, <2>4, <2>5, <2>6
<1>5. ASSUME NextPartition(s)
      PROVE  Goal
  <2>1. /\ h[s].pc = "next" /\ h'[s].pc = "read" /\ h'[s].req = h[s].req
        /\ h'[s].cur \in h[s].todo /\ h'[s].todo = h[s].todo \ {h'[s].cur}
    BY <1>5, NextPartitionMoves DEF Moves
  <2>2. Ahead(s)' \subseteq Ahead(s)
    BY <2>1 DEF Ahead
  <2>3. stream'[s] = stream[s]
    BY <2>1, OwnStream DEF SendHistory
  <2> QED BY <2>1, <2>2, <2>3 DEF HistoryOnly
<1>6. ASSUME ReadHistory(s)
      PROVE  Goal
  <2>1. /\ h[s].pc = "read" /\ h'[s].pc = "send" /\ h'[s].req = h[s].req
        /\ h'[s].cur = h[s].cur /\ h'[s].todo = h[s].todo
    BY <1>6, ReadHistoryMoves DEF Moves, Keeps
  <2>2. Ahead(s)' = Ahead(s) /\ ChanOf(s)' = ChanOf(s) /\ KeyOf(s)' = KeyOf(s)
    BY <2>1 DEF Ahead, ChanOf, KeyOf
  <2>3. stream'[s] = stream[s]
    BY <2>1, OwnStream DEF SendHistory
  <2>4. \A c \in Ahead(s)' : Mine(stream'[s], c[2]) = {}
    BY <2>1, <2>2, <2>3 DEF HistoryOnly
  <2>5. /\ upto'[ChanOf(s)] = h'[s].end /\ upto'[ChanOf(s)] \in Nat
        /\ h'[s].next < h'[s].end => h'[s].end <= Len(logs[KeyOf(s)])
    BY <1>1, <1>2, <1>6, <2>1, EndMoves
  <2>6. logs' = logs
    BY <1>6 DEF ReadHistory
  <2>7. h'[s].end <= upto'[ChanOf(s)] /\ (h'[s].next < h'[s].end => h'[s].end <= Len(logs[KeyOf(s)]))
    BY <2>5
  <2> QED BY <2>1, <2>2, <2>4, <2>6, <2>7
<1>7. ASSUME SendHistory(s)
      PROVE  Goal
  <2>1. /\ h[s].pc = "send" /\ h'[s].pc = "send" /\ h'[s].req = h[s].req
        /\ h'[s].cur = h[s].cur /\ h'[s].todo = h[s].todo
        /\ h'[s].next = h[s].next + 1 /\ h'[s].end = h[s].end
    BY <1>7, SendHistoryMoves, EndMoves DEF Moves, Keeps
  <2>2. Ahead(s)' = Ahead(s) /\ ChanOf(s)' = ChanOf(s) /\ KeyOf(s)' = KeyOf(s)
    BY <2>1 DEF Ahead, ChanOf, KeyOf
  <2>3. PICK m \in Msgs : m = [key |-> KeyOf(s), off |-> h[s].next]
    BY <1>1, <1>2, <2>1 DEF Msgs
  <2>4. stream'[s] = Append(stream[s], m) /\ logs' = logs /\ upto' = upto
    <3>1. stream' = [stream EXCEPT ![s] = Append(@, m)] /\ logs' = logs /\ upto' = upto
      BY <1>7, <2>3 DEF SendHistory, HistoryOffset, history
    <3>2. stream \in [Members -> Seq(Msgs)]
      BY DEF BInv, DataTyped
    <3> QED BY <3>1, <3>2
  <2>5. ASSUME NEW c \in Ahead(s), NEW i \in Mine(stream'[s], c[2])
        PROVE  c = ChanOf(s) /\ stream'[s][i].off < h'[s].next
    <3>1. i \in 1 .. (Len(stream[s]) + 1) /\ Len(stream[s]) \in Nat
      BY <1>1, <2>4, <2>5, AppendProperties, LenProperties DEF Mine
    <3>2. CASE i = Len(stream[s]) + 1
      <4>1. stream'[s][i] = m
        BY <1>1, <2>4, <3>2, AppendProperties
      <4>2. c[2] = KeyOf(s)
        BY <2>3, <2>5, <4>1 DEF Mine
      <4>3. c \in Chans /\ c[1] = s
        BY <1>2, <2>1, <2>5 DEF ChansOf
      <4>4. c = <<s, KeyOf(s)>>
        BY <4>2, <4>3 DEF Chans
      <4> QED BY <1>1, <1>2, <2>1, <2>3, <4>1, <4>4
    <3>3. CASE i # Len(stream[s]) + 1
      <4>1. i \in 1 .. Len(stream[s]) /\ stream'[s][i] = stream[s][i]
        BY <1>1, <2>4, <3>1, <3>3, AppendProperties
      <4>2. i \in Mine(stream[s], c[2]) /\ stream[s][i] \in Msgs
        BY <1>1, <2>5, <4>1, LenProperties DEF Mine
      <4>3. c = ChanOf(s) /\ stream[s][i].off < h[s].next
        BY <2>1, <4>2 DEF HistoryOnly
      <4>4. stream[s][i].off \in Nat
        BY <4>2 DEF Msgs
      <4> QED BY <1>1, <2>1, <4>1, <4>3, <4>4
    <3> QED BY <3>2, <3>3
  <2>6. /\ h[s].end <= upto[ChanOf(s)]
        /\ h[s].next < h[s].end => h[s].end <= Len(logs[KeyOf(s)])
    BY <2>1 DEF HistoryOnly
  <2>7. h'[s].next < h'[s].end => h'[s].end <= Len(logs'[KeyOf(s)'])
    BY <1>1, <2>1, <2>2, <2>4, <2>6
  <2> QED BY <2>1, <2>2, <2>4, <2>5, <2>6, <2>7
<1>8. ASSUME Register(s)
      PROVE  Goal
  <2>1. /\ h[s].pc = "send" /\ h'[s].pc \in {"loop", "next"} /\ h'[s].req = h[s].req
        /\ h'[s].cur = h[s].cur /\ h'[s].todo = h[s].todo
    BY <1>8, RegisterMoves DEF Moves, Keeps
  <2>2. h[s].cur \notin h[s].todo
    BY <2>1 DEF NothingAhead
  <2>3. Ahead(s)' \subseteq Ahead(s) /\ (h'[s].pc = "next" => ChanOf(s) \notin Ahead(s)')
    BY <2>1, <2>2 DEF Ahead, ChanOf, KeyOf
  <2>4. stream'[s] = stream[s]
    BY <1>8 DEF Register
  <2>5. \A c \in Ahead(s) : \A i \in Mine(stream[s], c[2]) : c = ChanOf(s)
    BY <2>1 DEF HistoryOnly
  <2> QED BY <2>1, <2>3, <2>4, <2>5
<1>9. ASSUME h'[s].pc \in {"loop", "close", "wait", "leave", "returned"}
      PROVE  Goal
  BY <1>9
<1> HIDE DEF Goal
<1>10. Goal
  BY <1>3, <1>4, <1>5, <1>6, <1>7, <1>8, <1>9, HandlerMoves, EarlyMoves, LateMoves
     DEF Turns, Moves
<1> QED BY <1>10 DEF Goal
-----------------------------------------------------------------------------
(* What each step does to a line. *)

LEMMA LineStays ==
  ASSUME BInv, NEW c \in Chans,
         Chain(stream'[c[1]], central'[c[1]], hand'[c], buf'[c]) = Line(c)
  PROVE  Embeds(Line(c)', Line(c), c[2])
BY PartsTyped, LineIs, Same

\* A message on its way has the key of its channel.
LEMMA FlightKeys ==
  ASSUME BInv, FlightOK, NEW c \in Chans
  PROVE  /\ \A m \in ToSet(buf[c]) \cup ToSet(hand[c]) : m.key = c[2]
         /\ \A k : k # c[2] => Mine(hand[c], k) = {}
<1>1. \A m \in ToSet(buf[c]) \cup ToSet(hand[c]) : m.key = c[2]
  BY DEF FlightOK, Sound
<1>2. ASSUME NEW i \in DOMAIN hand[c]
      PROVE  hand[c][i].key = c[2]
  BY <1>1, <1>2 DEF ToSet
<1> QED BY <1>1, <1>2 DEF Mine

LEMMA SendHistoryLine ==
  ASSUME BInv, NothingAhead, FlightMade, NEW c \in Chans, SendHistory(c[1])
  PROVE  \/ Embeds(Line(c)', Line(c), c[2])
         \/ /\ c = ChanOf(c[1])
            /\ Joins(Line(c)', Line(c), MsgAt(c[2], h[c[1]].next))
<1>1. PICK s \in Members : s = c[1]
  BY DEF Chans
<1>2. PICK S \in Seq(Msgs), C \in Seq(Msgs), H \in Seq(Msgs), B \in Seq(Msgs) :
        S = stream[s] /\ C = central[s] /\ H = hand[c] /\ B = buf[c]
  BY <1>1, PartsTyped
<1>3. h[s].pc = "send" /\ KeyOf(s) \in Keys /\ ChanOf(s) = <<s, KeyOf(s)>> /\ h[s].next \in Nat
  BY <1>1, HandlerFacts DEF SendHistory, ChanOf, HandlerType
<1>4. PICK m \in Msgs : m = [key |-> KeyOf(s), off |-> h[s].next]
  BY <1>3 DEF Msgs
<1>5. stream'[s] = Append(S, m) /\ central' = central /\ hand' = hand /\ buf' = buf
  <2>1. stream' = [stream EXCEPT ![s] = Append(@, m)] /\ stream \in [Members -> Seq(Msgs)]
    BY <1>1, <1>4 DEF SendHistory, HistoryOffset, BInv, DataTyped
  <2>2. central' = central /\ hand' = hand /\ buf' = buf
    BY <1>1 DEF SendHistory, chanVars
  <2> QED BY <1>2, <2>1, <2>2
<1>6. Line(c)' = Chain(Append(S, m), C, H, B) /\ Line(c) = Chain(S, C, H, B)
  BY <1>1, <1>2, <1>5, LineIs DEF Line
<1>7. CASE KeyOf(s) # c[2]
  <2>1. Embeds(Chain(Append(S, m), C, H, B), Chain(S, C, H, B), c[2])
    BY <1>4, <1>7, SendOtherEmbeds
  <2> QED BY <1>6, <2>1
<1>8. CASE KeyOf(s) = c[2]
  <2>1. c = ChanOf(s)
    BY <1>1, <1>3, <1>8 DEF Chans
  <2>2. c \in Ahead(s)
    BY <1>3, <2>1 DEF Ahead, ChanOf, KeyOf
  <2>3. chan[c] = "none"
    BY <1>3, <2>2 DEF NothingAhead
  <2>4. B = <<>> /\ H = <<>> /\ \A n \in ToSet(C) : n.key # c[2]
    BY <1>1, <1>2, <2>3 DEF FlightMade
  <2>5. Mine(C, m.key) = {}
    BY <1>4, <1>8, <2>4 DEF Mine, ToSet
  <2>6. Joins(Chain(Append(S, m), C, <<>>, <<>>), Chain(S, C, <<>>, <<>>), m)
    BY <2>5, SendJoins
  <2>7. m = MsgAt(c[2], h[s].next)
    BY <1>4, <1>8 DEF MsgAt
  <2> QED BY <1>1, <1>6, <2>1, <2>4, <2>6, <2>7
<1> QED BY <1>7, <1>8

LEMMA LoopLine ==
  ASSUME BInv, ForwardersOK, FlightOK, SoloSkipsCentral, NEW c \in Chans, LoopSolo(c[1]) \/ LoopGroup(c[1])
  PROVE  Embeds(Line(c)', Line(c), c[2])
<1>1. PICK s \in Members : s = c[1]
  BY DEF Chans
<1>2. PICK S \in Seq(Msgs), C \in Seq(Msgs), H \in Seq(Msgs), B \in Seq(Msgs) :
        S = stream[s] /\ C = central[s] /\ H = hand[c] /\ B = buf[c]
  BY <1>1, PartsTyped
<1>3. /\ stream \in [Members -> Seq(Msgs)] /\ central \in [Members -> Seq(Msgs)]
      /\ buf \in [Chans -> Seq(Msgs)]
  BY DEF BInv, DataTyped
<1>4. Line(c) = Chain(S, C, H, B)
  BY <1>1, <1>2 DEF Line
<1>5. CASE LoopSolo(s)
  <2>1. PICK d \in Chans : d = ChanOf(s)
    BY <1>5, HandlerFacts DEF LoopSolo
  <2>2. /\ stream' = [stream EXCEPT ![s] = Append(@, Head(buf[d]))]
        /\ buf' = [buf EXCEPT ![d] = Tail(@)]
        /\ hand' = hand /\ central' = central /\ GroupOf(s) = NoGroup /\ buf[d] # <<>>
    BY <1>5, <2>1 DEF LoopSolo
  <2>3. PICK m \in Msgs : m = Head(buf[d]) /\ m \in ToSet(buf[d])
    BY <1>3, <2>2, ToSetTail
  <2>4. stream'[s] = Append(S, m)
    BY <1>2, <1>3, <2>2, <2>3
  <2>5. CASE c = d
    <3>1. C = <<>> /\ H = <<>>
      BY <1>1, <1>2, <2>2, <2>5 DEF SoloSkipsCentral, ForwardersOK
    <3>2. buf'[c] = Tail(B) /\ B # <<>> /\ m = Head(B)
      BY <1>2, <1>3, <2>2, <2>3, <2>5
    <3>3. Chain(Append(S, Head(B)), <<>>, <<>>, Tail(B)) = Chain(S, <<>>, <<>>, B)
      BY <3>2, SoloMovesOn
    <3> QED BY <1>1, <1>2, <1>4, <2>2, <2>4, <3>1, <3>2, <3>3, LineStays
  <2>6. CASE c # d
    <3>1. d[1] = s /\ c = <<s, c[2]>> /\ d = <<s, d[2]>>
      BY <1>1, <2>1 DEF ChanOf, Chans
    <3>2. m.key # c[2]
      BY <2>3, <2>6, <3>1, FlightKeys
    <3>3. buf'[c] = B
      BY <1>2, <1>3, <2>2, <2>6
    <3>4. Embeds(Chain(Append(S, m), C, H, B), Chain(S, C, H, B), c[2])
      BY <3>2, SendOtherEmbeds
    <3>5. Line(c)' = Chain(Append(S, m), C, H, B)
      BY <1>1, <1>2, <2>2, <2>4, <3>3, LineIs
    <3> QED BY <1>4, <3>4, <3>5
  <2> QED BY <2>5, <2>6
<1>6. CASE LoopGroup(s)
  <2>1. /\ stream' = [stream EXCEPT ![s] = Append(@, Head(central[s]))]
        /\ central' = [central EXCEPT ![s] = Tail(@)]
        /\ hand' = hand /\ buf' = buf /\ central[s] # <<>>
    BY <1>6 DEF LoopGroup
  <2>2. stream'[s] = Append(S, Head(C)) /\ central'[s] = Tail(C) /\ C # <<>>
    BY <1>2, <1>3, <2>1
  <2>3. Chain(Append(S, Head(C)), Tail(C), H, B) = Chain(S, C, H, B)
    BY <2>2, LoopMoves
  <2> QED BY <1>1, <1>2, <1>4, <2>1, <2>2, <2>3, LineStays
<1> QED BY <1>1, <1>5, <1>6

LEMMA ForwardLine ==
  ASSUME BInv, ForwardersOK, FlightOK, NEW c \in Chans, NEW d \in Chans,
         ForwardTake(d) \/ ForwardPut(d) \/ ForwardAbandon(d)
  PROVE  Embeds(Line(c)', Line(c), c[2])
<1>1. PICK s \in Members : s = c[1]
  BY DEF Chans
<1>2. PICK S \in Seq(Msgs), C \in Seq(Msgs), H \in Seq(Msgs), B \in Seq(Msgs) :
        S = stream[s] /\ C = central[s] /\ H = hand[c] /\ B = buf[c]
  BY <1>1, PartsTyped
<1>3. /\ hand \in [Chans -> Seq(Msgs)] /\ central \in [Members -> Seq(Msgs)]
      /\ buf \in [Chans -> Seq(Msgs)]
  BY DEF BInv, DataTyped
<1>4. Line(c) = Chain(S, C, H, B)
  BY <1>1, <1>2 DEF Line
<1>5. CASE ForwardTake(d)
  <2>1. /\ hand' = [hand EXCEPT ![d] = <<Head(buf[d])>>] /\ buf' = [buf EXCEPT ![d] = Tail(@)]
        /\ central' = central /\ stream' = stream /\ fwd[d] = "idle" /\ buf[d] # <<>>
    BY <1>5 DEF ForwardTake
  <2>2. CASE d = c
    <3>1. H = <<>> /\ B # <<>>
      BY <1>2, <2>1, <2>2 DEF ForwardersOK
    <3>2. hand'[c] = <<Head(B)>> /\ buf'[c] = Tail(B)
      BY <1>2, <1>3, <2>1, <2>2
    <3>3. Chain(S, C, <<Head(B)>>, Tail(B)) = Chain(S, C, <<>>, B)
      BY <3>1, TakeMoves
    <3> QED BY <1>1, <1>2, <1>4, <2>1, <3>1, <3>2, <3>3, LineStays
  <2>3. CASE d # c
    <3>1. hand'[c] = H /\ buf'[c] = B
      BY <1>2, <1>3, <2>1, <2>3
    <3> QED BY <1>1, <1>2, <1>4, <2>1, <3>1, LineStays
  <2> QED BY <2>2, <2>3
<1>6. CASE ForwardPut(d)
  <2>1. /\ hand' = [hand EXCEPT ![d] = <<>>] /\ central' = [central EXCEPT ![d[1]] = @ \o hand[d]]
        /\ buf' = buf /\ stream' = stream
    BY <1>6 DEF ForwardPut
  <2>2. CASE d = c
    <3>1. hand'[c] = <<>> /\ central'[s] = C \o H
      BY <1>1, <1>2, <1>3, <2>1, <2>2
    <3>2. PICK D \in Seq(Msgs) : D = C \o H
      BY Ends
    <3>3. Chain(S, D, <<>>, B) = Chain(S, C, H, B)
      <4>1. D = Joined(C, H)
        BY <3>2 DEF Joined
      <4> QED BY <4>1, PutMoves
    <3> QED BY <1>1, <1>2, <1>4, <2>1, <3>1, <3>2, <3>3, LineStays
  <2>3. CASE d # c /\ d[1] = s
    <3>1. PICK G \in Seq(Msgs) : G = hand[d]
      BY <1>3
    <3>2. hand'[c] = H /\ central'[s] = C \o G
      BY <1>2, <1>3, <2>1, <2>3, <3>1
    <3>3. d[2] # c[2]
      BY <1>1, <2>3 DEF Chans
    <3>4. Mine(G, c[2]) = {}
      BY <3>1, <3>3, FlightKeys
    <3>5. Embeds(Chain(S, C \o G, H, B), Chain(S, C, H, B), c[2])
      BY <3>4, PutOtherEmbeds
    <3>6. Line(c)' = Chain(S, C \o G, H, B)
      BY <1>1, <1>2, <2>1, <3>2, LineIs
    <3> QED BY <1>4, <3>5, <3>6
  <2>4. CASE d # c /\ d[1] # s
    <3>1. hand'[c] = H /\ central'[s] = C
      BY <1>2, <1>3, <2>1, <2>4
    <3> QED BY <1>1, <1>2, <1>4, <2>1, <3>1, LineStays
  <2> QED BY <2>2, <2>3, <2>4
<1>7. CASE ForwardAbandon(d)
  <2>1. hand' = [hand EXCEPT ![d] = <<>>] /\ central' = central /\ buf' = buf /\ stream' = stream
    BY <1>7 DEF ForwardAbandon
  <2>2. CASE d = c
    <3>1. hand'[c] = <<>>
      BY <1>3, <2>1, <2>2
    <3>2. Embeds(Chain(S, C, <<>>, B), Chain(S, C, H, B), c[2])
      BY AbandonEmbeds
    <3>3. Line(c)' = Chain(S, C, <<>>, B)
      BY <1>1, <1>2, <2>1, <3>1, LineIs
    <3> QED BY <1>4, <3>2, <3>3
  <2>3. CASE d # c
    <3>1. hand'[c] = H
      BY <1>2, <1>3, <2>1, <2>3
    <3> QED BY <1>1, <1>2, <1>4, <2>1, <3>1, LineStays
  <2> QED BY <2>2, <2>3
<1> QED BY <1>5, <1>6, <1>7

LEMMA PublishLine ==
  ASSUME BInv, NEW c \in Chans, NEW d \in Chans, NEW p \in Publishers, PublishSend(p, d)
  PROVE  \/ Embeds(Line(c)', Line(c), c[2])
         \/ c = d /\ pub[p].msg.key = c[2] /\ Joins(Line(c)', Line(c), pub[p].msg)
<1>1. PICK s \in Members : s = c[1]
  BY DEF Chans
<1>2. PICK S \in Seq(Msgs), C \in Seq(Msgs), H \in Seq(Msgs), B \in Seq(Msgs) :
        S = stream[s] /\ C = central[s] /\ H = hand[c] /\ B = buf[c]
  BY <1>1, PartsTyped
<1>3. Line(c) = Chain(S, C, H, B) /\ buf \in [Chans -> Seq(Msgs)]
  BY <1>1, <1>2 DEF Line, BInv, DataTyped
<1>4. PICK m \in Msgs : m = pub[p].msg
  BY DEF PublishSend, BInv, PublishersOK
<1>5. hand' = hand /\ central' = central /\ stream' = stream
  BY DEF PublishSend
<1>6. buf' = buf \/ buf' = [buf EXCEPT ![d] = Append(@, m)]
  BY <1>4 DEF PublishSend
<1>7. CASE buf'[c] = B
  BY <1>1, <1>2, <1>3, <1>5, <1>7, LineStays
<1>8. CASE c = d /\ buf'[c] = Append(B, m)
  <2>1. Joins(Chain(S, C, H, Append(B, m)), Chain(S, C, H, B), m)
    BY AppendJoins
  <2>2. Line(c)' = Chain(S, C, H, Append(B, m))
    BY <1>1, <1>2, <1>5, <1>8, LineIs
  <2>3. m.key = c[2]
    <3>1. m.key \in Keys /\ c \in subs[m.key]
      BY <1>4, <1>8 DEF PublishSend, BInv, PublishersOK, Msgs
    <3> QED BY <3>1 DEF BInv, RegisteredIsOpen
  <2> QED BY <1>3, <1>4, <1>8, <2>1, <2>2, <2>3
<1> QED BY <1>2, <1>3, <1>6, <1>7, <1>8

LEMMA LineSteps ==
  ASSUME BInv, NothingAhead, ForwardersOK, FlightOK, FlightMade, SoloSkipsCentral, [Next]_vars,
         NEW c \in Chans
  PROVE  \/ Embeds(Line(c)', Line(c), c[2])
         \/ \E p \in Publishers : /\ PublishSend(p, c) /\ pub[p].msg.key = c[2]
                                  /\ Joins(Line(c)', Line(c), pub[p].msg)
         \/ /\ SendHistory(c[1]) /\ c = ChanOf(c[1])
            /\ Joins(Line(c)', Line(c), MsgAt(c[2], h[c[1]].next))
<1>1. /\ c[1] \in Members /\ Line(c) = Chain(stream[c[1]], central[c[1]], hand[c], buf[c])
      /\ stream \in [Members -> Seq(Msgs)] /\ central \in [Members -> Seq(Msgs)]
      /\ buf \in [Chans -> Seq(Msgs)]
  BY DEF Chans, Line, BInv, DataTyped
<1>2. ASSUME stream'[c[1]] = stream[c[1]], central'[c[1]] = central[c[1]], hand'[c] = hand[c], buf'[c] = buf[c]
      PROVE  Embeds(Line(c)', Line(c), c[2])
  BY <1>1, <1>2, LineStays
<1>3. CASE UNCHANGED dataVars
  BY <1>2, <1>3 DEF dataVars
<1>4. ASSUME NEW p \in Publishers, NEW k \in Keys, PublishAppend(p, k) \/ PublishAppendFails(p, k)
      PROVE  Embeds(Line(c)', Line(c), c[2])
  BY <1>2, <1>4 DEF PublishAppend, PublishAppendFails, chanVars
<1>5. ASSUME NEW s \in Members,
             \/ ReadHistory(s) \/ Register(s) \/ Ack(s) \/ AckFails(s) \/ Cancel(s)
             \/ s # c[1] /\ SendHistory(s)
      PROVE  Embeds(Line(c)', Line(c), c[2])
  BY <1>1, <1>2, <1>5 DEF ReadHistory, Register, Ack, AckFails, Cancel, SendHistory, chanVars
<1>6. ASSUME NEW s \in Members, s # c[1], LoopSolo(s) \/ LoopGroup(s)
      PROVE  Embeds(Line(c)', Line(c), c[2])
  <2>1. LoopSolo(s) => ChanOf(s) # c /\ buf' = [buf EXCEPT ![ChanOf(s)] = Tail(@)] /\ stream'[c[1]] = stream[c[1]]
    BY <1>1, <1>6 DEF LoopSolo, ChanOf
  <2>2. buf'[c] = buf[c]
    BY <1>1, <1>6, <2>1 DEF LoopGroup
  <2> QED BY <1>1, <1>2, <1>6, <2>1, <2>2 DEF LoopSolo, LoopGroup
<1> QED BY <1>3, <1>4, <1>5, <1>6, DataSteps, PublishLine, SendHistoryLine, LoopLine, ForwardLine
-----------------------------------------------------------------------------
(* The lines stay as they should be. *)

LEMMA MineTyped ==
  ASSUME NEW M \in Seq(Msgs), NEW k, NEW i \in Mine(M, k)
  PROVE  i \in 1 .. Len(M) /\ i \in Nat /\ M[i] \in Msgs /\ M[i].off \in Nat
<1>1. i \in 1 .. Len(M) /\ i \in Nat /\ M[i] \in Msgs
  BY DEF Mine
<1> QED BY <1>1 DEF Msgs

\* What a log holds it holds.
LEMMA LogKeeps ==
  ASSUME BInv, [Next]_vars, NEW k \in Keys
  PROVE  /\ Len(logs[k]) \in Nat /\ Len(logs'[k]) \in Nat /\ Len(logs[k]) <= Len(logs'[k])
         /\ \A i \in 1 .. Len(logs[k]) : logs'[k][i] = logs[k][i]
<1>1. logs \in [Keys -> Seq(Publishers)]
  BY DEF BInv, DataTyped
<1>2. ASSUME NEW q \in Publishers, NEW j \in Keys, logs' = [logs EXCEPT ![j] = Append(@, q)]
      PROVE  \A i \in 1 .. Len(logs[k]) : logs'[k][i] = logs[k][i]
  <2>1. logs'[k] = logs[k] \/ logs'[k] = Append(logs[k], q)
    BY <1>1, <1>2
  <2> QED BY <1>1, <2>1, AppendProperties
<1>3. logs' = logs \/ \E q \in Publishers, j \in Keys : logs' = [logs EXCEPT ![j] = Append(@, q)]
  BY LogSteps
<1> QED BY <1>2, <1>3, LenGrows

\* The line of a channel that has not been made is what its client has received.
LEMMA UnmadeLine ==
  ASSUME BInv, FlightMade, NEW c \in Chans, chan[c] = "none", NEW i \in Mine(Line(c), c[2])
  PROVE  i \in Mine(stream[c[1]], c[2]) /\ Line(c)[i] = stream[c[1]][i]
<1>1. PICK S \in Seq(Msgs), C \in Seq(Msgs), k \in Keys : S = stream[c[1]] /\ C = central[c[1]] /\ k = c[2]
  BY PartsTyped DEF Chans
<1>2. hand[c] = <<>> /\ buf[c] = <<>> /\ \A m \in ToSet(C) : m.key # k
  BY <1>1 DEF FlightMade
<1>3. C \o <<>> \o <<>> = C
  OBVIOUS
<1>4. PICK L \in Seq(Msgs) : L = Line(c)
  BY PartsTyped
<1>5. L = Joined(S, C)
  <2>1. PICK E \in Seq(Msgs) : E = <<>>
    <3>1. <<>> \in Seq(Msgs)
      OBVIOUS
    <3> QED BY <3>1
  <2>2. Line(c) = Chain(S, C, E, E) /\ InFlight(C, E, E) = C
    BY <1>1, <1>2, <1>3, <2>1 DEF Line, InFlight
  <2>3. Chain(S, C, E, E) = Joined(S, InFlight(C, E, E))
    BY ChainTyped
  <2> QED BY <1>4, <2>2, <2>3
<1>6. /\ Len(S) \in Nat /\ Len(C) \in Nat /\ Len(L) = Len(S) + Len(C)
      /\ \A j \in 1 .. Len(S) : L[j] = S[j]
      /\ \A j \in 1 .. Len(C) : L[j + Len(S)] = C[j]
  BY <1>5, Ends DEF Joined
<1>7. i \in 1 .. Len(L) /\ L[i].key = k
  BY <1>1, <1>4, LenProperties DEF Mine
<1>8. i \in 1 .. Len(S)
  <2> SUFFICES ASSUME i \notin 1 .. Len(S) PROVE FALSE
    OBVIOUS
  <2>1. PICK j : j = i - Len(S)
    OBVIOUS
  <2>2. j \in 1 .. Len(C) /\ i = j + Len(S)
    BY <1>6, <1>7, <2>1
  <2>3. C[j].key = k /\ C[j] \in ToSet(C)
    BY <1>6, <1>7, <2>2, LenProperties DEF ToSet
  <2> QED BY <1>2, <2>3
<1>9. L[i] = S[i] /\ DOMAIN S = 1 .. Len(S)
  BY <1>6, <1>8, LenProperties
<1>10. i \in Mine(S, k) /\ L[i] = S[i]
  BY <1>7, <1>8, <1>9 DEF Mine
<1> QED BY <1>1, <1>4, <1>10

LEMMA EmptyEmbeds ==
  ASSUME NEW M \in Seq(Msgs), NEW L \in Seq(Msgs), NEW k, Embeds(M, L, k), Mine(L, k) = {}
  PROVE  Mine(M, k) = {}
<1> SUFFICES ASSUME NEW i \in Mine(M, k) PROVE FALSE
  OBVIOUS
<1>1. i \in 1 .. Len(M) /\ Len(M) \in Nat
  BY LenProperties DEF Mine
<1> QED BY <1>1 DEF Embeds, Follows

\* Of what is all behind it in the log, the message that joins is the only one.
LEMMA JoinsOnce ==
  ASSUME NEW M \in Seq(Msgs), NEW L \in Seq(Msgs), NEW k, NEW x \in Mine(M, k), Follows(M, L, k, x),
         NEW u, InLog(L, k, M[x].off), M[x].off < u
  PROVE  OnceYet(M, k, u, M[x].off)
<1>1. PICK f \in [DOMAIN M -> Nat] :
        /\ \A i \in Mine(M, k) : i <= x
        /\ \A i \in Mine(M, k) : i < x => f[i] \in Mine(L, k) /\ L[f[i]] = M[i]
  BY DEF Follows
<1>2. M[x] \in Msgs /\ M[x].off \in Nat
  BY MineTyped
<1>3. ASSUME NEW i \in Mine(M, k), M[i].off = M[x].off
      PROVE  i = x
  <2>1. i \in Nat /\ x \in Nat
    BY DEF Mine
  <2>2. CASE i < x
    BY <1>1, <1>2, <1>3, <2>2 DEF InLog
  <2> QED BY <1>1, <2>1, <2>2
<1> QED BY <1>3 DEF OnceYet

\* Whatever step is taken, the line has its properties with respect to what was stored
\* and read before it.
LEMMA LineKept ==
  ASSUME BInv, DInv, OInv, [Next]_vars, NEW c \in Chans,
         NEW k, k = c[2], NEW u, u = upto[c], NEW log, log = logs[k], NEW n, n = Len(log),
         NEW M \in Seq(Msgs), M = Line(c)'
  PROVE  /\ InLog(M, k, n) /\ InOrder(M, k, log) /\ Handed(M, k, u)
         /\ \A o \in Nat : StillToCome(c, o)' => OnceYet(M, k, u, o)
<1>1. PICK L \in Seq(Msgs) : L = Line(c)
  BY PartsTyped
<1>2. /\ k \in Keys /\ log \in Seq(Publishers) /\ n \in Nat /\ u \in Nat /\ c[1] \in Members
  BY PartsTyped, LenProperties
<1>3. /\ InLog(L, k, n) /\ InOrder(L, k, log) /\ Handed(L, k, u)
      /\ \A o \in Nat : StillToCome(c, o) => OnceYet(L, k, u, o)
  BY <1>1 DEF OInv, LinesOK, LineOK
<1>4. \A o \in Nat : StillToCome(c, o)' => StillToCome(c, o) \/ o = n
  BY ComingMoves
<1>5. ASSUME InLog(M, k, n), NEW o, o = n
      PROVE  OnceYet(M, k, u, o)
  <2>1. \A i \in Mine(M, k) : M[i].off < n /\ M[i].off \in Nat
    BY <1>5, MineTyped DEF InLog
  <2> QED BY <1>2, <1>5, <2>1 DEF OnceYet
<1>6. CASE Embeds(Line(c)', Line(c), c[2])
  <2>1. Embeds(M, L, k)
    BY <1>1, <1>6
  <2>2. /\ InLog(M, k, n) /\ InOrder(M, k, log) /\ Handed(M, k, u)
        /\ \A o : OnceYet(L, k, u, o) => OnceYet(M, k, u, o)
    BY <1>3, <2>1, Carry
  <2> QED BY <1>3, <1>4, <1>5, <2>2
<1>7. ASSUME NEW p \in Publishers, PublishSend(p, c), pub[p].msg.key = c[2],
             Joins(Line(c)', Line(c), pub[p].msg)
      PROVE  /\ InLog(M, k, n) /\ InOrder(M, k, log) /\ Handed(M, k, u)
             /\ \A o \in Nat : StillToCome(c, o)' => OnceYet(M, k, u, o)
  <2>1. PICK m \in Msgs : m = pub[p].msg
    BY <1>7 DEF PublishSend, BInv, PublishersOK
  <2>2. m.key = k /\ m.off \in Nat /\ pub[p].st = "fanout" /\ c \in pub[p].todo
    BY <1>7, <2>1 DEF Msgs, PublishSend
  <2>3. PICK x \in Mine(M, k) : Follows(M, L, k, x) /\ M[x] = m
    BY <1>1, <1>7, <2>1, <2>2 DEF Joins
  <2>4. m.off < n
    BY <2>1, <2>2 DEF OInv, FlightOK, Stored
  <2>5. Latest(log, n, m.off)
    <3>1. Newest(p, log, m.off)
      BY <2>1, <2>2 DEF OInv, PublishedLast
    <3> QED BY <1>2, <2>2, <3>1, NewestIsLatest
  <2>6. OnceYet(L, k, u, m.off)
    <3>1. m = MsgAt(k, m.off)
      BY <2>2 DEF Msgs, MsgAt
    <3>2. StillToCome(c, m.off)
      BY <2>1, <2>2, <3>1 DEF StillToCome
    <3> QED BY <1>3, <2>2, <3>2
  <2>7. /\ InLog(M, k, n) /\ InOrder(M, k, log) /\ Handed(M, k, u)
        /\ \A o : OnceYet(L, k, u, o) /\ o # m.off => OnceYet(M, k, u, o)
    BY <1>2, <1>3, <2>3, <2>4, <2>5, <2>6, JoinsLast
  <2>8. \A o \in Nat : StillToCome(c, o)' => o # m.off
    BY <1>7, <2>1, SentIsNotToCome DEF OInv
  <2> QED BY <1>3, <1>4, <1>5, <2>7, <2>8
<1>8. ASSUME SendHistory(c[1]), c = ChanOf(c[1]), Joins(Line(c)', Line(c), MsgAt(c[2], h[c[1]].next))
      PROVE  /\ InLog(M, k, n) /\ InOrder(M, k, log) /\ Handed(M, k, u)
             /\ \A o \in Nat : StillToCome(c, o)' => OnceYet(M, k, u, o)
  <2>1. PICK s \in Members : s = c[1]
    BY <1>2
  <2>2. /\ h[s].pc = "send" /\ h[s].next < h[s].end /\ h[s].next \in Nat /\ h[s].end \in Nat
        /\ KeyOf(s) = k /\ ChanOf(s) = c
    <3>1. h[s].pc = "send" /\ h[s].next < h[s].end /\ h[s] \in HandlerType
      BY <1>8, <2>1, HandlerFacts DEF SendHistory
    <3>2. c = <<s, KeyOf(s)>> /\ ChanOf(s) = c
      BY <1>8, <2>1 DEF ChanOf
    <3>3. c[2] = KeyOf(s)
      BY <3>2
    <3>4. h[s].next \in Nat /\ h[s].end \in Nat
      BY <3>1 DEF HandlerType
    <3> QED BY <3>1, <3>2, <3>3, <3>4
  <2>3. PICK y \in Nat : y = h[s].next
    BY <2>2
  <2>4. y < n /\ y < u
    <3>1. h[s].end <= u /\ h[s].end <= n
      BY <2>2 DEF OInv, HistoryOnly
    <3> QED BY <1>2, <2>2, <2>3, <3>1
  <2>5. PICK m \in Msgs : m = MsgAt(k, y)
    BY <1>2 DEF MsgAt, Msgs
  <2>6. m.key = k /\ m.off = y
    BY <2>5 DEF MsgAt
  <2>7. PICK x \in Mine(M, k) : Follows(M, L, k, x) /\ M[x] = m
    BY <1>1, <1>8, <2>1, <2>3, <2>5, <2>6 DEF Joins
  <2>8. InLog(L, k, y)
    <3>1. c \in Ahead(s)
      BY <2>2 DEF Ahead, ChanOf, KeyOf
    <3>2. chan[c] = "none"
      BY <2>2, <3>1 DEF DInv, NothingAhead
    <3>3. \A i \in Mine(L, k) : i \in Mine(stream[s], k) /\ L[i] = stream[s][i]
      BY <1>1, <2>1, <3>2, UnmadeLine DEF OInv
    <3>4. \A i \in Mine(stream[s], k) : stream[s][i].off < y
      BY <2>2, <2>3, <3>1 DEF OInv, HistoryOnly
    <3> QED BY <3>3, <3>4 DEF InLog
  <2>9. Latest(log, y, m.off)
    BY <2>6 DEF Latest
  <2>10. OnceYet(L, k, u, m.off)
    <3>1. \A i \in Mine(L, k) : L[i].off < y /\ L[i].off \in Nat
      BY <2>8, MineTyped DEF InLog
    <3> QED BY <2>6, <3>1 DEF OnceYet
  <2>11. InLog(M, k, n) /\ Handed(M, k, u) /\ \A o : OnceYet(L, k, u, o) /\ o # m.off => OnceYet(M, k, u, o)
    BY <1>2, <1>3, <2>4, <2>6, <2>7, <2>10, JoinsLast
  <2>12. InOrder(M, k, log)
    BY <1>3, <2>7, <2>8, <2>9, JoinsLast
  <2>13. OnceYet(M, k, u, m.off)
    BY <2>4, <2>6, <2>7, <2>8, JoinsOnce
  <2> QED BY <1>3, <1>4, <1>5, <2>11, <2>12, <2>13
<1> QED BY <1>6, <1>7, <1>8, LineSteps DEF DInv, OInv

\* The read of the history comes before the first message of its key.
LEMMA ReadsFirst ==
  ASSUME BInv, DInv, OInv, [Next]_vars, NEW c \in Chans, ReadHistory(c[1]), c = ChanOf(c[1]),
         NEW M \in Seq(Msgs), M = Line(c)'
  PROVE  Mine(M, c[2]) = {}
<1>1. PICK s \in Members : s = c[1]
  BY PartsTyped
<1>2. h[s].pc = "read" /\ c \in Ahead(s) /\ h'[s].pc = "send"
  BY <1>1, ReadHistoryMoves DEF Moves, Ahead, ChanOf, KeyOf
<1>3. chan[c] = "none" /\ Mine(stream[s], c[2]) = {}
  BY <1>2 DEF DInv, NothingAhead, OInv, HistoryOnly
<1>4. PICK L \in Seq(Msgs) : L = Line(c)
  BY PartsTyped
<1>5. Mine(L, c[2]) = {}
  BY <1>1, <1>3, <1>4, UnmadeLine DEF OInv
<1>6. ~SendHistory(s) /\ \A p \in Publishers : ~PublishSend(p, c)
  BY <1>2 DEF SendHistory, PublishSend
<1>7. Embeds(M, L, c[2])
  BY <1>1, <1>4, <1>6, LineSteps DEF DInv, OInv
<1> QED BY <1>4, <1>5, <1>7, EmptyEmbeds

LEMMA LinesPreserved ==
  ASSUME BInv, DInv, OInv, [Next]_vars
  PROVE  LinesOK'
<1> SUFFICES ASSUME NEW c \in Chans, NEW M \in Seq(Msgs), M = Line(c)'
             PROVE  /\ InLog(M, c[2], Len(logs'[c[2]])) /\ InOrder(M, c[2], logs'[c[2]])
                    /\ Handed(M, c[2], upto'[c])
                    /\ \A o \in Nat : StillToCome(c, o)' => OnceYet(M, c[2], upto'[c], o)
  <2>1. \A c \in Chans : Line(c)' \in Seq(Msgs)
    <3>1. BInv'
      BY BPreserved
    <3>2. ASSUME BInv', NEW c \in Chans
          PROVE  Chain(stream'[c[1]], central'[c[1]], hand'[c], buf'[c]) \in Seq(Msgs)
      BY <3>2, ChainTyped DEF BInv, DataTyped, Chans
    <3> QED BY <3>1, <3>2, LineIs
  <2> QED BY <2>1 DEF LinesOK, LineOK
<1>1. PICK k \in Keys : k = c[2]
  BY PartsTyped
<1>2. PICK log, n, u : log = logs[k] /\ n = Len(log) /\ u = upto[c]
  OBVIOUS
<1>3. /\ InLog(M, k, n) /\ InOrder(M, k, log) /\ Handed(M, k, u)
      /\ \A o \in Nat : StillToCome(c, o)' => OnceYet(M, k, u, o)
  BY <1>1, <1>2, LineKept
<1>4. PICK new, z : new = logs'[k] /\ z = Len(new)
  OBVIOUS
<1>5. n \in Nat /\ z \in Nat /\ n <= z /\ \A i \in 1 .. n : new[i] = log[i]
  BY <1>2, <1>4, LogKeeps
<1>6. \A i \in Mine(M, k) : M[i].off \in Nat /\ M[i].off < n
  BY <1>3, MineTyped DEF InLog
<1>7. InLog(M, k, z)
  BY <1>5, <1>6 DEF InLog
<1>8. InOrder(M, k, new)
  <2>1. \A i \in Mine(M, k) : M[i].off + 1 \in 1 .. n
    BY <1>5, <1>6
  <2>2. \A i \in Mine(M, k) : new[M[i].off + 1] = log[M[i].off + 1]
    BY <1>5, <2>1
  <2> QED BY <1>3, <2>2 DEF InOrder
<1>9. CASE upto'[c] = u
  BY <1>1, <1>3, <1>4, <1>7, <1>8, <1>9
<1>10. CASE ReadHistory(c[1]) /\ c = ChanOf(c[1])
  <2>1. Mine(M, k) = {}
    BY <1>1, <1>10, ReadsFirst
  <2>2. Handed(M, k, upto'[c]) /\ \A o : OnceYet(M, k, upto'[c], o)
    BY <2>1 DEF Handed, OnceYet
  <2> QED BY <1>1, <1>4, <1>7, <1>8, <2>2
<1> QED BY <1>2, <1>9, <1>10, UptoMoves

LEMMA OPreserved ==
  ASSUME BInv, DInv, OInv, [Next]_vars
  PROVE  OInv'
BY FlightPreserved, FlightMadePreserved, SkipsPreservedForSolo, PublishedLastPreserved,
   HistoryOnlyPreserved, LinesPreserved DEF OInv, DInv
-----------------------------------------------------------------------------
LEMMA OInitially ==
  ASSUME Init
  PROVE  OInv
<1>1. FlightOK /\ FlightMade /\ SoloSkipsCentral /\ PublishedLast
  BY DEF Init, FlightOK, FlightMade, SoloSkipsCentral, PublishedLast, Idle, ToSet, Chans
<1>2. HistoryOnly
  BY DEF Init, HistoryOnly
<1>3. ASSUME NEW c \in Chans
      PROVE  LineOK(c, Line(c))
  <2>1. <<>> \o <<>> \o <<>> \o <<>> = <<>>
    OBVIOUS
  <2>2. Line(c) = <<>>
    BY <2>1 DEF Init, Line, Chain, Chans
  <2>3. \A k : Mine(Line(c), k) = {}
    BY <2>2 DEF Mine
  <2> HIDE DEF Line
  <2> QED BY <2>3 DEF LineOK, InLog, InOrder, Handed, OnceYet
<1> QED BY <1>1, <1>2, <1>3 DEF OInv, LinesOK

\* A stop leaves of each line what its client has received.
LEMMA CrashKeepsOInv ==
  ASSUME BInv, OInv, Crash
  PROVE  OInv'
<1>1. FlightOK' /\ FlightMade' /\ SoloSkipsCentral' /\ PublishedLast'
  BY DEF Crash, FlightOK, FlightMade, SoloSkipsCentral, PublishedLast, Idle, ToSet, Chans
<1>2. HistoryOnly'
  BY CrashedHandlers DEF Crash, OInv, HistoryOnly
<1>3. ASSUME NEW c \in Chans, NEW M, M = Line(c)'
      PROVE  /\ InLog(M, c[2], Len(logs'[c[2]])) /\ InOrder(M, c[2], logs'[c[2]])
             /\ Handed(M, c[2], upto'[c])
             /\ \A o \in Nat : ~StillToCome(c, o)'
  <2>1. PICK S \in Seq(Msgs), C \in Seq(Msgs), H \in Seq(Msgs), B \in Seq(Msgs) :
          S = stream[c[1]] /\ C = central[c[1]] /\ H = hand[c] /\ B = buf[c]
    BY PartsTyped
  <2>2. c[1] \in Members /\ logs' = logs /\ upto' = upto
    BY DEF Crash, Chans
  <2>3. M = Chain(S, <<>>, <<>>, <<>>) /\ Line(c) = Chain(S, C, H, B)
    BY <1>3, <2>1, <2>2, LineIs DEF Crash, Line
  <2>4. Embeds(M, Line(c), c[2])
    BY <2>3, PrefixEmbeds
  <2>5. M \in Seq(Msgs) /\ Line(c) \in Seq(Msgs)
    <3>1. PICK E \in Seq(Msgs) : E = <<>>
      <4>1. <<>> \in Seq(Msgs)
        OBVIOUS
      <4> QED BY <4>1
    <3>2. Chain(S, E, E, E) \in Seq(Msgs)
      BY ChainTyped
    <3> QED BY <2>3, <3>1, <3>2, PartsTyped
  <2>6. /\ InLog(Line(c), c[2], Len(logs[c[2]])) /\ InOrder(Line(c), c[2], logs[c[2]])
        /\ Handed(Line(c), c[2], upto[c])
    BY DEF OInv, LinesOK, LineOK
  <2>7. \A o \in Nat : ~StillToCome(c, o)'
    BY DEF Crash, StillToCome, Idle
  <2> QED BY <2>2, <2>4, <2>5, <2>6, <2>7, Carry
<1>4. LinesOK'
  BY <1>3 DEF LinesOK, LineOK
<1> QED BY <1>1, <1>2, <1>4 DEF OInv

\* What a client has received is the front of the line of each of its channels.
LEMMA ReceivedInLine ==
  ASSUME BInv, NEW s \in Members, NEW i \in DOMAIN stream[s],
         NEW k, k = stream[s][i].key, NEW c, c = <<s, k>>
  PROVE  c \in Chans /\ k \in Keys /\ i \in Mine(Line(c), k) /\ Line(c)[i] = stream[s][i]
<1>1. PICK S \in Seq(Msgs) : S = stream[s]
  BY DEF BInv, DataTyped
<1>2. i \in 1 .. Len(S) /\ S[i] \in Msgs /\ Len(S) \in Nat
  BY <1>1, LenProperties
<1>3. k \in Keys /\ c \in Chans /\ c[1] = s
  BY <1>1, <1>2 DEF Msgs, Chans
<1>4. PICK L \in Seq(Msgs), R \in Seq(Msgs) : L = Line(c) /\ L = Joined(S, R)
  <2>1. PICK C \in Seq(Msgs), H \in Seq(Msgs), B \in Seq(Msgs) :
          C = central[s] /\ H = hand[c] /\ B = buf[c]
    BY <1>3, PartsTyped
  <2>2. PICK R \in Seq(Msgs) : R = InFlight(C, H, B)
    BY ChainTyped
  <2>3. Line(c) = Chain(S, C, H, B)
    BY <1>1, <1>3, <2>1 DEF Line
  <2>4. Chain(S, C, H, B) = Joined(S, R) /\ Chain(S, C, H, B) \in Seq(Msgs)
    BY <2>2, ChainTyped
  <2> QED BY <2>2, <2>3, <2>4
<1>5. /\ Len(L) = Len(S) + Len(R) /\ Len(R) \in Nat
      /\ \A j \in 1 .. Len(S) : L[j] = S[j]
  <2>1. L = Joined(S, R)
    BY <1>4
  <2> QED BY <2>1, Ends DEF Joined
<1>6. i \in 1 .. Len(L) /\ DOMAIN L = 1 .. Len(L) /\ L[i] = S[i]
  <2>1. DOMAIN L = 1 .. Len(L)
    BY LenProperties
  <2>2. i \in 1 .. Len(L)
    BY <1>2, <1>5
  <2> QED BY <1>2, <1>5, <2>1, <2>2
<1>7. i \in Mine(L, k)
  BY <1>1, <1>6 DEF Mine
<1> QED BY <1>1, <1>3, <1>4, <1>6, <1>7

LEMMA ReceivedInOrder ==
  ASSUME BInv, OInv
  PROVE  PublisherOrder
<1> SUFFICES ASSUME NEW s \in Members, NEW i \in DOMAIN stream[s], NEW j \in DOMAIN stream[s],
                    i < j, stream[s][i].key = stream[s][j].key,
                    logs[stream[s][i].key][stream[s][i].off + 1] = logs[stream[s][j].key][stream[s][j].off + 1]
             PROVE  stream[s][i].off <= stream[s][j].off
  BY DEF PublisherOrder
<1>1. PICK k, c : k = stream[s][i].key /\ c = <<s, k>>
  OBVIOUS
<1>2. /\ c \in Chans /\ c[2] = k
      /\ i \in Mine(Line(c), k) /\ Line(c)[i] = stream[s][i]
      /\ j \in Mine(Line(c), k) /\ Line(c)[j] = stream[s][j]
  BY <1>1, ReceivedInLine
<1>3. InOrder(Line(c), k, logs[k])
  BY <1>2 DEF OInv, LinesOK, LineOK
<1> QED BY <1>1, <1>2, <1>3 DEF InOrder

LEMMA ReceivedTwice ==
  ASSUME BInv, OInv
  PROVE  DuplicatesOnlyAtHandover
<1> SUFFICES ASSUME NEW s \in Members, NEW i \in DOMAIN stream[s], NEW j \in DOMAIN stream[s],
                    i < j, stream[s][i] = stream[s][j]
             PROVE  /\ stream[s][i].off < upto[<<s, stream[s][i].key>>]
                    /\ \A l \in DOMAIN stream[s] : stream[s][l] = stream[s][i] => l \in {i, j}
  BY DEF DuplicatesOnlyAtHandover
<1>1. PICK k, c : k = stream[s][i].key /\ c = <<s, k>>
  OBVIOUS
<1>2. /\ c \in Chans /\ c[2] = k
      /\ i \in Mine(Line(c), k) /\ Line(c)[i] = stream[s][i]
      /\ j \in Mine(Line(c), k) /\ Line(c)[j] = stream[s][j]
  BY <1>1, ReceivedInLine
<1>3. /\ stream[s][i].off < upto[c]
      /\ \A l \in Mine(Line(c), k) : Line(c)[l].off = stream[s][i].off => l \in {i, j}
  BY <1>2 DEF OInv, LinesOK, LineOK, Handed
<1>4. ASSUME NEW l \in DOMAIN stream[s], stream[s][l] = stream[s][i]
      PROVE  l \in Mine(Line(c), k) /\ Line(c)[l] = stream[s][i]
  BY <1>1, <1>4, ReceivedInLine
<1> QED BY <1>1, <1>3, <1>4

\* The inductive invariant about lines holds in every reachable state of the broker,
\* through any number of stops.
THEOREM OInvariance == RestartSpec => []OInv
<1>1. RestartInit => OInv
  BY OInitially DEF RestartInit
<1>2. BInv /\ DInv /\ OInv /\ [RestartNext]_restartVars => OInv'
  <2> SUFFICES ASSUME BInv, DInv, OInv, [RestartNext]_restartVars
               PROVE  OInv'
    OBVIOUS
  <2>1. CASE Crash
    BY <2>1, CrashKeepsOInv
  <2>2. CASE [Next]_vars
    BY <2>2, OPreserved
  <2> QED BY <2>1, <2>2 DEF RestartNext, restartVars
<1> QED BY <1>1, <1>2, RestartInvariance, PTL DEF RestartSpec

\* Messages of one publisher reach a client in the order in which they were published,
\* whatever the history, the forwarders of its group and other publishers put between
\* them: for any number of members, publishers and partitions, and any capacities.
THEOREM PublishersAreInOrder == Spec => []PublisherOrder
<1>1. BInv /\ DInv /\ OInv /\ [Next]_vars => OInv'
  BY OPreserved
<1>2. Init => OInv
  BY OInitially
<1>3. BInv /\ OInv => PublisherOrder
  BY ReceivedInOrder
<1> QED BY <1>1, <1>2, <1>3, BInvariance, DInvariance, PTL DEF Spec

\* A client receives a message twice at most, and then once in the history and once
\* live: the publisher that has still to send a message sends it once.
THEOREM DuplicatesAreOfHandovers == Spec => []DuplicatesOnlyAtHandover
<1>1. BInv /\ DInv /\ OInv /\ [Next]_vars => OInv'
  BY OPreserved
<1>2. Init => OInv
  BY OInitially
<1>3. BInv /\ OInv => DuplicatesOnlyAtHandover
  BY ReceivedTwice
<1> QED BY <1>1, <1>2, <1>3, BInvariance, DInvariance, PTL DEF Spec

\* Both hold through stops of the process: what a client received from the process that
\* stopped is in order and once as well.
THEOREM ReceivedThroughStops == RestartSpec => [](PublisherOrder /\ DuplicatesOnlyAtHandover)
<1>1. BInv /\ OInv => PublisherOrder /\ DuplicatesOnlyAtHandover
  BY ReceivedInOrder, ReceivedTwice
<1> QED BY <1>1, OInvariance, RestartInvariance, PTL
=============================================================================

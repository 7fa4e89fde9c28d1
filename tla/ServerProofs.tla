------------------------------ MODULE ServerProofs ------------------------------
(***************************************************************************)
(* Proofs about Server, for any number of clients, starts and messages.    *)
(* The first part (SInv: clients, answers, streams) needs no more of the   *)
(* chain of interceptors than that its frames are entered and left one by  *)
(* one.  The second (FInv: panics) is about the order of the frames, and   *)
(* begins with what the loop of ChainUnaryServer computes.                 *)
(***************************************************************************)
EXTENDS Server, Integers, SequenceTheorems, TLAPS

CallType == [way : {"none", "in", "out", "panic"}, at : Int, res : {"ok", "error"}]

\* The parts of the type invariant that do not depend on the chain.
ServerTyped ==
  /\ call \in [Calls -> CallType]
  /\ reply \in [Calls -> {"none", "ok", "error"}]
  /\ stored \in [Producers -> Nat]
  /\ prod \in [Producers -> {"start", "waiting", "exit 0", "exit 1"}]
  /\ cons \in [Consumers -> {"start", "recv", "sleep", "got", "acking", "killed", "exit 0", "exit 1"}]
  /\ buffer \in [Consumers -> Nat]
  /\ received \in [Consumers -> Nat]

\* A call is told about at most once, and only an answer that follows the store is Ok.
PublishOK(p) ==
  LET x == <<p, "Publish">>
  IN  /\ prod[p] = "start" => call[x].way = "none" /\ reply[x] = "none"
      /\ call[x].way = "out" /\ call[x].res = "ok" => stored[p] >= 1
      /\ reply[x] = "ok" => stored[p] >= 1
      /\ prod[p] = "exit 0" => stored[p] >= 1
      /\ prod[p] = "waiting" => call[x].way # "none" \/ reply[x] # "none"

\* A stream ends with nil only when its client, or its connection, has gone.
StreamOK(c) ==
  LET x == <<c, "Subscribe">>
  IN  /\ cons[c] \in {"recv", "got", "acking", "sleep"} => call[x].way # "none" \/ reply[x] # "none"
      /\ call[x].way = "out" /\ call[x].res = "ok" => Gone(c)
      /\ reply[x] = "ok" => Ended(c)
      /\ cons[c] # "exit 0"

AckOK(c) ==
  cons[c] = "acking" => call[<<c, "Ack">>].way # "none" \/ reply[<<c, "Ack">>] # "none"

\* The inductive invariant.
SInv ==
  /\ ServerTyped
  /\ \A p \in Producers : PublishOK(p)
  /\ \A c \in Consumers : StreamOK(c) /\ AckOK(c)

-----------------------------------------------------------------------------
\* The calls of a client.
LEMMA CallsOf ==
  /\ \A p \in Producers : <<p, "Publish">> \in Calls
  /\ \A c \in Consumers : <<c, "Subscribe">> \in Calls /\ <<c, "Ack">> \in Calls
BY DEF Calls, Publishes, Subscribes

LEMMA SInitially == ServerInit => SInv
<1> SUFFICES ASSUME ServerInit PROVE SInv
  OBVIOUS
<1>1. None \in CallType /\ None.way = "none"
  BY DEF None, CallType
<1>2. ServerTyped
  BY <1>1 DEF ServerInit, ServerTyped
<1>3. \A p \in Producers : PublishOK(p)
  BY <1>1, CallsOf DEF ServerInit, PublishOK
<1>4. \A c \in Consumers : StreamOK(c) /\ AckOK(c)
  BY <1>1, CallsOf DEF ServerInit, StreamOK, AckOK
<1> QED BY <1>2, <1>3, <1>4 DEF SInv

\* The parts of the invariant, one client at a time.
LEMMA FromParts ==
  ASSUME ServerTyped',
         \A p \in Producers : PublishOK(p)',
         \A c \in Consumers : StreamOK(c)' /\ AckOK(c)'
  PROVE  SInv'
BY DEF SInv

\* A step inside a call that neither begins it, nor ends it, nor makes a success of
\* it (for an Ack, that does not matter).
LEMMA InsideCall ==
  ASSUME SInv, NEW x \in Calls, NEW r \in CallType,
         call' = [call EXCEPT ![x] = r],
         call[x].way # "none", r.way # "none",
         r.way = "in" => call[x].way = "in",
         x[2] = "Ack" \/ (r.way = "out" /\ r.res = "ok" => call[x].way = "out" /\ call[x].res = "ok"),
         UNCHANGED <<server, reply, clients, stored, buffer, received>>
  PROVE  SInv'
<1>1. UNCHANGED <<reply, prod, cons, stored, buffer, received>>
  BY DEF clients
<1>2. call \in [Calls -> CallType] /\ call' \in [Calls -> CallType]
  BY DEF SInv, ServerTyped
<1>3. ServerTyped'
  BY <1>1, <1>2 DEF SInv, ServerTyped
<1>4. ASSUME NEW p \in Producers PROVE PublishOK(p)'
  <2>1. PublishOK(p)
    BY <1>4 DEF SInv
  <2>2. <<p, "Publish">> \in Calls
    BY CallsOf
  <2>3. CASE x = <<p, "Publish">>
    <3>1. call'[<<p, "Publish">>] = r /\ x[2] = "Publish"
      BY <1>2, <2>3
    <3> QED BY <1>1, <2>1, <2>3, <3>1 DEF PublishOK
  <2>4. CASE x # <<p, "Publish">>
    <3>1. call'[<<p, "Publish">>] = call[<<p, "Publish">>]
      BY <1>2, <2>2, <2>4
    <3> QED BY <1>1, <2>1, <3>1 DEF PublishOK
  <2> QED BY <2>3, <2>4
<1>5. ASSUME NEW c \in Consumers PROVE StreamOK(c)'
  <2>1. StreamOK(c)
    BY <1>5 DEF SInv
  <2>2. <<c, "Subscribe">> \in Calls
    BY CallsOf
  <2>3. Gone(c) => Gone(c)'
    BY <1>1 DEF Gone, Ended
  <2>4. CASE x = <<c, "Subscribe">>
    <3>1. call'[<<c, "Subscribe">>] = r /\ x[2] = "Subscribe"
      BY <1>2, <2>4
    <3> QED BY <1>1, <2>1, <2>3, <2>4, <3>1 DEF StreamOK, Ended
  <2>5. CASE x # <<c, "Subscribe">>
    <3>1. call'[<<c, "Subscribe">>] = call[<<c, "Subscribe">>]
      BY <1>2, <2>2, <2>5
    <3> QED BY <1>1, <2>1, <2>3, <3>1 DEF StreamOK, Ended
  <2> QED BY <2>4, <2>5
<1>6. ASSUME NEW c \in Consumers PROVE AckOK(c)'
  <2>1. AckOK(c) /\ <<c, "Ack">> \in Calls
    BY <1>6, CallsOf DEF SInv
  <2>2. call'[<<c, "Ack">>].way = "none" => call[<<c, "Ack">>].way = "none"
    BY <1>2, <2>1
  <2> QED BY <1>1, <2>1, <2>2 DEF AckOK
<1> QED BY <1>3, <1>4, <1>5, <1>6, FromParts

\* The end of a call is told, unless it has been told already.
LEMMA Told ==
  ASSUME SInv, NEW x \in Calls, NEW v \in {"ok", "error"}, NEW r \in CallType,
         call[x].way # "none", r.way = "none" \/ r = call[x],
         v = "ok" => call[x].way = "out" /\ call[x].res = "ok",
         call' = [call EXCEPT ![x] = r],
         reply' = [reply EXCEPT ![x] = IF @ = "none" THEN v ELSE @],
         UNCHANGED <<server, clients, stored, buffer, received>>
  PROVE  SInv'
<1>1. UNCHANGED <<prod, cons, stored, buffer, received>>
  BY DEF clients
<1>2. /\ call \in [Calls -> CallType] /\ call' \in [Calls -> CallType]
      /\ reply \in [Calls -> {"none", "ok", "error"}]
      /\ reply' \in [Calls -> {"none", "ok", "error"}]
      /\ call'[x] = r /\ reply'[x] = IF reply[x] = "none" THEN v ELSE reply[x]
      /\ \A y \in Calls : y # x => call'[y] = call[y] /\ reply'[y] = reply[y]
  BY DEF SInv, ServerTyped
<1>3. ServerTyped'
  BY <1>1, <1>2 DEF SInv, ServerTyped
<1>4. reply'[x] # "none" /\ \A y \in Calls : reply[y] # "none" => reply'[y] = reply[y]
  BY <1>2
<1>5. ASSUME NEW p \in Producers PROVE PublishOK(p)'
  <2>1. PublishOK(p) /\ <<p, "Publish">> \in Calls
    BY <1>5, CallsOf DEF SInv
  <2>2. CASE x = <<p, "Publish">>
    BY <1>1, <1>2, <1>4, <2>1, <2>2 DEF PublishOK, CallType
  <2>3. CASE x # <<p, "Publish">>
    BY <1>1, <1>2, <2>1, <2>3 DEF PublishOK
  <2> QED BY <2>2, <2>3
<1>6. ASSUME NEW c \in Consumers PROVE StreamOK(c)'
  <2>1. StreamOK(c) /\ <<c, "Subscribe">> \in Calls
    BY <1>6, CallsOf DEF SInv
  <2>2. Gone(c) => Gone(c)'
    BY <1>1, <1>4, <2>1 DEF Gone, Ended
  <2>3. CASE x = <<c, "Subscribe">>
    <3>1. v = "ok" /\ reply[x] = "none" => Ended(c)
      BY <2>1, <2>3 DEF StreamOK, Gone
    <3>2. Ended(c) => Ended(c)'
      BY <1>1 DEF Ended
    <3> QED BY <1>1, <1>2, <1>4, <2>1, <2>2, <2>3, <3>1, <3>2 DEF StreamOK
  <2>4. CASE x # <<c, "Subscribe">>
    BY <1>1, <1>2, <2>1, <2>2, <2>4 DEF StreamOK, Ended
  <2> QED BY <2>3, <2>4
<1>7. ASSUME NEW c \in Consumers PROVE AckOK(c)'
  <2>1. AckOK(c) /\ <<c, "Ack">> \in Calls
    BY <1>7, CallsOf DEF SInv
  <2> QED BY <1>1, <1>2, <1>4, <2>1 DEF AckOK
<1> QED BY <1>3, <1>5, <1>6, <1>7, FromParts

\* Nothing happens to clients and calls.
LEMMA Quiet ==
  ASSUME SInv, UNCHANGED <<calls, clients, stored>>,
         buffer' \in [Consumers -> Nat], received' \in [Consumers -> Nat]
  PROVE  SInv'
<1>1. UNCHANGED <<call, reply, prod, cons, stored>>
  BY DEF calls, clients
<1>2. ServerTyped'
  BY <1>1 DEF SInv, ServerTyped
<1>3. \A p \in Producers : PublishOK(p)'
  BY <1>1 DEF SInv, PublishOK
<1>4. \A c \in Consumers : StreamOK(c)' /\ AckOK(c)'
  BY <1>1 DEF SInv, StreamOK, AckOK, Gone, Ended
<1> QED BY <1>2, <1>3, <1>4, FromParts

\* Every call in progress is told an error when the process ends.
LEMMA DiePreserves ==
  ASSUME SInv, NEW why, Die(why)
  PROVE  SInv'
<1>1. UNCHANGED <<prod, cons, stored, buffer, received>>
  BY DEF Die, clients
<1>2. None \in CallType /\ None.way = "none"
  BY DEF None, CallType
<1>3. /\ reply \in [Calls -> {"none", "ok", "error"}]
      /\ reply' = [x \in Calls |-> IF call[x].way # "none" THEN "error" ELSE reply[x]]
      /\ call' = [x \in Calls |-> None]
  BY DEF Die, SInv, ServerTyped
<1>4. ServerTyped'
  BY <1>1, <1>2, <1>3 DEF SInv, ServerTyped
<1>5. \A x \in Calls : /\ call'[x].way = "none"
                       /\ call[x].way # "none" => reply'[x] = "error"
                       /\ call[x].way = "none" => reply'[x] = reply[x]
  BY <1>2, <1>3
<1>6. ASSUME NEW p \in Producers PROVE PublishOK(p)'
  <2>1. PublishOK(p) /\ <<p, "Publish">> \in Calls
    BY <1>6, CallsOf DEF SInv
  <2> QED BY <1>1, <1>5, <2>1 DEF PublishOK
<1>7. ASSUME NEW c \in Consumers PROVE StreamOK(c)' /\ AckOK(c)'
  <2>1. StreamOK(c) /\ AckOK(c) /\ <<c, "Subscribe">> \in Calls /\ <<c, "Ack">> \in Calls
    BY <1>7, CallsOf DEF SInv
  <2>2. StreamOK(c)'
    BY <1>1, <1>5, <2>1 DEF StreamOK, Ended
  <2>3. AckOK(c)'
    BY <1>1, <1>5, <2>1 DEF AckOK
  <2> QED BY <2>2, <2>3
<1> QED BY <1>4, <1>6, <1>7, FromParts

\* The frames of a call.
LEMMA CallStepPreserves ==
  ASSUME SInv, NEW x \in Calls, CallStep(x)
  PROVE  SInv'
<1>0. call \in [Calls -> CallType] /\ call[x] \in CallType
  BY DEF SInv, ServerTyped
<1>1. CASE CallsNext(x) /\ call[x].way = "in"
  <2> DEFINE r == [call[x] EXCEPT !.at = @ + 1]
  <2>1. r \in CallType /\ r.way = "in"
    BY <1>0, <1>1 DEF CallType
  <2>2. call' = [call EXCEPT ![x] = r]
    BY <1>0, <1>1 DEF CallsNext
  <2>3. UNCHANGED <<server, reply, clients, stored, buffer, received>>
    BY <1>1 DEF CallsNext
  <2> HIDE DEF r
  <2> QED BY <1>1, <2>1, <2>2, <2>3, InsideCall
<1>2. CASE Panics(x) /\ call[x].way = "in"
  <2> DEFINE r == [call[x] EXCEPT !.way = "panic"]
  <2>1. r \in CallType /\ r.way = "panic"
    BY <1>0 DEF CallType
  <2>2. call' = [call EXCEPT ![x] = r]
    BY <1>0, <1>2 DEF Panics
  <2>3. UNCHANGED <<server, reply, clients, stored, buffer, received>>
    BY <1>2 DEF Panics
  <2> HIDE DEF r
  <2> QED BY <1>2, <2>1, <2>2, <2>3, InsideCall
<1>3. CASE Ascend(x) /\ call[x].at > 1
  <2> DEFINE r == [call[x] EXCEPT !.at = @ - 1]
  <2>1. r \in CallType /\ r.way = "out" /\ r.res = call[x].res
    BY <1>0, <1>3 DEF CallType, Ascend
  <2>2. call' = [call EXCEPT ![x] = r] /\ call[x].way = "out"
    BY <1>0, <1>3 DEF Ascend
  <2>3. UNCHANGED <<server, reply, clients, stored, buffer, received>>
    BY <1>3 DEF Ascend
  <2> HIDE DEF r
  <2> QED BY <2>1, <2>2, <2>3, InsideCall
<1>4. CASE Ascend(x) /\ ~(call[x].at > 1)
  <2>1. None \in CallType /\ None.way = "none"
    BY DEF None, CallType
  <2>2. call[x].res \in {"ok", "error"} /\ call[x].way = "out"
    BY <1>0, <1>4 DEF CallType, Ascend
  <2>3. /\ call' = [call EXCEPT ![x] = None]
        /\ reply' = [reply EXCEPT ![x] = IF @ = "none" THEN call[x].res ELSE @]
        /\ UNCHANGED <<server, clients, stored, buffer, received>>
    BY <1>4 DEF Ascend
  <2> HIDE DEF None
  <2> QED BY <2>1, <2>2, <2>3, Told
<1>5. CASE Recover(x)
  <2> DEFINE r == [call[x] EXCEPT !.way = "out", !.res = "error"]
  <2>1. r \in CallType /\ r.way = "out" /\ r.res = "error" /\ call[x].way = "panic"
    BY <1>0, <1>5 DEF CallType, Recover
  <2>2. call' = [call EXCEPT ![x] = r]
    BY <1>0, <1>5 DEF Recover
  <2>3. UNCHANGED <<server, reply, clients, stored, buffer, received>>
    BY <1>5 DEF Recover
  <2> HIDE DEF r
  <2> QED BY <2>1, <2>2, <2>3, InsideCall
<1>6. CASE Unwind(x) /\ call[x].at # 1
  <2> DEFINE r == [call[x] EXCEPT !.at = @ - 1]
  <2>1. r \in CallType /\ r.way = "panic" /\ call[x].way = "panic"
    BY <1>0, <1>6 DEF CallType, Unwind
  <2>2. call' = [call EXCEPT ![x] = r]
    BY <1>0, <1>6 DEF Unwind
  <2>3. UNCHANGED <<server, reply, clients, stored, buffer, received>>
    BY <1>6 DEF Unwind
  <2> HIDE DEF r
  <2> QED BY <2>1, <2>2, <2>3, InsideCall
<1>7. CASE Unwind(x) /\ call[x].at = 1
  BY <1>7, DiePreserves DEF Unwind
<1> QED BY <1>1, <1>2, <1>3, <1>4, <1>5, <1>6, <1>7
        DEF CallStep, Recovery, Auth, Logging, Enters

LEMMA CutOffPreserves ==
  ASSUME SInv, NEW x \in Calls, CutOff(x)
  PROVE  SInv'
<1> DEFINE r == IF x[2] = "Ack" THEN None ELSE call[x]
<1>0. call \in [Calls -> CallType] /\ reply \in [Calls -> {"none", "ok", "error"}]
  BY DEF SInv, ServerTyped
<1>1. r \in CallType /\ (r.way = "none" \/ r = call[x])
  BY <1>0 DEF None, CallType
<1>2. call' = [call EXCEPT ![x] = r] /\ call[x].way # "none"
  BY DEF CutOff
<1>3. reply' = [reply EXCEPT ![x] = IF @ = "none" THEN "error" ELSE @]
  BY <1>0 DEF CutOff
<1>4. UNCHANGED <<server, clients, stored, buffer, received>>
  BY DEF CutOff
<1> HIDE DEF r
<1> QED BY <1>1, <1>2, <1>3, <1>4, Told
-----------------------------------------------------------------------------
\* What a producer and its Publish do concerns nobody else.
LEMMA ProducerOnly ==
  ASSUME SInv, NEW p \in Producers,
         UNCHANGED <<cons, buffer, received>>,
         \A y \in Calls : y # <<p, "Publish">> => call'[y] = call[y] /\ reply'[y] = reply[y],
         \A q \in Producers : q # p => prod'[q] = prod[q] /\ stored'[q] = stored[q],
         ServerTyped', PublishOK(p)'
  PROVE  SInv'
<1>1. ASSUME NEW q \in Producers, q # p PROVE PublishOK(q)'
  <2>1. PublishOK(q) /\ <<q, "Publish">> \in Calls /\ <<q, "Publish">> # <<p, "Publish">>
    BY <1>1, CallsOf DEF SInv
  <2>2. /\ call'[<<q, "Publish">>] = call[<<q, "Publish">>]
        /\ reply'[<<q, "Publish">>] = reply[<<q, "Publish">>]
        /\ prod'[q] = prod[q] /\ stored'[q] = stored[q]
    BY <1>1, <2>1
  <2> QED BY <2>1, <2>2 DEF PublishOK
<1>2. ASSUME NEW c \in Consumers PROVE StreamOK(c)' /\ AckOK(c)'
  <2>1. StreamOK(c) /\ AckOK(c) /\ <<c, "Subscribe">> \in Calls /\ <<c, "Ack">> \in Calls
    BY <1>2, CallsOf DEF SInv
  <2>2. /\ call'[<<c, "Subscribe">>] = call[<<c, "Subscribe">>]
        /\ reply'[<<c, "Subscribe">>] = reply[<<c, "Subscribe">>]
        /\ call'[<<c, "Ack">>] = call[<<c, "Ack">>]
        /\ reply'[<<c, "Ack">>] = reply[<<c, "Ack">>]
    BY <2>1
  <2>3. StreamOK(c)'
    BY <2>1, <2>2 DEF StreamOK, Gone, Ended
  <2>4. AckOK(c)'
    BY <2>1, <2>2 DEF AckOK
  <2> QED BY <2>3, <2>4
<1> QED BY <1>1, <1>2, FromParts

\* The same for a consumer.
LEMMA ConsumerOnly ==
  ASSUME SInv, NEW c \in Consumers,
         UNCHANGED <<prod, stored>>,
         \A y \in Calls : y \notin {<<c, "Subscribe">>, <<c, "Ack">>} =>
           call'[y] = call[y] /\ reply'[y] = reply[y],
         \A d \in Consumers : d # c => cons'[d] = cons[d],
         ServerTyped', StreamOK(c)', AckOK(c)'
  PROVE  SInv'
<1>1. ASSUME NEW p \in Producers PROVE PublishOK(p)'
  <2>1. PublishOK(p) /\ <<p, "Publish">> \in Calls
        /\ <<p, "Publish">> \notin {<<c, "Subscribe">>, <<c, "Ack">>}
    BY <1>1, CallsOf DEF SInv
  <2>2. /\ call'[<<p, "Publish">>] = call[<<p, "Publish">>]
        /\ reply'[<<p, "Publish">>] = reply[<<p, "Publish">>]
    BY <2>1
  <2> QED BY <2>1, <2>2 DEF PublishOK
<1>2. ASSUME NEW d \in Consumers, d # c PROVE StreamOK(d)' /\ AckOK(d)'
  <2>1. StreamOK(d) /\ AckOK(d) /\ <<d, "Subscribe">> \in Calls /\ <<d, "Ack">> \in Calls
    BY <1>2, CallsOf DEF SInv
  <2>2. /\ <<d, "Subscribe">> \notin {<<c, "Subscribe">>, <<c, "Ack">>}
        /\ <<d, "Ack">> \notin {<<c, "Subscribe">>, <<c, "Ack">>}
    BY <1>2
  <2>3. /\ call'[<<d, "Subscribe">>] = call[<<d, "Subscribe">>]
        /\ reply'[<<d, "Subscribe">>] = reply[<<d, "Subscribe">>]
        /\ call'[<<d, "Ack">>] = call[<<d, "Ack">>]
        /\ reply'[<<d, "Ack">>] = reply[<<d, "Ack">>]
        /\ cons'[d] = cons[d]
    BY <1>2, <2>1, <2>2
  <2>4. StreamOK(d)'
    BY <2>1, <2>3 DEF StreamOK, Gone, Ended
  <2>5. AckOK(d)'
    BY <2>1, <2>3 DEF AckOK
  <2> QED BY <2>4, <2>5
<1> QED BY <1>1, <1>2, FromParts

\* A call that begins.
LEMMA BeginTyped ==
  ASSUME call \in [Calls -> CallType], NEW x \in Calls, Begin(x)
  PROVE  /\ call' \in [Calls -> CallType]
         /\ call'[x].way = "in"
         /\ \A y \in Calls : y # x => call'[y] = call[y]
<1> DEFINE r == [way |-> "in", at |-> 1, res |-> "ok"]
<1>1. r \in CallType /\ r.way = "in"
  BY DEF CallType
<1>2. call' = [call EXCEPT ![x] = r]
  BY DEF Begin
<1> HIDE DEF r
<1> QED BY <1>1, <1>2

LEMMA HandlePublishPreserves ==
  ASSUME SInv, NEW p \in Producers, HandlePublish(p)
  PROVE  SInv'
<1> DEFINE x == <<p, "Publish">>
<1>1. x \in Calls /\ call[x] \in CallType /\ ServerTyped /\ PublishOK(p)
  BY CallsOf DEF SInv, ServerTyped
<1>2. call[x].way = "in" /\ UNCHANGED <<reply, prod, cons, buffer, received>>
  BY DEF HandlePublish, Enters, clients
<1>3. PICK copies \in 0 .. MaxCopies, res \in {"ok", "error", "panic"} :
        /\ res = "ok" => copies >= 1
        /\ stored' = [stored EXCEPT ![p] = @ + copies]
        /\ call' = [call EXCEPT ![x].way = IF res = "panic" THEN "panic" ELSE "out",
                                ![x].res = IF res = "panic" THEN "ok" ELSE res]
  BY DEF HandlePublish
<1> DEFINE r == [call[x] EXCEPT !.way = IF res = "panic" THEN "panic" ELSE "out",
                                !.res = IF res = "panic" THEN "ok" ELSE res]
<1>4. /\ r \in CallType /\ r.way \in {"panic", "out"}
      /\ r.way = "out" /\ r.res = "ok" => copies >= 1
  BY <1>1, <1>3 DEF CallType
<1>5. call' = [call EXCEPT ![x] = r]
  BY <1>1, <1>3 DEF ServerTyped
<1> HIDE DEF r
<1>6. call' \in [Calls -> CallType] /\ call'[x] = r /\ \A y \in Calls : y # x => call'[y] = call[y]
  BY <1>1, <1>4, <1>5 DEF ServerTyped
\* The copies are added to what there is.
<1>7. /\ stored' \in [Producers -> Nat] /\ \A q \in Producers : q # p => stored'[q] = stored[q]
      /\ stored[p] \in Nat /\ stored'[p] \in Nat /\ copies \in Nat
      /\ stored'[p] >= stored[p] /\ stored'[p] >= copies
  <2>1. stored \in [Producers -> Nat]
    BY <1>1 DEF ServerTyped
  <2>2. copies \in Nat
    <3>1. MaxCopies \in Nat
      BY ServerAssumption DEF ServerAssumption
    <3> QED BY <1>3, <3>1
  <2>3. stored[p] \in Nat /\ stored'[p] = stored[p] + copies
    BY <1>3, <2>1
  <2>4. stored[p] + copies \in Nat /\ stored[p] + copies >= stored[p] /\ stored[p] + copies >= copies
    BY <2>2, <2>3
  <2> QED BY <1>3, <2>1, <2>2, <2>3, <2>4
<1>8. ServerTyped'
  BY <1>1, <1>2, <1>6, <1>7 DEF ServerTyped
<1>9. PublishOK(p)'
  <2>1. stored[p] >= 1 => stored'[p] >= 1
    BY <1>7
  <2>2. r.way = "out" /\ r.res = "ok" => stored'[p] >= 1
    BY <1>4, <1>7
  <2>3. prod[p] # "start" /\ call'[x] = r /\ r.way # "none"
    BY <1>1, <1>2, <1>4, <1>6 DEF PublishOK
  <2> QED BY <1>1, <1>2, <2>1, <2>2, <2>3 DEF PublishOK
<1> QED BY <1>2, <1>6, <1>7, <1>8, <1>9, ProducerOnly

LEMMA ProducerPreserves ==
  ASSUME SInv, NEW p \in Producers, ProducerStep(p)
  PROVE  SInv'
<1> DEFINE x == <<p, "Publish">>
<1>1. x \in Calls /\ call[x] \in CallType /\ ServerTyped /\ PublishOK(p)
  BY CallsOf DEF SInv, ServerTyped
<1>2. CASE PublishCall(p)
  <2>1. /\ prod[p] = "start" /\ prod' = [prod EXCEPT ![p] = "waiting"]
        /\ UNCHANGED <<cons, stored, buffer, received>>
        /\ \/ Begin(x) /\ UNCHANGED reply
           \/ reply' = [reply EXCEPT ![x] = "error"] /\ UNCHANGED call
    BY <1>2 DEF PublishCall
  <2>2. /\ call' \in [Calls -> CallType] /\ reply' \in [Calls -> {"none", "ok", "error"}]
        /\ \A y \in Calls : y # x => call'[y] = call[y] /\ reply'[y] = reply[y]
        /\ call'[x].way = "in" \/ (call'[x] = call[x] /\ reply'[x] = "error")
        /\ reply'[x] \in {reply[x], "error"}
    BY <1>1, <2>1, BeginTyped DEF ServerTyped
  <2>3. prod' \in [Producers -> {"start", "waiting", "exit 0", "exit 1"}] /\ prod'[p] = "waiting"
        /\ \A q \in Producers : q # p => prod'[q] = prod[q]
    BY <1>1, <2>1 DEF ServerTyped
  <2>4. ServerTyped'
    BY <1>1, <2>1, <2>2, <2>3 DEF ServerTyped
  <2>5. PublishOK(p)'
    BY <1>1, <2>1, <2>2, <2>3 DEF PublishOK
  <2> QED BY <2>1, <2>2, <2>3, <2>4, <2>5, ProducerOnly
<1>3. CASE PublishAnswered(p) \/ Deadline(p)
  <2>1. /\ prod[p] = "waiting" /\ UNCHANGED <<call, reply, cons, stored, buffer, received>>
        /\ \E e \in {"exit 0", "exit 1"} : /\ prod' = [prod EXCEPT ![p] = e]
                                           /\ e = "exit 0" => reply[x] = "ok"
    BY <1>3 DEF PublishAnswered, Deadline, calls
  <2>2. /\ prod' \in [Producers -> {"start", "waiting", "exit 0", "exit 1"}]
        /\ prod'[p] \in {"exit 0", "exit 1"} /\ (prod'[p] = "exit 0" => reply[x] = "ok")
        /\ \A q \in Producers : q # p => prod'[q] = prod[q]
    BY <1>1, <2>1 DEF ServerTyped
  <2>3. ServerTyped'
    BY <1>1, <2>1, <2>2 DEF ServerTyped
  <2>4. PublishOK(p)'
    BY <1>1, <2>1, <2>2 DEF PublishOK
  <2> QED BY <2>1, <2>2, <2>3, <2>4, ProducerOnly
<1> QED BY <1>2, <1>3 DEF ProducerStep

\* The handlers of a consumer's calls.
LEMMA HandleAckPreserves ==
  ASSUME SInv, NEW c \in Consumers, HandleAck(c)
  PROVE  SInv'
<1> DEFINE x == <<c, "Ack">>
<1>1. x \in Calls /\ call \in [Calls -> CallType] /\ call[x] \in CallType /\ x[2] = "Ack"
  BY CallsOf DEF SInv, ServerTyped
<1>2. call[x].way = "in" /\ UNCHANGED <<server, reply, clients, stored, buffer, received>>
  BY DEF HandleAck, Enters
<1>3. ASSUME NEW r \in CallType, r.way \in {"out", "panic"}, call' = [call EXCEPT ![x] = r]
      PROVE  SInv'
  BY <1>1, <1>2, <1>3, InsideCall
<1>4. ASSUME NEW res \in {"ok", "error"}, call' = [call EXCEPT ![x].way = "out", ![x].res = res]
      PROVE  SInv'
  <2> DEFINE r == [call[x] EXCEPT !.way = "out", !.res = res]
  <2>1. r \in CallType /\ r.way = "out"
    BY <1>1 DEF CallType
  <2>2. call' = [call EXCEPT ![x] = r]
    BY <1>1, <1>4
  <2> HIDE DEF r
  <2> QED BY <1>3, <2>1, <2>2
<1>5. ASSUME call' = [call EXCEPT ![x].way = "panic"]
      PROVE  SInv'
  <2> DEFINE r == [call[x] EXCEPT !.way = "panic"]
  <2>1. r \in CallType /\ r.way = "panic"
    BY <1>1 DEF CallType
  <2>2. call' = [call EXCEPT ![x] = r]
    BY <1>1, <1>5
  <2> HIDE DEF r
  <2> QED BY <1>3, <2>1, <2>2
<1> QED BY <1>4, <1>5 DEF HandleAck

LEMMA EndSubscribePreserves ==
  ASSUME SInv, NEW c \in Consumers, EndSubscribe(c)
  PROVE  SInv'
<1> DEFINE x == <<c, "Subscribe">>
<1>1. /\ x \in Calls /\ call \in [Calls -> CallType] /\ call[x] \in CallType
      /\ ServerTyped /\ StreamOK(c) /\ AckOK(c)
  BY CallsOf DEF SInv, ServerTyped
<1>2. call[x].way = "in" /\ UNCHANGED <<reply, prod, cons, stored, buffer, received>>
  BY DEF EndSubscribe, Enters, clients
<1>3. ASSUME NEW r \in CallType, r.way \in {"out", "panic"}, call' = [call EXCEPT ![x] = r],
             r.way = "out" /\ r.res = "ok" => Gone(c)
      PROVE  SInv'
  <2>1. call' \in [Calls -> CallType] /\ call'[x] = r /\ \A y \in Calls : y # x => call'[y] = call[y]
    BY <1>1, <1>3
  <2>2. ServerTyped'
    BY <1>1, <1>2, <2>1 DEF ServerTyped
  <2>3. StreamOK(c)'
    <3>1. Gone(c) => Gone(c)'
      BY <1>2 DEF Gone, Ended
    <3> QED BY <1>1, <1>2, <1>3, <2>1, <3>1 DEF StreamOK, Ended
  <2>4. AckOK(c)'
    <3>1. <<c, "Ack">> \in Calls /\ <<c, "Ack">> # x
      BY CallsOf
    <3>2. call'[<<c, "Ack">>] = call[<<c, "Ack">>]
      BY <2>1, <3>1
    <3> QED BY <1>1, <1>2, <3>2 DEF AckOK
  <2> QED BY <1>2, <2>1, <2>2, <2>3, <2>4, ConsumerOnly
<1>4. ASSUME NEW res \in {"ok", "error"}, call' = [call EXCEPT ![x].way = "out", ![x].res = res],
             res = "ok" => Gone(c)
      PROVE  SInv'
  <2> DEFINE r == [call[x] EXCEPT !.way = "out", !.res = res]
  <2>1. r \in CallType /\ r.way = "out" /\ r.res = res
    BY <1>1 DEF CallType
  <2>2. call' = [call EXCEPT ![x] = r]
    BY <1>1, <1>4
  <2> HIDE DEF r
  <2> QED BY <1>3, <1>4, <2>1, <2>2
<1>5. ASSUME call' = [call EXCEPT ![x].way = "panic"]
      PROVE  SInv'
  <2> DEFINE r == [call[x] EXCEPT !.way = "panic"]
  <2>1. r \in CallType /\ r.way = "panic"
    BY <1>1 DEF CallType
  <2>2. call' = [call EXCEPT ![x] = r]
    BY <1>1, <1>5
  <2> HIDE DEF r
  <2> QED BY <1>3, <2>1, <2>2
<1> QED BY <1>4, <1>5 DEF EndSubscribe

\* The loop of the consumer.
LEMMA ConsumerPreserves ==
  ASSUME SInv, NEW c \in Consumers, ConsumerStep(c) \/ Kill(c)
  PROVE  SInv'
<1> DEFINE x == <<c, "Subscribe">>
           y == <<c, "Ack">>
           States == {"start", "recv", "sleep", "got", "acking", "killed", "exit 0", "exit 1"}
<1>1. /\ x \in Calls /\ y \in Calls /\ x # y /\ ServerTyped /\ StreamOK(c) /\ AckOK(c)
      /\ call \in [Calls -> CallType] /\ reply \in [Calls -> {"none", "ok", "error"}]
      /\ cons \in [Consumers -> States]
  BY CallsOf DEF SInv, ServerTyped
<1>2. ASSUME NEW w \in States \ {"start", "exit 0"},
             cons' = [cons EXCEPT ![c] = w], UNCHANGED <<call, reply, prod, stored>>,
             buffer' \in [Consumers -> Nat], received' \in [Consumers -> Nat],
             w # "exit 1" => cons[c] \in {"recv", "got", "acking", "sleep"},
             w = "acking" => reply[y] # "none",
             w = "exit 1" => cons[c] = "start"
      PROVE  SInv'
  <2>1. /\ cons' \in [Consumers -> States] /\ cons'[c] = w
        /\ \A d \in Consumers : d # c => cons'[d] = cons[d]
    BY <1>1, <1>2
  <2>2. ServerTyped'
    BY <1>1, <1>2, <2>1 DEF ServerTyped
  <2>3. Ended(c) => Ended(c)'
    BY <1>2, <2>1 DEF Ended
  <2>4. Gone(c) => Gone(c)'
    BY <1>2, <2>3 DEF Gone
  <2>5. StreamOK(c)'
    BY <1>1, <1>2, <2>1, <2>3, <2>4 DEF StreamOK
  <2>6. AckOK(c)'
    BY <1>2, <2>1 DEF AckOK
  <2> QED BY <1>2, <2>1, <2>2, <2>5, <2>6, ConsumerOnly
<1>3. buffer \in [Consumers -> Nat] /\ received \in [Consumers -> Nat]
  BY <1>1 DEF ServerTyped
<1>4. CASE SubscribeCall(c)
  <2>1. cons[c] = "start" /\ UNCHANGED <<reply, prod, stored, buffer, received>>
    BY <1>4 DEF SubscribeCall
  <2>2. CASE Begin(x) /\ cons' = [cons EXCEPT ![c] = "recv"]
    <3>1. /\ call' \in [Calls -> CallType] /\ call'[x].way = "in"
          /\ \A z \in Calls : z # x => call'[z] = call[z]
      BY <1>1, <2>2, BeginTyped
    <3>2. /\ cons' \in [Consumers -> States] /\ cons'[c] = "recv"
          /\ \A d \in Consumers : d # c => cons'[d] = cons[d]
      BY <1>1, <2>2
    <3>3. ServerTyped'
      BY <1>1, <2>1, <3>1, <3>2 DEF ServerTyped
    <3>4. reply[x] # "ok"
      BY <1>1, <2>1 DEF StreamOK, Ended
    <3>5. StreamOK(c)'
      BY <2>1, <3>1, <3>2, <3>4 DEF StreamOK
    <3>6. AckOK(c)'
      BY <3>2 DEF AckOK
    <3> QED BY <2>1, <3>1, <3>2, <3>3, <3>5, <3>6, ConsumerOnly
  <2>3. CASE cons' = [cons EXCEPT ![c] = "exit 1"] /\ UNCHANGED call
    BY <1>2, <1>3, <2>1, <2>3
  <2> QED BY <1>4, <2>2, <2>3 DEF SubscribeCall
<1>5. CASE Recv(c)
  <2>1. /\ cons[c] = "recv" /\ cons' = [cons EXCEPT ![c] = "got"]
        /\ UNCHANGED <<call, reply, prod, stored>>
    BY <1>5 DEF Recv, calls
  <2>2. buffer' \in [Consumers -> Nat]
    <3>1. buffer[c] \in Nat /\ buffer[c] > 0 /\ buffer' = [buffer EXCEPT ![c] = @ - 1]
      BY <1>3, <1>5 DEF Recv
    <3> QED BY <1>3, <3>1
  <2>3. received' \in [Consumers -> Nat]
    BY <1>3, <1>5 DEF Recv
  <2> QED BY <1>2, <2>1, <2>2, <2>3
<1>6. CASE RecvEnd(c)
  <2>1. cons[c] = "recv" /\ UNCHANGED <<call, reply, prod, stored, buffer, received>>
    BY <1>6 DEF RecvEnd, calls
  <2>2. reply[x] # "ok"
    BY <1>1, <2>1 DEF StreamOK, Ended
  <2>3. cons' = [cons EXCEPT ![c] = "sleep"]
    BY <1>6, <2>2 DEF RecvEnd
  <2> QED BY <1>2, <1>3, <2>1, <2>3
<1>7. CASE Wake(c)
  <2>1. /\ cons[c] = "sleep" /\ cons' = [cons EXCEPT ![c] = "recv"]
        /\ UNCHANGED <<call, reply, prod, stored, buffer, received>>
    BY <1>7 DEF Wake, calls
  <2> QED BY <1>2, <1>3, <2>1
<1>8. CASE AckCall(c)
  <2>1. /\ cons[c] = "got" /\ cons' = [cons EXCEPT ![c] = "acking"]
        /\ UNCHANGED <<prod, stored, buffer, received>>
        /\ \/ Begin(y) /\ reply' = [reply EXCEPT ![y] = "none"]
           \/ reply' = [reply EXCEPT ![y] = "error"] /\ UNCHANGED call
    BY <1>8 DEF AckCall
  <2>2. /\ call' \in [Calls -> CallType] /\ reply' \in [Calls -> {"none", "ok", "error"}]
        /\ \A z \in Calls : z # y => call'[z] = call[z] /\ reply'[z] = reply[z]
        /\ call'[y].way = "in" \/ reply'[y] = "error"
    BY <1>1, <2>1, BeginTyped
  <2>3. /\ cons' \in [Consumers -> States] /\ cons'[c] = "acking"
        /\ \A d \in Consumers : d # c => cons'[d] = cons[d]
    BY <1>1, <2>1
  <2>4. call'[x] = call[x] /\ reply'[x] = reply[x]
    BY <1>1, <2>2
  <2>5. ServerTyped'
    BY <1>1, <2>1, <2>2, <2>3 DEF ServerTyped
  <2>6. StreamOK(c)'
    BY <1>1, <2>1, <2>3, <2>4 DEF StreamOK, Gone, Ended
  <2>7. AckOK(c)'
    BY <2>2 DEF AckOK
  <2> QED BY <2>1, <2>2, <2>3, <2>5, <2>6, <2>7, ConsumerOnly
<1>9. CASE AckAnswered(c)
  <2>1. /\ cons[c] = "acking" /\ cons' = [cons EXCEPT ![c] = "recv"]
        /\ UNCHANGED <<call, reply, prod, stored, buffer, received>>
    BY <1>9 DEF AckAnswered, calls
  <2> QED BY <1>2, <1>3, <2>1
<1>10. CASE Kill(c)
  <2>1. /\ cons[c] \in {"recv", "got", "acking", "sleep"} /\ cons' = [cons EXCEPT ![c] = "killed"]
        /\ UNCHANGED <<call, reply, prod, stored, buffer, received>>
    BY <1>10 DEF Kill, calls
  <2> QED BY <1>2, <1>3, <2>1
<1> QED BY <1>4, <1>5, <1>6, <1>7, <1>8, <1>9, <1>10 DEF ConsumerStep
-----------------------------------------------------------------------------
LEMMA SInductive == SInv /\ [ServerNext]_svars => SInv'
<1> SUFFICES ASSUME SInv, [ServerNext]_svars PROVE SInv'
  OBVIOUS
<1>0. buffer \in [Consumers -> Nat] /\ received \in [Consumers -> Nat]
  BY DEF SInv, ServerTyped
<1>1. CASE Stop
  BY <1>1, DiePreserves DEF Stop
<1>2. CASE Start
  BY <1>0, <1>2, Quiet DEF Start
<1>3. CASE InitBroker
  BY <1>0, <1>3, Quiet, DiePreserves DEF InitBroker
<1>4. CASE Serve
  BY <1>0, <1>4, Quiet, DiePreserves DEF Serve
<1>5. ASSUME NEW c \in Consumers, Send(c)
      PROVE  SInv'
  <2>1. UNCHANGED <<calls, clients, stored>> /\ UNCHANGED received
    BY <1>5 DEF Send
  <2>2. buffer' \in [Consumers -> Nat]
    BY <1>0, <1>5 DEF Send
  <2> QED BY <1>0, <2>1, <2>2, Quiet
<1>6. CASE UNCHANGED svars
  BY <1>0, <1>6, Quiet DEF svars
<1> QED BY <1>1, <1>2, <1>3, <1>4, <1>5, <1>6, CallStepPreserves, CutOffPreserves,
           HandlePublishPreserves, ProducerPreserves, HandleAckPreserves,
           EndSubscribePreserves, ConsumerPreserves DEF ServerNext

\* The invariant holds throughout.
THEOREM SInvariance == ServerSpec => []SInv
BY SInitially, SInductive, PTL DEF ServerSpec

\* An exit code 0 of the producer means that its message has been stored, for every
\* number of copies, outcome of handlers and frames, and fault of server and
\* connection.
THEOREM ExitCodesAreTruthful == ServerSpec => []ExitCodeTruthful
<1>1. SInv => ExitCodeTruthful
  BY DEF SInv, PublishOK, ExitCodeTruthful
<1> QED BY <1>1, SInvariance, PTL

\* A waiting client waits for a call in progress or for an end it will be told.
THEOREM WaitingIsForSomething == ServerSpec => []NobodyWaitsForNothing
<1>1. SInv => NobodyWaitsForNothing
  BY DEF SInv, PublishOK, StreamOK, AckOK, NobodyWaitsForNothing
<1> QED BY <1>1, SInvariance, PTL

\* The consumer never sees the end of a stream as io.EOF.
THEOREM StreamsNeverEndWell == ServerSpec => []NeverEOF
<1>1. SInv => NeverEOF
  BY DEF SInv, StreamOK, NeverEOF
<1> QED BY <1>1, SInvariance, PTL

\* What it takes for a consumer whose stream has failed to stay without messages.
StaysDead(c) ==
  reply[<<c, "Subscribe">>] = "error" /\ buffer[c] = 0 =>
    reply'[<<c, "Subscribe">>] = "error" /\ buffer'[c] = 0 /\ received'[c] = received[c]

LEMMA DeadStep ==
  ASSUME SInv, [ServerNext]_svars, NEW c \in Consumers
  PROVE  StaysDead(c)
<1> DEFINE x == <<c, "Subscribe">>
<1> SUFFICES ASSUME reply[x] = "error", buffer[c] = 0
             PROVE  reply'[x] = "error" /\ buffer'[c] = 0 /\ received'[c] = received[c]
  BY DEF StaysDead
<1>0. /\ x \in Calls /\ reply \in [Calls -> {"none", "ok", "error"}]
      /\ buffer \in [Consumers -> Nat] /\ received \in [Consumers -> Nat]
  BY CallsOf DEF SInv, ServerTyped
<1>1. ASSUME NEW why, Die(why)
      PROVE  reply'[x] = "error" /\ UNCHANGED <<buffer, received>>
  BY <1>0, <1>1 DEF Die
<1>2. CASE Stop \/ Start \/ InitBroker \/ Serve
  BY <1>1, <1>2 DEF Stop, Start, InitBroker, Serve, calls
<1>3. ASSUME NEW y \in Calls, CallStep(y) \/ CutOff(y)
      PROVE  reply'[x] = "error" /\ UNCHANGED <<buffer, received>>
  <2>1. CASE Recovery(y) \/ Auth(y) \/ Logging(y) \/ Recover(y)
    BY <2>1 DEF Recovery, Auth, Logging, Recover, CallsNext, Panics
  <2>2. CASE Ascend(y)
    BY <1>0, <2>2 DEF Ascend
  <2>3. CASE Unwind(y)
    BY <1>1, <2>3 DEF Unwind
  <2>4. CASE CutOff(y)
    BY <1>0, <2>4 DEF CutOff
  <2> QED BY <1>3, <2>1, <2>2, <2>3, <2>4 DEF CallStep
<1>4. ASSUME NEW p \in Producers, HandlePublish(p) \/ ProducerStep(p)
      PROVE  reply'[x] = "error" /\ UNCHANGED <<buffer, received>>
  BY <1>0, <1>4 DEF HandlePublish, ProducerStep, PublishCall, PublishAnswered, Deadline, calls
<1>5. ASSUME NEW d \in Consumers, HandleAck(d) \/ EndSubscribe(d) \/ Kill(d)
      PROVE  reply'[x] = "error" /\ UNCHANGED <<buffer, received>>
  BY <1>5 DEF HandleAck, EndSubscribe, Kill, calls
<1>6. ASSUME NEW d \in Consumers, Send(d)
      PROVE  reply'[x] = "error" /\ buffer'[c] = buffer[c] /\ UNCHANGED received
  <2>1. d # c
    BY <1>6 DEF Send, Gone
  <2> QED BY <1>0, <1>6, <2>1 DEF Send, calls
<1>7. ASSUME NEW d \in Consumers, Recv(d)
      PROVE  reply'[x] = "error" /\ buffer'[c] = buffer[c] /\ received'[c] = received[c]
  <2>1. d # c
    BY <1>7 DEF Recv
  <2> QED BY <1>0, <1>7, <2>1 DEF Recv, calls
<1>8. ASSUME NEW d \in Consumers,
             SubscribeCall(d) \/ RecvEnd(d) \/ Wake(d) \/ AckCall(d) \/ AckAnswered(d)
      PROVE  reply'[x] = "error" /\ UNCHANGED <<buffer, received>>
  BY <1>0, <1>8 DEF SubscribeCall, RecvEnd, Wake, AckCall, AckAnswered, calls
<1>9. CASE UNCHANGED svars
  BY <1>9 DEF svars, calls
<1> QED BY <1>2, <1>3, <1>4, <1>5, <1>6, <1>7, <1>8, <1>9 DEF ServerNext, ConsumerStep

\* A consumer whose stream has failed never receives a message again.
THEOREM DeadStreamsStayDead == ServerSpec => DeadStreamStaysDead
<1>1. SInv /\ [ServerNext]_svars => \A c \in Consumers : StaysDead(c)
  BY DeadStep
<1>2. (\A c \in Consumers : StaysDead(c)) =>
        \A c \in Consumers :
          reply[<<c, "Subscribe">>] = "error" /\ buffer[c] = 0 =>
            reply'[<<c, "Subscribe">>] = "error" /\ buffer'[c] = 0 /\ received'[c] = received[c]
  BY DEF StaysDead
<1> QED BY <1>1, <1>2, SInvariance, PTL DEF ServerSpec, DeadStreamStaysDead
-----------------------------------------------------------------------------
(* The chain of interceptors *)

\* The least element of a set.
LEMMA MinOf ==
  ASSUME NEW S \in SUBSET Nat, NEW m \in S, \A n \in S : m <= n
  PROVE  Min(S) = m
<1> DEFINE P(x) == x \in S /\ \A n \in S : x <= n
           k == CHOOSE x : P(x)
<1>1. P(m)
  OBVIOUS
<1>2. P(k)
  <2> HIDE DEF P
  <2> QED BY <1>1
<1>3. Min(S) = k
  BY DEF Min
<1>4. k \in S /\ k <= m /\ m <= k
  <2> HIDE DEF k
  <2> QED BY <1>2
<1> HIDE DEF k
<1>5. k = m
  BY <1>4
<1> QED BY <1>3, <1>5

\* A sequence v that begins with s and goes on like u.
LEMMA ConsIs ==
  ASSUME NEW T, NEW s \in T, NEW u \in Seq(T), NEW v \in Seq(T), Len(v) = Len(u) + 1, v[1] = s,
         \A i \in 1..Len(u) : v[i + 1] = u[i]
  PROVE  <<s>> \o u = v
<1>1. <<s>> \in Seq(T) /\ Len(<<s>>) = 1 /\ <<s>>[1] = s
  OBVIOUS
<1> DEFINE w == <<s>> \o u
<1>2. /\ w \in Seq(T) /\ Len(w) = Len(u) + 1 /\ Len(u) \in Nat
      /\ \A i \in 1..Len(u) + 1 : w[i] = IF i <= 1 THEN <<s>>[i] ELSE u[i - 1]
  BY <1>1, ConcatProperties, LenProperties
<1> HIDE DEF w
<1>3. ASSUME NEW i \in 1..Len(v) PROVE w[i] = v[i]
  <2>1. CASE i = 1
    BY <1>1, <1>2, <2>1
  <2>2. CASE i # 1
    <3>1. i - 1 \in 1..Len(u) /\ (i - 1) + 1 = i
      BY <1>2, <2>2
    <3>2. v[(i - 1) + 1] = u[i - 1]
      BY <3>1
    <3>3. w[i] = u[i - 1]
      BY <1>2, <2>2
    <3> QED BY <3>1, <3>2, <3>3
  <2> QED BY <2>1, <2>2
<1>4. w = v
  BY <1>2, <1>3, SeqEqual
<1> QED BY <1>4 DEF w

\* The tuples that come up below.
LEMMA Cons2 == ASSUME NEW s, NEW x PROVE <<s>> \o <<x>> = <<s, x>>
<1> DEFINE T == {s, x}
           u == <<x>>
           v == <<s, x>>
<1>1. /\ s \in T /\ u \in Seq(T) /\ v \in Seq(T) /\ Len(u) = 1 /\ Len(v) = 2 /\ v[1] = s
      /\ \A i \in 1..1 : v[i + 1] = u[i]
  OBVIOUS
<1> HIDE DEF T, u, v
<1>2. Len(v) = Len(u) + 1 /\ \A i \in 1..Len(u) : v[i + 1] = u[i]
  BY <1>1
<1>3. <<s>> \o u = v
  BY <1>1, <1>2, ConsIs
<1> QED BY <1>3 DEF u, v

LEMMA Cons3 == ASSUME NEW s, NEW x, NEW y PROVE <<s>> \o <<x, y>> = <<s, x, y>>
<1> DEFINE T == {s, x, y}
           u == <<x, y>>
           v == <<s, x, y>>
<1>1. /\ s \in T /\ u \in Seq(T) /\ v \in Seq(T) /\ Len(u) = 2 /\ Len(v) = 3 /\ v[1] = s
      /\ \A i \in 1..2 : v[i + 1] = u[i]
  OBVIOUS
<1> HIDE DEF T, u, v
<1>2. Len(v) = Len(u) + 1 /\ \A i \in 1..Len(u) : v[i + 1] = u[i]
  BY <1>1
<1>3. <<s>> \o u = v
  BY <1>1, <1>2, ConsIs
<1> QED BY <1>3 DEF u, v

LEMMA Cons4 == ASSUME NEW s, NEW x, NEW y, NEW z PROVE <<s>> \o <<x, y, z>> = <<s, x, y, z>>
<1> DEFINE T == {s, x, y, z}
           u == <<x, y, z>>
           v == <<s, x, y, z>>
<1>1. /\ s \in T /\ u \in Seq(T) /\ v \in Seq(T) /\ Len(u) = 3 /\ Len(v) = 4 /\ v[1] = s
      /\ \A i \in 1..3 : v[i + 1] = u[i]
  OBVIOUS
<1> HIDE DEF T, u, v
<1>2. Len(v) = Len(u) + 1 /\ \A i \in 1..Len(u) : v[i + 1] = u[i]
  BY <1>1
<1>3. <<s>> \o u = v
  BY <1>1, <1>2, ConsIs
<1> QED BY <1>3 DEF u, v

\* What the loop of ChainUnaryServer leaves: the interceptors in their order, then the
\* handler.  The fold is a CHOOSE of a function of the sets of positions left; that there
\* is such a function is shown by writing it down.
LEMMA ChainOfThree ==
  ASSUME NEW a, NEW b, NEW c
  PROVE  ChainUnaryServer(<<a, b, c>>) = <<a, b, c, "handler">>
<1> DEFINE D == 1..3
           seq == <<a, b, c>>
           base == <<"handler">>
           body(it) == [s \in SUBSET D |-> IF s = {} THEN base ELSE <<seq[Min(s)]>> \o it[s \ {Min(s)}]]
           iter == CHOOSE it : it = body(it)
           rest(s) == IF 3 \in s THEN <<c>> \o base ELSE base
           more(s) == IF 2 \in s THEN <<b>> \o rest(s) ELSE rest(s)
           whole(s) == IF 1 \in s THEN <<a>> \o more(s) ELSE more(s)
           G == [s \in SUBSET D |-> whole(s)]
<1>1. DOMAIN seq = 1..3
  OBVIOUS
<1>2. ChainUnaryServer(<<a, b, c>>) = iter[D]
  BY <1>1 DEF ChainUnaryServer, FoldRight, MapThenFoldSet
<1>3. ASSUME NEW s \in SUBSET D
      PROVE  G[s] = IF s = {} THEN base ELSE <<seq[Min(s)]>> \o G[s \ {Min(s)}]
  <2> HIDE DEF base
  <2>0. \A t \in SUBSET D : G[t] = whole(t)
    OBVIOUS
  <2>1. CASE s = {}
    BY <2>1
  <2>2. CASE 1 \in s
    <3>1. Min(s) = 1
      BY <2>2, MinOf
    <3>2. G[s \ {1}] = more(s)
      <4>1. G[s \ {1}] = whole(s \ {1})
        BY <2>0
      <4> QED BY <4>1
    <3> QED BY <2>2, <3>1, <3>2
  <2>3. CASE 1 \notin s /\ 2 \in s
    <3>1. Min(s) = 2
      BY <2>3, MinOf
    <3>2. G[s \ {2}] = rest(s)
      <4>1. G[s \ {2}] = whole(s \ {2})
        BY <2>0
      <4> QED BY <2>3, <4>1
    <3> QED BY <2>3, <3>1, <3>2
  <2>4. CASE s # {} /\ 1 \notin s /\ 2 \notin s
    <3>1. s = {3}
      <4>1. \A i \in 1..3 : i = 1 \/ i = 2 \/ i = 3
        OBVIOUS
      <4> QED BY <2>4, <4>1
    <3>2. Min(s) = 3
      BY <3>1, MinOf
    <3>3. G[s \ {3}] = base
      <4>1. G[s \ {3}] = whole(s \ {3})
        BY <2>0
      <4> QED BY <3>1, <4>1
    <3> QED BY <3>1, <3>2, <3>3
  <2> QED BY <2>1, <2>2, <2>3, <2>4
<1>4. G = body(G)
  <2> DEFINE F == body(G)
  <2>1. \A s \in SUBSET D : F[s] = G[s]
    <3> HIDE DEF G
    <3> QED BY <1>3
  <2>2. F = [s \in SUBSET D |-> F[s]] /\ G = [s \in SUBSET D |-> G[s]]
    OBVIOUS
  <2> HIDE DEF F, G
  <2>3. F = G
    BY <2>1, <2>2
  <2> QED BY <2>3 DEF F
<1>5. iter = body(iter)
  <2> HIDE DEF body
  <2> QED BY <1>4
<1> HIDE DEF iter
<1>6. \A s \in SUBSET D : iter[s] = IF s = {} THEN base ELSE <<seq[Min(s)]>> \o iter[s \ {Min(s)}]
  BY <1>5
<1> HIDE DEF body, G
<1>7. iter[{}] = <<"handler">>
  BY <1>6
<1>8. iter[{3}] = <<c, "handler">>
  <2>1. Min({3}) = 3 /\ {3} \ {3} = {} /\ {3} \in SUBSET D /\ seq[3] = c /\ {3} # {}
    BY MinOf
  <2>2. iter[{3}] = <<seq[Min({3})]>> \o iter[{3} \ {Min({3})}]
    BY <1>6, <2>1
  <2>3. iter[{3}] = <<c>> \o <<"handler">>
    BY <1>7, <2>1, <2>2
  <2> QED BY <2>3, Cons2
<1>9. iter[{2, 3}] = <<b, c, "handler">>
  <2>1. /\ Min({2, 3}) = 2 /\ {2, 3} \ {2} = {3} /\ {2, 3} \in SUBSET D /\ seq[2] = b
        /\ {2, 3} # {}
    BY MinOf
  <2>2. iter[{2, 3}] = <<seq[Min({2, 3})]>> \o iter[{2, 3} \ {Min({2, 3})}]
    BY <1>6, <2>1
  <2>3. iter[{2, 3}] = <<b>> \o <<c, "handler">>
    BY <1>8, <2>1, <2>2
  <2> QED BY <2>3, Cons3
<1>10. iter[D] = <<a, b, c, "handler">>
  <2>1. D \ {1} = {2, 3} /\ Min(D) = 1 /\ D # {} /\ seq[1] = a
    BY MinOf
  <2>2. iter[D] = <<seq[Min(D)]>> \o iter[D \ {Min(D)}]
    BY <1>6, <2>1
  <2> DEFINE u == <<b, c, "handler">>
             v == <<a, b, c, "handler">>
  <2>3. <<a>> \o u = v
    BY Cons4
  <2>4. iter[{2, 3}] = u
    BY <1>9
  <2> HIDE DEF u, v
  <2>5. iter[D] = <<a>> \o u
    BY <2>1, <2>2, <2>4
  <2>6. iter[D] = v
    BY <2>3, <2>5
  <2> QED BY <2>6 DEF v
<1> QED BY <1>2, <1>10

LEMMA FramesOf ==
  ASSUME NEW x
  PROVE  Frames(x) = <<"recovery", "auth", "logging", "handler">>
BY ChainOfThree DEF Frames, UnaryFrames, StreamFrames, ChainStreamServer

\* What the order of the frames is good for: recovery is the first of them, and
\* a call that is in an interceptor is not at the last one.
LEMMA FramesInOrder ==
  ASSUME NEW x, call[x].at \in 0..4, call[x].at >= 1
  PROVE  /\ Frame(x) # "recovery" => call[x].at # 1
         /\ Frame(x) \in {"recovery", "auth", "logging"} => call[x].at <= 3
<1> DEFINE n == call[x].at
<1>1. n \in {1, 2, 3, 4}
  OBVIOUS
<1>2. Frame(x) = <<"recovery", "auth", "logging", "handler">>[n]
  BY FramesOf DEF Frame
<1> HIDE DEF n
<1>3. n = 1 => Frame(x) = "recovery"
  BY <1>2
<1>4. n = 4 => Frame(x) = "handler"
  BY <1>2
<1>5. Frame(x) # "recovery" => n # 1
  BY <1>3
<1>6. Frame(x) \in {"recovery", "auth", "logging"} => n <= 3
  BY <1>1, <1>4
<1> QED BY <1>5, <1>6 DEF n

\* A call in progress is at one of its frames.
Framed(x) == call[x].at \in 0..4 /\ (call[x].way # "none" => call[x].at >= 1)

\* The process has not ended in a panic.
ProcessOK ==
  /\ proc \in {"down", "init", "listen", "up"}
  /\ died \in {"never", "stop", "fatal"}
  /\ starts \in 0..MaxStarts

WithinBound(c) == buffer[c] + received[c] <= MaxSent

FInv ==
  /\ ProcessOK
  /\ \A x \in Calls : Framed(x)
  /\ \A c \in Consumers : WithinBound(c)

LEMMA FInitially == ServerInit => FInv
<1> SUFFICES ASSUME ServerInit PROVE FInv
  OBVIOUS
<1>1. ProcessOK
  BY ServerAssumption DEF ServerInit, ProcessOK
<1>2. \A x \in Calls : Framed(x)
  BY DEF ServerInit, Framed, None
<1>3. \A c \in Consumers : WithinBound(c)
  BY ServerAssumption DEF ServerInit, WithinBound
<1> QED BY <1>1, <1>2, <1>3 DEF FInv

\* A step that takes one call to another state.
LEMMA OneCall ==
  ASSUME SInv, FInv, NEW x \in Calls, NEW r, call' = [call EXCEPT ![x] = r],
         r.at \in 0..4, r.way # "none" => r.at >= 1,
         UNCHANGED <<server, buffer, received>>
  PROVE  FInv'
<1>1. ProcessOK'
  BY DEF FInv, ProcessOK, server
<1>2. ASSUME NEW y \in Calls PROVE Framed(y)'
  <2>1. call \in [Calls -> CallType] /\ Framed(y)
    BY DEF SInv, ServerTyped, FInv
  <2>2. call'[y] = IF y = x THEN r ELSE call[y]
    BY <2>1
  <2> QED BY <2>1, <2>2 DEF Framed
<1>3. \A c \in Consumers : WithinBound(c)'
  BY DEF FInv, WithinBound
<1> QED BY <1>1, <1>2, <1>3 DEF FInv

LEMMA NoCall ==
  ASSUME SInv, FInv, UNCHANGED <<server, call, buffer, received>>
  PROVE  FInv'
BY DEF FInv, ProcessOK, Framed, WithinBound, server

LEMMA DieFramed ==
  ASSUME FInv, NEW why \in {"stop", "fatal"}, Die(why)
  PROVE  FInv'
<1>1. ProcessOK'
  BY DEF Die, FInv, ProcessOK
<1>2. \A x \in Calls : Framed(x)'
  BY DEF Die, Framed, None
<1>3. \A c \in Consumers : WithinBound(c)'
  BY DEF Die, FInv, WithinBound
<1> QED BY <1>1, <1>2, <1>3 DEF FInv

LEMMA CallStepFramed ==
  ASSUME SInv, FInv, NEW x \in Calls, CallStep(x)
  PROVE  FInv'
<1>0. /\ call \in [Calls -> CallType] /\ call[x] \in CallType
      /\ call[x].at \in 0..4 /\ (call[x].way # "none" => call[x].at >= 1)
  BY DEF SInv, ServerTyped, FInv, Framed
<1>1. CASE CallsNext(x) /\ call[x].way = "in" /\ Frame(x) \in {"recovery", "auth", "logging"}
  <2> DEFINE r == [call[x] EXCEPT !.at = @ + 1]
  <2>1. call[x].at <= 3
    BY <1>0, <1>1, FramesInOrder
  <2>2. r.at \in 0..4 /\ r.at >= 1
    BY <1>0, <2>1 DEF CallType
  <2>3. call' = [call EXCEPT ![x] = r] /\ UNCHANGED <<server, buffer, received>>
    BY <1>0, <1>1 DEF CallsNext
  <2> HIDE DEF r
  <2> QED BY <2>2, <2>3, OneCall
<1>2. CASE Panics(x) /\ call[x].way = "in"
  <2> DEFINE r == [call[x] EXCEPT !.way = "panic"]
  <2>1. r.at = call[x].at /\ r.at >= 1
    BY <1>0, <1>2 DEF CallType
  <2>2. call' = [call EXCEPT ![x] = r] /\ UNCHANGED <<server, buffer, received>>
    BY <1>0, <1>2 DEF Panics
  <2> HIDE DEF r
  <2> QED BY <1>0, <2>1, <2>2, OneCall
<1>3. CASE (Ascend(x) /\ call[x].at > 1) \/ (Unwind(x) /\ call[x].at # 1)
  <2> DEFINE r == [call[x] EXCEPT !.at = @ - 1]
  <2>1. call[x].way # "none"
    BY <1>3 DEF Ascend, Unwind
  <2>2. r.at \in 0..4 /\ r.at >= 1
    BY <1>0, <1>3, <2>1 DEF CallType
  <2>3. call' = [call EXCEPT ![x] = r] /\ UNCHANGED <<server, buffer, received>>
    BY <1>0, <1>3 DEF Ascend, Unwind
  <2> HIDE DEF r
  <2> QED BY <2>2, <2>3, OneCall
<1>4. CASE Ascend(x) /\ ~(call[x].at > 1)
  <2>1. None.at \in 0..4 /\ None.way = "none"
    BY DEF None
  <2>2. call' = [call EXCEPT ![x] = None] /\ UNCHANGED <<server, buffer, received>>
    BY <1>4 DEF Ascend
  <2> HIDE DEF None
  <2> QED BY <2>1, <2>2, OneCall
<1>5. CASE Recover(x)
  <2> DEFINE r == [call[x] EXCEPT !.way = "out", !.res = "error"]
  <2>1. r.at = call[x].at /\ r.at >= 1
    BY <1>0, <1>5 DEF CallType, Recover
  <2>2. call' = [call EXCEPT ![x] = r] /\ UNCHANGED <<server, buffer, received>>
    BY <1>0, <1>5 DEF Recover
  <2> HIDE DEF r
  <2> QED BY <1>0, <2>1, <2>2, OneCall
\* The frame of a panic that is not recovered there is not the first one.
<1>6. CASE Unwind(x) /\ call[x].at = 1
  <2>1. call[x].way = "panic" /\ Frame(x) # "recovery"
    BY <1>6 DEF Unwind
  <2>2. call[x].at # 1
    BY <1>0, <2>1, FramesInOrder
  <2> QED BY <1>6, <2>2
<1> QED BY <1>1, <1>2, <1>3, <1>4, <1>5, <1>6
        DEF CallStep, Recovery, Auth, Logging, Enters

LEMMA CutOffFramed ==
  ASSUME SInv, FInv, NEW x \in Calls, CutOff(x)
  PROVE  FInv'
<1> DEFINE r == IF x[2] = "Ack" THEN None ELSE call[x]
<1>1. r.at \in 0..4 /\ (r.way # "none" => r.at >= 1)
  BY DEF None, FInv, Framed
<1>2. call' = [call EXCEPT ![x] = r] /\ UNCHANGED <<server, buffer, received>>
  BY DEF CutOff
<1> HIDE DEF r
<1> QED BY <1>1, <1>2, OneCall

\* A handler that returns or panics stays at its frame.
LEMMA HandlersFramed ==
  ASSUME SInv, FInv,
         \/ \E p \in Producers : HandlePublish(p)
         \/ \E c \in Consumers : HandleAck(c) \/ EndSubscribe(c)
  PROVE  FInv'
<1>1. ASSUME NEW x \in Calls, NEW w \in {"out", "panic"}, NEW v,
             call[x].way = "in", call' = [call EXCEPT ![x].way = w, ![x].res = v],
             UNCHANGED <<server, buffer, received>>
      PROVE  FInv'
  <2> DEFINE r == [call[x] EXCEPT !.way = w, !.res = v]
  <2>1. call \in [Calls -> CallType] /\ call[x] \in CallType /\ Framed(x)
    BY DEF SInv, ServerTyped, FInv
  <2>2. r.at = call[x].at /\ r.at \in 0..4 /\ r.at >= 1
    BY <1>1, <2>1 DEF CallType, Framed
  <2>3. call' = [call EXCEPT ![x] = r]
    BY <1>1, <2>1
  <2> HIDE DEF r
  <2> QED BY <1>1, <2>2, <2>3, OneCall
<1>2. ASSUME NEW x \in Calls, call[x].way = "in", call' = [call EXCEPT ![x].way = "panic"],
             UNCHANGED <<server, buffer, received>>
      PROVE  FInv'
  <2> DEFINE r == [call[x] EXCEPT !.way = "panic"]
  <2>1. call \in [Calls -> CallType] /\ call[x] \in CallType /\ Framed(x)
    BY DEF SInv, ServerTyped, FInv
  <2>2. r.at = call[x].at /\ r.at \in 0..4 /\ r.at >= 1
    BY <1>2, <2>1 DEF CallType, Framed
  <2>3. call' = [call EXCEPT ![x] = r]
    BY <1>2, <2>1
  <2> HIDE DEF r
  <2> QED BY <1>2, <2>2, <2>3, OneCall
<1>3. ASSUME NEW p \in Producers, HandlePublish(p)
      PROVE  FInv'
  <2> DEFINE x == <<p, "Publish">>
  <2>1. x \in Calls /\ call[x].way = "in" /\ UNCHANGED <<server, buffer, received>>
    BY <1>3, CallsOf DEF HandlePublish, Enters
  <2>2. PICK res \in {"ok", "error", "panic"} :
          call' = [call EXCEPT ![x].way = IF res = "panic" THEN "panic" ELSE "out",
                               ![x].res = IF res = "panic" THEN "ok" ELSE res]
    BY <1>3 DEF HandlePublish
  <2>3. CASE res = "panic"
    BY <1>1, <2>1, <2>2, <2>3
  <2>4. CASE res # "panic"
    BY <1>1, <2>1, <2>2, <2>4
  <2> QED BY <2>3, <2>4
<1>4. ASSUME NEW c \in Consumers, HandleAck(c)
      PROVE  FInv'
  <2>1. /\ <<c, "Ack">> \in Calls /\ call[<<c, "Ack">>].way = "in"
        /\ UNCHANGED <<server, buffer, received>>
    BY <1>4, CallsOf DEF HandleAck, Enters
  <2> QED BY <1>1, <1>2, <1>4, <2>1 DEF HandleAck
<1>5. ASSUME NEW c \in Consumers, EndSubscribe(c)
      PROVE  FInv'
  <2>1. /\ <<c, "Subscribe">> \in Calls /\ call[<<c, "Subscribe">>].way = "in"
        /\ UNCHANGED <<server, buffer, received>>
    BY <1>5, CallsOf DEF EndSubscribe, Enters
  <2> QED BY <1>1, <1>2, <1>5, <2>1 DEF EndSubscribe
<1> QED BY <1>3, <1>4, <1>5

\* The clients begin calls, and take messages out of the buffer.
LEMMA ClientsFramed ==
  ASSUME SInv, FInv,
         \/ \E p \in Producers : ProducerStep(p)
         \/ \E c \in Consumers : Send(c) \/ ConsumerStep(c) \/ Kill(c)
  PROVE  FInv'
<1>0. buffer \in [Consumers -> Nat] /\ received \in [Consumers -> Nat]
  BY DEF SInv, ServerTyped
<1>1. ASSUME NEW x \in Calls, Begin(x), UNCHANGED <<server, buffer, received>>
      PROVE  FInv'
  <2> DEFINE r == [way |-> "in", at |-> 1, res |-> "ok"]
  <2>1. r.at \in 0..4 /\ r.at >= 1
    OBVIOUS
  <2>2. call' = [call EXCEPT ![x] = r]
    BY <1>1 DEF Begin
  <2> HIDE DEF r
  <2> QED BY <1>1, <2>1, <2>2, OneCall
<1>2. ASSUME NEW p \in Producers, ProducerStep(p)
      PROVE  FInv'
  <2>1. <<p, "Publish">> \in Calls
    BY CallsOf
  <2>2. CASE PublishCall(p)
    BY <1>1, <2>1, <2>2, NoCall DEF PublishCall
  <2>3. CASE PublishAnswered(p) \/ Deadline(p)
    BY <2>3, NoCall DEF PublishAnswered, Deadline, calls
  <2> QED BY <1>2, <2>2, <2>3 DEF ProducerStep
<1>3. ASSUME NEW c \in Consumers, UNCHANGED <<server, call>>, 
             \/ /\ buffer' = [buffer EXCEPT ![c] = @ + 1] /\ received' = received
                /\ received[c] + buffer[c] < MaxSent
             \/ /\ buffer' = [buffer EXCEPT ![c] = @ - 1]
                /\ received' = [received EXCEPT ![c] = @ + 1]
      PROVE  FInv'
  <2>1. ProcessOK' /\ \A x \in Calls : Framed(x)'
    BY <1>3 DEF FInv, ProcessOK, Framed, server
  <2>2. ASSUME NEW d \in Consumers PROVE WithinBound(d)'
    <3>1. WithinBound(d) /\ buffer[d] \in Nat /\ received[d] \in Nat
      BY <1>0 DEF FInv
    <3>2. CASE d = c
      BY <1>0, <1>3, <3>1, <3>2, ServerAssumption DEF WithinBound
    <3>3. CASE d # c
      <4>1. buffer'[d] = buffer[d] /\ received'[d] = received[d]
        BY <1>0, <1>3, <3>3
      <4> QED BY <3>1, <4>1 DEF WithinBound
    <3> QED BY <3>2, <3>3
  <2> QED BY <2>1, <2>2 DEF FInv
<1>4. ASSUME NEW c \in Consumers, Send(c) \/ ConsumerStep(c) \/ Kill(c)
      PROVE  FInv'
  <2>1. <<c, "Subscribe">> \in Calls /\ <<c, "Ack">> \in Calls
    BY CallsOf
  <2>2. CASE Send(c)
    BY <1>3, <2>2 DEF Send, calls
  <2>3. CASE Recv(c)
    BY <1>3, <2>3 DEF Recv, calls
  <2>4. CASE SubscribeCall(c)
    BY <1>1, <2>1, <2>4, NoCall DEF SubscribeCall
  <2>5. CASE AckCall(c)
    BY <1>1, <2>1, <2>5, NoCall DEF AckCall
  <2>6. CASE RecvEnd(c) \/ Wake(c) \/ AckAnswered(c) \/ Kill(c)
    BY <2>6, NoCall DEF RecvEnd, Wake, AckAnswered, Kill, calls
  <2> QED BY <1>4, <2>2, <2>3, <2>4, <2>5, <2>6 DEF ConsumerStep
<1> QED BY <1>2, <1>4

LEMMA FInductive == SInv /\ FInv /\ [ServerNext]_svars => FInv'
<1> SUFFICES ASSUME SInv, FInv, [ServerNext]_svars PROVE FInv'
  OBVIOUS
<1>1. CASE Stop
  BY <1>1, DieFramed DEF Stop
<1>2. ASSUME proc' \in {"init", "listen", "up"}, died' = died, starts' \in 0..MaxStarts,
             UNCHANGED <<call, buffer, received>>
      PROVE  FInv'
  BY <1>2 DEF FInv, ProcessOK, Framed, WithinBound
<1>3. CASE Start
  <2>1. starts' \in 0..MaxStarts
    BY <1>3, ServerAssumption DEF Start, FInv, ProcessOK
  <2> QED BY <1>2, <1>3, <2>1 DEF Start, calls
<1>4. CASE InitBroker \/ Serve
  <2>1. starts \in 0..MaxStarts
    BY DEF FInv, ProcessOK
  <2> QED BY <1>2, <1>4, <2>1, DieFramed DEF InitBroker, Serve, calls
<1>5. CASE UNCHANGED svars
  BY <1>5, NoCall DEF svars, calls
<1> QED BY <1>1, <1>3, <1>4, <1>5, CallStepFramed, CutOffFramed, HandlersFramed, ClientsFramed
        DEF ServerNext

THEOREM FInvariance == ServerSpec => []FInv
BY FInitially, FInductive, SInvariance, PTL DEF ServerSpec

\* No panic, of an interceptor or of a handler, in a call or in a stream, ends the
\* process: each one is met by the deferred function of the first frame.
THEOREM PanicsAreContained == ServerSpec => []PanicContained
<1>1. FInv => PanicContained
  BY DEF FInv, ProcessOK, PanicContained
<1> QED BY <1>1, FInvariance, PTL

\* The type invariant; a call is always at one of the four frames.
THEOREM ServerTypeCorrect == ServerSpec => []ServerTypeOK
<1>1. SInv /\ FInv => ServerTypeOK
  <2> SUFFICES ASSUME SInv, FInv PROVE ServerTypeOK
    OBVIOUS
  <2>1. /\ proc \in {"down", "init", "listen", "up"}
        /\ died \in {"never", "stop", "fatal", "panic"} /\ starts \in 0..MaxStarts
    BY DEF FInv, ProcessOK
  <2>2. call \in [Calls -> [way : {"none", "in", "out", "panic"}, at : Nat, res : {"ok", "error"}]]
    <3>1. call \in [Calls -> CallType]
      BY DEF SInv, ServerTyped
    <3>2. ASSUME NEW x \in Calls
          PROVE  call[x] \in [way : {"none", "in", "out", "panic"}, at : Nat, res : {"ok", "error"}]
      <4>1. call[x] \in CallType /\ call[x].at \in Nat
        BY <3>1 DEF FInv, Framed
      <4> QED BY <4>1 DEF CallType
    <3> QED BY <3>1, <3>2
  <2>3. \A x \in Calls : call[x].at <= Len(Frames(x))
    <3>1. \A x \in Calls : call[x].at <= 4
      BY DEF FInv, Framed
    <3>2. Len(<<"recovery", "auth", "logging", "handler">>) = 4
      OBVIOUS
    <3>3. \A x \in Calls : Len(Frames(x)) = 4
      BY <3>2, FramesOf
    <3> QED BY <3>1, <3>3
  <2>4. /\ reply \in [Calls -> {"none", "ok", "error"}]
        /\ prod \in [Producers -> {"start", "waiting", "exit 0", "exit 1"}]
        /\ cons \in [Consumers -> {"start", "recv", "sleep", "got", "acking", "killed", "exit 0", "exit 1"}]
    BY DEF SInv, ServerTyped
  <2>5. stored \in [Producers -> Nat]
    BY DEF SInv, ServerTyped
  <2>6. buffer \in [Consumers -> 0..MaxSent] /\ received \in [Consumers -> 0..MaxSent]
    <3>1. buffer \in [Consumers -> Nat] /\ received \in [Consumers -> Nat]
      BY DEF SInv, ServerTyped
    <3>2. \A c \in Consumers : buffer[c] \in 0..MaxSent /\ received[c] \in 0..MaxSent
      BY <3>1, ServerAssumption DEF FInv, WithinBound
    <3> QED BY <3>1, <3>2
  <2> QED BY <2>1, <2>2, <2>3, <2>4, <2>5, <2>6 DEF ServerTypeOK
<1> QED BY <1>1, SInvariance, FInvariance, PTL
=============================================================================

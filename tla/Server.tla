------------------------------- MODULE Server -------------------------------
(***************************************************************************)
(* The process around the broker and the two shipped clients:              *)
(*   - cmd/server/main.go: InitBroker, listen, serve; every call goes      *)
(*     through a chain of interceptors (internal/middleware);              *)
(*   - client/producer/main.go: one Publish with a deadline, an exit code; *)
(*   - client/consumer/main.go: Subscribe, then Recv and Ack in a loop.    *)
(*                                                                         *)
(* What Publish, Subscribe and Ack do is the subject of Broker; here they  *)
(* have an outcome: they return, fail, panic, or do not come back because  *)
(* the store does not answer.  A call that is refused, cut off or answered *)
(* is told to its client by gRPC (external).                               *)
(***************************************************************************)
EXTENDS Naturals, Sequences, SequencesExt

CONSTANTS
  Producers, Consumers,   \* client processes
  StoreTypes,             \* values of store.type in the configuration file
  MaxStarts,              \* bound on the starts of the server
  MaxSent,                \* bound on the messages of a stream
  MaxCopies               \* bound on the copies that one Append stores

ASSUME ServerAssumption == MaxStarts \in Nat /\ MaxSent \in Nat /\ MaxCopies \in Nat \ {0}

VARIABLES
  proc,      \* the server: "down", "init", "listen" or "up"
  died,      \* why it ended last
  starts,
  call,      \* the goroutine that serves a call: way, frame of the chain, result
  reply,     \* what gRPC has told the client of the end of a call
  stored,    \* stored[p]: how often the message of producer p has been stored
  prod,      \* main of the producer
  cons,      \* main of the consumer
  buffer,    \* buffer[c]: messages sent to consumer c and not received
  received   \* received[c]: messages that consumer c has received

calls   == <<call, reply>>
clients == <<prod, cons>>
server  == <<proc, died, starts>>
svars   == <<server, calls, clients, stored, buffer, received>>

Publishes  == Producers \X {"Publish"}
Subscribes == Consumers \X {"Subscribe"}
Calls      == Publishes \cup Subscribes \cup (Consumers \X {"Ack"})
-----------------------------------------------------------------------------
(* The chain of interceptors *)

ChainInTurn(interceptors) ==   \* mutant of ChainUnaryServer: the loop runs forwards
  FoldLeft(LAMBDA curr, ic : <<ic>> \o curr, <<"handler">>, interceptors)

ChainOnly(interceptors) ==     \* mutant: the handler is not in the chain
  FoldRight(LAMBDA ic, curr : <<ic>> \o curr, interceptors, <<>>)

\* From the last interceptor to the first, each is wrapped around what there is;
\* no interceptors leave the handler alone.
ChainUnaryServer(interceptors) ==
  FoldRight(LAMBDA ic, curr : <<ic>> \o curr, interceptors, <<"handler">>)

\* The same for streams.
ChainStreamServer(interceptors) == ChainUnaryServer(interceptors)

\* The frames of a call, the outermost first, as main sets them up.
UnaryFrames  == ChainUnaryServer(<<"recovery", "auth", "logging">>)
StreamFrames == ChainStreamServer(<<"recovery", "auth", "logging">>)
Frames(x) == IF x[2] = "Subscribe" THEN StreamFrames ELSE UnaryFrames

None == [way |-> "none", at |-> 0, res |-> "ok"]
Begin(x) == call' = [call EXCEPT ![x] = [way |-> "in", at |-> 1, res |-> "ok"]]

Frame(x) == Frames(x)[call[x].at]
Enters(x, frame) == call[x].way = "in" /\ Frame(x) = frame

\* handler(ctx, req) in an interceptor: the closure that the loop has made of the
\* next one is called ...
CallsNext(x) ==
  /\ call' = [call EXCEPT ![x].at = @ + 1]
  /\ UNCHANGED <<server, reply, clients, stored, buffer, received>>

\* ... or the frame panics before.
Panics(x) ==
  /\ call' = [call EXCEPT ![x].way = "panic"]
  /\ UNCHANGED <<server, reply, clients, stored, buffer, received>>

\* Installs its deferred function.
Recovery(x) == Enters(x, "recovery") /\ CallsNext(x)

\* Looks at the token and lets any call pass.
Auth(x) == Enters(x, "auth") /\ (CallsNext(x) \/ Panics(x))

\* Draws a request id.
Logging(x) == Enters(x, "logging") /\ (CallsNext(x) \/ Panics(x))

\* A result goes back through the frames, which pass on what they are returned,
\* and from the first one to the client.
Ascend(x) ==
  /\ call[x].way = "out"
  /\ IF call[x].at > 1
     THEN call' = [call EXCEPT ![x].at = @ - 1] /\ UNCHANGED reply
     ELSE /\ call' = [call EXCEPT ![x] = None]
          /\ reply' = [reply EXCEPT ![x] = IF @ = "none" THEN call[x].res ELSE @]
  /\ UNCHANGED <<server, clients, stored, buffer, received>>

\* Mutants of Recover: the named result err is not set; the goroutine ends there.
RecoverAndForget(x) ==
  /\ call[x].way = "panic" /\ Frame(x) = "recovery"
  /\ call' = [call EXCEPT ![x].way = "out", ![x].res = "ok"]
  /\ UNCHANGED <<server, reply, clients, stored, buffer, received>>

RecoverAndStop(x) ==
  /\ call[x].way = "panic" /\ Frame(x) = "recovery"
  /\ call' = [call EXCEPT ![x] = None]
  /\ UNCHANGED <<server, reply, clients, stored, buffer, received>>

\* recover() in the deferred function, the same for calls and for streams:
\* err = "internal server error".
Recover(x) ==
  /\ call[x].way = "panic" /\ Frame(x) = "recovery"
  /\ call' = [call EXCEPT ![x].way = "out", ![x].res = "error"]
  /\ UNCHANGED <<server, reply, clients, stored, buffer, received>>
-----------------------------------------------------------------------------
(* The process *)

\* The end of the process: every call in progress fails.
Die(why) ==
  /\ proc' = "down" /\ died' = why
  /\ reply' = [x \in Calls |-> IF call[x].way # "none" THEN "error" ELSE reply[x]]
  /\ call' = [x \in Calls |-> None]
  /\ UNCHANGED <<starts, clients, stored, buffer, received>>

\* The Go runtime: a panic goes back through the frames that do not recover it, and
\* one that comes out of the first frame ends the process.
Unwind(x) ==
  /\ call[x].way = "panic" /\ Frame(x) # "recovery"
  /\ IF call[x].at = 1 THEN Die("panic")
     ELSE /\ call' = [call EXCEPT ![x].at = @ - 1]
          /\ UNCHANGED <<server, reply, clients, stored, buffer, received>>

\* Somebody stops it.
Stop == proc # "down" /\ Die("stop")

\* The connection breaks under a call: the client is told, the handler is not
\* stopped (that of an Ack is not followed any further).
CutOff(x) ==
  /\ call[x].way # "none" /\ reply[x] = "none"
  /\ reply' = [reply EXCEPT ![x] = "error"]
  /\ call' = [call EXCEPT ![x] = IF x[2] = "Ack" THEN None ELSE @]
  /\ UNCHANGED <<server, clients, stored, buffer, received>>

Start ==
  /\ proc = "down" /\ starts < MaxStarts
  /\ proc' = "init" /\ starts' = starts + 1
  /\ UNCHANGED <<died, calls, clients, stored, buffer, received>>

\* What the constructors of the stores return: that of Redis after a ping, that of
\* PostgreSQL after a ping and one transaction that creates the tables.
NewInMemoryStore == {"store"}
NewRedisStore    == {"store", "error"}
EnsureSchema     == {"ok", "error"}
NewPostgresStore == {"error"} \cup {IF r = "ok" THEN "store" ELSE "error" : r \in EnsureSchema}

Opened(type) ==
  IF type = "redis" THEN NewRedisStore
  ELSE IF type = "postgres" THEN NewPostgresStore ELSE NewInMemoryStore

\* A store that cannot be opened ends the process.
InitBroker ==
  /\ proc = "init"
  /\ \E type \in StoreTypes :
       \/ /\ "store" \in Opened(type)
          /\ proc' = "listen"
          /\ UNCHANGED <<died, starts, calls, clients, stored, buffer, received>>
       \/ /\ "error" \in Opened(type)
          /\ Die("fatal")

\* net.Listen and Serve; a port in use ends the process.
Serve ==
  /\ proc = "listen"
  /\ \/ /\ proc' = "up"
        /\ UNCHANGED <<died, starts, calls, clients, stored, buffer, received>>
     \/ Die("fatal")
-----------------------------------------------------------------------------
(* The handlers of the broker *)

\* Publish: the message is stored once, not at all, or more than once (the Redis
\* client repeats an RPUSH whose reply is lost: RPushAgain in RedisStore).  Ok is
\* answered only after the store has said so; an error or a panic may hide a
\* message that has been stored.
HandlePublish(p) ==
  LET x == <<p, "Publish">>
  IN  /\ Enters(x, "handler")
      /\ \E copies \in 0 .. MaxCopies, res \in {"ok", "error", "panic"} :
           /\ res = "ok" => copies >= 1
           /\ stored' = [stored EXCEPT ![p] = @ + copies]
           /\ call' = [call EXCEPT ![x].way = IF res = "panic" THEN "panic" ELSE "out",
                                   ![x].res = IF res = "panic" THEN "ok" ELSE res]
      /\ UNCHANGED <<server, reply, clients, buffer, received>>

HandleAck(c) ==
  LET x == <<c, "Ack">>
  IN  /\ Enters(x, "handler")
      /\ \/ \E res \in {"ok", "error"} :
              call' = [call EXCEPT ![x].way = "out", ![x].res = res]
         \/ call' = [call EXCEPT ![x].way = "panic"]
      /\ UNCHANGED <<server, reply, clients, stored, buffer, received>>

\* The context of the stream is done.
Ended(c) == cons[c] \in {"killed", "exit 0", "exit 1"}
Gone(c)  == Ended(c) \/ reply[<<c, "Subscribe">>] # "none"

\* Subscribe hands a message to stream.Send ...
Send(c) ==
  /\ Enters(<<c, "Subscribe">>, "handler") /\ ~Gone(c)
  /\ received[c] + buffer[c] < MaxSent
  /\ buffer' = [buffer EXCEPT ![c] = @ + 1]
  /\ UNCHANGED <<server, calls, clients, stored, received>>

\* ... and ends with nil only when the context of the stream is done, that is
\* when the client or the connection has gone; with an error or a panic at any time.
EndSubscribe(c) ==
  LET x == <<c, "Subscribe">>
  IN  /\ Enters(x, "handler")
      /\ \/ /\ Gone(c)
            /\ call' = [call EXCEPT ![x].way = "out", ![x].res = "ok"]
         \/ call' = [call EXCEPT ![x].way = "out", ![x].res = "error"]
         \/ call' = [call EXCEPT ![x].way = "panic"]
      /\ UNCHANGED <<server, reply, clients, stored, buffer, received>>
-----------------------------------------------------------------------------
(* The producer *)

\* client.Publish: with no server the call fails at once.
PublishCall(p) ==
  LET x == <<p, "Publish">>
  IN  /\ prod[p] = "start"
      /\ prod' = [prod EXCEPT ![p] = "waiting"]
      /\ \/ proc = "up" /\ Begin(x) /\ UNCHANGED reply
         \/ proc # "up" /\ reply' = [reply EXCEPT ![x] = "error"] /\ UNCHANGED call
      /\ UNCHANGED <<server, cons, stored, buffer, received>>

\* An error ends main with code 1, an answer with code 0.
PublishAnswered(p) ==
  LET x == <<p, "Publish">>
  IN  /\ prod[p] = "waiting" /\ reply[x] # "none"
      /\ prod' = [prod EXCEPT ![p] = IF reply[x] = "ok" THEN "exit 0" ELSE "exit 1"]
      /\ UNCHANGED <<server, calls, cons, stored, buffer, received>>

\* The five seconds of the context are over; the handler is not told.
Deadline(p) ==
  /\ prod[p] = "waiting"
  /\ prod' = [prod EXCEPT ![p] = "exit 1"]
  /\ UNCHANGED <<server, calls, cons, stored, buffer, received>>
-----------------------------------------------------------------------------
(* The consumer *)

\* client.Subscribe: with no server main ends at once (Fatalf).
SubscribeCall(c) ==
  /\ cons[c] = "start"
  /\ \/ proc = "up" /\ Begin(<<c, "Subscribe">>) /\ cons' = [cons EXCEPT ![c] = "recv"]
     \/ proc # "up" /\ cons' = [cons EXCEPT ![c] = "exit 1"] /\ UNCHANGED call
  /\ UNCHANGED <<server, reply, prod, stored, buffer, received>>

Recv(c) ==
  /\ cons[c] = "recv" /\ buffer[c] > 0
  /\ buffer' = [buffer EXCEPT ![c] = @ - 1]
  /\ received' = [received EXCEPT ![c] = @ + 1]
  /\ cons' = [cons EXCEPT ![c] = "got"]
  /\ UNCHANGED <<server, calls, prod, stored>>

\* io.EOF ends main; after any other error the loop sleeps.
RecvEnd(c) ==
  LET x == <<c, "Subscribe">>
  IN  /\ cons[c] = "recv" /\ buffer[c] = 0 /\ reply[x] # "none"
      /\ cons' = [cons EXCEPT ![c] = IF reply[x] = "ok" THEN "exit 0" ELSE "sleep"]
      /\ UNCHANGED <<server, calls, prod, stored, buffer, received>>

WakeAndSubscribe(c) ==   \* mutant of Wake
  /\ cons[c] = "sleep"
  /\ cons' = [cons EXCEPT ![c] = "start"]
  /\ reply' = [reply EXCEPT ![<<c, "Subscribe">>] = "none"]
  /\ UNCHANGED <<server, call, prod, stored, buffer, received>>

\* ... and calls Recv again, on the same stream.
Wake(c) ==
  /\ cons[c] = "sleep"
  /\ cons' = [cons EXCEPT ![c] = "recv"]
  /\ UNCHANGED <<server, calls, prod, stored, buffer, received>>

\* client.Ack, without a deadline.
AckCall(c) ==
  LET x == <<c, "Ack">>
  IN  /\ cons[c] = "got"
      /\ cons' = [cons EXCEPT ![c] = "acking"]
      /\ \/ proc = "up" /\ Begin(x) /\ reply' = [reply EXCEPT ![x] = "none"]
         \/ proc # "up" /\ reply' = [reply EXCEPT ![x] = "error"] /\ UNCHANGED call
      /\ UNCHANGED <<server, prod, stored, buffer, received>>

\* Whatever the answer, the loop goes on.
AckAnswered(c) ==
  /\ cons[c] = "acking" /\ reply[<<c, "Ack">>] # "none"
  /\ cons' = [cons EXCEPT ![c] = "recv"]
  /\ UNCHANGED <<server, calls, prod, stored, buffer, received>>

\* The user ends the consumer.
Kill(c) ==
  /\ cons[c] \in {"recv", "got", "acking", "sleep"}
  /\ cons' = [cons EXCEPT ![c] = "killed"]
  /\ UNCHANGED <<server, calls, prod, stored, buffer, received>>
-----------------------------------------------------------------------------
ServerInit ==
  /\ proc = "down" /\ died = "never" /\ starts = 0
  /\ call = [x \in Calls |-> None]
  /\ reply = [x \in Calls |-> "none"]
  /\ stored = [p \in Producers |-> 0]
  /\ prod = [p \in Producers |-> "start"]
  /\ cons = [c \in Consumers |-> "start"]
  /\ buffer = [c \in Consumers |-> 0]
  /\ received = [c \in Consumers |-> 0]

CallStep(x) == Recovery(x) \/ Auth(x) \/ Logging(x) \/ Ascend(x) \/ Unwind(x) \/ Recover(x)

ProducerStep(p) == PublishCall(p) \/ PublishAnswered(p) \/ Deadline(p)

ConsumerStep(c) ==
  \/ SubscribeCall(c) \/ Recv(c) \/ RecvEnd(c) \/ Wake(c) \/ AckCall(c) \/ AckAnswered(c)

ServerNext ==
  \/ Stop \/ Start \/ InitBroker \/ Serve
  \/ \E x \in Calls : CallStep(x) \/ CutOff(x)
  \/ \E p \in Producers : HandlePublish(p) \/ ProducerStep(p)
  \/ \E c \in Consumers : HandleAck(c) \/ Send(c) \/ EndSubscribe(c) \/ ConsumerStep(c) \/ Kill(c)

ServerSpec == ServerInit /\ [][ServerNext]_svars
-----------------------------------------------------------------------------
\* Type invariant.
ServerTypeOK ==
  /\ proc \in {"down", "init", "listen", "up"}
  /\ died \in {"never", "stop", "fatal", "panic"}
  /\ starts \in 0 .. MaxStarts
  /\ call \in [Calls -> [way : {"none", "in", "out", "panic"}, at : Nat,
                         res : {"ok", "error"}]]
  /\ \A x \in Calls : call[x].at <= Len(Frames(x))
  /\ reply \in [Calls -> {"none", "ok", "error"}]
  /\ stored \in [Producers -> Nat]
  /\ prod \in [Producers -> {"start", "waiting", "exit 0", "exit 1"}]
  /\ cons \in [Consumers -> {"start", "recv", "sleep", "got", "acking", "killed", "exit 0", "exit 1"}]
  /\ buffer \in [Consumers -> 0 .. MaxSent] /\ received \in [Consumers -> 0 .. MaxSent]

\* A panic in an interceptor or in a handler, of a call or of a stream, never ends
\* the process.
PanicContained == died # "panic"

\* The exit code of the producer can be trusted in one direction: 0 means that
\* the message has been stored, whatever race there was between the deadline, a
\* broken connection, a panic on the way and the answer.  It can have been stored
\* more than once, and code 1 says nothing of the store.
ExitCodeTruthful == \A p \in Producers : prod[p] = "exit 0" => stored[p] >= 1

\* A client that waits for the end of a call waits for something: the call is
\* being served or its end has been told, across panics and restarts.
NobodyWaitsForNothing ==
  /\ \A p \in Producers : prod[p] = "waiting" => 
       call[<<p, "Publish">>].way # "none" \/ reply[<<p, "Publish">>] # "none"
  /\ \A c \in Consumers : cons[c] = "acking" =>
       call[<<c, "Ack">>].way # "none" \/ reply[<<c, "Ack">>] # "none"
  /\ \A c \in Consumers : cons[c] = "recv" =>
       call[<<c, "Subscribe">>].way # "none" \/ reply[<<c, "Subscribe">>] # "none"

\* No stream of a living client ends with nil: the consumer never sees io.EOF,
\* and its main never returns.
NeverEOF == \A c \in Consumers : cons[c] # "exit 0"

\* What the loop does instead: a consumer whose stream has failed, because of an
\* error, a panic or a restart, and who has received what had been sent before,
\* never receives a message again.
DeadStreamStaysDead ==
  [][\A c \in Consumers :
       reply[<<c, "Subscribe">>] = "error" /\ buffer[c] = 0 =>
         reply'[<<c, "Subscribe">>] = "error" /\ buffer'[c] = 0 /\ received'[c] = received[c]]_svars
=============================================================================

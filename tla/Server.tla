------------------------------- MODULE Server -------------------------------
(***************************************************************************)
(* The validator process: main(), the receive loop of Server, the signal   *)
(* handler, the Kafka producer and the broker, composed with the worker    *)
(* pool.  The main thread of this module is the main thread of             *)
(* ConnectionPool: mainPc says where it is in main.cpp and Server.cpp,     *)
(* caller where it is in the pool's methods.                               *)
(*                                                                         *)
(* UDP datagrams may be lost (never received) and arrive in any order; a   *)
(* duplicate is one more datagram.  A packet is abstracted to the branch   *)
(* of ProcessNextRequestFromBuffer it takes.                               *)
(***************************************************************************)
EXTENDS ConnectionPool

CONSTANTS
  Packets,       \* the packets clients send; the valid ones are Requests
  PacketClass,   \* [Packets -> Classes]
  Datagrams      \* the datagrams, sequences of packets

Classes == {"valid", "invalid", "alive", "unsupported", "garbage"}

ASSUME PacketAssumption ==
  /\ PacketClass \in [Packets -> Classes]
  /\ Requests = {p \in Packets : PacketClass[p] = "valid"}

\* A packet is sent in one datagram, once.
ASSUME DatagramAssumption ==
  /\ \A d \in Datagrams : d \in Seq(Packets) /\ d # <<>>
  /\ \A d, e \in Datagrams : \A i \in DOMAIN d, j \in DOMAIN e :
       d[i] = e[j] => d = e /\ i = j

VARIABLES
  mainPc,               \* where the main thread is
  shutdownInProgress,   \* set by the signal handler
  socketOpen,
  producer,             \* what kafkaProducer points to
  buffer,               \* the packets of the current datagram still to process
  received,             \* the datagrams recvfrom has returned
  reply,                \* history: what the main thread answered a packet with
  leaked,               \* rejected ClientRequest objects: nobody deletes them
  outq,                 \* the CDRs in the producer's queue, by request
  flushed,              \* history: the CDRs produced when WaitForKafkaQueue returned
  lost                  \* history: the CDRs the producer was destroyed with

netVars    == <<socketOpen, buffer, received, reply, leaked>>
kafkaVars  == <<producer, outq, flushed, lost>>
serverVars == <<mainPc, shutdownInProgress, netVars, kafkaVars>>

MainPcs == {"socket", "kafka", "pool", "loop", "receiving", "parsing", "pushing",
            "draining", "closing", "freeing", "joining", "exited", "crashed"}

Replies == {"none", "NOT_ACCEPTED", "I_AM_ALIVE", "sendFailed"}

MainGoto(from, to) ==
  /\ mainPc = from
  /\ mainPc' = to

\* The requests with a CDR.
Charged == {c.request : c \in cdrs}

ServerInit ==
  /\ Init
  /\ mainPc = "socket"
  /\ shutdownInProgress = FALSE
  /\ socketOpen = FALSE
  /\ producer = "none"
  /\ buffer = <<>>
  /\ received = {}
  /\ reply = [p \in Packets |-> "none"]
  /\ leaked = {}
  /\ outq = {}
  /\ flushed = {}
  /\ lost = {}

-----------------------------------------------------------------------------
(* Server::Initialize.  When it fails main() calls exit(), when it throws  *)
(* main() returns: either way the static server is destroyed next.         *)

InitSocket ==
  /\ MainGoto("socket", "kafka")
  /\ socketOpen' = TRUE
  /\ UNCHANGED <<vars, shutdownInProgress, buffer, received, reply, leaked, kafkaVars>>

\* socket(), or setsockopt() or bind() after it, fails.
InitSocketFails ==
  /\ MainGoto("socket", "closing")
  /\ socketOpen' \in BOOLEAN
  /\ UNCHANGED <<vars, shutdownInProgress, buffer, received, reply, leaked, kafkaVars>>

\* The producer is created if KAFKA_BROKER is set, else it stays null.
InitKafka ==
  /\ MainGoto("kafka", "pool")
  /\ producer' = IF KafkaConfigured THEN "alive" ELSE "none"
  /\ UNCHANGED <<vars, shutdownInProgress, netVars, outq, flushed, lost>>

InitKafkaFails ==
  /\ KafkaConfigured
  /\ MainGoto("kafka", "closing")
  /\ UNCHANGED <<vars, shutdownInProgress, netVars, kafkaVars>>

\* connectionPool->Initialize, step by step.
InitPool ==
  /\ mainPc = "pool"
  /\ Initialize
  /\ mainPc' = CASE caller' = "idle"     -> "loop"
                 [] caller' = "stopping" -> "closing"
                 [] OTHER                -> "pool"
  /\ UNCHANGED <<shutdownInProgress, netVars, kafkaVars>>

-----------------------------------------------------------------------------
(* Server::Run and the signal handler.                                     *)

\* while (!shutdownInProgress)
TestShutdown ==
  /\ MainGoto("loop", IF shutdownInProgress THEN "draining" ELSE "receiving")
  /\ UNCHANGED <<vars, shutdownInProgress, netVars, kafkaVars>>

Receive(d) ==
  /\ d \notin received
  /\ MainGoto("receiving", "parsing")
  /\ received' = received \cup {d}
  /\ buffer' = d
  /\ UNCHANGED <<vars, shutdownInProgress, socketOpen, reply, leaked, kafkaVars>>

\* Mutant: the socket has no receive timeout.
RecvfromBlocks ==
  /\ MainGoto("receiving", "receiving")
  /\ UNCHANGED <<vars, shutdownInProgress, netVars, kafkaVars>>

\* recvfrom returns without a datagram: SO_RCVTIMEO, a signal or an error.
RecvfromFails ==
  /\ MainGoto("receiving", "loop")
  /\ UNCHANGED <<vars, shutdownInProgress, netVars, kafkaVars>>

\* SIGINT or SIGTERM while Run is running, whose caller has installed the
\* handler.  (Before that a signal kills the process, after it Stop() has no
\* more effect.)
Signal ==
  /\ mainPc \in {"loop", "receiving", "parsing", "pushing", "draining"}
  /\ shutdownInProgress' = TRUE
  /\ UNCHANGED <<vars, mainPc, netVars, kafkaVars>>

-----------------------------------------------------------------------------
(* ProcessIncomingData and ProcessNextRequestFromBuffer.                   *)

\* The next packet of the buffer is p.
NextPacketIs(p) == buffer # <<>> /\ p = Head(buffer)

\* SendNotAcceptedResponse or SendIAmAliveResponse; sendto may fail.
Answer(p, type) == \E t \in {type, "sendFailed"} : reply' = [reply EXCEPT ![p] = t]

DatagramDone ==
  /\ buffer = <<>>
  /\ MainGoto("parsing", "loop")
  /\ UNCHANGED <<vars, shutdownInProgress, netVars, kafkaVars>>

\* A parse error ends the datagram: the packets behind it are dropped.
ParseError(p) ==
  /\ NextPacketIs(p) /\ PacketClass[p] = "garbage"
  /\ MainGoto("parsing", "loop")
  /\ buffer' = <<>>
  /\ UNCHANGED <<vars, shutdownInProgress, socketOpen, received, reply, leaked,
                 kafkaVars>>

\* Mutant: a packet whose answer cannot be sent is kept for another try.
UnsupportedRetried(p) ==
  /\ NextPacketIs(p) /\ PacketClass[p] = "unsupported"
  /\ MainGoto("parsing", "parsing")
  /\ Answer(p, "NOT_ACCEPTED")
  /\ buffer' = IF reply'[p] = "sendFailed" THEN buffer ELSE Tail(buffer)
  /\ UNCHANGED <<vars, shutdownInProgress, socketOpen, received, leaked, kafkaVars>>

UnsupportedType(p) ==
  /\ NextPacketIs(p) /\ PacketClass[p] = "unsupported"
  /\ MainGoto("parsing", "parsing")
  /\ Answer(p, "NOT_ACCEPTED")
  /\ buffer' = Tail(buffer)
  /\ UNCHANGED <<vars, shutdownInProgress, socketOpen, received, leaked, kafkaVars>>

AreYouAlive(p) ==
  /\ NextPacketIs(p) /\ PacketClass[p] = "alive"
  /\ MainGoto("parsing", "parsing")
  /\ Answer(p, "I_AM_ALIVE")
  /\ buffer' = Tail(buffer)
  /\ UNCHANGED <<vars, shutdownInProgress, socketOpen, received, leaked, kafkaVars>>

\* Mutant: a request that fails validation ends the datagram.
RejectEndsDatagram(p) ==
  /\ NextPacketIs(p) /\ PacketClass[p] = "invalid"
  /\ MainGoto("parsing", "parsing")
  /\ Answer(p, "NOT_ACCEPTED")
  /\ leaked' = leaked \cup {p}
  /\ buffer' = <<>>
  /\ UNCHANGED <<vars, shutdownInProgress, socketOpen, received, kafkaVars>>

\* Mutant: the return is missing, the rejected request is pushed as well.
RejectFallsThrough(p) ==
  /\ NextPacketIs(p) /\ PacketClass[p] = "invalid"
  /\ MainGoto("parsing", "pushing")
  /\ Answer(p, "NOT_ACCEPTED")
  /\ CallerGoto("idle", "built")
  /\ inHand' = p
  /\ heap' = heap \cup {p}
  /\ buffer' = Tail(buffer)
  /\ UNCHANGED <<fieldsSet, stopFlag, workerVars, historyVars, lock, queue, clock,
                 accepted,
                 shutdownInProgress, socketOpen, received, leaked, kafkaVars>>

\* ValidateAndSetParams fails: the request is answered and never deleted.
Reject(p) ==
  /\ NextPacketIs(p) /\ PacketClass[p] = "invalid"
  /\ MainGoto("parsing", "parsing")
  /\ Answer(p, "NOT_ACCEPTED")
  /\ leaked' = leaked \cup {p}
  /\ buffer' = Tail(buffer)
  /\ UNCHANGED <<vars, shutdownInProgress, socketOpen, received, kafkaVars>>

\* ValidateAndSetParams succeeds: the request goes to the pool.
Accept(p) ==
  /\ NextPacketIs(p) /\ PacketClass[p] = "valid"
  /\ MainGoto("parsing", "pushing")
  /\ BuildRequest(p)
  /\ buffer' = Tail(buffer)
  /\ UNCHANGED <<shutdownInProgress, socketOpen, received, reply, leaked, kafkaVars>>

\* connectionPool->PushRequest, in its two steps.
PushToPool ==
  /\ PushRequest
  /\ MainGoto("pushing", IF caller' = "idle" THEN "parsing" ELSE "pushing")
  /\ UNCHANGED <<shutdownInProgress, netVars, kafkaVars>>

ProcessPacket(p) ==
  \/ ParseError(p)
  \/ UnsupportedType(p)
  \/ AreYouAlive(p)
  \/ Reject(p)
  \/ Accept(p)

-----------------------------------------------------------------------------
(* The end of Run and ~Server.                                             *)

\* Mutant: Run returns without waiting for the queue.
KafkaQueueNotAwaited ==
  /\ MainGoto("draining", IF producer = "none" THEN "crashed" ELSE "closing")
  /\ flushed' = Charged
  /\ UNCHANGED <<vars, shutdownInProgress, netVars, producer, outq, lost>>

\* Mutant: while (outq_len() >= 0).
KafkaQueueAwaitedForever ==
  /\ producer = "none"
  /\ MainGoto("draining", "crashed")
  /\ flushed' = Charged
  /\ UNCHANGED <<vars, shutdownInProgress, netVars, producer, outq, lost>>

\* WaitForKafkaQueue leaves its loop when outq_len() is 0 (polling changes
\* nothing here); without a broker it calls through a null pointer.
WaitForKafkaQueue ==
  /\ producer = "none" \/ outq = {}
  /\ MainGoto("draining", IF producer = "none" THEN "crashed" ELSE "closing")
  /\ flushed' = Charged
  /\ UNCHANGED <<vars, shutdownInProgress, netVars, producer, outq, lost>>

\* The body of ~Server.
CloseSocket ==
  /\ MainGoto("closing", "freeing")
  /\ socketOpen' = FALSE
  /\ UNCHANGED <<vars, shutdownInProgress, buffer, received, reply, leaked, kafkaVars>>

\* Mutant: a pool whose Initialize has thrown is not destroyed.
FreeProducerOnly ==
  /\ MainGoto("freeing", IF caller = "idle" THEN "joining" ELSE "exited")
  /\ producer' = IF producer = "alive" THEN "destroyed" ELSE producer
  /\ lost' = outq
  /\ outq' = {}
  /\ IF caller = "idle" THEN BeginDestroy ELSE UNCHANGED vars
  /\ UNCHANGED <<shutdownInProgress, netVars, flushed>>

\* The members declared after connectionPool are destroyed before it: the
\* producer, with what is in its queue, and the topic names.  connectionPool
\* is null when Initialize did not get to it.
FreeProducer ==
  /\ MainGoto("freeing", IF caller = "logon" THEN "exited" ELSE "joining")
  /\ producer' = IF producer = "alive" THEN "destroyed" ELSE producer
  /\ lost' = outq
  /\ outq' = {}
  /\ IF caller = "idle" THEN BeginDestroy ELSE UNCHANGED vars
  /\ UNCHANGED <<shutdownInProgress, netVars, flushed>>

\* ~ConnectionPool, step by step.
DestroyPool ==
  /\ Destroy
  /\ MainGoto("joining", IF caller' = "gone" THEN "exited" ELSE "joining")
  /\ UNCHANGED <<shutdownInProgress, netVars, kafkaVars>>

-----------------------------------------------------------------------------
(* The workers, with what they share with the main thread.                 *)

\* A crash ends every thread.
Running == mainPc # "crashed"

\* The steps of a worker that stay inside the pool.
PoolStep(w) ==
  /\ Running
  /\ \/ TestStopFlag(w) \/ AcquireLock(w) \/ Wait(w) \/ Relock(w) \/ Unlock(w)
     \/ Pop(w) \/ PopFails(w) \/ ReadAge(w) \/ CheckAge(w) \/ Process(w)
     \/ ProcessThrows(w) \/ Reconnect(w) \/ DeleteRequest(w)
  /\ UNCHANGED serverVars

\* Once the socket is closed sendto fails.
SendOnSocket(w) ==
  /\ Running
  /\ SendResult(w)
  /\ ~socketOpen => fate'[request[w]] = "unsent"
  /\ UNCHANGED serverVars

\* A CDR that is produced enters the producer's queue.
Produce(w) ==
  /\ Running
  /\ producer # "destroyed"
  /\ LogToKafka(w)
  /\ outq' = outq \cup (Charged' \ Charged)
  /\ UNCHANGED <<mainPc, shutdownInProgress, netVars, producer, flushed, lost>>

\* LogToKafka after FreeProducer uses a destroyed producer and topic name,
\* which is undefined: the CDR vanishes or the process crashes.
ProduceOnDestroyed(w) ==
  /\ Running
  /\ producer = "destroyed"
  /\ UNCHANGED cdrs
  /\ LogToKafka(w)
  /\ \/ UNCHANGED mainPc
     \/ LogsCdr(Kind[request[w]], result[w]) /\ mainPc' = "crashed"
  /\ UNCHANGED <<shutdownInProgress, netVars, kafkaVars>>

ServerWorkerStep(w) ==
  PoolStep(w) \/ SendOnSocket(w) \/ Produce(w) \/ ProduceOnDestroyed(w)

-----------------------------------------------------------------------------
(* The environment.                                                        *)

\* The broker takes a message, or message.timeout.ms expires for it.
BrokerSettles(r) ==
  /\ Running
  /\ r \in outq
  /\ outq' = outq \ {r}
  /\ UNCHANGED <<vars, mainPc, shutdownInProgress, netVars, producer, flushed, lost>>

Environment ==
  /\ Running
  /\ Tick \/ StepClock \/ \E w \in Workers : SpuriousWakeup(w)
  /\ UNCHANGED serverVars

-----------------------------------------------------------------------------

\* The steps the main thread takes by itself.
MainStep ==
  \/ InitSocket
  \/ InitSocketFails
  \/ InitKafka
  \/ InitKafkaFails
  \/ InitPool
  \/ TestShutdown
  \/ RecvfromFails
  \/ DatagramDone
  \/ \E p \in Packets : ProcessPacket(p)
  \/ PushToPool
  \/ WaitForKafkaQueue
  \/ CloseSocket
  \/ FreeProducer
  \/ DestroyPool

ServerNext ==
  \/ MainStep
  \/ \E d \in Datagrams : Receive(d)
  \/ Signal
  \/ \E w \in Workers : ServerWorkerStep(w)
  \/ \E r \in Requests : BrokerSettles(r)
  \/ Environment

allVars == <<vars, serverVars>>

ServerSpec == ServerInit /\ [][ServerNext]_allVars

\* As in ConnectionPool, every thread runs; recvfrom returns (SO_RCVTIMEO), and
\* a message leaves the producer's queue (message.timeout.ms).  Datagrams and
\* signals are the environment's: not fair.
ServerFairness ==
  /\ WF_allVars(MainStep)
  /\ \A r \in Requests : WF_allVars(BrokerSettles(r))
  /\ \A w \in Workers :
       /\ WF_allVars(ServerWorkerStep(w))
       /\ SF_allVars(PoolStep(w) /\ AcquireLock(w))
       /\ SF_allVars(PoolStep(w) /\ Relock(w))

ServerFairSpec == ServerSpec /\ ServerFairness

-----------------------------------------------------------------------------
(* Properties.                                                             *)

\* Every variable of the server and of the pool has its type.
ServerTypeOK ==
  /\ TypeOK
  /\ mainPc \in MainPcs
  /\ shutdownInProgress \in BOOLEAN
  /\ socketOpen \in BOOLEAN
  /\ producer \in {"none", "alive", "destroyed"}
  /\ buffer \in Seq(Packets)
  /\ received \subseteq Datagrams
  /\ reply \in [Packets -> Replies]
  /\ leaked \subseteq Packets
  /\ outq \subseteq Requests
  /\ flushed \subseteq Requests
  /\ lost \subseteq Requests

\* The packets of a datagram that are not behind one that cannot be parsed.
Readable(d) ==
  {d[i] : i \in {j \in DOMAIN d : \A k \in 1..j : PacketClass[d[k]] # "garbage"}}

\* The packets the main thread has answered or turned into requests.
Handled ==
  {p \in Packets : reply[p] # "none"} \cup {r \in Requests : fate[r] # "unseen"}

\* Between datagrams, the packets handled are exactly those received that are
\* not behind a parse error: a rejected or unsupported packet never costs the
\* packets behind it, and no packet is made up.
EveryPacketHandled ==
  mainPc \in {"loop", "receiving"} => Handled = UNION {Readable(d) : d \in received}

\* WaitForKafkaQueue does its work: what was produced before it returned is
\* not in the queue when the producer is destroyed.
FlushedIsNotLost == flushed \cap lost = {}

\* However the process comes to its end - Initialize fails at any step, or Run
\* returns - it leaves no thread running, no request in work, the socket closed, and
\* no CDR of which it is open whether it was sent or lost.
EndsClean ==
  mainPc = "exited" =>
    /\ \A w \in Workers : pc[w] \in {"unborn", "exited"}
    /\ heap = Queued
    /\ ~socketOpen
    /\ producer # "alive" /\ outq = {}

\* What is left of Run: its statement, and in ProcessIncomingData the packets, each
\* with the two steps of PushRequest.
LoopPlace ==
  CASE mainPc = "receiving"              -> 3
    [] mainPc \in {"parsing", "pushing"} -> 2
    [] mainPc = "loop"                   -> 1
    [] mainPc \notin {"receiving", "parsing", "pushing", "loop"} -> 0

PacketStepsLeft ==
  3 * Len(buffer) + (IF caller = "built" THEN 2 ELSE IF caller = "pushed" THEN 1 ELSE 0)

\* Once a signal has come, whatever the main thread does in Run brings it closer to
\* its end, at whatever statement the signal finds it and however many packets a
\* datagram has; and it does not get back there.  The safety part of StopEndsLoop.
StopCountsDown ==
  [][shutdownInProgress =>
       \/ UNCHANGED <<mainPc, netVars, mainVars>>
       \/ LoopPlace' < LoopPlace
       \/ LoopPlace' = LoopPlace /\ PacketStepsLeft' < PacketStepsLeft
       \/ LoopPlace' = 0 /\ LoopPlace = 0]_allVars

\* What the main thread does around the pool are legal calls of the pool:
\* the server's behaviours are behaviours of ConnectionPool.
UsesPool == Spec

\* To a client the process is PacketService: what it answers at once and what the
\* workers do with a request are one life of each packet.
Clients == INSTANCE PacketService WITH
  status     <- [p \in Packets |->
                   IF p \in Requests
                     THEN Life(p)
                     ELSE CASE reply[p] = "none"       -> "unseen"
                            [] reply[p] = "sendFailed" -> "unsent"
                            [] OTHER                   -> "answered"],
  charged    <- Charged,
  Unreadable <- {p \in Packets : PacketClass[p] = "garbage"}

ImplementsPackets == Clients!PacketsSpec

\* The receive loop ends after Stop(), also when no client sends anything.
StopEndsLoop ==
  shutdownInProgress ~> mainPc \notin {"loop", "receiving", "parsing", "pushing"}

\* A worker that blocks on the condition variable after notify_all.
MissedStop == caller = "joining" /\ \E w \in Workers : pc[w] = "waiting"

\* After Stop() the process ends, or a worker has missed the notification;
\* neither the broker, nor the database, nor queued requests keep it running.
StopEndsProcess == shutdownInProgress ~> mainPc \in {"exited", "crashed"} \/ MissedStop

-----------------------------------------------------------------------------
(* What the program says of itself and does not do.                        *)

\* Without a Kafka broker the validator just does not log events to Kafka.
RunsWithoutKafka == mainPc # "crashed"

\* Messages in the producer's queue are waited for until they are sent.
NoCdrLost == lost = {}

=============================================================================

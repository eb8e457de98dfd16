---------------------------- MODULE ServerProofs ----------------------------
(***************************************************************************)
(* Theorems about Server: the composition with main(), the receive loop,   *)
(* signals and Kafka is a behaviour of the pool, so that the pool's        *)
(* theorems hold of the process; waiting for the producer's queue saves    *)
(* every CDR that was produced by then; no packet of a datagram is passed  *)
(* over; and to the clients the process is PacketService.                  *)
(***************************************************************************)
EXTENDS Server, ConnectionPoolProofs

\* A step of the server is a step of the pool or leaves the pool alone.
LEMMA PoolStepOfServer == [ServerNext]_allVars => [Next]_vars
<1> SUFFICES ASSUME ServerNext PROVE [Next]_vars
  BY DEF allVars
<1>1. CASE InitPool
  BY <1>1 DEF InitPool, Next
<1>2. ASSUME NEW p \in Packets, ProcessPacket(p)
      PROVE  [Next]_vars
  <2>1. CASE Accept(p)
    <3>1. BuildRequest(p) /\ p \in Requests
      BY <2>1, PacketAssumption DEF Accept
    <3>2. QED
      BY <3>1 DEF Next
  <2>2. CASE ParseError(p) \/ UnsupportedType(p) \/ AreYouAlive(p) \/ Reject(p)
    BY <2>2 DEF ParseError, UnsupportedType, AreYouAlive, Reject
  <2>3. QED
    BY <1>2, <2>1, <2>2 DEF ProcessPacket
<1>3. CASE PushToPool \/ DestroyPool
  BY <1>3 DEF PushToPool, DestroyPool, Next
<1>4. CASE FreeProducer
  BY <1>4 DEF FreeProducer, Next
<1>5. CASE \/ InitSocket \/ InitSocketFails \/ InitKafka \/ InitKafkaFails
           \/ TestShutdown \/ RecvfromFails \/ DatagramDone
           \/ WaitForKafkaQueue \/ CloseSocket \/ Signal
  BY <1>5 DEF InitSocket, InitSocketFails, InitKafka, InitKafkaFails, TestShutdown,
              RecvfromFails, DatagramDone, WaitForKafkaQueue, CloseSocket, Signal
<1>6. CASE (\E d \in Datagrams : Receive(d)) \/ (\E r \in Requests : BrokerSettles(r))
  BY <1>6 DEF Receive, BrokerSettles
<1>7. ASSUME NEW w \in Workers, ServerWorkerStep(w)
      PROVE  [Next]_vars
  <2>1. WorkerStep(w)
    BY <1>7 DEF ServerWorkerStep, PoolStep, SendOnSocket, Produce, ProduceOnDestroyed,
                WorkerStep
  <2>2. QED
    BY <2>1 DEF Next
<1>8. CASE Environment
  BY <1>8 DEF Environment, Next
<1>9. QED
  BY <1>1, <1>2, <1>3, <1>4, <1>5, <1>6, <1>7, <1>8 DEF ServerNext, MainStep

\* main(), Server::Initialize, Run and ~Server call the pool as the pool's own
\* specification allows, in every interleaving with signals and the broker.
THEOREM ServerUsesPool == ServerSpec => UsesPool
<1>1. ServerInit => Init
  BY DEF ServerInit
<1>2. QED
  BY <1>1, PoolStepOfServer, PTL DEF ServerSpec, UsesPool, Spec

\* In the whole process too, no request is handled twice, used after delete or
\* lost between the receive loop, the queue and the workers.
THEOREM ProcessOwnership == ServerSpec => []Ownership
  BY ServerUsesPool, OwnershipHolds, PTL DEF UsesPool

\* In the whole process too, also while it shuts down and the socket is closed under the
\* workers: a request is charged once at most, and the SMS CDR says whether it was answered.
THEOREM ProcessCdrsTruthful == ServerSpec => []CdrsAreTrue
  BY ServerUsesPool, CdrsTruthful, PTL DEF UsesPool

-----------------------------------------------------------------------------
(* Type correctness.                                                       *)

\* Every step of the process keeps the server's variables in their types.
LEMMA ServerTypeStep ==
  ASSUME ServerTypeOK, TypeOK', [ServerNext]_allVars
  PROVE  ServerTypeOK'
<1> USE DEF ServerTypeOK, netVars, kafkaVars, serverVars, MainGoto, MainPcs, Replies
<1>1. CASE InitSocket \/ InitSocketFails \/ InitKafka \/ InitKafkaFails
  BY <1>1 DEF InitSocket, InitSocketFails, InitKafka, InitKafkaFails
<1>2. CASE InitPool \/ TestShutdown \/ RecvfromFails \/ DatagramDone
  BY <1>2 DEF InitPool, TestShutdown, RecvfromFails, DatagramDone
<1>3. ASSUME NEW p \in Packets, ProcessPacket(p)
      PROVE  ServerTypeOK'
  <2>1. buffer # <<>>
    BY <1>3 DEF ProcessPacket, ParseError, UnsupportedType, AreYouAlive, Reject, Accept,
                NextPacketIs
  <2>2. Tail(buffer) \in Seq(Packets)
    BY <2>1, HeadTailProperties
  <2>3. <<>> \in Seq(Packets)
    BY EmptySeq
  <2>4. CASE ParseError(p) \/ Accept(p)
    BY <2>2, <2>3, <2>4 DEF ParseError, Accept
  <2>5. CASE UnsupportedType(p) \/ AreYouAlive(p) \/ Reject(p)
    BY <2>2, <2>5 DEF UnsupportedType, AreYouAlive, Reject, Answer
  <2>6. QED
    BY <1>3, <2>4, <2>5 DEF ProcessPacket
<1>4. CASE PushToPool \/ CloseSocket \/ FreeProducer \/ DestroyPool \/ Signal
  BY <1>4 DEF PushToPool, CloseSocket, FreeProducer, DestroyPool, Signal
<1>5. CASE WaitForKafkaQueue
  <2>1. Charged \subseteq Requests
    BY DEF Charged, TypeOK
  <2>2. QED
    BY <1>5, <2>1 DEF WaitForKafkaQueue
<1>6. ASSUME NEW d \in Datagrams, Receive(d)
      PROVE  ServerTypeOK'
  BY <1>6, DatagramAssumption DEF Receive
<1>7. ASSUME NEW w \in Workers, Produce(w)
      PROVE  ServerTypeOK'
  <2>1. Charged' \subseteq Requests
    BY DEF Charged, TypeOK
  <2>2. QED
    BY <1>7, <2>1 DEF Produce
<1>8. ASSUME NEW w \in Workers, PoolStep(w) \/ SendOnSocket(w) \/ ProduceOnDestroyed(w)
      PROVE  ServerTypeOK'
  BY <1>8 DEF PoolStep, SendOnSocket, ProduceOnDestroyed
<1>9. CASE (\E r \in Requests : BrokerSettles(r)) \/ Environment \/ UNCHANGED allVars
  BY <1>9 DEF BrokerSettles, Environment, allVars
<1>10. QED
  BY <1>1, <1>2, <1>3, <1>4, <1>5, <1>6, <1>7, <1>8, <1>9
     DEF ServerNext, MainStep, ServerWorkerStep

\* Every variable of the process keeps its type.
THEOREM ServerTypeCorrect == ServerSpec => []ServerTypeOK
<1>1. ServerInit => ServerTypeOK
  <2>1. SUFFICES ASSUME ServerInit PROVE ServerTypeOK
    OBVIOUS
  <2>2. TypeOK
    BY <2>1, InitInd DEF ServerInit, IndInv
  <2>3. <<>> \in Seq(Packets)
    BY EmptySeq
  <2>4. QED
    BY <2>1, <2>2, <2>3 DEF ServerInit, ServerTypeOK, MainPcs, Replies
<1>2. ServerSpec => []TypeOK
  BY ServerUsesPool, TypeCorrect, PTL DEF UsesPool
<1>3. ServerTypeOK /\ TypeOK' /\ [ServerNext]_allVars => ServerTypeOK'
  BY ServerTypeStep
<1>4. QED
  BY <1>1, <1>2, <1>3, PTL DEF ServerSpec

-----------------------------------------------------------------------------
(* The producer's queue.                                                   *)

\* The pool is initialized with the producer that KAFKA_BROKER asks for; there
\* is no queue without a producer; what was produced by the time the queue was
\* seen empty is neither in the queue nor lost.
FlushInv ==
  /\ KafkaConfigured /\ producer = "none" => caller = "logon"
  /\ KafkaConfigured /\ mainPc = "pool" => producer # "none"
  /\ mainPc \in {"socket", "kafka"} => producer = "none"
  /\ producer = "none" => outq = {}
  /\ lost # {} => mainPc \in {"joining", "exited", "crashed"}
  /\ flushed \subseteq Charged
  /\ flushed \cap outq = {}
  /\ FlushedIsNotLost

\* Every step of the process preserves FlushInv.
LEMMA FlushStep ==
  ASSUME IndInv, FlushInv, [ServerNext]_allVars
  PROVE  FlushInv'
<1> USE DEF FlushInv, FlushedIsNotLost, netVars, kafkaVars, serverVars, MainGoto
<1>0. ASSUME UNCHANGED vars
      PROVE  Charged' = Charged /\ caller' = caller
  BY <1>0 DEF vars, mainVars, historyVars, taskVars, dataVars, Charged
<1>1. CASE InitSocket \/ InitSocketFails \/ InitKafka \/ InitKafkaFails
  BY <1>0, <1>1 DEF InitSocket, InitSocketFails, InitKafka, InitKafkaFails
<1>2. CASE TestShutdown \/ RecvfromFails \/ DatagramDone \/ CloseSocket \/ Signal
  BY <1>0, <1>2 DEF TestShutdown, RecvfromFails, DatagramDone, CloseSocket, Signal
<1>3. CASE InitPool
  <2>1. cdrs' = cdrs
    BY <1>3 DEF InitPool, Initialize, LogonAll, LogonFails, StartWorker, StartFails,
                AssignFields, historyVars, taskVars, dataVars
  <2>2. QED
    BY <1>3, <2>1 DEF InitPool, Charged
<1>4. ASSUME NEW p \in Packets, ProcessPacket(p)
      PROVE  FlushInv'
  <2>1. CASE Accept(p)
    <3>1. cdrs' = cdrs /\ caller # "logon"
      BY <2>1 DEF Accept, BuildRequest, CallerGoto
    <3>2. QED
      BY <2>1, <3>1 DEF Accept, Charged
  <2>2. CASE ParseError(p) \/ UnsupportedType(p) \/ AreYouAlive(p) \/ Reject(p)
    BY <1>0, <2>2 DEF ParseError, UnsupportedType, AreYouAlive, Reject
  <2>3. QED
    BY <1>4, <2>1, <2>2 DEF ProcessPacket
<1>5. CASE PushToPool
  <2>1. cdrs' = cdrs /\ caller # "logon"
    BY <1>5 DEF PushToPool, PushRequest, Push, NotifyOne, CallerGoto, historyVars,
                taskVars, dataVars
  <2>2. QED
    BY <1>5, <2>1 DEF PushToPool, Charged
<1>6. CASE WaitForKafkaQueue
  BY <1>0, <1>6 DEF WaitForKafkaQueue
<1>7. CASE FreeProducer
  <2>1. cdrs' = cdrs /\ (caller' = caller \/ caller = "idle")
    BY <1>0, <1>7 DEF FreeProducer, BeginDestroy, historyVars, taskVars, dataVars, vars
  <2>2. QED
    BY <1>7, <2>1 DEF FreeProducer, Charged
<1>8. CASE DestroyPool
  <2>1. cdrs' = cdrs /\ caller # "logon"
    BY <1>8 DEF DestroyPool, Destroy, SetStopFlag, StopFlagArrives, NotifyAll, Join,
                CallerGoto, historyVars, taskVars, dataVars
  <2>2. QED
    BY <1>8, <2>1 DEF DestroyPool, Charged
<1>9. ASSUME NEW w \in Workers, Produce(w)
      PROVE  FlushInv'
  <2>1. caller' = caller /\ Charged \subseteq Charged'
    BY <1>9 DEF Produce, LogToKafka, mainVars, Charged
  <2>2. producer = "none" => Charged' = Charged
    <3>1. ~KafkaConfigured => cdrs' = cdrs
      BY <1>9 DEF Produce, LogToKafka
    <3>2. KafkaConfigured => producer # "none"
      BY <1>9 DEF Produce, LogToKafka, Goto, Holding, IndInv, CallerInv
    <3>3. QED
      BY <3>1, <3>2 DEF Charged
  <2>3. QED
    BY <1>9, <2>1, <2>2 DEF Produce
<1>10. ASSUME NEW w \in Workers, PoolStep(w) \/ SendOnSocket(w)
       PROVE  FlushInv'
  <2>1. cdrs' = cdrs /\ caller' = caller
    BY <1>10 DEF PoolStep, SendOnSocket, TestStopFlag, AcquireLock, Wait, Relock,
                 Unlock, Pop, PopFails, ReadAge, CheckAge, Process, ProcessThrows,
                 Reconnect, SendResult, DeleteRequest, mainVars, historyVars, taskVars, dataVars
  <2>2. QED
    BY <1>10, <2>1 DEF PoolStep, SendOnSocket, Charged
<1>11. ASSUME NEW w \in Workers, ProduceOnDestroyed(w)
       PROVE  FlushInv'
  <2>1. cdrs' = cdrs /\ caller' = caller
    BY <1>11 DEF ProduceOnDestroyed, LogToKafka, mainVars
  <2>2. QED
    BY <1>11, <2>1 DEF ProduceOnDestroyed, Charged
<1>12. CASE (\E d \in Datagrams : Receive(d)) \/ (\E r \in Requests : BrokerSettles(r))
  BY <1>0, <1>12 DEF Receive, BrokerSettles
<1>13. CASE Environment
  <2>1. cdrs' = cdrs /\ caller' = caller
    BY <1>13 DEF Environment, Tick, StepClock, SpuriousWakeup, mainVars, historyVars,
                 taskVars, dataVars
  <2>2. QED
    BY <1>13, <2>1 DEF Environment, Charged
<1>14. CASE UNCHANGED allVars
  BY <1>0, <1>14 DEF allVars
<1>15. QED
  BY <1>1, <1>2, <1>3, <1>4, <1>5, <1>6, <1>7, <1>8, <1>9, <1>10, <1>11, <1>12, <1>13,
  <1>14
     DEF ServerNext, MainStep, ServerWorkerStep

\* No CDR produced before WaitForKafkaQueue returned is lost with the producer,
\* although workers go on producing while the main thread waits.
THEOREM FlushedSurvives == ServerSpec => []FlushedIsNotLost
<1>1. ServerInit => FlushInv
  BY DEF ServerInit, Init, FlushInv, FlushedIsNotLost
<1>2. IndInv /\ FlushInv /\ [ServerNext]_allVars => FlushInv'
  BY FlushStep
<1>3. ServerSpec => []IndInv
  BY ServerUsesPool, IndInvariant, PTL DEF UsesPool
<1>4. FlushInv => FlushedIsNotLost
  BY DEF FlushInv
<1>5. QED
  BY <1>1, <1>2, <1>3, <1>4, PTL DEF ServerSpec

-----------------------------------------------------------------------------
(* The packets of the datagrams.                                           *)

\* The datagram d is processed up to place k, and the rest is in the buffer.
ProcessedTo(d, k) ==
  /\ Len(buffer) = Len(d) - k
  /\ \A i \in 1..Len(buffer) : buffer[i] = d[k + i]
  /\ \A i \in 1..k : PacketClass[d[i]] # "garbage"
  /\ Handled = (UNION {Readable(e) : e \in received \ {d}}) \cup {d[i] : i \in 1..k}

\* Before Run nothing is received; while a datagram is processed, the packets
\* handled are those of the datagrams before it and the first of its own.
PacketInv ==
  /\ EveryPacketHandled
  /\ mainPc \in {"socket", "kafka", "pool"} => Handled = {} /\ received = {}
  /\ mainPc \in {"parsing", "pushing"} =>
       \E d \in received : \E k \in 0..Len(d) : ProcessedTo(d, k)

\* What is handled changes only by an answer or a new request.
LEMMA HandledSame ==
  ASSUME reply' = reply, fate' = fate
  PROVE  Handled' = Handled
BY DEF Handled

\* A worker never makes a request unseen, nor does it touch one that is.
LEMMA WorkerKeepsHandled ==
  ASSUME IndInv, NEW w \in Workers, WorkerStep(w), reply' = reply
  PROVE  Handled' = Handled
<1> USE DEF historyVars, taskVars, dataVars, mainVars
<1>1. CASE \/ TestStopFlag(w) \/ AcquireLock(w) \/ Wait(w) \/ SpuriousWakeup(w)
           \/ Relock(w) \/ Unlock(w) \/ Pop(w) \/ PopFails(w) \/ Process(w)
           \/ ReadAge(w) \/ Reconnect(w) \/ LogToKafka(w) \/ DeleteRequest(w)
  <2>1. fate' = fate
    BY <1>1 DEF TestStopFlag, AcquireLock, Wait, SpuriousWakeup, Relock, Unlock, Pop,
                PopFails, ReadAge, Process, Reconnect, LogToKafka, DeleteRequest
  <2>2. QED
    BY <2>1, HandledSame
<1>2. CASE CheckAge(w) \/ ProcessThrows(w) \/ SendResult(w)
  <2>1. fate[request[w]] = "pending"
    BY <1>2 DEF CheckAge, ProcessThrows, SendResult, Goto, IndInv, FateInv
  <2>2. fate' = fate \/ \E f \in Fates \ {"unseen"} :
          fate' = [fate EXCEPT ![request[w]] = f]
    BY <1>2 DEF CheckAge, ProcessThrows, SendResult, Fates
  <2>3. \A r \in Requests : fate'[r] = "unseen" <=> fate[r] = "unseen"
    BY <2>1, <2>2 DEF IndInv, TypeOK
  <2>4. QED
    BY <2>3 DEF Handled
<1>3. QED
  BY <1>1, <1>2 DEF WorkerStep

\* One more packet of the datagram is handled.
LEMMA OneMoreProcessed ==
  ASSUME ServerTypeOK, PacketInv, NEW p \in Packets, mainPc = "parsing",
         NextPacketIs(p), PacketClass[p] # "garbage",
         buffer' = Tail(buffer), received' = received, Handled' = Handled \cup {p}
  PROVE  \E d \in received' : \E k \in 0..Len(d) : ProcessedTo(d, k)'
<1> PICK d \in received : \E k \in 0..Len(d) : ProcessedTo(d, k)
  BY DEF PacketInv
<1> PICK k \in 0..Len(d) : ProcessedTo(d, k)
  OBVIOUS
<1>1. d \in Seq(Packets) /\ Len(d) \in Nat /\ Len(buffer) \in Nat
  BY DatagramAssumption, LenProperties DEF ServerTypeOK
<1>2. /\ Len(buffer) >= 1 /\ p = buffer[1]
      /\ Len(Tail(buffer)) = Len(buffer) - 1
      /\ \A i \in 1..Len(Tail(buffer)) : Tail(buffer)[i] = buffer[i + 1]
  BY <1>1, HeadTailProperties, EmptySeq DEF NextPacketIs, ServerTypeOK
<1>3. p = d[k + 1] /\ k + 1 \in 0..Len(d)
  BY <1>1, <1>2 DEF ProcessedTo
<1>4. {d[i] : i \in 1..k + 1} = {d[i] : i \in 1..k} \cup {p}
  BY <1>1, <1>3
<1>5. \A i \in 1..k + 1 : PacketClass[d[i]] # "garbage"
  BY <1>1, <1>3 DEF ProcessedTo
<1>6. \A i \in 1..Len(buffer) - 1 : Tail(buffer)[i] = d[k + 1 + i]
  BY <1>1, <1>2 DEF ProcessedTo
<1>7. Handled' = (UNION {Readable(e) : e \in received' \ {d}}) \cup {d[i] : i \in 1..k + 1}
  BY <1>4 DEF ProcessedTo
<1>8. Len(buffer') = Len(d) - (k + 1)
  <2>1. Len(buffer) = Len(d) - k
    BY DEF ProcessedTo
  <2>2. Len(buffer') = Len(buffer) - 1
    BY <1>2
  <2>3. QED
    BY <1>1, <2>1, <2>2
<1>9. \A i \in 1..Len(buffer') : buffer'[i] = d[(k + 1) + i]
  BY <1>1, <1>2, <1>6
<1>10. ProcessedTo(d, k + 1)'
  BY <1>5, <1>7, <1>8, <1>9 DEF ProcessedTo, Readable
<1>11. QED
  BY <1>3, <1>10

\* At the end of a datagram, or at a packet that cannot be parsed, its readable
\* packets are handled.
LEMMA DatagramProcessed ==
  ASSUME ServerTypeOK, PacketInv, mainPc = "parsing",
         buffer = <<>> \/ PacketClass[Head(buffer)] = "garbage"
  PROVE  Handled = UNION {Readable(d) : d \in received}
<1> PICK d \in received : \E k \in 0..Len(d) : ProcessedTo(d, k)
  BY DEF PacketInv
<1> PICK k \in 0..Len(d) : ProcessedTo(d, k)
  OBVIOUS
<1>1. d \in Seq(Packets) /\ Len(d) \in Nat /\ DOMAIN d = 1..Len(d)
  BY DatagramAssumption, LenProperties DEF ServerTypeOK
<1>2. k = Len(d) \/ (k + 1 \in 1..Len(d) /\ PacketClass[d[k + 1]] = "garbage")
  <2>1. CASE buffer = <<>>
    BY <2>1, <1>1, EmptySeq DEF ProcessedTo
  <2>2. CASE buffer # <<>>
    <3>1. Len(buffer) \in Nat /\ Len(buffer) >= 1 /\ Head(buffer) = buffer[1]
      BY <2>2, HeadTailProperties, LenProperties, EmptySeq DEF ServerTypeOK
    <3>2. Len(buffer) = Len(d) - k /\ \A i \in 1..Len(buffer) : buffer[i] = d[k + i]
      BY DEF ProcessedTo
    <3>3. buffer[1] = d[k + 1] /\ k + 1 \in 1..Len(d)
      BY <1>1, <3>1, <3>2
    <3>4. QED
      BY <2>2, <3>1, <3>3
  <2>3. QED
    BY <2>1, <2>2
<1>3. \A j \in 1..Len(d) : (\A i \in 1..j : PacketClass[d[i]] # "garbage") <=> j <= k
  BY <1>1, <1>2 DEF ProcessedTo
<1>4. {j \in DOMAIN d : \A i \in 1..j : PacketClass[d[i]] # "garbage"} = 1..k
  BY <1>1, <1>3
<1>5. Readable(d) = {d[i] : i \in 1..k}
  BY <1>4 DEF Readable
<1>6. QED
  BY <1>5 DEF ProcessedTo

\* Every step of the process preserves PacketInv.
LEMMA PacketStep ==
  ASSUME IndInv, ServerTypeOK, PacketInv, [ServerNext]_allVars
  PROVE  PacketInv'
<1> USE DEF netVars, kafkaVars, serverVars, MainGoto
<1>0. ASSUME UNCHANGED <<reply, fate, received, buffer>>,
             mainPc' = mainPc \/ mainPc' \notin {"socket", "kafka", "pool", "loop",
                                                "receiving", "parsing", "pushing"}
      PROVE  PacketInv'
  BY <1>0, HandledSame DEF PacketInv, EveryPacketHandled, ProcessedTo
<1>1. UNCHANGED vars => fate' = fate
  BY DEF vars, historyVars
<1>2. CASE InitSocket \/ InitSocketFails \/ InitKafka \/ InitKafkaFails
  <2>1. Handled' = Handled
    BY <1>1, <1>2, HandledSame
       DEF InitSocket, InitSocketFails, InitKafka, InitKafkaFails
  <2>2. QED
    BY <1>2, <2>1 DEF InitSocket, InitSocketFails, InitKafka, InitKafkaFails, PacketInv,
                      EveryPacketHandled
<1>3. CASE InitPool
  <2>1. fate' = fate
    BY <1>3 DEF InitPool, Initialize, LogonAll, LogonFails, StartWorker, StartFails,
                AssignFields, historyVars
  <2>2. Handled' = Handled
    BY <1>3, <2>1, HandledSame DEF InitPool
  <2>3. QED
    BY <1>3, <2>2 DEF InitPool, PacketInv, EveryPacketHandled
<1>4. CASE TestShutdown \/ RecvfromFails
  <2>1. Handled' = Handled
    BY <1>1, <1>4, HandledSame DEF TestShutdown, RecvfromFails
  <2>2. QED
    BY <1>4, <2>1 DEF TestShutdown, RecvfromFails, PacketInv, EveryPacketHandled
<1>5. ASSUME NEW d \in Datagrams, Receive(d)
      PROVE  PacketInv'
  <2>1. Handled' = Handled
    BY <1>1, <1>5, HandledSame DEF Receive
  <2>2. Handled = UNION {Readable(e) : e \in received}
    BY <1>5 DEF Receive, PacketInv, EveryPacketHandled
  <2>3. Len(d) \in Nat /\ received' \ {d} = received
    BY <1>5, DatagramAssumption, LenProperties DEF Receive
  <2>4. ProcessedTo(d, 0)'
    BY <1>5, <2>1, <2>2, <2>3 DEF Receive, ProcessedTo
  <2>5. QED
    BY <1>5, <2>3, <2>4 DEF Receive, PacketInv, EveryPacketHandled
<1>6. CASE DatagramDone \/ \E p \in Packets : ParseError(p)
  <2>1. Handled' = Handled /\ received' = received /\ mainPc' = "loop"
    BY <1>1, <1>6, HandledSame DEF DatagramDone, ParseError
  <2>2. Handled = UNION {Readable(d) : d \in received}
    BY <1>6, DatagramProcessed DEF DatagramDone, ParseError, NextPacketIs
  <2>3. QED
    BY <2>1, <2>2 DEF PacketInv, EveryPacketHandled
<1>7. ASSUME NEW p \in Packets, UnsupportedType(p) \/ AreYouAlive(p) \/ Reject(p)
      PROVE  PacketInv'
  <2>1. fate' = fate
    BY <1>1, <1>7 DEF UnsupportedType, AreYouAlive, Reject
  <2>2. PICK t : t # "none" /\ reply' = [reply EXCEPT ![p] = t]
    BY <1>7 DEF UnsupportedType, AreYouAlive, Reject, Answer
  <2>3. Handled' = Handled \cup {p}
    BY <2>1, <2>2 DEF Handled, ServerTypeOK
  <2>4. /\ mainPc = "parsing" /\ mainPc' = "parsing" /\ received' = received
        /\ NextPacketIs(p) /\ PacketClass[p] # "garbage" /\ buffer' = Tail(buffer)
    BY <1>7 DEF UnsupportedType, AreYouAlive, Reject
  <2>5. QED
    BY <2>3, <2>4, OneMoreProcessed DEF PacketInv, EveryPacketHandled
<1>8. ASSUME NEW p \in Packets, Accept(p)
      PROVE  PacketInv'
  <2>1. /\ mainPc = "parsing" /\ mainPc' = "pushing" /\ received' = received
        /\ NextPacketIs(p) /\ PacketClass[p] # "garbage" /\ buffer' = Tail(buffer)
    BY <1>8 DEF Accept
  <2>2. p \in Requests /\ reply' = reply /\ fate' = [fate EXCEPT ![p] = "pending"]
    BY <1>8, PacketAssumption DEF Accept, BuildRequest
  <2>3. Handled' = Handled \cup {p}
    <3>1. fate \in [Requests -> Fates]
      BY DEF IndInv, TypeOK
    <3>2. \A r \in Requests : fate'[r] = IF r = p THEN "pending" ELSE fate[r]
      BY <2>2, <3>1
    <3>3. {r \in Requests : fate'[r] # "unseen"} = {r \in Requests : fate[r] # "unseen"} \cup {p}
      BY <2>2, <3>2
    <3>4. QED
      BY <2>2, <3>3 DEF Handled
  <2>4. QED
    BY <2>1, <2>3, OneMoreProcessed DEF PacketInv, EveryPacketHandled
<1>9. CASE PushToPool
  <2>1. fate' = fate
    BY <1>9 DEF PushToPool, PushRequest, Push, NotifyOne, historyVars
  <2>2. Handled' = Handled /\ received' = received /\ buffer' = buffer
    BY <1>9, <2>1, HandledSame DEF PushToPool
  <2>3. mainPc = "pushing" /\ mainPc' \in {"parsing", "pushing"}
    BY <1>9 DEF PushToPool
  <2>4. QED
    BY <2>2, <2>3 DEF PacketInv, EveryPacketHandled, ProcessedTo
<1>10. CASE WaitForKafkaQueue \/ CloseSocket \/ FreeProducer \/ DestroyPool
  <2>1. fate' = fate
    BY <1>1, <1>10
       DEF WaitForKafkaQueue, CloseSocket, FreeProducer, BeginDestroy, DestroyPool,
           Destroy, SetStopFlag, StopFlagArrives, NotifyAll, Join, historyVars
  <2>2. mainPc' \in {"crashed", "closing", "freeing", "exited", "joining"}
    BY <1>10 DEF WaitForKafkaQueue, CloseSocket, FreeProducer, DestroyPool
  <2>3. QED
    BY <2>2 DEF PacketInv, EveryPacketHandled
<1>11. ASSUME NEW w \in Workers, ServerWorkerStep(w)
       PROVE  PacketInv'
  <2>1. WorkerStep(w) /\ UNCHANGED <<reply, received, buffer>>
    BY <1>11 DEF ServerWorkerStep, PoolStep, SendOnSocket, Produce, ProduceOnDestroyed,
                 WorkerStep
  <2>2. Handled' = Handled
    BY <2>1, WorkerKeepsHandled
  <2>3. mainPc' = mainPc \/ mainPc' = "crashed"
    BY <1>11 DEF ServerWorkerStep, PoolStep, SendOnSocket, Produce, ProduceOnDestroyed
  <2>4. QED
    BY <2>1, <2>2, <2>3 DEF PacketInv, EveryPacketHandled, ProcessedTo
<1>12. CASE Signal \/ (\E r \in Requests : BrokerSettles(r)) \/ UNCHANGED allVars
  BY <1>0, <1>1, <1>12 DEF Signal, BrokerSettles, allVars
<1>13. CASE Environment
  <2>1. fate' = fate
    BY <1>13 DEF Environment, Tick, StepClock, SpuriousWakeup, historyVars
  <2>2. QED
    BY <1>0, <1>13, <2>1 DEF Environment
<1>14. QED
  BY <1>2, <1>3, <1>4, <1>5, <1>6, <1>7, <1>8, <1>9, <1>10, <1>11, <1>12, <1>13
     DEF ServerNext, MainStep, ProcessPacket

\* A packet that is rejected, unsupported or a question never costs the packets behind it;
\* one that cannot be parsed costs exactly those; and every datagram is treated so, with
\* the workers and signals in between.
THEOREM AllPacketsHandled == ServerSpec => []EveryPacketHandled
<1>1. ServerInit => PacketInv
  BY DEF ServerInit, Init, PacketInv, EveryPacketHandled, Handled
<1>2. IndInv /\ ServerTypeOK /\ PacketInv /\ [ServerNext]_allVars => PacketInv'
  BY PacketStep
<1>3. ServerSpec => []IndInv
  BY ServerUsesPool, IndInvariant, PTL DEF UsesPool
<1>4. PacketInv => EveryPacketHandled
  BY DEF PacketInv
<1>5. QED
  BY <1>1, <1>2, <1>3, <1>4, ServerTypeCorrect, PTL DEF ServerSpec

-----------------------------------------------------------------------------
(* The process implements PacketService.                                   *)

\* A request is never answered by the main thread.
AnswerInv == \A r \in Requests : reply[r] = "none"

\* The lives of the requests, and of all packets, as ConnectionPool and Server map them.
RequestLives == [r \in Requests |-> Life(r)]

Lives ==
  [p \in Packets |->
     IF p \in Requests
       THEN Life(p)
       ELSE CASE reply[p] = "none"       -> "unseen"
              [] reply[p] = "sendFailed" -> "unsent"
              [] OTHER                   -> "answered"]

\* What the clients have seen something of are the packets handled.
LEMMA SeenIsHandled ==
  ASSUME ServerTypeOK, AnswerInv
  PROVE  /\ Clients!Seen = Handled
         /\ \A r \in Requests : RequestLives[r] = "unseen" <=> fate[r] = "unseen"
         /\ \A p \in Packets : Lives[p] = "unseen" <=> p \notin Handled
<1>1. \A r \in Requests : RequestLives[r] = "unseen" <=> fate[r] = "unseen"
  BY DEF Life, RequestLives
<1>2. ASSUME NEW p \in Packets
      PROVE  Lives[p] = "unseen" <=> p \notin Handled
  <2>1. CASE p \in Requests
    <3>1. reply[p] = "none" /\ Lives[p] = RequestLives[p]
      BY <2>1 DEF AnswerInv, Lives, RequestLives
    <3>2. p \in Handled <=> fate[p] # "unseen"
      BY <2>1, <3>1 DEF Handled
    <3>3. QED
      BY <1>1, <2>1, <3>1, <3>2
  <2>2. CASE p \notin Requests
    <3>1. Lives[p] = "unseen" <=> reply[p] = "none"
      BY <2>2 DEF Lives
    <3>2. p \in Handled <=> reply[p] # "none"
      BY <2>2 DEF Handled
    <3>3. QED
      BY <3>1, <3>2
  <2>3. QED
    BY <2>1, <2>2
<1>3. Handled \subseteq Packets
  BY PacketAssumption DEF Handled
<1>4. Clients!Seen = {p \in Packets : Lives[p] # "unseen"}
  BY DEF Clients!Seen, Lives
<1>5. Clients!Seen = Handled
  BY <1>2, <1>3, <1>4
<1>6. QED
  BY <1>1, <1>2, <1>5

\* The packet at the head of the buffer is a new one, next in its datagram, and every
\* other datagram has not begun or is done with.
LEMMA HeadIsInTurn ==
  ASSUME ServerTypeOK, PacketInv, AnswerInv, NEW p \in Packets,
         mainPc = "parsing", NextPacketIs(p), PacketClass[p] # "garbage"
  PROVE  Clients!InTurn(p) /\ p \notin Handled
<1> PICK d \in received : \E k \in 0..Len(d) : ProcessedTo(d, k)
  BY DEF PacketInv
<1> PICK k \in 0..Len(d) : ProcessedTo(d, k)
  OBVIOUS
<1>1. d \in Datagrams /\ received \subseteq Datagrams
  BY DEF ServerTypeOK
<1>2. \A e \in Datagrams : Len(e) \in Nat /\ DOMAIN e = 1..Len(e)
  BY DatagramAssumption, LenProperties
<1>3. Len(buffer) \in Nat /\ Len(buffer) >= 1 /\ p = buffer[1]
  BY HeadTailProperties, LenProperties, EmptySeq DEF NextPacketIs, ServerTypeOK
<1>4. k + 1 \in 1..Len(d) /\ p = d[k + 1]
  BY <1>1, <1>2, <1>3 DEF ProcessedTo
<1>5. /\ \A i \in 1..k : d[i] \in Handled
      /\ \A e \in received \ {d} : Readable(e) \subseteq Handled
  BY DEF ProcessedTo
<1>6. \A q \in Handled : PacketClass[q] # "garbage"
  <2>1. \A e \in received : \A q \in Readable(e) : PacketClass[q] # "garbage"
    BY <1>1, <1>2 DEF Readable
  <2>2. QED
    BY <2>1 DEF ProcessedTo
<1>7. ASSUME NEW e \in Datagrams, NEW i \in DOMAIN e, e[i] \in Handled
      PROVE  (e \in received /\ e # d) \/ (e = d /\ i <= k)
  <2>1. CASE \E c \in received \ {d} : e[i] \in Readable(c)
    BY <1>1, <1>7, <2>1, DatagramAssumption DEF Readable
  <2>2. CASE \E j \in 1..k : e[i] = d[j]
    <3>1. PICK j \in 1..k : e[i] = d[j]
      BY <2>2
    <3>2. j \in DOMAIN d
      BY <1>1, <1>2
    <3>3. QED
      BY <1>1, <1>7, <3>1, <3>2, DatagramAssumption
  <2>3. QED
    BY <1>7, <2>1, <2>2 DEF ProcessedTo
<1>8. p \notin Handled
  BY <1>1, <1>2, <1>4, <1>7
<1>9. ASSUME NEW e \in Datagrams \ {d}, NEW i \in 2..Len(e),
             \A j \in 1..i - 1 : e[j] \in Handled
      PROVE  e[i] \in Handled \/ PacketClass[e[i]] = "garbage"
  <2>1. 1 \in 1..i - 1 /\ 1 \in DOMAIN e /\ i \in DOMAIN e
    BY <1>2
  <2>2. e \in received
    BY <1>7, <1>9, <2>1
  <2>3. \A j \in 1..i - 1 : PacketClass[e[j]] # "garbage"
    BY <1>6, <1>9
  <2>4. PacketClass[e[i]] # "garbage" => e[i] \in Readable(e)
    BY <1>2, <2>1, <2>3 DEF Readable
  <2>5. QED
    BY <1>5, <2>2, <2>4
<1>10. \A e \in Datagrams \ {d} : ~Clients!Open(e)
  <2>1. ASSUME NEW e \in Datagrams \ {d}, Clients!Open(e)
        PROVE  FALSE
    <3>1. PICK i \in 2..Len(e) :
            /\ \A j \in 1..i - 1 : e[j] \in Handled
            /\ e[i] \notin Handled
            /\ e[i] \notin {q \in Packets : PacketClass[q] = "garbage"}
      BY <2>1, SeenIsHandled DEF Clients!Open, Clients!ReadTo
    <3>2. e[i] \in Packets
      BY <1>2, DatagramAssumption, ElementOfSeq
    <3>3. QED
      BY <1>9, <3>1, <3>2
  <2>2. QED
    BY <2>1
<1>11. Clients!ReadTo(d, (k + 1) - 1)
  BY <1>5, SeenIsHandled DEF Clients!ReadTo
<1>12. Clients!InTurn(p)
  BY <1>1, <1>2, <1>4, <1>10, <1>11 DEF Clients!InTurn
<1>13. QED
  BY <1>8, <1>12

\* What the main thread answers at once.
LEMMA AnswerImplements ==
  ASSUME ServerTypeOK, PacketInv, AnswerInv, NEW p \in Packets,
         UnsupportedType(p) \/ AreYouAlive(p) \/ Reject(p)
  PROVE  Clients!Answer(p)
<1>1. /\ mainPc = "parsing" /\ NextPacketIs(p)
      /\ PacketClass[p] \in {"unsupported", "alive", "invalid"}
      /\ \E t \in {"NOT_ACCEPTED", "I_AM_ALIVE", "sendFailed"} :
           reply' = [reply EXCEPT ![p] = t]
      /\ UNCHANGED vars
  BY DEF UnsupportedType, AreYouAlive, Reject, MainGoto, Answer
<1>2. PICK t \in {"NOT_ACCEPTED", "I_AM_ALIVE", "sendFailed"} :
        reply' = [reply EXCEPT ![p] = t]
  BY <1>1
<1>3. p \notin Requests /\ Clients!InTurn(p) /\ p \notin Handled
  BY <1>1, PacketAssumption, HeadIsInTurn
<1>4. fate' = fate /\ heap' = heap /\ cdrs' = cdrs
  BY <1>1 DEF vars, historyVars, dataVars
<1> DEFINE f == IF t = "sendFailed" THEN "unsent" ELSE "answered"
<1>5. Lives[p] = "unseen"
  BY <1>3, SeenIsHandled
<1>6. \A q \in Packets : Lives'[q] = IF q = p THEN f ELSE Lives[q]
  BY <1>2, <1>3, <1>4 DEF Lives, Life, ServerTypeOK
<1>7. Lives' = [Lives EXCEPT ![p] = f]
  BY <1>6 DEF Lives
<1>8. Clients!Move(p, "unseen", f)
  BY <1>5, <1>7 DEF Clients!Move, Lives
<1>9. QED
  BY <1>1, <1>3, <1>4, <1>8 DEF Clients!Answer, Charged

\* What the pool does with one request is the same in the lives of all packets.
LEMMA MoveLifts ==
  ASSUME reply' = reply, NEW r \in Requests, NEW f, NEW g, Service!Move(r, f, g)
  PROVE  Clients!Move(r, f, g)
<1>1. r \in Packets /\ Requests \subseteq Packets
  BY PacketAssumption
<1>2. RequestLives[r] = f /\ RequestLives' = [RequestLives EXCEPT ![r] = g]
  BY DEF Service!Move, RequestLives
<1>3. \A s \in Requests : Lives[s] = RequestLives[s] /\ Lives'[s] = RequestLives'[s]
  BY <1>1 DEF Lives, RequestLives
<1>4. \A s \in Requests : RequestLives'[s] = IF s = r THEN g ELSE RequestLives[s]
  BY <1>2 DEF RequestLives
<1>5. \A q \in Packets \ Requests : Lives'[q] = Lives[q]
  BY DEF Lives
<1>6. Lives' = [Lives EXCEPT ![r] = g]
  <2>1. \A q \in Packets : Lives'[q] = IF q = r THEN g ELSE Lives[q]
    BY <1>3, <1>4, <1>5
  <2>2. DOMAIN Lives = Packets /\ DOMAIN Lives' = Packets
    BY DEF Lives
  <2>3. QED
    BY <2>1, <2>2 DEF Lives
<1>7. QED
  BY <1>1, <1>2, <1>3, <1>6 DEF Clients!Move, Lives

\* A request is accepted in its turn.
LEMMA AcceptImplements ==
  ASSUME IndInv, ServerTypeOK, PacketInv, AnswerInv, NEW p \in Packets, Accept(p)
  PROVE  p \in Requests /\ Clients!Accept(p) /\ Clients!InTurn(p)
<1>1. /\ p \in Requests /\ BuildRequest(p) /\ reply' = reply
      /\ mainPc = "parsing" /\ NextPacketIs(p) /\ PacketClass[p] # "garbage"
  BY PacketAssumption DEF Accept, MainGoto
<1>2. Clients!InTurn(p)
  BY <1>1, HeadIsInTurn
<1>3. Service!Move(p, "unseen", "pending")
  <2>1. /\ fate[p] = "unseen" /\ fate' = [fate EXCEPT ![p] = "pending"]
        /\ heap' = heap \cup {p}
    BY <1>1 DEF BuildRequest
  <2>2. \A s \in Requests : RequestLives'[s] = IF s = p THEN "pending" ELSE RequestLives[s]
    BY <1>1, <2>1 DEF RequestLives, Life, IndInv, TypeOK
  <2>3. RequestLives[p] = "unseen" /\ RequestLives' = [RequestLives EXCEPT ![p] = "pending"]
    BY <1>1, <2>1, <2>2 DEF RequestLives, Life
  <2>4. QED
    BY <2>3 DEF Service!Move, RequestLives
<1>4. Clients!Move(p, "unseen", "pending")
  BY <1>1, <1>3, MoveLifts
<1>5. Charged' = Charged
  BY <1>1 DEF BuildRequest, historyVars, Charged
<1>6. QED
  BY <1>1, <1>2, <1>4, <1>5 DEF Clients!Accept, Charged

\* What the pool does without a new packet is a step of its service, so of the clients'.
LEMMA PoolImplements ==
  ASSUME IndInv, ServerTypeOK, AnswerInv, [Next]_vars, reply' = reply, Handled' = Handled
  PROVE  [Clients!PacketsNext]_(Clients!vars)
<1>1. Requests \subseteq Packets
  BY PacketAssumption
<1>2. [Service!Next]_(Service!vars)
  BY ServiceStep
<1>3. ASSUME NEW r \in Requests
      PROVE  ~Service!Accept(r)
  <2>1. ASSUME Service!Accept(r)
        PROVE  FALSE
    <3>1. /\ RequestLives[r] = "unseen"
          /\ RequestLives' = [RequestLives EXCEPT ![r] = "pending"]
      BY <2>1 DEF Service!Accept, Service!Move, RequestLives
    <3>2. RequestLives'[r] = "pending"
      BY <3>1 DEF RequestLives
    <3>3. fate[r] = "unseen" /\ fate'[r] # "unseen"
      BY <3>1, <3>2 DEF RequestLives, Life
    <3>4. r \notin Handled /\ r \in Handled'
      BY <3>3 DEF Handled, AnswerInv
    <3>5. QED
      BY <3>4
  <2>2. QED
    BY <2>1
<1>4. ASSUME NEW r \in Requests, Service!Settle(r)
      PROVE  Clients!PacketsNext
  <2>1. PICK f \in Service!Final : Service!Move(r, "pending", f)
    BY <1>4 DEF Service!Settle
  <2>2. Clients!Move(r, "pending", f)
    BY <2>1, MoveLifts
  <2>3. Clients!Settle(r)
    BY <1>4, <2>2 DEF Service!Settle, Clients!Settle, Service!Final, Clients!Final, Charged
  <2>4. QED
    BY <2>3 DEF Clients!PacketsNext
<1>5. ASSUME NEW r \in Requests, Service!Forget(r)
      PROVE  Clients!PacketsNext
  <2>1. PICK f \in Service!Final : Service!Move(r, f, "forgotten")
    BY <1>5 DEF Service!Forget
  <2>2. Clients!Move(r, f, "forgotten")
    BY <2>1, MoveLifts
  <2>3. Clients!Forget(r)
    BY <1>5, <2>2 DEF Service!Forget, Clients!Forget, Service!Final, Clients!Final, Charged
  <2>4. QED
    BY <2>3 DEF Clients!PacketsNext
<1>6. RequestLives' = RequestLives => Lives' = Lives
  <2>1. ASSUME RequestLives' = RequestLives
        PROVE  \A q \in Packets : Lives'[q] = Lives[q]
    <3>1. \A s \in Requests : Lives[s] = RequestLives[s] /\ Lives'[s] = RequestLives'[s]
      BY <1>1 DEF Lives, RequestLives
    <3>2. \A q \in Packets \ Requests : Lives'[q] = Lives[q]
      BY DEF Lives
    <3>3. QED
      BY <2>1, <3>1, <3>2
  <2>2. QED
    BY <2>1 DEF Lives
<1>7. ASSUME NEW r \in Requests, Service!Charge(r)
      PROVE  Clients!PacketsNext
  <2>1. RequestLives' = RequestLives /\ RequestLives[r] \in {"answered", "unsent"}
    BY <1>7 DEF Service!Charge, RequestLives
  <2>2. Lives' = Lives /\ Lives[r] \in {"answered", "unsent"}
    BY <1>1, <1>6, <2>1 DEF Lives, RequestLives
  <2>3. Clients!Charge(r)
    BY <1>7, <2>2 DEF Service!Charge, Clients!Charge, Charged, Lives
  <2>4. QED
    BY <2>3 DEF Clients!PacketsNext
<1>8. CASE UNCHANGED Service!vars
  <2>1. RequestLives' = RequestLives /\ Charged' = Charged
    BY <1>8 DEF Service!vars, RequestLives, Charged
  <2>2. QED
    BY <1>6, <2>1 DEF Clients!vars, Lives
<1>9. QED
  BY <1>2, <1>3, <1>4, <1>5, <1>7, <1>8 DEF Service!Next

\* The main thread's answers and new requests apart, no step handles a packet.
LEMMA OnlyPackets ==
  ASSUME IndInv, ServerTypeOK, [ServerNext]_allVars,
         \A p \in Packets :
           ~UnsupportedType(p) /\ ~AreYouAlive(p) /\ ~Reject(p) /\ ~Accept(p)
  PROVE  reply' = reply /\ Handled' = Handled
<1> USE DEF netVars, kafkaVars, serverVars
<1>1. UNCHANGED vars => fate' = fate
  BY DEF vars, historyVars
<1>2. CASE \/ InitSocket \/ InitSocketFails \/ InitKafka \/ InitKafkaFails \/ TestShutdown
           \/ RecvfromFails \/ DatagramDone \/ WaitForKafkaQueue \/ CloseSocket \/ Signal
           \/ UNCHANGED allVars
  BY <1>1, <1>2, HandledSame
     DEF InitSocket, InitSocketFails, InitKafka, InitKafkaFails, TestShutdown,
         RecvfromFails, DatagramDone, WaitForKafkaQueue, CloseSocket, Signal, allVars
<1>3. CASE \/ \E p \in Packets : ParseError(p)
           \/ \E d \in Datagrams : Receive(d)
           \/ \E r \in Requests : BrokerSettles(r)
  BY <1>1, <1>3, HandledSame DEF ParseError, Receive, BrokerSettles
<1>4. CASE InitPool \/ PushToPool \/ DestroyPool \/ FreeProducer
  <2>1. fate' = fate
    BY <1>1, <1>4
       DEF InitPool, Initialize, LogonAll, LogonFails, StartWorker, StartFails, AssignFields,
           PushToPool, PushRequest, Push, NotifyOne, DestroyPool, Destroy, SetStopFlag,
           StopFlagArrives, NotifyAll, Join, FreeProducer, BeginDestroy, historyVars
  <2>2. reply' = reply
    BY <1>4 DEF InitPool, PushToPool, DestroyPool, FreeProducer
  <2>3. QED
    BY <2>1, <2>2, HandledSame
<1>5. ASSUME NEW w \in Workers, ServerWorkerStep(w)
      PROVE  reply' = reply /\ Handled' = Handled
  <2>1. WorkerStep(w) /\ reply' = reply
    BY <1>5 DEF ServerWorkerStep, PoolStep, SendOnSocket, Produce, ProduceOnDestroyed,
                WorkerStep
  <2>2. QED
    BY <2>1, WorkerKeepsHandled
<1>6. CASE Environment
  <2>1. fate' = fate /\ reply' = reply
    BY <1>6 DEF Environment, Tick, StepClock, SpuriousWakeup, historyVars
  <2>2. QED
    BY <2>1, HandledSame
<1>7. QED
  BY <1>2, <1>3, <1>4, <1>5, <1>6 DEF ServerNext, MainStep, ProcessPacket

\* A step is one of PacketService or leaves it alone, and the main thread answers no request.
LEMMA ClientsStep ==
  ASSUME IndInv, ServerTypeOK, PacketInv, AnswerInv, [ServerNext]_allVars
  PROVE  [Clients!PacketsNext]_(Clients!vars) /\ AnswerInv'
<1>1. Requests \subseteq Packets
  BY PacketAssumption
<1>2. ASSUME NEW p \in Packets, UnsupportedType(p) \/ AreYouAlive(p) \/ Reject(p)
      PROVE  Clients!PacketsNext /\ AnswerInv'
  <2>1. Clients!PacketsNext
    BY <1>2, AnswerImplements DEF Clients!PacketsNext
  <2>2. p \notin Requests /\ \E t : reply' = [reply EXCEPT ![p] = t]
    BY <1>2, PacketAssumption DEF UnsupportedType, AreYouAlive, Reject, Answer
  <2>3. QED
    BY <2>1, <2>2 DEF AnswerInv, ServerTypeOK
<1>3. ASSUME NEW p \in Packets, Accept(p)
      PROVE  Clients!PacketsNext /\ AnswerInv'
  <2>1. Clients!PacketsNext
    BY <1>3, AcceptImplements DEF Clients!PacketsNext
  <2>2. reply' = reply
    BY <1>3 DEF Accept
  <2>3. QED
    BY <2>1, <2>2 DEF AnswerInv
<1>4. ASSUME \A p \in Packets :
               ~UnsupportedType(p) /\ ~AreYouAlive(p) /\ ~Reject(p) /\ ~Accept(p)
      PROVE  [Clients!PacketsNext]_(Clients!vars) /\ AnswerInv'
  BY <1>4, OnlyPackets, PoolStepOfServer, PoolImplements DEF AnswerInv
<1>5. QED
  BY <1>2, <1>3, <1>4

\* For every sequence of datagrams, every number of workers, and whatever the signals, the
\* database and the broker do: the packets of a datagram are taken in order and once,
\* datagrams one after the other, and each packet has at most one answer.
THEOREM ServerImplementsPackets == ServerSpec => ImplementsPackets
<1>1. ServerInit => Clients!PacketsInit /\ AnswerInv /\ PacketInv
  <2> SUFFICES ASSUME ServerInit PROVE Clients!PacketsInit /\ AnswerInv /\ PacketInv
    OBVIOUS
  <2>1. PacketInv
    BY DEF ServerInit, Init, PacketInv, EveryPacketHandled, Handled
  <2>2. AnswerInv
    BY PacketAssumption DEF ServerInit, AnswerInv
  <2>3. Clients!PacketsInit
    BY DEF ServerInit, Init, Clients!PacketsInit, Life, Charged
  <2>4. QED
    BY <2>1, <2>2, <2>3
<1>2. IndInv /\ ServerTypeOK /\ PacketInv /\ [ServerNext]_allVars => PacketInv'
  BY PacketStep
<1>3. IndInv /\ ServerTypeOK /\ PacketInv /\ AnswerInv /\ [ServerNext]_allVars
        => [Clients!PacketsNext]_(Clients!vars) /\ AnswerInv'
  BY ClientsStep
<1>4. ServerSpec => []IndInv
  BY ServerUsesPool, IndInvariant, PTL DEF UsesPool
<1>5. QED
  BY <1>1, <1>2, <1>3, <1>4, ServerTypeCorrect, PTL
     DEF ServerSpec, ImplementsPackets, Clients!PacketsSpec

-----------------------------------------------------------------------------
(* What PacketService means for a datagram.                                *)

\* What is answered or accepted of a datagram is a part from its beginning, and at most
\* one datagram has been begun and goes on.
DatagramsInOrder ==
  /\ \A d \in Datagrams : \A i \in DOMAIN d :
       d[i] \in Handled => \A k \in 1..i - 1 : d[k] \in Handled
  /\ \A d, e \in Datagrams : Clients!Open(d) /\ Clients!Open(e) => d = e

\* PacketService knows of the packets that were handled.
SeenInv == Clients!Seen = Handled

\* A step of PacketService leaves the packets seen as they are, or adds the one in turn.
LEMMA SeenGrows ==
  ASSUME Clients!PacketsNext
  PROVE  \/ Clients!Seen' = Clients!Seen
         \/ \E p \in Packets : Clients!InTurn(p) /\ Clients!Seen' = Clients!Seen \cup {p}
<1>1. Requests \subseteq Packets /\ DOMAIN Lives = Packets
  BY PacketAssumption DEF Lives
<1>2. Clients!Seen = {p \in Packets : Lives[p] # "unseen"}
  BY DEF Clients!Seen, Lives
<1>3. Clients!Seen' = {p \in Packets : Lives'[p] # "unseen"}
  BY DEF Clients!Seen, Lives
<1>4. ASSUME NEW p \in Packets, NEW f, NEW g, g # "unseen", Clients!Move(p, f, g)
      PROVE  Clients!Seen' = Clients!Seen \cup {p} /\ (f # "unseen" => p \in Clients!Seen)
  <2>1. Lives[p] = f /\ Lives' = [Lives EXCEPT ![p] = g]
    BY <1>4 DEF Clients!Move, Lives
  <2>2. \A q \in Packets : Lives'[q] = IF q = p THEN g ELSE Lives[q]
    BY <1>1, <2>1
  <2>3. QED
    BY <1>2, <1>3, <1>4, <2>1, <2>2
<1>5. CASE \E p \in Packets : Clients!Answer(p)
  <2>1. PICK p \in Packets : Clients!Answer(p)
    BY <1>5
  <2>2. Clients!InTurn(p) /\ \E f \in {"answered", "unsent"} : Clients!Move(p, "unseen", f)
    BY <2>1 DEF Clients!Answer
  <2>3. QED
    BY <1>4, <2>2
<1>6. CASE \E r \in Requests : Clients!Accept(r) /\ Clients!InTurn(r)
  <2>1. PICK r \in Requests : Clients!Accept(r) /\ Clients!InTurn(r)
    BY <1>6
  <2>2. Clients!Move(r, "unseen", "pending")
    BY <2>1 DEF Clients!Accept
  <2>3. QED
    BY <1>1, <1>4, <2>1, <2>2
<1>7. ASSUME NEW r \in Requests, Clients!Settle(r) \/ Clients!Forget(r)
      PROVE  Clients!Seen' = Clients!Seen
  <2>1. \E f, g \in (Clients!Final \cup {"pending", "forgotten"}) : Clients!Move(r, f, g)
    BY <1>7 DEF Clients!Settle, Clients!Forget
  <2>2. \A f \in Clients!Final \cup {"pending", "forgotten"} : f # "unseen"
    BY DEF Clients!Final
  <2>3. QED
    BY <1>1, <1>4, <2>1, <2>2
<1>8. ASSUME NEW r \in Requests, Clients!Charge(r)
      PROVE  Clients!Seen' = Clients!Seen
  <2>1. Lives' = Lives
    BY <1>8 DEF Clients!Charge, Lives
  <2>2. QED
    BY <1>2, <1>3, <2>1
<1>9. QED
  BY <1>5, <1>6, <1>7, <1>8 DEF Clients!PacketsNext

\* The packet in turn is the next of its datagram, and begins no second one.
LEMMA OrderStep ==
  ASSUME SeenInv, SeenInv', DatagramsInOrder, [Clients!PacketsNext]_(Clients!vars)
  PROVE  DatagramsInOrder'
<1>1. Clients!Seen = Handled /\ Clients!Seen' = Handled'
  BY DEF SeenInv
<1>2. \A e \in Datagrams : Len(e) \in Nat /\ DOMAIN e = 1..Len(e)
  BY DatagramAssumption, LenProperties
<1>3. CASE Clients!Seen' = Clients!Seen
  BY <1>1, <1>3 DEF DatagramsInOrder, Clients!Open, Clients!ReadTo
<1>4. ASSUME NEW p \in Packets, Clients!InTurn(p), Clients!Seen' = Clients!Seen \cup {p}
      PROVE  DatagramsInOrder'
  <2>1. PICK d \in Datagrams :
          /\ \E i \in DOMAIN d : d[i] = p /\ Clients!ReadTo(d, i - 1)
          /\ \A e \in Datagrams \ {d} : ~Clients!Open(e)
    BY <1>4 DEF Clients!InTurn
  <2>2. PICK i \in DOMAIN d : d[i] = p /\ Clients!ReadTo(d, i - 1)
    BY <2>1
  <2>3. \A e \in Datagrams : \A j \in DOMAIN e : e[j] = p => e = d /\ j = i
    BY <2>2, DatagramAssumption
  <2>4. Handled' = Handled \cup {p} /\ \A k \in 1..i - 1 : d[k] \in Handled
    BY <1>1, <1>4, <2>2 DEF Clients!ReadTo
  <2>5. ASSUME NEW e \in Datagrams, NEW j \in DOMAIN e, e[j] \in Handled', NEW k \in 1..j - 1
        PROVE  e[k] \in Handled'
    <3>1. CASE e[j] = p
      BY <2>3, <2>4, <2>5, <3>1
    <3>2. CASE e[j] # p
      BY <2>4, <2>5, <3>2 DEF DatagramsInOrder
    <3>3. QED
      BY <3>1, <3>2
  <2>6. ASSUME NEW e \in Datagrams, Clients!Open(e)'
        PROVE  e = d
    <3>1. PICK k \in 2..Len(e) :
            /\ \A j \in 1..k - 1 : e[j] \in Handled'
            /\ e[k] \notin Handled' \cup {q \in Packets : PacketClass[q] = "garbage"}
      BY <1>1, <2>6 DEF Clients!Open, Clients!ReadTo
    <3>2. ASSUME e # d
          PROVE  FALSE
      <4>1. \A j \in 1..k - 1 : e[j] \in Handled
        BY <1>2, <2>3, <2>4, <3>1, <3>2
      <4>2. e[k] \notin Handled \cup {q \in Packets : PacketClass[q] = "garbage"}
        BY <2>4, <3>1
      <4>3. Clients!Open(e)
        BY <1>1, <4>1, <4>2 DEF Clients!Open, Clients!ReadTo
      <4>4. QED
        BY <2>1, <3>2, <4>3
    <3>3. QED
      BY <3>2
  <2>7. QED
    BY <2>5, <2>6 DEF DatagramsInOrder
<1>5. CASE UNCHANGED Clients!vars
  <2>1. Lives' = Lives
    BY <1>5 DEF Clients!vars, Lives
  <2>2. Clients!Seen' = Clients!Seen
    BY <2>1 DEF Clients!Seen, Lives
  <2>3. QED
    BY <1>3, <2>2
<1>6. QED
  BY <1>3, <1>4, <1>5, SeenGrows

\* At every moment - in the middle of a datagram, after the signal, after a crash - what was
\* handled of each datagram is a part from its beginning, and of one at most it may go on.
THEOREM DatagramsAreReadInOrder == ServerSpec => []DatagramsInOrder
<1>1. ServerInit => DatagramsInOrder /\ AnswerInv /\ PacketInv
  <2> SUFFICES ASSUME ServerInit PROVE DatagramsInOrder /\ AnswerInv /\ PacketInv
    OBVIOUS
  <2>1. PacketInv
    BY DEF ServerInit, Init, PacketInv, EveryPacketHandled, Handled
  <2>2. AnswerInv
    BY PacketAssumption DEF ServerInit, AnswerInv
  <2>3. Handled = {}
    BY DEF ServerInit, Init, Handled
  <2>4. \A d \in Datagrams : ~Clients!Open(d)
    <3>1. \A p \in Packets : Lives[p] = "unseen"
      BY DEF ServerInit, Init, Lives, Life
    <3>2. Clients!Seen = {}
      BY <3>1 DEF Clients!Seen, Lives
    <3>3. QED
      BY <3>2, DatagramAssumption, LenProperties DEF Clients!Open, Clients!ReadTo
  <2>5. QED
    BY <2>1, <2>2, <2>3, <2>4 DEF DatagramsInOrder
<1>2. IndInv /\ ServerTypeOK /\ PacketInv /\ [ServerNext]_allVars => PacketInv'
  BY PacketStep
<1>3. IndInv /\ ServerTypeOK /\ PacketInv /\ AnswerInv /\ [ServerNext]_allVars
        => [Clients!PacketsNext]_(Clients!vars) /\ AnswerInv'
  BY ClientsStep
<1>4. ServerTypeOK /\ AnswerInv => SeenInv
  BY SeenIsHandled DEF SeenInv
<1>5. SeenInv /\ SeenInv' /\ DatagramsInOrder /\ [Clients!PacketsNext]_(Clients!vars)
        => DatagramsInOrder'
  BY OrderStep
<1>6. ServerSpec => []IndInv
  BY ServerUsesPool, IndInvariant, PTL DEF UsesPool
<1>7. ServerSpec => [](PacketInv /\ AnswerInv)
  BY <1>1, <1>2, <1>3, <1>6, ServerTypeCorrect, PTL DEF ServerSpec
<1>8. ServerSpec => []SeenInv
  BY <1>4, <1>7, ServerTypeCorrect, PTL
<1>9. QED
  BY <1>1, <1>3, <1>5, <1>6, <1>7, <1>8, ServerTypeCorrect, PTL DEF ServerSpec

-----------------------------------------------------------------------------
(* The end of the process.                                                 *)

\* Where the main thread is in main.cpp and Server.cpp says where it is in the pool.
PlaceInv ==
  /\ mainPc \in {"socket", "kafka"} => caller = "logon"
  /\ mainPc = "pool" => caller \in {"logon", "starting"}
  /\ mainPc \in {"loop", "receiving", "parsing", "draining"} => caller = "idle"
  /\ mainPc = "pushing" => caller \in {"built", "pushed"}
  /\ mainPc \in {"closing", "freeing"} => caller \in {"logon", "idle", "stopping"}
  /\ mainPc = "joining" => caller \in {"stopping", "stopFlagSet", "joining"}
  /\ mainPc = "exited" => caller \in {"logon", "gone"}
  /\ shutdownInProgress => mainPc \notin {"socket", "kafka", "pool"}

\* The main thread is in one place, and no other thread moves it but by a crash.
LEMMA PlaceStep == PlaceInv /\ [ServerNext]_allVars => PlaceInv'
<1> SUFFICES ASSUME PlaceInv, [ServerNext]_allVars PROVE PlaceInv'
  OBVIOUS
<1> USE DEF PlaceInv, serverVars, MainGoto
<1>0. /\ UNCHANGED vars => caller' = caller
      /\ UNCHANGED mainVars => caller' = caller
  BY DEF vars, mainVars
<1>1. CASE InitSocket \/ InitSocketFails \/ InitKafka \/ InitKafkaFails
  BY <1>0, <1>1 DEF InitSocket, InitSocketFails, InitKafka, InitKafkaFails
<1>2. CASE TestShutdown \/ RecvfromFails \/ DatagramDone \/ CloseSocket \/ Signal
  BY <1>0, <1>2 DEF TestShutdown, RecvfromFails, DatagramDone, CloseSocket, Signal
<1>3. CASE InitPool
  <2>1. /\ caller = "logon" => caller' \in {"starting", "stopping"}
        /\ caller = "starting" => caller' \in {"starting", "stopping", "idle"}
    BY <1>3 DEF InitPool, Initialize, LogonAll, LogonFails, StartWorker, StartFails,
                AssignFields, CallerGoto, mainVars
  <2>2. QED
    BY <1>3, <2>1 DEF InitPool
<1>4. ASSUME NEW p \in Packets, ProcessPacket(p)
      PROVE  PlaceInv'
  <2>1. CASE Accept(p)
    BY <2>1 DEF Accept, BuildRequest, CallerGoto
  <2>2. CASE ParseError(p) \/ UnsupportedType(p) \/ AreYouAlive(p) \/ Reject(p)
    BY <1>0, <2>2 DEF ParseError, UnsupportedType, AreYouAlive, Reject
  <2>3. QED
    BY <1>4, <2>1, <2>2 DEF ProcessPacket
<1>5. CASE PushToPool
  BY <1>5 DEF PushToPool, PushRequest, Push, NotifyOne, CallerGoto
<1>6. CASE WaitForKafkaQueue
  BY <1>0, <1>6 DEF WaitForKafkaQueue
<1>7. CASE FreeProducer
  BY <1>0, <1>7 DEF FreeProducer, BeginDestroy, CallerGoto
<1>8. CASE DestroyPool
  BY <1>8 DEF DestroyPool, Destroy, SetStopFlag, StopFlagArrives, NotifyAll, Join, CallerGoto
<1>9. ASSUME NEW w \in Workers, ServerWorkerStep(w)
      PROVE  PlaceInv'
  <2>1. WorkerStep(w)
    BY <1>9 DEF ServerWorkerStep, PoolStep, SendOnSocket, Produce, ProduceOnDestroyed,
                WorkerStep
  <2>2. caller' = caller
    BY <2>1, <1>0
       DEF WorkerStep, TestStopFlag, AcquireLock, Wait, Relock, Unlock, Pop, PopFails,
           ReadAge, CheckAge, Process, ProcessThrows, Reconnect, SendResult, LogToKafka,
           DeleteRequest
  <2>3. shutdownInProgress' = shutdownInProgress /\ mainPc' \in {mainPc, "crashed"}
    BY <1>9 DEF ServerWorkerStep, PoolStep, SendOnSocket, Produce, ProduceOnDestroyed
  <2>4. QED
    BY <2>2, <2>3
<1>10. CASE (\E d \in Datagrams : Receive(d)) \/ (\E r \in Requests : BrokerSettles(r))
  BY <1>0, <1>10 DEF Receive, BrokerSettles
<1>11. CASE Environment
  BY <1>0, <1>11 DEF Environment, Tick, StepClock, SpuriousWakeup
<1>12. CASE UNCHANGED allVars
  BY <1>0, <1>12 DEF allVars
<1>13. QED
  BY <1>1, <1>2, <1>3, <1>4, <1>5, <1>6, <1>7, <1>8, <1>9, <1>10, <1>11, <1>12
     DEF ServerNext, MainStep

\* main() is where the pool's methods say it is, in every interleaving.
LEMMA PlaceInvariant == ServerSpec => []PlaceInv
<1>1. ServerInit => PlaceInv
  BY DEF ServerInit, Init, PlaceInv
<1>2. QED
  BY <1>1, PlaceStep, PTL DEF ServerSpec

\* Before the sessions are logged on there is neither a worker nor a request.
LogonInv == caller = "logon" => heap = {} /\ \A w \in Workers : pc[w] = "unborn"

\* No step of the pool gets back to before the logon.
LEMMA LogonStep == LogonInv /\ [Next]_vars => LogonInv'
<1> SUFFICES ASSUME LogonInv, [Next]_vars PROVE LogonInv'
  OBVIOUS
<1> USE DEF LogonInv, mainVars, workerVars, historyVars, taskVars, dataVars, Goto, CallerGoto
<1>1. CASE Initialize \/ (\E r \in Requests : BuildRequest(r)) \/ PushRequest \/ BeginDestroy
  BY <1>1 DEF Initialize, LogonAll, LogonFails, StartWorker, StartFails, AssignFields,
              BuildRequest, PushRequest, Push, NotifyOne, BeginDestroy
<1>2. CASE Destroy
  BY <1>2 DEF Destroy, SetStopFlag, StopFlagArrives, NotifyAll, Join
<1>3. ASSUME NEW w \in Workers,
             \/ TestStopFlag(w) \/ AcquireLock(w) \/ Wait(w) \/ SpuriousWakeup(w)
             \/ Relock(w) \/ Unlock(w) \/ Pop(w) \/ PopFails(w)
      PROVE  LogonInv'
  BY <1>3 DEF TestStopFlag, AcquireLock, Wait, SpuriousWakeup, Relock, Unlock, Pop, PopFails
<1>4. ASSUME NEW w \in Workers,
             \/ ReadAge(w) \/ CheckAge(w) \/ Process(w) \/ ProcessThrows(w)
             \/ Reconnect(w) \/ SendResult(w) \/ LogToKafka(w) \/ DeleteRequest(w)
      PROVE  LogonInv'
  BY <1>4 DEF ReadAge, CheckAge, Process, ProcessThrows, Reconnect, SendResult, LogToKafka,
              DeleteRequest
<1>5. CASE Tick \/ StepClock \/ UNCHANGED vars
  BY <1>5 DEF Tick, StepClock, vars
<1>6. QED
  BY <1>1, <1>2, <1>3, <1>4, <1>5 DEF Next, WorkerStep

\* From ~Server's body on the socket is closed, and after the producer is destroyed it
\* has no queue.
ReleaseInv ==
  /\ mainPc \in {"freeing", "joining", "exited"} => ~socketOpen
  /\ mainPc \in {"joining", "exited"} => producer # "alive"
  /\ producer = "destroyed" => outq = {}

\* Nothing is opened again; what workers produce to a destroyed producer is in no queue.
LEMMA ReleaseStep == ReleaseInv /\ [ServerNext]_allVars => ReleaseInv'
<1> SUFFICES ASSUME ReleaseInv, [ServerNext]_allVars PROVE ReleaseInv'
  OBVIOUS
<1> USE DEF ReleaseInv, netVars, kafkaVars, serverVars, MainGoto
<1>1. CASE InitSocket \/ InitSocketFails \/ InitKafka \/ InitKafkaFails \/ InitPool
  BY <1>1 DEF InitSocket, InitSocketFails, InitKafka, InitKafkaFails, InitPool
<1>2. CASE \/ TestShutdown \/ RecvfromFails \/ DatagramDone \/ Signal \/ PushToPool
           \/ WaitForKafkaQueue
  BY <1>2 DEF TestShutdown, RecvfromFails, DatagramDone, Signal, PushToPool,
              WaitForKafkaQueue
<1>3. CASE CloseSocket \/ FreeProducer \/ DestroyPool
  BY <1>3 DEF CloseSocket, FreeProducer, DestroyPool
<1>4. CASE (\E p \in Packets : ProcessPacket(p)) \/ (\E d \in Datagrams : Receive(d))
  BY <1>4 DEF ProcessPacket, ParseError, UnsupportedType, AreYouAlive, Reject, Accept, Receive
<1>5. ASSUME NEW w \in Workers, ServerWorkerStep(w)
      PROVE  ReleaseInv'
  BY <1>5 DEF ServerWorkerStep, PoolStep, SendOnSocket, Produce, ProduceOnDestroyed
<1>6. CASE (\E r \in Requests : BrokerSettles(r)) \/ Environment \/ UNCHANGED allVars
  BY <1>6 DEF BrokerSettles, Environment, allVars
<1>7. QED
  BY <1>1, <1>2, <1>3, <1>4, <1>5, <1>6 DEF ServerNext, MainStep

\* Whether Initialize fails, at whichever step, or Run returns, with requests in work and
\* CDRs in the producer's queue: what the process leaves behind is what is still queued.
THEOREM ProcessEndsClean == ServerSpec => []EndsClean
<1>1. ServerInit => FlushInv /\ LogonInv /\ ReleaseInv
  BY DEF ServerInit, Init, FlushInv, FlushedIsNotLost, LogonInv, ReleaseInv
<1>2. IndInv /\ FlushInv /\ LogonInv /\ ReleaseInv /\ [ServerNext]_allVars
        => FlushInv' /\ LogonInv' /\ ReleaseInv'
  BY FlushStep, LogonStep, ReleaseStep, PoolStepOfServer
<1>3. ServerSpec => []IndInv /\ []GoneInv
  BY ServerUsesPool, IndInvariant, GoneInvariant, PTL DEF UsesPool
<1>4. IndInv /\ GoneInv /\ ServerTypeOK /\ PlaceInv /\ FlushInv /\ LogonInv /\ ReleaseInv
        => EndsClean
  <2> SUFFICES ASSUME IndInv, GoneInv, ServerTypeOK, PlaceInv, FlushInv, LogonInv, ReleaseInv,
                      mainPc = "exited"
               PROVE  /\ \A w \in Workers : pc[w] \in {"unborn", "exited"}
                      /\ heap = Queued
                      /\ ~socketOpen
                      /\ producer # "alive" /\ outq = {}
    BY DEF EndsClean
  <2>1. ~socketOpen /\ producer # "alive"
    BY DEF ReleaseInv
  <2>2. outq = {}
    <3>1. producer \in {"none", "destroyed"} => outq = {}
      BY DEF ReleaseInv, FlushInv
    <3>2. QED
      BY <2>1, <3>1 DEF ServerTypeOK
  <2>3. CASE caller = "gone"
    <3>1. \A w \in Workers : pc[w] \in {"unborn", "exited"}
      BY <2>3 DEF GoneInv
    <3>2. heap = Queued
      BY <2>3, GoneLeaves DEF LeavesOnlyQueued
    <3>3. QED
      BY <2>1, <2>2, <3>1, <3>2
  <2>4. CASE caller = "logon"
    <3>1. heap = {} /\ \A w \in Workers : pc[w] = "unborn"
      BY <2>4 DEF LogonInv
    <3>2. queue = <<>>
      BY <2>4 DEF IndInv, CallerInv
    <3>3. Queued = {}
      BY <3>2 DEF Queued, ToSet
    <3>4. QED
      BY <2>1, <2>2, <3>1, <3>3
  <2>5. QED
    BY <2>3, <2>4 DEF PlaceInv
<1>5. QED
  BY <1>1, <1>2, <1>3, <1>4, PlaceInvariant, ServerTypeCorrect, PTL DEF ServerSpec

-----------------------------------------------------------------------------
(* The way to the end of Run.                                              *)

\* A packet is taken off the buffer, for at most the two steps of PushRequest.
LEMMA PacketTaken ==
  ASSUME ServerTypeOK, NEW p \in Packets, NextPacketIs(p), caller = "idle",
         buffer' = Tail(buffer), caller' \in {"idle", "built"}
  PROVE  PacketStepsLeft' < PacketStepsLeft
<1>1. Len(buffer) \in Nat /\ Len(Tail(buffer)) = Len(buffer) - 1
  BY HeadTailProperties, LenProperties DEF NextPacketIs, ServerTypeOK
<1>2. PacketStepsLeft = 3 * Len(buffer)
  BY <1>1 DEF PacketStepsLeft
<1>3. Len(buffer') = Len(buffer) - 1
  BY <1>1
<1>4. PacketStepsLeft' = 3 * Len(buffer') + (IF caller' = "built" THEN 2 ELSE 0)
  BY DEF PacketStepsLeft
<1>5. QED
  BY <1>1, <1>2, <1>3, <1>4

\* Once Stop() was called each step in Run is one less to do, the others leave it alone.
LEMMA CountsDownStep ==
  ASSUME ServerTypeOK, PlaceInv, [ServerNext]_allVars, shutdownInProgress
  PROVE  \/ UNCHANGED <<mainPc, netVars, mainVars>>
         \/ LoopPlace' < LoopPlace
         \/ LoopPlace' = LoopPlace /\ PacketStepsLeft' < PacketStepsLeft
         \/ LoopPlace' = 0 /\ LoopPlace = 0
<1> DEFINE Goal == \/ UNCHANGED <<mainPc, netVars, mainVars>>
                   \/ LoopPlace' < LoopPlace
                   \/ LoopPlace' = LoopPlace /\ PacketStepsLeft' < PacketStepsLeft
                   \/ LoopPlace' = 0 /\ LoopPlace = 0
<1>1. /\ mainPc = "receiving" => LoopPlace = 3
      /\ mainPc \in {"parsing", "pushing"} => LoopPlace = 2
      /\ mainPc = "loop" => LoopPlace = 1
      /\ mainPc \notin {"receiving", "parsing", "pushing", "loop"} => LoopPlace = 0
  BY DEF LoopPlace
<1>2. /\ mainPc' = "receiving" => LoopPlace' = 3
      /\ mainPc' \in {"parsing", "pushing"} => LoopPlace' = 2
      /\ mainPc' = "loop" => LoopPlace' = 1
      /\ mainPc' \notin {"receiving", "parsing", "pushing", "loop"} => LoopPlace' = 0
  BY DEF LoopPlace
<1>3. mainPc \notin {"socket", "kafka", "pool"}
  BY DEF PlaceInv
<1>4. CASE InitSocket \/ InitSocketFails \/ InitKafka \/ InitKafkaFails \/ InitPool
  BY <1>3, <1>4 DEF InitSocket, InitSocketFails, InitKafka, InitKafkaFails, InitPool, MainGoto
<1>5. CASE TestShutdown \/ RecvfromFails \/ DatagramDone
  <2>1. \/ mainPc = "loop" /\ mainPc' = "draining"
        \/ mainPc \in {"receiving", "parsing"} /\ mainPc' = "loop"
    BY <1>5 DEF TestShutdown, RecvfromFails, DatagramDone, MainGoto
  <2>2. LoopPlace' < LoopPlace
    BY <1>1, <1>2, <2>1
  <2>3. QED
    BY <2>2
<1>6. ASSUME NEW d \in Datagrams, Receive(d)
      PROVE  Goal
  <2>1. mainPc = "receiving" /\ mainPc' = "parsing"
    BY <1>6 DEF Receive, MainGoto
  <2>2. QED
    BY <1>1, <1>2, <2>1
<1>7. ASSUME NEW p \in Packets, ProcessPacket(p)
      PROVE  Goal
  <2>1. mainPc = "parsing" /\ NextPacketIs(p) /\ caller = "idle"
    BY <1>7 DEF ProcessPacket, ParseError, UnsupportedType, AreYouAlive, Reject, Accept,
                MainGoto, PlaceInv
  <2>2. CASE ParseError(p)
    <3>1. mainPc' = "loop"
      BY <2>2 DEF ParseError, MainGoto
    <3>2. QED
      BY <1>1, <1>2, <2>1, <3>1
  <2>3. CASE UnsupportedType(p) \/ AreYouAlive(p) \/ Reject(p) \/ Accept(p)
    <3>1. mainPc' \in {"parsing", "pushing"} /\ buffer' = Tail(buffer)
      BY <2>3 DEF UnsupportedType, AreYouAlive, Reject, Accept, MainGoto
    <3>2. caller' \in {"idle", "built"}
      BY <2>1, <2>3 DEF UnsupportedType, AreYouAlive, Reject, Accept, BuildRequest, CallerGoto,
                        vars, mainVars
    <3>3. PacketStepsLeft' < PacketStepsLeft
      BY <2>1, <3>1, <3>2, PacketTaken
    <3>4. QED
      BY <1>1, <1>2, <2>1, <3>1, <3>3
  <2>4. QED
    BY <1>7, <2>2, <2>3 DEF ProcessPacket
<1>8. CASE PushToPool
  <2>1. /\ mainPc = "pushing" /\ mainPc' \in {"parsing", "pushing"} /\ buffer' = buffer
        /\ (caller = "built" /\ caller' = "pushed") \/ (caller = "pushed" /\ caller' = "idle")
    BY <1>8 DEF PushToPool, PushRequest, Push, NotifyOne, MainGoto, CallerGoto, netVars
  <2>2. Len(buffer) \in Nat
    BY LenProperties DEF ServerTypeOK
  <2>3. PacketStepsLeft' < PacketStepsLeft
    BY <2>1, <2>2 DEF PacketStepsLeft
  <2>4. QED
    BY <1>1, <1>2, <2>1, <2>3
<1>9. CASE WaitForKafkaQueue \/ CloseSocket \/ FreeProducer \/ DestroyPool
  <2>1. /\ mainPc \in {"draining", "closing", "freeing", "joining"}
        /\ mainPc' \in {"crashed", "closing", "freeing", "joining", "exited"}
    BY <1>9 DEF WaitForKafkaQueue, CloseSocket, FreeProducer, DestroyPool, MainGoto
  <2>2. QED
    BY <1>1, <1>2, <2>1
<1>10. ASSUME NEW w \in Workers, ServerWorkerStep(w)
       PROVE  Goal
  <2>1. WorkerStep(w) /\ UNCHANGED netVars /\ mainPc' \in {mainPc, "crashed"}
    BY <1>10 DEF ServerWorkerStep, PoolStep, SendOnSocket, Produce, ProduceOnDestroyed,
                 WorkerStep, serverVars
  <2>2. UNCHANGED mainVars
    BY <2>1
       DEF WorkerStep, TestStopFlag, AcquireLock, Wait, Relock, Unlock, Pop, PopFails,
           ReadAge, CheckAge, Process, ProcessThrows, Reconnect, SendResult, LogToKafka,
           DeleteRequest
  <2>3. CASE mainPc' = mainPc
    BY <2>1, <2>2, <2>3
  <2>4. CASE mainPc' = "crashed"
    BY <1>1, <1>2, <2>4 DEF ServerTypeOK, MainPcs
  <2>5. QED
    BY <2>1, <2>3, <2>4
<1>11. CASE Signal \/ (\E r \in Requests : BrokerSettles(r)) \/ UNCHANGED allVars
  BY <1>11 DEF Signal, BrokerSettles, allVars, serverVars, vars
<1>12. CASE Environment
  BY <1>12 DEF Environment, Tick, StepClock, SpuriousWakeup, serverVars
<1>13. QED
  BY <1>4, <1>5, <1>6, <1>7, <1>8, <1>9, <1>10, <1>11, <1>12 DEF ServerNext, MainStep

\* At whatever statement of Run the signal finds the main thread, and however long the
\* datagram it is working on: no step of its loop is taken without getting nearer to the end.
THEOREM StopShortens == ServerSpec => StopCountsDown
<1>1. ServerTypeOK /\ PlaceInv /\ [ServerNext]_allVars =>
        [shutdownInProgress =>
           \/ UNCHANGED <<mainPc, netVars, mainVars>>
           \/ LoopPlace' < LoopPlace
           \/ LoopPlace' = LoopPlace /\ PacketStepsLeft' < PacketStepsLeft
           \/ LoopPlace' = 0 /\ LoopPlace = 0]_allVars
  BY CountsDownStep
<1>2. QED
  BY <1>1, ServerTypeCorrect, PlaceInvariant, PTL DEF ServerSpec, StopCountsDown

-----------------------------------------------------------------------------
(* The pool's other promises, in the process.                              *)

\* In the whole process too - while Initialize fails, while it shuts down, with the producer
\* destroyed under the workers - the pool keeps its promises about what is used before it
\* is initialized, lost notifications, the way out, and the end of the pool.
THEOREM ProcessKeepsPoolSafety ==
  ServerSpec => /\ []NoUseBeforeInit /\ []LeavesOnlyQueued
                /\ StrandedOnlyByLostNotify /\ NobodyFallsAsleep
  BY ServerUsesPool, InitializedBeforeUse, OnlyQueuedIsLeft, OnlyLostNotifyStrands,
     WayOutStays, PTL DEF UsesPool

\* And it is RequestService to each request, and asks of the database sessions what
\* SessionService allows.
THEOREM ProcessKeepsServices == ServerSpec => ImplementsService /\ UsesSessions
  BY ServerUsesPool, PoolImplementsService, PoolUsesSessions, PTL DEF UsesPool

=============================================================================

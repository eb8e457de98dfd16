------------------------ MODULE ConnectionPoolProofs ------------------------
(***************************************************************************)
(* Theorems about ConnectionPool, for every set of workers and requests,   *)
(* every age limit and every behaviour of the database, socket, Kafka and  *)
(* clock.                                                                  *)
(*                                                                         *)
(* The safety properties are not inductive: that a worker does not delete  *)
(* a request twice depends on where the main thread and every other worker *)
(* are.  IndInv ties each variable to the program counters.                *)
(***************************************************************************)
EXTENDS ConnectionPool, SequenceTheorems, TLAPS

\* The mutex is owned by the worker between lock and unlock, and by no other.
LockInv == \A w \in Workers : lock = w <=> pc[w] \in {"locked", "relocked"}

\* A worker's request variable is meaningful exactly while it holds one.
HoldInv ==
  \A w \in Workers :
    /\ Holding(w) <=> request[w] # NoRequest
    /\ pc[w] \in {"sending", "logging"} => result[w] \in DbResults(Kind[request[w]])

\* Where the main thread is determines the stop flag, the fields, its hand, and
\* which workers exist.
CallerInv ==
  /\ inHand # NoRequest <=> caller = "built"
  /\ stopFlag => caller \in {"stopFlagSet", "joining", "gone"}
  /\ caller \in {"logon", "starting"} => ~fieldsSet
  /\ caller \in {"idle", "built", "pushed"} => fieldsSet
  /\ queue # <<>> => fieldsSet
  /\ \A w \in Workers :
       /\ Holding(w) => fieldsSet
       /\ fieldsSet => pc[w] # "unborn"
       /\ pc[w] = "exited" => stopFlag

\* The fate of a request agrees with where the request is.
FateInv ==
  /\ \A r \in heap : fate[r] # "unseen"
  /\ \A r \in ToSet(queue) \cup ({inHand} \ {NoRequest}) : fate[r] = "pending"
  /\ \A w \in Workers :
       /\ pc[w] \in {"aging", "fresh", "tooOld", "processing", "sending"} =>
            fate[request[w]] = "pending"
       /\ pc[w] = "logging" => fate[request[w]] \in {"answered", "unsent"}
       /\ pc[w] = "reconnecting" => fate[request[w]] = "dbError"
       /\ pc[w] = "deleting" => fate[request[w]] \notin {"unseen", "pending"}
  /\ \A r \in Requests : fate[r] = "pending" => r \in heap

\* A request that is still to be logged to Kafka has no CDR yet.
CdrInv ==
  /\ CdrsAreTrue
  /\ \A w \in Workers : \A c \in cdrs :
       pc[w] = "logging" => c.request # request[w]

IndInv ==
  /\ TypeOK
  /\ LockInv
  /\ HoldInv
  /\ CallerInv
  /\ Ownership
  /\ FateInv
  /\ CdrInv

-----------------------------------------------------------------------------
(* Lemmas about the queue.                                                 *)

\* Append adds one element, and keeps the queue free of duplicates if it is new.
LEMMA AppendElements ==
  ASSUME NEW S, NEW q \in Seq(S), NEW e \in S
  PROVE  /\ ToSet(Append(q, e)) = ToSet(q) \cup {e}
         /\ IsInjective(q) /\ e \notin ToSet(q) => IsInjective(Append(q, e))
<1>1. /\ Len(Append(q, e)) = Len(q) + 1
      /\ \A i \in 1..Len(q) : Append(q, e)[i] = q[i]
      /\ Append(q, e)[Len(q) + 1] = e
  BY AppendProperties
<1>2. DOMAIN q = 1..Len(q) /\ DOMAIN Append(q, e) = 1..(Len(q) + 1) /\ Len(q) \in Nat
  BY <1>1, LenProperties, AppendProperties
<1>3. QED
  BY <1>1, <1>2 DEF ToSet, IsInjective

\* Popping removes the head and nothing else from a queue without duplicates.
LEMMA PopElements ==
  ASSUME NEW S, NEW q \in Seq(S), q # <<>>, IsInjective(q)
  PROVE  /\ Head(q) \in S
         /\ Tail(q) \in Seq(S)
         /\ Head(q) \in ToSet(q)
         /\ ToSet(Tail(q)) = ToSet(q) \ {Head(q)}
         /\ IsInjective(Tail(q))
<1>1. /\ Head(q) \in S /\ Tail(q) \in Seq(S)
      /\ Len(Tail(q)) = Len(q) - 1
      /\ \A i \in 1..Len(Tail(q)) : Tail(q)[i] = q[i + 1]
      /\ Head(q) = q[1]
  BY HeadTailProperties
<1>2. /\ DOMAIN q = 1..Len(q) /\ DOMAIN Tail(q) = 1..(Len(q) - 1)
      /\ Len(q) \in Nat /\ Len(q) >= 1
  BY <1>1, LenProperties, EmptySeq
<1>3. ToSet(Tail(q)) \subseteq ToSet(q) \ {Head(q)}
  BY <1>1, <1>2 DEF ToSet, IsInjective
<1>4. ASSUME NEW x \in ToSet(q) \ {Head(q)}
      PROVE  x \in ToSet(Tail(q))
  <2>1. PICK i \in 1..Len(q) : x = q[i] /\ i # 1
    BY <1>1, <1>2 DEF ToSet
  <2>2. i - 1 \in 1..(Len(q) - 1) /\ Tail(q)[i - 1] = x
    BY <1>1, <1>2, <2>1
  <2>3. QED
    BY <1>2, <2>2 DEF ToSet
<1>5. IsInjective(Tail(q))
  BY <1>1, <1>2 DEF IsInjective
<1>6. Head(q) \in ToSet(q)
  BY <1>1, <1>2 DEF ToSet
<1>7. QED
  BY <1>1, <1>3, <1>4, <1>5, <1>6

-----------------------------------------------------------------------------
(* IndInv is an invariant.                                                 *)

\* Every step keeps every variable in its type.
LEMMA TypeStep == IndInv /\ [Next]_vars => TypeOK'
<1> SUFFICES ASSUME IndInv, [Next]_vars PROVE TypeOK'
  OBVIOUS
<1> USE DEF IndInv, TypeOK, mainVars, workerVars, historyVars, taskVars, dataVars,
            CallerPcs, WorkerPcs,
            Goto, CallerGoto
<1>1. CASE Initialize
  <2>1. CASE LogonAll
    BY <2>1 DEF LogonAll
  <2>2. CASE LogonFails
    BY <2>2 DEF LogonFails
  <2>3. ASSUME NEW w \in Workers, StartWorker(w)
        PROVE  TypeOK'
    BY <2>3 DEF StartWorker
  <2>4. CASE StartFails \/ AssignFields
    BY <2>4 DEF StartFails, AssignFields
  <2>5. QED
    BY <1>1, <2>1, <2>2, <2>3, <2>4 DEF Initialize
<1>2. CASE \E r \in Requests : BuildRequest(r)
  BY <1>2 DEF BuildRequest, Fates
<1>3. CASE Push
  BY <1>3 DEF Push, CallerInv
<1>4. CASE NotifyOne \/ BeginDestroy \/ Destroy
  <2>1. CASE NotifyOne \/ BeginDestroy
    BY <2>1 DEF NotifyOne, BeginDestroy, Waiters
  <2>2. CASE SetStopFlag \/ StopFlagArrives
    BY <2>2 DEF SetStopFlag, StopFlagArrives
  <2>3. CASE NotifyAll \/ Join
    BY <2>3 DEF NotifyAll, Join, Waiters
  <2>4. QED
    BY <1>4, <2>1, <2>2, <2>3 DEF Destroy
<1>5. ASSUME NEW w \in Workers,
             \/ TestStopFlag(w) \/ AcquireLock(w) \/ Wait(w) \/ SpuriousWakeup(w)
             \/ Relock(w) \/ Unlock(w) \/ PopFails(w) \/ ReadAge(w)
      PROVE  TypeOK'
  <2>1. CASE TestStopFlag(w) \/ SpuriousWakeup(w) \/ PopFails(w) \/ ReadAge(w)
    BY <2>1 DEF TestStopFlag, SpuriousWakeup, PopFails, ReadAge
  <2>2. CASE AcquireLock(w) \/ Wait(w)
    BY <2>2 DEF AcquireLock, Wait
  <2>3. CASE Relock(w) \/ Unlock(w)
    BY <2>3 DEF Relock, Unlock
  <2>4. QED
    BY <1>5, <2>1, <2>2, <2>3
<1>6. ASSUME NEW w \in Workers, Pop(w)
      PROVE  TypeOK'
  <2>1. Head(queue) \in Requests /\ Tail(queue) \in Seq(Requests)
    BY <1>6, HeadTailProperties DEF Pop
  <2>2. QED
    BY <1>6, <2>1 DEF Pop
<1>7. ASSUME NEW w \in Workers, CheckAge(w) \/ ProcessThrows(w) \/ SendResult(w)
      PROVE  TypeOK'
  <2>1. CASE CheckAge(w)
    BY <2>1 DEF CheckAge, Fates
  <2>2. CASE ProcessThrows(w)
    BY <2>2 DEF ProcessThrows, Fates
  <2>3. CASE SendResult(w)
    BY <2>3 DEF SendResult, Fates
  <2>4. QED
    BY <1>7, <2>1, <2>2, <2>3
<1>8. ASSUME NEW w \in Workers, Process(w)
      PROVE  TypeOK'
  <2>1. request[w] \in Requests
    BY <1>8 DEF Process, HoldInv, Holding
  <2>2. DbResults(Kind[request[w]]) \subseteq AllDbResults
    BY <2>1, KindAssumption DEF AllDbResults
  <2>3. QED
    BY <1>8, <2>2 DEF Process
<1>9. ASSUME NEW w \in Workers, LogToKafka(w)
      PROVE  TypeOK'
  <2>1. request[w] \in Requests
    BY <1>9 DEF LogToKafka, HoldInv, Holding
  <2>2. CdrOf(request[w], Kind[request[w]], result[w], fate[request[w]] = "answered").request
          = request[w]
    BY DEF CdrOf, SmsCdr, CallCdr
  <2>3. \A c \in cdrs' : c.request \in Requests
    BY <1>9, <2>1, <2>2 DEF LogToKafka
  <2>4. QED
    BY <1>9, <2>3 DEF LogToKafka
<1>10. ASSUME NEW w \in Workers, Reconnect(w) \/ DeleteRequest(w)
       PROVE  TypeOK'
  <2>1. CASE Reconnect(w)
    BY <2>1 DEF Reconnect
  <2>2. CASE DeleteRequest(w)
    BY <2>2 DEF DeleteRequest
  <2>3. QED
    BY <1>10, <2>1, <2>2
<1>11. CASE Tick \/ StepClock
  BY <1>11, ClockAssumption DEF Tick, StepClock, Time
<1>12. CASE UNCHANGED vars
  BY <1>12 DEF vars
<1>13. QED
  BY <1>1, <1>2, <1>3, <1>4, <1>5, <1>6, <1>7, <1>8, <1>9, <1>10, <1>11, <1>12
     DEF Next, PushRequest, WorkerStep

\* Every step keeps the mutex owned by exactly the worker between lock and unlock.
LEMMA LockStep == IndInv /\ [Next]_vars => LockInv'
<1> SUFFICES ASSUME IndInv, [Next]_vars PROVE LockInv'
  OBVIOUS
<1> USE DEF IndInv, TypeOK, LockInv, mainVars, workerVars, historyVars, taskVars,
            dataVars, Goto, CallerGoto
<1>1. CASE Initialize
  BY <1>1 DEF Initialize, LogonAll, LogonFails, StartWorker, StartFails, AssignFields
<1>2. CASE (\E r \in Requests : BuildRequest(r)) \/ Push
  BY <1>2 DEF BuildRequest, Push
<1>3. CASE NotifyOne
  BY <1>3 DEF NotifyOne, Waiters
<1>4. CASE BeginDestroy \/ Destroy
  BY <1>4 DEF BeginDestroy, Destroy, SetStopFlag, StopFlagArrives, NotifyAll, Join,
              Waiters
<1>5. ASSUME NEW w \in Workers, AcquireLock(w) \/ Wait(w) \/ Relock(w) \/ Unlock(w)
      PROVE  LockInv'
  BY <1>5, ThreadAssumption DEF AcquireLock, Wait, Relock, Unlock
<1>6. ASSUME NEW w \in Workers,
             TestStopFlag(w) \/ SpuriousWakeup(w) \/ Pop(w) \/ PopFails(w)
      PROVE  LockInv'
  BY <1>6 DEF TestStopFlag, SpuriousWakeup, Pop, PopFails
<1>7. ASSUME NEW w \in Workers,
             \/ ReadAge(w) \/ CheckAge(w) \/ Process(w) \/ ProcessThrows(w)
             \/ Reconnect(w) \/ SendResult(w) \/ LogToKafka(w) \/ DeleteRequest(w)
      PROVE  LockInv'
  BY <1>7 DEF ReadAge, CheckAge, Process, ProcessThrows, Reconnect, SendResult, LogToKafka,
              DeleteRequest
<1>8. CASE Tick \/ StepClock \/ UNCHANGED vars
  BY <1>8 DEF Tick, StepClock, vars
<1>9. QED
  BY <1>1, <1>2, <1>3, <1>4, <1>5, <1>6, <1>7, <1>8 DEF Next, PushRequest, WorkerStep

\* A worker's request variable is set by pop and cleared by delete, and nowhere else.
LEMMA HoldStep == IndInv /\ [Next]_vars => HoldInv'
<1> SUFFICES ASSUME IndInv, [Next]_vars PROVE HoldInv'
  OBVIOUS
<1> USE ThreadAssumption
    DEF IndInv, TypeOK, HoldInv, Holding, mainVars, workerVars, historyVars, taskVars,
        dataVars, Goto,
        CallerGoto
<1>1. CASE Initialize
  BY <1>1 DEF Initialize, LogonAll, LogonFails, StartWorker, StartFails, AssignFields
<1>2. CASE (\E r \in Requests : BuildRequest(r)) \/ Push
  BY <1>2 DEF BuildRequest, Push
<1>3. CASE NotifyOne
  BY <1>3 DEF NotifyOne, Waiters
<1>4. CASE BeginDestroy \/ Destroy
  BY <1>4 DEF BeginDestroy, Destroy, SetStopFlag, StopFlagArrives, NotifyAll, Join,
              Waiters
<1>5. ASSUME NEW w \in Workers,
             \/ TestStopFlag(w) \/ AcquireLock(w) \/ Wait(w) \/ SpuriousWakeup(w)
             \/ Relock(w) \/ Unlock(w) \/ PopFails(w)
      PROVE  HoldInv'
  BY <1>5 DEF TestStopFlag, AcquireLock, Wait, SpuriousWakeup, Relock, Unlock, PopFails
<1>6. ASSUME NEW w \in Workers, Pop(w)
      PROVE  HoldInv'
  <2>1. Head(queue) \in Requests
    BY <1>6, HeadTailProperties DEF Pop
  <2>2. QED
    BY <1>6, <2>1 DEF Pop
<1>7. ASSUME NEW w \in Workers,
             \/ ReadAge(w) \/ CheckAge(w) \/ ProcessThrows(w) \/ Reconnect(w)
             \/ SendResult(w) \/ LogToKafka(w)
      PROVE  HoldInv'
  BY <1>7 DEF ReadAge, CheckAge, ProcessThrows, Reconnect, SendResult, LogToKafka
<1>8. ASSUME NEW w \in Workers, Process(w) \/ DeleteRequest(w)
      PROVE  HoldInv'
  BY <1>8 DEF Process, DeleteRequest
<1>9. CASE Tick \/ StepClock \/ UNCHANGED vars
  BY <1>9 DEF Tick, StepClock, vars
<1>10. QED
  BY <1>1, <1>2, <1>3, <1>4, <1>5, <1>6, <1>7, <1>8, <1>9 DEF Next, PushRequest,
                                                              WorkerStep

\* What the main thread's place in the pool's methods implies, every step keeps.
LEMMA CallerStep == IndInv /\ [Next]_vars => CallerInv'
<1> SUFFICES ASSUME IndInv, [Next]_vars PROVE CallerInv'
  OBVIOUS
<1> USE ThreadAssumption
    DEF IndInv, TypeOK, CallerInv, Holding, mainVars, workerVars, historyVars,
        taskVars, dataVars, Goto,
        CallerGoto
<1>1. CASE Initialize
  BY <1>1 DEF Initialize, LogonAll, LogonFails, StartWorker, StartFails, AssignFields
<1>2. CASE (\E r \in Requests : BuildRequest(r)) \/ Push
  BY <1>2 DEF BuildRequest, Push
<1>3. CASE NotifyOne
  BY <1>3 DEF NotifyOne, Waiters
<1>4. CASE BeginDestroy \/ Destroy
  BY <1>4 DEF BeginDestroy, Destroy, SetStopFlag, StopFlagArrives, NotifyAll, Join,
              Waiters
<1>5. ASSUME NEW w \in Workers,
             \/ TestStopFlag(w) \/ AcquireLock(w) \/ Wait(w) \/ SpuriousWakeup(w)
             \/ Relock(w) \/ Unlock(w) \/ Pop(w) \/ PopFails(w)
      PROVE  CallerInv'
  BY <1>5 DEF TestStopFlag, AcquireLock, Wait, SpuriousWakeup, Relock, Unlock, Pop,
              PopFails
<1>6. ASSUME NEW w \in Workers,
             \/ ReadAge(w) \/ CheckAge(w) \/ Process(w) \/ ProcessThrows(w)
             \/ Reconnect(w) \/ SendResult(w) \/ LogToKafka(w) \/ DeleteRequest(w)
      PROVE  CallerInv'
  BY <1>6 DEF ReadAge, CheckAge, Process, ProcessThrows, Reconnect, SendResult, LogToKafka,
              DeleteRequest
<1>7. CASE Tick \/ StepClock \/ UNCHANGED vars
  BY <1>7 DEF Tick, StepClock, vars
<1>8. QED
  BY <1>1, <1>2, <1>3, <1>4, <1>5, <1>6, <1>7 DEF Next, PushRequest, WorkerStep

\* One ClientRequest object, one place: new, push, pop and delete keep it so.
LEMMA OwnershipStep == IndInv /\ [Next]_vars => Ownership'
<1> SUFFICES ASSUME IndInv, [Next]_vars PROVE Ownership'
  OBVIOUS
<1>1. HoldInv /\ HoldInv'
  BY HoldStep DEF IndInv
<1>2. /\ \A w \in Workers : Holding(w) <=> request[w] # NoRequest
      /\ \A w \in Workers : Holding(w)' <=> request'[w] # NoRequest
  BY <1>1 DEF HoldInv
<1>3. CASE UNCHANGED <<inHand, queue, heap, request>>
  BY <1>2, <1>3 DEF IndInv, Ownership, Queued
<1> USE DEF mainVars, workerVars, historyVars, taskVars, dataVars, Goto, CallerGoto
<1>4. ASSUME NEW r \in Requests, BuildRequest(r)
      PROVE  Ownership'
  <2>1. /\ inHand = NoRequest /\ inHand' = r /\ heap' = heap \cup {r}
        /\ queue' = queue /\ request' = request
    BY <1>4 DEF BuildRequest, IndInv, CallerInv
  <2>2. r \notin heap /\ r # NoRequest
    BY <1>4, ThreadAssumption DEF BuildRequest, IndInv, FateInv
  <2>3. heap = (Queued \cup {request[w] : w \in Workers}) \ {NoRequest}
    BY <2>1 DEF IndInv, Ownership
  <2>4. r \notin Queued /\ \A w \in Workers : r # request[w]
    BY <2>2, <2>3
  <2>5. Queued' = Queued
    BY <2>1 DEF Queued
  <2>6. QED
    BY <1>2, <2>1, <2>2, <2>3, <2>4, <2>5 DEF IndInv, Ownership
<1>5. CASE Push
  <2>1. /\ inHand \in Requests /\ inHand # NoRequest /\ inHand' = NoRequest
        /\ queue' = Append(queue, inHand) /\ heap' = heap /\ request' = request
    BY <1>5 DEF Push, IndInv, CallerInv, TypeOK
  <2>2. Queued' = Queued \cup {inHand} /\ IsInjective(queue')
    BY <2>1, AppendElements DEF Queued, IndInv, TypeOK, Ownership
  <2>3. NoRequest \notin Queued'
    BY <2>2, <2>1, ThreadAssumption DEF IndInv, TypeOK, Queued, ToSet
  <2>4. \A w \in Workers : request'[w] \notin Queued'
    BY <2>1, <2>2 DEF IndInv, Ownership
  <2>5. heap' = (Queued' \cup {request'[w] : w \in Workers}) \ {NoRequest}
    BY <2>1, <2>2 DEF IndInv, Ownership
  <2>6. QED
    BY <1>2, <2>1, <2>2, <2>3, <2>4, <2>5 DEF IndInv, Ownership
<1>6. ASSUME NEW w \in Workers, Pop(w)
      PROVE  Ownership'
  <2> DEFINE r == Head(queue)
  <2>1. /\ r \in Requests /\ r # NoRequest /\ r \in Queued
        /\ Queued' = Queued \ {r} /\ IsInjective(queue')
    BY <1>6, PopElements, ThreadAssumption DEF Pop, Queued, IndInv, TypeOK, Ownership
  <2>2. /\ request' = [request EXCEPT ![w] = r] /\ request[w] = NoRequest
        /\ inHand' = inHand /\ heap' = heap
    BY <1>6, <1>2 DEF Pop, Holding
  <2>3. /\ request'[w] = r
        /\ \A v \in Workers \ {w} : request'[v] = request[v]
    BY <2>2 DEF IndInv, TypeOK
  <2>4. \A v \in Workers \ {w} : request'[v] # r
    BY <2>1, <2>3 DEF IndInv, Ownership
  <2>5. {request'[v] : v \in Workers} \ {NoRequest}
          = ({request[v] : v \in Workers} \ {NoRequest}) \cup {r}
    BY <2>1, <2>2, <2>3
  <2>6. heap' = ({inHand'} \cup Queued' \cup {request'[v] : v \in Workers}) \ {NoRequest}
    BY <2>1, <2>2, <2>5 DEF IndInv, Ownership
  <2>7. r # inHand
    BY <2>1 DEF IndInv, Ownership
  <2>8. \A v \in Workers : request'[v] \notin Queued' \cup ({inHand'} \ {NoRequest})
    BY <2>1, <2>2, <2>3, <2>7 DEF IndInv, Ownership
  <2>9. \A u, v \in Workers : Holding(u)' /\ request'[u] = request'[v] => u = v
    <3> SUFFICES ASSUME NEW u \in Workers, NEW v \in Workers, Holding(u)',
                        request'[u] = request'[v]
                 PROVE  u = v
      OBVIOUS
    <3>1. CASE u # w /\ v # w
      BY <3>1, <1>2, <2>3 DEF IndInv, Ownership
    <3>2. QED
      BY <3>1, <2>3, <2>4
  <2>10. QED
    BY <2>1, <2>2, <2>6, <2>8, <2>9 DEF IndInv, Ownership
<1>7. ASSUME NEW w \in Workers, DeleteRequest(w)
      PROVE  Ownership'
  <2> DEFINE r == request[w]
  <2>1. /\ request' = [request EXCEPT ![w] = NoRequest]
        /\ queue' = queue /\ inHand' = inHand /\ heap' = heap \ {r} /\ Queued' = Queued
        /\ r # NoRequest /\ Holding(w)
    BY <1>7, <1>2 DEF DeleteRequest, Holding, Queued
  <2>2. /\ request'[w] = NoRequest
        /\ \A v \in Workers \ {w} : request'[v] = request[v] /\ request[v] # r
    BY <2>1 DEF IndInv, TypeOK, Ownership
  <2>3. r \notin Queued /\ r # inHand
    BY <2>1 DEF IndInv, Ownership
  <2>4. {request'[v] : v \in Workers} \ {NoRequest}
          = ({request[v] : v \in Workers} \ {NoRequest}) \ {r}
    BY <2>1, <2>2
  <2>5. heap' = ({inHand'} \cup Queued' \cup {request'[v] : v \in Workers}) \ {NoRequest}
    BY <2>1, <2>3, <2>4 DEF IndInv, Ownership
  <2>6. NoRequest \notin Queued
    BY ThreadAssumption DEF IndInv, TypeOK, Queued, ToSet
  <2>7. \A v \in Workers : request'[v] \notin Queued' \cup ({inHand'} \ {NoRequest})
    BY <2>1, <2>2, <2>6 DEF IndInv, Ownership
  <2>8. \A u, v \in Workers : Holding(u)' /\ request'[u] = request'[v] => u = v
    BY <1>2, <2>2 DEF IndInv, Ownership
  <2>9. QED
    BY <2>1, <2>5, <2>7, <2>8 DEF IndInv, Ownership
<1>8. CASE Initialize \/ NotifyOne \/ BeginDestroy \/ Destroy \/ Tick \/ StepClock
  BY <1>3, <1>8 DEF Initialize, LogonAll, LogonFails, StartWorker, StartFails,
                    AssignFields, NotifyOne, BeginDestroy, Destroy, SetStopFlag,
                    StopFlagArrives,
                    NotifyAll, Join, Tick, StepClock
<1>9. ASSUME NEW w \in Workers,
             \/ TestStopFlag(w) \/ AcquireLock(w) \/ Wait(w) \/ SpuriousWakeup(w)
             \/ Relock(w) \/ Unlock(w) \/ PopFails(w)
             \/ ReadAge(w) \/ CheckAge(w) \/ Process(w) \/ ProcessThrows(w) \/ Reconnect(w)
             \/ SendResult(w) \/ LogToKafka(w)
      PROVE  Ownership'
  BY <1>3, <1>9 DEF TestStopFlag, AcquireLock, Wait, SpuriousWakeup, Relock, Unlock,
                    PopFails, ReadAge, CheckAge, Process, ProcessThrows, Reconnect, SendResult,
                    LogToKafka
<1>10. CASE UNCHANGED vars
  BY <1>3, <1>10 DEF vars
<1>11. QED
  BY <1>4, <1>5, <1>6, <1>7, <1>8, <1>9, <1>10 DEF Next, PushRequest, WorkerStep

\* A settled request has left the queue, and only its own worker settles it.
LEMMA FateStep == IndInv /\ [Next]_vars => FateInv'
<1> SUFFICES ASSUME IndInv, [Next]_vars PROVE FateInv'
  OBVIOUS
<1>0. \A w \in Workers : Holding(w) =>
        /\ request[w] \in Requests /\ request[w] \in heap
        /\ request[w] \notin Queued /\ request[w] # inHand
        /\ \A v \in Workers : v # w => request[v] # request[w]
  BY DEF IndInv, TypeOK, HoldInv, Ownership
<1> USE DEF IndInv, FateInv, Queued, mainVars, workerVars, historyVars, taskVars,
            dataVars, Goto, CallerGoto
<1>1. CASE Initialize
  BY <1>1 DEF Initialize, LogonAll, LogonFails, StartWorker, StartFails, AssignFields,
              TypeOK
<1>2. ASSUME NEW r \in Requests, BuildRequest(r)
      PROVE  FateInv'
  <2>1. /\ fate' = [fate EXCEPT ![r] = "pending"] /\ fate[r] = "unseen"
        /\ heap' = heap \cup {r} /\ queue' = queue /\ pc' = pc /\ request' = request
        /\ inHand' = r /\ fate \in [Requests -> Fates]
    BY <1>2 DEF BuildRequest, TypeOK
  <2>2. \A w \in Workers : Holding(w) => request[w] # r
    BY <1>0, <2>1
  <2>3. \A s \in Requests : s # r => fate'[s] = fate[s]
    BY <2>1
  <2>4. fate'[r] = "pending"
    BY <2>1
  <2>5. heap \subseteq Requests /\ ToSet(queue) \subseteq Requests
    BY DEF TypeOK, ToSet
  <2>6. \A s \in heap' : fate'[s] # "unseen"
    BY <2>1, <2>3, <2>4, <2>5
  <2>7. \A s \in ToSet(queue') \cup ({inHand'} \ {NoRequest}) : fate'[s] = "pending"
    BY <2>1, <2>3, <2>4, <2>5
  <2>8. \A w \in Workers : Holding(w) => fate'[request[w]] = fate[request[w]]
    BY <1>0, <2>2, <2>3
  <2>9. \A s \in Requests : fate'[s] = "pending" => s \in heap'
    BY <2>1, <2>3
  <2>10. QED
    BY <2>1, <2>6, <2>7, <2>8, <2>9 DEF Holding
<1>3. CASE Push
  <2>1. /\ inHand \in Requests /\ inHand # NoRequest /\ inHand' = NoRequest
        /\ ToSet(queue') = ToSet(queue) \cup {inHand}
        /\ UNCHANGED <<heap, request, pc, fate>>
    BY <1>3, AppendElements DEF Push, CallerInv, TypeOK
  <2>2. QED
    BY <2>1
<1>4. ASSUME NEW w \in Workers, Pop(w)
      PROVE  FateInv'
  <2>1. /\ Head(queue) \in ToSet(queue) /\ ToSet(queue') \subseteq ToSet(queue)
        /\ UNCHANGED <<inHand, heap, fate>>
    BY <1>4, PopElements DEF Pop, TypeOK, Ownership
  <2>2. fate[Head(queue)] = "pending"
    BY <2>1
  <2>3. /\ request' = [request EXCEPT ![w] = Head(queue)]
        /\ pc' = [pc EXCEPT ![w] = "aging"]
    BY <1>4 DEF Pop
  <2>4. QED
    BY <2>1, <2>2, <2>3 DEF TypeOK
<1>5. ASSUME NEW w \in Workers, CheckAge(w) \/ ProcessThrows(w) \/ SendResult(w)
      PROVE  FateInv'
  <2> DEFINE r == request[w]
  <2>1. /\ Holding(w)
        /\ UNCHANGED <<queue, inHand, heap, request>>
        /\ fate[r] = "pending"
    BY <1>5 DEF CheckAge, ProcessThrows, SendResult, Holding
  <2>2. CASE CheckAge(w) /\ pc[w] = "fresh"
    BY <2>1, <2>2 DEF CheckAge, TypeOK
  <2>3. ASSUME NEW f \in Fates \ {"unseen", "pending"}, NEW to,
               fate' = [fate EXCEPT ![r] = f], pc' = [pc EXCEPT ![w] = to],
               to \in {"deleting", "reconnecting", "logging"},
               to = "logging" => f \in {"answered", "unsent"},
               to = "reconnecting" => f = "dbError"
        PROVE  FateInv'
    <3>1. \A s \in Requests : s # r => fate'[s] = fate[s]
      BY <2>3
    <3>2. fate'[r] = f /\ pc'[w] = to
      BY <1>0, <2>1, <2>3 DEF TypeOK
    <3>3. heap \subseteq Requests /\ ToSet(queue) \subseteq Requests
      BY DEF TypeOK, ToSet
    <3>4. \A s \in heap : fate'[s] # "unseen"
      BY <3>1, <3>2, <3>3
    <3>5. \A s \in ToSet(queue) \cup ({inHand} \ {NoRequest}) : fate'[s] = "pending"
      BY <1>0, <2>1, <3>1, <3>3 DEF TypeOK
    <3>6. \A v \in Workers \ {w} : pc'[v] = pc[v]
      BY <2>3 DEF TypeOK
    <3>7. \A v \in Workers \ {w} : Holding(v) => fate'[request[v]] = fate[request[v]]
      BY <1>0, <2>1, <3>1
    <3>8. \A s \in Requests : fate'[s] = "pending" => s \in heap
      BY <3>1, <3>2
    <3>9. QED
      BY <2>1, <2>3, <3>2, <3>4, <3>5, <3>6, <3>7, <3>8 DEF Holding
  <2>4. QED
    BY <1>5, <2>2, <2>3 DEF CheckAge, ProcessThrows, SendResult, Fates
<1>6. ASSUME NEW w \in Workers, Process(w) \/ LogToKafka(w) \/ Reconnect(w)
      PROVE  FateInv'
  BY <1>6 DEF Process, LogToKafka, Reconnect, TypeOK
<1>7. ASSUME NEW w \in Workers, DeleteRequest(w)
      PROVE  FateInv'
  <2>1. /\ heap' = heap \ {request[w]} /\ UNCHANGED <<queue, inHand, fate>>
        /\ request' = [request EXCEPT ![w] = NoRequest]
        /\ pc' = [pc EXCEPT ![w] = "popping"] /\ pc[w] = "deleting"
    BY <1>7 DEF DeleteRequest
  <2>2. fate[request[w]] # "pending"
    BY <2>1
  <2>3. QED
    BY <2>1, <2>2 DEF TypeOK
<1>8. CASE NotifyOne \/ BeginDestroy \/ Destroy
  BY <1>8 DEF NotifyOne, BeginDestroy, Destroy, SetStopFlag, StopFlagArrives,
              NotifyAll, Join, Waiters,
              TypeOK
<1>9. ASSUME NEW w \in Workers,
             \/ TestStopFlag(w) \/ AcquireLock(w) \/ Wait(w) \/ SpuriousWakeup(w)
             \/ Relock(w) \/ Unlock(w) \/ PopFails(w) \/ ReadAge(w)
      PROVE  FateInv'
  BY <1>9 DEF TestStopFlag, AcquireLock, Wait, SpuriousWakeup, Relock, Unlock, PopFails,
              ReadAge, TypeOK
<1>10. CASE Tick \/ StepClock \/ UNCHANGED vars
  BY <1>10 DEF Tick, StepClock, vars
<1>11. QED
  BY <1>1, <1>2, <1>3, <1>4, <1>5, <1>6, <1>7, <1>8, <1>9, <1>10
     DEF Next, PushRequest, WorkerStep

\* A CDR is added by the one worker that holds its request, after the answer.
LEMMA CdrStep == IndInv /\ [Next]_vars => CdrInv'
<1> SUFFICES ASSUME IndInv, [Next]_vars PROVE CdrInv'
  OBVIOUS
<1>0. \A w \in Workers : Holding(w) =>
        /\ request[w] \in Requests
        /\ \A v \in Workers : v # w => request[v] # request[w]
  BY DEF IndInv, TypeOK, HoldInv, Ownership
<1>1. \A c \in cdrs : c.request \in Requests /\ fate[c.request] \in {"answered", "unsent"}
  BY DEF IndInv, TypeOK, CdrInv, CdrsAreTrue
<1> USE DEF IndInv, CdrInv, mainVars, workerVars, historyVars, taskVars, dataVars,
            Goto, CallerGoto
<1>2. ASSUME cdrs' = cdrs,
             \A c \in cdrs : fate'[c.request] = fate[c.request],
             \A w \in Workers : pc'[w] = "logging" =>
               /\ request'[w] = request[w]
               /\ pc[w] = "logging" \/ fate[request[w]] \notin {"answered", "unsent"}
      PROVE  CdrInv'
  BY <1>1, <1>2 DEF CdrsAreTrue
<1>3. CASE /\ UNCHANGED <<cdrs, fate, request>>
           /\ \A w \in Workers : pc'[w] = "logging" => pc[w] = "logging"
  BY <1>2, <1>3
<1>4. ASSUME NEW r \in Requests, BuildRequest(r)
      PROVE  CdrInv'
  BY <1>1, <1>2, <1>4 DEF BuildRequest, TypeOK
<1>5. ASSUME NEW w \in Workers, CheckAge(w) \/ ProcessThrows(w) \/ SendResult(w)
      PROVE  CdrInv'
  <2>1. /\ fate[request[w]] = "pending" /\ UNCHANGED <<cdrs, request>>
        /\ \A s \in Requests : s # request[w] => fate'[s] = fate[s]
        /\ \A v \in Workers : v # w => pc'[v] = pc[v]
    BY <1>5 DEF CheckAge, ProcessThrows, SendResult, FateInv, TypeOK
  <2>2. \A c \in cdrs : fate'[c.request] = fate[c.request]
    BY <1>1, <2>1
  <2>3. QED
    BY <1>2, <2>1, <2>2
<1>6. ASSUME NEW w \in Workers, LogToKafka(w)
      PROVE  CdrInv'
  <2> DEFINE r == request[w]
             cdr == CdrOf(r, Kind[r], result[w], fate[r] = "answered")
  <2>1. /\ cdrs' \in {cdrs, cdrs \cup {cdr}} /\ UNCHANGED <<fate, request>>
        /\ pc' = [pc EXCEPT ![w] = "deleting"] /\ pc[w] = "logging"
    BY <1>6 DEF LogToKafka
  <2>2. /\ cdr.request = r
        /\ "responseSendSuccess" \in DOMAIN cdr =>
             (cdr.responseSendSuccess <=> fate[r] = "answered")
    BY DEF CdrOf, SmsCdr, CallCdr
  <2>3. /\ r \in Requests /\ \A v \in Workers : v # w => request[v] # r
        /\ fate[r] \in {"answered", "unsent"}
        /\ \A c \in cdrs : c.request # r
    BY <1>0, <2>1 DEF FateInv, Holding
  <2>4. \A v \in Workers : pc'[v] = "logging" => v # w /\ pc[v] = "logging"
    BY <2>1 DEF TypeOK
  <2>5. CdrsAreTrue'
    <3>1. \A c \in cdrs' : c \in cdrs \/ c = cdr
      BY <2>1
    <3>2. \A c \in cdrs' : fate'[c.request] \in {"answered", "unsent"}
      BY <1>1, <2>1, <2>2, <2>3, <3>1
    <3>3. \A c, d \in cdrs' : d.request = c.request => d = c
      BY <2>2, <2>3, <3>1 DEF CdrsAreTrue
    <3>4. \A c \in cdrs' : "responseSendSuccess" \in DOMAIN c =>
             (c.responseSendSuccess <=> fate'[c.request] = "answered")
      BY <2>1, <2>2, <3>1 DEF CdrsAreTrue
    <3>5. QED
      BY <3>2, <3>3, <3>4 DEF CdrsAreTrue
  <2>6. \A v \in Workers : \A c \in cdrs' : pc'[v] = "logging" => c.request # request'[v]
    BY <2>1, <2>2, <2>3, <2>4
  <2>7. QED
    BY <2>5, <2>6
<1>7. ASSUME NEW w \in Workers, Pop(w) \/ DeleteRequest(w)
      PROVE  CdrInv'
  <2>1. /\ UNCHANGED <<cdrs, fate>>
        /\ \A v \in Workers : pc'[v] = "logging" => pc[v] = "logging" /\ request'[v] = request[v]
    BY <1>7 DEF Pop, DeleteRequest, TypeOK
  <2>2. QED
    BY <1>2, <2>1
<1>8. CASE Initialize \/ Push \/ BeginDestroy \/ Tick \/ StepClock
  BY <1>3, <1>8 DEF Initialize, LogonAll, LogonFails, StartWorker, StartFails,
                    AssignFields, Push, BeginDestroy, Tick, StepClock, TypeOK
<1>9. CASE NotifyOne \/ Destroy
  BY <1>3, <1>9 DEF NotifyOne, Destroy, SetStopFlag, StopFlagArrives, NotifyAll, Join,
                    Waiters, TypeOK
<1>10. ASSUME NEW w \in Workers,
             \/ TestStopFlag(w) \/ AcquireLock(w) \/ Wait(w) \/ SpuriousWakeup(w)
             \/ Relock(w) \/ Unlock(w) \/ PopFails(w) \/ ReadAge(w) \/ Process(w)
             \/ Reconnect(w)
      PROVE  CdrInv'
  BY <1>3, <1>10 DEF TestStopFlag, AcquireLock, Wait, SpuriousWakeup, Relock, Unlock,
                     PopFails, ReadAge, Process, Reconnect, TypeOK
<1>11. CASE UNCHANGED vars
  BY <1>3, <1>11 DEF vars
<1>12. QED
  BY <1>4, <1>5, <1>6, <1>7, <1>8, <1>9, <1>10, <1>11 DEF Next, PushRequest, WorkerStep

\* The initial state satisfies the invariant.
LEMMA InitInd == Init => IndInv
<1> SUFFICES ASSUME Init PROVE IndInv
  OBVIOUS
<1>1. queue = <<>> /\ ToSet(<<>>) = {} /\ IsInjective(<<>>) /\ <<>> \in Seq(Requests)
  BY DEF Init, ToSet, IsInjective
<1>2. TypeOK
  <2>1. 0 \in Time
    BY ClockAssumption DEF Time
  <2>2. QED
    BY <1>1, <2>1 DEF Init, TypeOK, CallerPcs, WorkerPcs, Fates
<1>3. LockInv /\ HoldInv /\ CallerInv
  BY ThreadAssumption DEF Init, LockInv, HoldInv, CallerInv, Holding
<1>4. Ownership /\ FateInv /\ CdrInv
  BY <1>1 DEF Init, Ownership, Queued, FateInv, CdrInv, CdrsAreTrue, Holding
<1>5. QED
  BY <1>2, <1>3, <1>4 DEF IndInv

\* Every step of every thread and of the clock preserves the invariant.
LEMMA NextInd == IndInv /\ [Next]_vars => IndInv'
  BY TypeStep, LockStep, HoldStep, CallerStep, OwnershipStep, FateStep, CdrStep DEF IndInv

-----------------------------------------------------------------------------
(* The theorems.                                                           *)

\* IndInv holds in every reachable state of the pool.
THEOREM IndInvariant == Spec => []IndInv
  BY InitInd, NextInd, PTL DEF Spec

\* Every variable of the pool keeps its type, whatever the number of threads.
THEOREM TypeCorrect == Spec => []TypeOK
<1>1. IndInv => TypeOK
  BY DEF IndInv
<1>2. QED
  BY <1>1, IndInvariant, PTL

\* No request is handled twice, used after delete or lost, however the main
\* thread's push and the workers' pops and deletes interleave.
THEOREM OwnershipHolds == Spec => []Ownership
<1>1. IndInv => Ownership
  BY DEF IndInv
<1>2. QED
  BY <1>1, IndInvariant, PTL

\* Although Initialize starts the threads before it assigns udpSocket and
\* kafkaProducer, no worker handles a request before the assignment.
THEOREM InitializedBeforeUse == Spec => []NoUseBeforeInit
<1>1. IndInv => NoUseBeforeInit
  BY DEF IndInv, CallerInv, NoUseBeforeInit
<1>2. QED
  BY <1>1, IndInvariant, PTL

\* No request is charged twice or without an attempt to answer it, and the SMS
\* CDR tells the truth about that attempt.
THEOREM CdrsTruthful == Spec => []CdrsAreTrue
<1>1. IndInv => CdrsAreTrue
  BY DEF IndInv, CdrInv
<1>2. QED
  BY <1>1, IndInvariant, PTL

-----------------------------------------------------------------------------
(* How requests get stranded.                                              *)

\* A step that leaves requests on the queue with nobody to look for them is
\* a notify_one, and no worker was waiting for it.
LEMMA StrandedStep ==
  ASSUME IndInv, [Next]_vars, ~Stranded, Stranded'
  PROVE  caller = "pushed" /\ \A w \in Workers : InWindow(w)
<1> USE DEF Stranded, Awake, mainVars, workerVars, historyVars, taskVars, dataVars,
            Goto, CallerGoto
<1>1. NotifyOne
  <2>1. CASE Initialize
    BY <2>1 DEF Initialize, LogonAll, LogonFails, StartWorker, StartFails, AssignFields,
                IndInv, TypeOK
  <2>2. CASE (\E r \in Requests : BuildRequest(r)) \/ Push \/ BeginDestroy
    BY <2>2 DEF BuildRequest, Push, BeginDestroy
  <2>3. CASE Destroy
    BY <2>3 DEF Destroy, SetStopFlag, StopFlagArrives, NotifyAll, Join, Waiters,
                IndInv, TypeOK
  <2>4. ASSUME NEW w \in Workers,
               \/ TestStopFlag(w) \/ AcquireLock(w) \/ Wait(w) \/ SpuriousWakeup(w)
               \/ Relock(w) \/ Unlock(w) \/ Pop(w) \/ PopFails(w)
        PROVE  FALSE
    BY <2>4 DEF TestStopFlag, AcquireLock, Wait, SpuriousWakeup, Relock, Unlock, Pop,
                PopFails, IndInv, TypeOK
  <2>5. ASSUME NEW w \in Workers,
               \/ ReadAge(w) \/ CheckAge(w) \/ Process(w) \/ ProcessThrows(w)
               \/ Reconnect(w) \/ SendResult(w) \/ LogToKafka(w) \/ DeleteRequest(w)
        PROVE  FALSE
    BY <2>5 DEF ReadAge, CheckAge, Process, ProcessThrows, Reconnect, SendResult, LogToKafka,
                DeleteRequest, IndInv, TypeOK
  <2>6. CASE Tick \/ StepClock \/ UNCHANGED vars
    BY <2>6 DEF Tick, StepClock, vars
  <2>7. QED
    BY <2>1, <2>2, <2>3, <2>4, <2>5, <2>6 DEF Next, PushRequest, WorkerStep
<1>2. Waiters = {}
  <2>1. SUFFICES ASSUME NEW w \in Waiters, pc' = [pc EXCEPT ![w] = "woken"]
                 PROVE  FALSE
    BY <1>1 DEF NotifyOne
  <2>2. w \in Workers /\ pc'[w] = "woken"
    BY <2>1 DEF Waiters, IndInv, TypeOK
  <2>3. QED
    BY <2>2
<1>3. \A w \in Workers : pc'[w] = pc[w]
  BY <1>1, <1>2 DEF NotifyOne
<1>4. \A w \in Workers : pc[w] \notin {"unborn", "exited", "waiting"}
  BY <1>1, <1>2 DEF NotifyOne, Waiters, IndInv, CallerInv
<1>5. \A w \in Workers : InWindow(w)
  BY <1>3, <1>4 DEF InWindow, IndInv, TypeOK, WorkerPcs
<1>6. QED
  BY <1>1, <1>5 DEF NotifyOne

\* Requests get stranded by a lost notification and in no other way: not by
\* shutdown, a failing database, discarded requests or any number of workers.
THEOREM OnlyLostNotifyStrands == Spec => StrandedOnlyByLostNotify
<1>1. IndInv /\ [Next]_vars =>
        [~Stranded /\ Stranded' =>
           caller = "pushed" /\ \A w \in Workers : InWindow(w)]_vars
  BY StrandedStep
<1>2. QED
  BY <1>1, IndInvariant, PTL DEF Spec, StrandedOnlyByLostNotify

-----------------------------------------------------------------------------
(* The end of the pool.                                                    *)

\* Once ~ConnectionPool has returned, no worker thread is left.
GoneInv == caller = "gone" => \A w \in Workers : pc[w] \in {"unborn", "exited"}

\* Only Join gets there, and then no thread is started, woken or running.
LEMMA GoneStep == IndInv /\ GoneInv /\ [Next]_vars => GoneInv'
<1> SUFFICES ASSUME IndInv, GoneInv, [Next]_vars PROVE GoneInv'
  OBVIOUS
<1> USE DEF GoneInv, mainVars, workerVars, historyVars, taskVars, dataVars, Goto, CallerGoto
<1>1. CASE Initialize \/ (\E r \in Requests : BuildRequest(r)) \/ PushRequest \/ BeginDestroy
  BY <1>1 DEF Initialize, LogonAll, LogonFails, StartWorker, StartFails, AssignFields,
              BuildRequest, PushRequest, Push, NotifyOne, BeginDestroy
<1>2. CASE Destroy
  BY <1>2 DEF Destroy, SetStopFlag, StopFlagArrives, NotifyAll, Join
<1>3. ASSUME NEW w \in Workers,
             \/ TestStopFlag(w) \/ AcquireLock(w) \/ Wait(w) \/ SpuriousWakeup(w)
             \/ Relock(w) \/ Unlock(w) \/ Pop(w) \/ PopFails(w)
      PROVE  GoneInv'
  BY <1>3 DEF TestStopFlag, AcquireLock, Wait, SpuriousWakeup, Relock, Unlock, Pop, PopFails
<1>4. ASSUME NEW w \in Workers,
             \/ ReadAge(w) \/ CheckAge(w) \/ Process(w) \/ ProcessThrows(w)
             \/ Reconnect(w) \/ SendResult(w) \/ LogToKafka(w) \/ DeleteRequest(w)
      PROVE  GoneInv'
  BY <1>4 DEF ReadAge, CheckAge, Process, ProcessThrows, Reconnect, SendResult, LogToKafka,
              DeleteRequest
<1>5. CASE Tick \/ StepClock \/ UNCHANGED vars
  BY <1>5 DEF Tick, StepClock, vars
<1>6. QED
  BY <1>1, <1>2, <1>3, <1>4, <1>5 DEF Next, WorkerStep

\* Whatever the workers were doing when the destructor began, it does not return
\* before the last of them has exited.
LEMMA GoneInvariant == Spec => []GoneInv
<1>1. Init => GoneInv
  BY DEF Init, GoneInv
<1>2. QED
  BY <1>1, GoneStep, IndInvariant, PTL DEF Spec

\* Who has no thread holds no request: what is allocated then is queued.
LEMMA GoneLeaves == IndInv /\ GoneInv => LeavesOnlyQueued
<1> SUFFICES ASSUME IndInv, GoneInv, caller = "gone"
             PROVE  heap = Queued /\ \A r \in Requests : fate[r] = "pending" <=> r \in Queued
  BY DEF LeavesOnlyQueued
<1>1. inHand = NoRequest
  BY DEF IndInv, CallerInv
<1>2. \A w \in Workers : request[w] = NoRequest
  BY DEF GoneInv, IndInv, HoldInv, Holding
<1>3. NoRequest \notin Queued
  <2>1. queue \in Seq(Requests)
    BY DEF IndInv, TypeOK
  <2>2. \A i \in DOMAIN queue : queue[i] \in Requests
    BY <2>1, LenProperties, ElementOfSeq
  <2>3. QED
    BY <2>2, ThreadAssumption DEF Queued, ToSet
<1>4. heap = ({inHand} \cup Queued \cup {request[w] : w \in Workers}) \ {NoRequest}
  BY DEF IndInv, Ownership
<1>5. heap = Queued
  BY <1>1, <1>2, <1>3, <1>4
<1>6. \A r \in Queued : fate[r] = "pending"
  BY DEF IndInv, FateInv, Queued
<1>7. \A r \in Requests : fate[r] = "pending" => r \in heap
  BY DEF IndInv, FateInv
<1>8. QED
  BY <1>5, <1>6, <1>7

\* ~ConnectionPool interrupts no request: when it returns, each has met its fate and
\* is deleted, or is still queued.
THEOREM OnlyQueuedIsLeft == Spec => []LeavesOnlyQueued
  BY IndInvariant, GoneInvariant, GoneLeaves, PTL

\* Every notify_one finds a worker that is waiting or will look at the queue again.
EveryNotifyArrives ==
  [][caller = "pushed" /\ caller' # "pushed" => \E w \in Workers : ~InWindow(w)]_vars

\* A lost notification is all it takes to lose a request at shutdown, and nothing
\* else does: if none was lost, every accepted request has met its fate when
\* ~ConnectionPool returns, and no ClientRequest is left allocated.
THEOREM ShutdownDrains ==
  Spec /\ EveryNotifyArrives =>
    [](caller = "gone" => heap = {} /\ \A r \in Requests : fate[r] # "pending")
<1>1. Init => ~Stranded
  BY DEF Init, Stranded
<1>2. ASSUME IndInv, ~Stranded, [Next]_vars,
             [caller = "pushed" /\ caller' # "pushed" => \E w \in Workers : ~InWindow(w)]_vars
      PROVE  ~(Stranded')
  <2>1. CASE UNCHANGED vars
    BY <1>2, <2>1 DEF vars, Stranded, Awake, mainVars, workerVars, dataVars
  <2>2. CASE Next /\ ~UNCHANGED vars
    <3>1. SUFFICES ASSUME Stranded' PROVE FALSE
      OBVIOUS
    <3>2. caller = "pushed" /\ \A w \in Workers : InWindow(w)
      BY <1>2, <3>1, StrandedStep
    <3>3. caller' # "pushed"
      BY <3>1 DEF Stranded
    <3>4. QED
      BY <1>2, <2>2, <3>2, <3>3
  <2>3. QED
    BY <1>2, <2>1, <2>2
<1>3. ASSUME IndInv, GoneInv, ~Stranded, caller = "gone"
      PROVE  heap = {} /\ \A r \in Requests : fate[r] # "pending"
  <2>1. queue = <<>>
    BY <1>3 DEF Stranded, GoneInv, Awake
  <2>2. Queued = {}
    BY <2>1 DEF Queued, ToSet
  <2>3. QED
    BY <1>3, <2>2, GoneLeaves DEF LeavesOnlyQueued
<1>4. QED
  BY <1>1, <1>2, <1>3, IndInvariant, GoneInvariant, PTL DEF Spec, EveryNotifyArrives

\* No step of the main thread, of a worker or of the clock puts a worker back to
\* sleep when all are on their way out.
LEMMA WayOutStep == IndInv /\ [Next]_vars /\ WayOut => WayOut'
<1> SUFFICES ASSUME IndInv, [Next]_vars, WayOut PROVE WayOut'
  OBVIOUS
<1> USE DEF WayOut, CommittedToWait, Waiters, mainVars, workerVars, historyVars, taskVars,
            dataVars, Goto, CallerGoto
<1>1. CASE Initialize \/ (\E r \in Requests : BuildRequest(r)) \/ PushRequest \/ BeginDestroy
  BY <1>1 DEF Initialize, LogonAll, LogonFails, StartWorker, StartFails, AssignFields,
              BuildRequest, PushRequest, Push, NotifyOne, BeginDestroy
<1>2. CASE SetStopFlag \/ StopFlagArrives
  BY <1>2 DEF SetStopFlag, StopFlagArrives
<1>3. CASE NotifyAll
  <2>1. \A w \in Workers : pc'[w] = IF pc[w] = "waiting" THEN "woken" ELSE pc[w]
    BY <1>3 DEF NotifyAll
  <2>2. caller' = "joining" /\ stopFlag'
    BY <1>3 DEF NotifyAll
  <2>3. QED
    BY <2>1, <2>2
<1>4. CASE Join
  BY <1>4 DEF Join
<1>5. ASSUME NEW w \in Workers,
             \/ TestStopFlag(w) \/ AcquireLock(w) \/ Wait(w) \/ SpuriousWakeup(w)
             \/ Relock(w) \/ Unlock(w) \/ Pop(w) \/ PopFails(w)
      PROVE  WayOut'
  <2>1. /\ caller' = caller /\ stopFlag' = stopFlag
        /\ \E pl \in {"exited", "woken", "relocked", "popping", "aging", "top"} :
             pc' = [pc EXCEPT ![w] = pl]
    BY <1>5 DEF TestStopFlag, AcquireLock, Wait, SpuriousWakeup, Relock, Unlock, Pop, PopFails
  <2>2. QED
    BY <2>1 DEF IndInv, TypeOK
<1>6. ASSUME NEW w \in Workers,
             \/ ReadAge(w) \/ CheckAge(w) \/ Process(w) \/ ProcessThrows(w)
             \/ Reconnect(w) \/ SendResult(w) \/ LogToKafka(w) \/ DeleteRequest(w)
      PROVE  WayOut'
  <2>1. /\ caller' = caller /\ stopFlag' = stopFlag
        /\ \E pl \in {"fresh", "tooOld", "processing", "deleting", "sending",
                     "reconnecting", "logging", "popping"} :
             pc' = [pc EXCEPT ![w] = pl]
    BY <1>6 DEF ReadAge, CheckAge, Process, ProcessThrows, Reconnect, SendResult, LogToKafka,
                DeleteRequest
  <2>2. QED
    BY <2>1 DEF IndInv, TypeOK
<1>7. CASE Tick \/ StepClock \/ UNCHANGED vars
  BY <1>7 DEF Tick, StepClock, vars
<1>8. QED
  BY <1>1, <1>2, <1>3, <1>4, <1>5, <1>6, <1>7 DEF Next, WorkerStep, Destroy

\* When every worker is on its way out nothing stops it, for every number of workers and of
\* requests still queued.
THEOREM WayOutStays == Spec => NobodyFallsAsleep
<1>1. IndInv /\ [Next]_vars => [WayOut => WayOut']_vars
  BY WayOutStep
<1>2. QED
  BY <1>1, IndInvariant, PTL DEF Spec, NobodyFallsAsleep

-----------------------------------------------------------------------------
(* Discarding by age.                                                      *)

\* While the clock is not set, a request whose age was read as too old, and one that
\* was discarded for it, is too old ever after.
AgeInv ==
  /\ \A w \in Workers :
       pc[w] = "tooOld" => clock >= accepted[request[w]] + MaxRequestAge
  /\ \A r \in Requests : fate[r] = "discarded" => clock >= accepted[r] + MaxRequestAge

\* Time only passes, and a request is stamped once, before any worker holds it.
LEMMA AgeStep ==
  ASSUME ClockMayStep = FALSE, IndInv, AgeInv, [Next]_vars
  PROVE  AgeInv'
<1>0. \A w \in Workers : pc[w] = "tooOld" =>
        request[w] \in Requests /\ fate[request[w]] = "pending"
  BY DEF IndInv, TypeOK, HoldInv, Holding, FateInv
<1> USE DEF AgeInv, IndInv, TypeOK, Time, mainVars, workerVars, historyVars, taskVars,
            dataVars, Goto, CallerGoto
<1>1. ASSUME UNCHANGED <<accepted, fate, clock>>,
             \A w \in Workers : pc'[w] = "tooOld" => pc[w] = "tooOld" /\ request'[w] = request[w]
      PROVE  AgeInv'
  BY <1>1
<1>2. ASSUME NEW r \in Requests, BuildRequest(r)
      PROVE  AgeInv'
  <2>1. /\ fate[r] = "unseen" /\ UNCHANGED <<clock, pc, request>>
        /\ fate' = [fate EXCEPT ![r] = "pending"]
        /\ \A s \in Requests : s # r => accepted'[s] = accepted[s]
    BY <1>2 DEF BuildRequest
  <2>2. \A w \in Workers : pc[w] = "tooOld" => request[w] # r
    BY <1>0, <2>1
  <2>3. QED
    BY <1>0, <2>1, <2>2
<1>3. ASSUME NEW w \in Workers, ReadAge(w)
      PROVE  AgeInv'
  <2>1. /\ request[w] \in Requests /\ UNCHANGED <<accepted, fate, clock, request>>
        /\ pc' = [pc EXCEPT ![w] = IF Fresh(request[w]) THEN "fresh" ELSE "tooOld"]
    BY <1>3 DEF ReadAge, HoldInv, Holding
  <2>2. CASE Fresh(request[w])
    BY <2>1, <2>2
  <2>3. CASE ~Fresh(request[w])
    <3>1. clock >= accepted[request[w]] + MaxRequestAge
      BY <2>1, <2>3, ClockAssumption DEF Fresh
    <3>2. QED
      BY <2>1, <2>3, <3>1
  <2>4. QED
    BY <2>2, <2>3
<1>4. ASSUME NEW w \in Workers, CheckAge(w)
      PROVE  AgeInv'
  <2>1. /\ UNCHANGED <<accepted, clock, request>>
        /\ \A v \in Workers : pc'[v] = "tooOld" => pc[v] = "tooOld"
    BY <1>4 DEF CheckAge
  <2>2. CASE fate' = fate
    BY <1>1, <2>1, <2>2
  <2>3. CASE pc[w] = "tooOld" /\ fate' = [fate EXCEPT ![request[w]] = "discarded"]
    BY <1>0, <2>1, <2>3
  <2>4. QED
    BY <1>4, <2>2, <2>3 DEF CheckAge
<1>5. ASSUME NEW w \in Workers, ProcessThrows(w) \/ SendResult(w)
      PROVE  AgeInv'
  <2>1. /\ UNCHANGED <<accepted, clock, request>>
        /\ \A v \in Workers : pc'[v] = "tooOld" => pc[v] = "tooOld"
        /\ \E f \in {"dbError", "answered", "unsent"} :
             fate' = [fate EXCEPT ![request[w]] = f]
    BY <1>5 DEF ProcessThrows, SendResult
  <2>2. QED
    BY <2>1
<1>6. CASE Tick \/ StepClock
  BY <1>0, <1>6, ClockAssumption DEF Tick, StepClock
<1>7. CASE Initialize \/ PushRequest \/ BeginDestroy \/ Destroy
  BY <1>1, <1>7 DEF Initialize, LogonAll, LogonFails, StartWorker, StartFails,
                    AssignFields, PushRequest, Push, NotifyOne, BeginDestroy, Destroy,
                    SetStopFlag, StopFlagArrives, NotifyAll, Join, Waiters
<1>8. ASSUME NEW w \in Workers,
             \/ TestStopFlag(w) \/ AcquireLock(w) \/ Wait(w) \/ SpuriousWakeup(w)
             \/ Relock(w) \/ Unlock(w) \/ Pop(w) \/ PopFails(w)
             \/ Process(w) \/ Reconnect(w) \/ LogToKafka(w) \/ DeleteRequest(w)
      PROVE  AgeInv'
  BY <1>1, <1>8 DEF TestStopFlag, AcquireLock, Wait, SpuriousWakeup, Relock, Unlock,
                    Pop, PopFails, Process, Reconnect, LogToKafka, DeleteRequest
<1>9. CASE UNCHANGED vars
  BY <1>1, <1>9 DEF vars
<1>10. QED
  BY <1>2, <1>3, <1>4, <1>5, <1>6, <1>7, <1>8, <1>9 DEF Next, WorkerStep

\* A discarded request is too old, and who still holds it is about to delete it.
LEMMA DiscardedIsExpired ==
  IndInv /\ AgeInv => \A r \in Requests : fate[r] = "discarded" => Expired(r)
<1> SUFFICES ASSUME IndInv, AgeInv, NEW r \in Requests, fate[r] = "discarded"
             PROVE  Expired(r)
  OBVIOUS
<1>1. ASSUME NEW w \in Workers, request[w] = r
      PROVE  pc[w] = "deleting"
  <2>1. Holding(w)
    BY <1>1, ThreadAssumption DEF IndInv, HoldInv
  <2>2. QED
    BY <1>1, <2>1 DEF Holding, IndInv, FateInv
<1>2. QED
  BY <1>1 DEF Expired, AgeInv

\* No step of any thread or of a clock that is not set makes an expired request fresh,
\* starts processing it or answers it.
LEMMA ExpiredStep ==
  ASSUME ClockMayStep = FALSE, IndInv, [Next]_vars, NEW r \in Requests, Expired(r)
  PROVE  Expired(r)'
<1>0. /\ r # NoRequest
      /\ accepted[r] \in Nat /\ clock \in Nat /\ MaxRequestAge \in Nat
      /\ \A w \in Workers : Holding(w) => request[w] \in Requests
      /\ \A w \in Workers : Holding(w) <=> request[w] # NoRequest
  BY ThreadAssumption, ClockAssumption DEF IndInv, TypeOK, HoldInv, Time
<1> USE DEF Expired, IndInv, TypeOK, mainVars, workerVars, historyVars, taskVars,
            dataVars, Goto, CallerGoto
<1>1. ASSUME UNCHANGED <<accepted, fate, clock>>,
             \A w \in Workers : request'[w] = r =>
               pc'[w] \in {"aging", "tooOld", "deleting"}
      PROVE  Expired(r)'
  BY <1>1
<1>2. ASSUME NEW s \in Requests, BuildRequest(s)
      PROVE  Expired(r)'
  <2>1. s # r /\ UNCHANGED <<clock, pc, request>>
    BY <1>2 DEF BuildRequest
  <2>2. fate'[r] = fate[r] /\ accepted'[r] = accepted[r]
    BY <1>2, <2>1 DEF BuildRequest
  <2>3. QED
    BY <2>1, <2>2
<1>3. ASSUME NEW w \in Workers, ReadAge(w)
      PROVE  Expired(r)'
  <2>1. /\ UNCHANGED <<accepted, fate, clock, request>>
        /\ pc' = [pc EXCEPT ![w] = IF Fresh(request[w]) THEN "fresh" ELSE "tooOld"]
    BY <1>3 DEF ReadAge
  <2>2. ~Fresh(r)
    BY <1>0 DEF Fresh
  <2>3. \A v \in Workers : request'[v] = r => pc'[v] \in {"aging", "tooOld", "deleting"}
    BY <2>1, <2>2
  <2>4. QED
    BY <1>1, <2>1, <2>3
<1>4. ASSUME NEW w \in Workers, CheckAge(w)
      PROVE  Expired(r)'
  <2>1. UNCHANGED <<accepted, clock, request>>
    BY <1>4 DEF CheckAge
  <2>2. CASE pc[w] = "fresh" /\ pc' = [pc EXCEPT ![w] = "processing"] /\ fate' = fate
    BY <1>1, <2>1, <2>2
  <2>3. CASE /\ pc' = [pc EXCEPT ![w] = "deleting"]
             /\ fate' = [fate EXCEPT ![request[w]] = "discarded"]
    BY <2>1, <2>3
  <2>4. QED
    BY <1>4, <2>2, <2>3 DEF CheckAge
<1>5. ASSUME NEW w \in Workers, ProcessThrows(w) \/ SendResult(w)
      PROVE  Expired(r)'
  <2>1. /\ request[w] # r /\ UNCHANGED <<accepted, clock, request>>
        /\ \A v \in Workers : v # w => pc'[v] = pc[v]
    BY <1>5 DEF ProcessThrows, SendResult
  <2>2. fate'[r] = fate[r]
    BY <1>5, <2>1 DEF ProcessThrows, SendResult
  <2>3. QED
    BY <2>1, <2>2
<1>6. CASE Tick \/ StepClock
  BY <1>0, <1>6 DEF Tick, StepClock
<1>7. CASE Initialize \/ PushRequest \/ BeginDestroy \/ Destroy
  <2>1. /\ UNCHANGED <<accepted, fate, clock, request>>
        /\ \A w \in Workers : pc'[w] = pc[w] \/ pc[w] \in {"unborn", "waiting"}
    BY <1>7 DEF Initialize, LogonAll, LogonFails, StartWorker, StartFails, AssignFields,
                PushRequest, Push, NotifyOne, BeginDestroy, Destroy, SetStopFlag,
                StopFlagArrives, NotifyAll, Join, Waiters
  <2>2. QED
    BY <1>1, <2>1
<1>8. ASSUME NEW w \in Workers,
             \/ TestStopFlag(w) \/ AcquireLock(w) \/ Wait(w) \/ SpuriousWakeup(w)
             \/ Relock(w) \/ Unlock(w) \/ PopFails(w)
             \/ Process(w) \/ Reconnect(w) \/ LogToKafka(w)
      PROVE  Expired(r)'
  <2>1. /\ UNCHANGED <<accepted, fate, clock, request>>
        /\ pc[w] \notin {"aging", "tooOld", "deleting"}
        /\ \A v \in Workers : v # w => pc'[v] = pc[v]
    BY <1>8 DEF TestStopFlag, AcquireLock, Wait, SpuriousWakeup, Relock, Unlock,
                PopFails, Process, Reconnect, LogToKafka
  <2>2. QED
    BY <1>1, <2>1
<1>9. ASSUME NEW w \in Workers, Pop(w) \/ DeleteRequest(w)
      PROVE  Expired(r)'
  <2>1. /\ UNCHANGED <<accepted, fate, clock>>
        /\ \A v \in Workers : v # w => pc'[v] = pc[v] /\ request'[v] = request[v]
        /\ pc'[w] = "aging" \/ request'[w] = NoRequest
    BY <1>9 DEF Pop, DeleteRequest
  <2>2. QED
    BY <1>0, <1>1, <2>1
<1>10. CASE UNCHANGED vars
  BY <1>1, <1>10 DEF vars
<1>11. QED
  BY <1>2, <1>3, <1>4, <1>5, <1>6, <1>7, <1>8, <1>9, <1>10 DEF Next, WorkerStep

\* As long as nobody sets the clock, a request that is too old before a worker reads
\* its age is never processed or answered, whenever the workers are preempted between
\* that reading and what follows from it; and nothing else is discarded.
THEOREM ExpiredStaysUnprocessed ==
  ASSUME ClockMayStep = FALSE
  PROVE  Spec => ExpiredIsNotProcessed
<1>1. Init => AgeInv
  BY DEF Init, AgeInv
<1>2. IndInv /\ AgeInv /\ [Next]_vars => AgeInv'
  BY AgeStep
<1>3. ASSUME IndInv, [Next]_vars,
             (\A r \in Requests : fate[r] = "discarded" => Expired(r))'
      PROVE  [\A r \in Requests : Expired(r) \/ fate'[r] = "discarded" => Expired(r)']_vars
  BY <1>3, ExpiredStep
<1>4. QED
  BY <1>1, <1>2, <1>3, DiscardedIsExpired, IndInvariant, PTL
     DEF Spec, ExpiredIsNotProcessed

-----------------------------------------------------------------------------
(* The pool implements RequestService.                                     *)

\* Every step of the pool is a step of the service or changes nothing of it.
LEMMA ServiceStep == IndInv /\ [Next]_vars => [Service!Next]_(Service!vars)
<1> SUFFICES ASSUME IndInv, [Next]_vars PROVE [Service!Next]_(Service!vars)
  OBVIOUS
<1> DEFINE status(r) == Life(r)
           statusOf == [r \in Requests |-> status(r)]
           charged == {c.request : c \in cdrs}
<1>0. \A w \in Workers : Holding(w) => request[w] \in Requests /\ request[w] \in heap
  BY DEF IndInv, TypeOK, HoldInv, Ownership
<1> USE DEF mainVars, workerVars, historyVars, taskVars, dataVars, Goto, CallerGoto, Life
<1>1. CASE UNCHANGED <<fate, heap, cdrs>>
  BY <1>1 DEF Service!vars
<1>2. ASSUME NEW r \in Requests, BuildRequest(r)
      PROVE  Service!Accept(r)
  <2>1. /\ fate[r] = "unseen" /\ fate' = [fate EXCEPT ![r] = "pending"]
        /\ heap' = heap \cup {r} /\ cdrs' = cdrs
    BY <1>2 DEF BuildRequest
  <2>2. \A s \in Requests : status(s)' = IF s = r THEN "pending" ELSE status(s)
    BY <2>1 DEF IndInv, TypeOK
  <2>3. statusOf' = [statusOf EXCEPT ![r] = "pending"]
    BY <2>2
  <2>4. QED
    BY <2>1, <2>3 DEF Service!Accept, Service!Move
<1>3. ASSUME NEW w \in Workers,
             ProcessThrows(w) \/ SendResult(w) \/ (CheckAge(w) /\ pc[w] = "tooOld")
      PROVE  Service!Settle(request[w])
  <2> DEFINE r == request[w]
  <2>1. /\ r \in Requests /\ r \in heap /\ fate[r] = "pending"
        /\ heap' = heap /\ cdrs' = cdrs
    BY <1>0, <1>3 DEF ProcessThrows, SendResult, CheckAge, Holding, IndInv, FateInv
  <2>2. PICK f \in Service!Final : fate' = [fate EXCEPT ![r] = f]
    BY <1>3 DEF ProcessThrows, SendResult, CheckAge, Service!Final
  <2>3. \A s \in Requests : status(s)' = IF s = r THEN f ELSE status(s)
    BY <2>1, <2>2 DEF IndInv, TypeOK
  <2>4. statusOf' = [statusOf EXCEPT ![r] = f]
    BY <2>3
  <2>5. QED
    BY <2>1, <2>2, <2>4 DEF Service!Settle, Service!Move
<1>4. ASSUME NEW w \in Workers, LogToKafka(w)
      PROVE  Service!Charge(request[w]) \/ UNCHANGED Service!vars
  <2> DEFINE r == request[w]
             cdr == CdrOf(r, Kind[r], result[w], fate[r] = "answered")
  <2>1. /\ r \in Requests /\ r \in heap /\ fate[r] \in {"answered", "unsent"}
        /\ heap' = heap /\ fate' = fate
        /\ cdrs' \in {cdrs, cdrs \cup {cdr}}
    BY <1>0, <1>4 DEF LogToKafka, Holding, IndInv, FateInv
  <2>2. cdr.request = r
    BY DEF CdrOf, SmsCdr, CallCdr
  <2>3. CASE cdrs' = cdrs
    BY <1>1, <2>1, <2>3 DEF Service!vars
  <2>4. CASE cdrs' = cdrs \cup {cdr}
    <3>1. r \notin charged
      BY <1>4 DEF LogToKafka, IndInv, CdrInv
    <3>2. charged' = charged \cup {r}
      BY <2>2, <2>4
    <3>3. statusOf' = statusOf /\ statusOf[r] \in {"answered", "unsent"}
      BY <2>1
    <3>4. QED
      BY <3>1, <3>2, <3>3 DEF Service!Charge
  <2>5. QED
    BY <2>1, <2>3, <2>4
<1>5. ASSUME NEW w \in Workers, DeleteRequest(w)
      PROVE  Service!Forget(request[w])
  <2> DEFINE r == request[w]
  <2>1. /\ r \in Requests /\ r \in heap /\ fate[r] \in Service!Final
        /\ heap' = heap \ {r} /\ fate' = fate /\ cdrs' = cdrs
    BY <1>0, <1>5 DEF DeleteRequest, Holding, IndInv, FateInv, TypeOK, Fates,
                      Service!Final
  <2>2. \A s \in Requests : status(s)' = IF s = r THEN "forgotten" ELSE status(s)
    BY <2>1 DEF Service!Final
  <2>3. statusOf' = [statusOf EXCEPT ![r] = "forgotten"]
    BY <2>2
  <2>4. statusOf[r] = fate[r]
    BY <2>1
  <2>5. QED
    BY <2>1, <2>3, <2>4 DEF Service!Forget, Service!Move
<1>6. ASSUME NEW w \in Workers, CheckAge(w), pc[w] = "fresh"
      PROVE  UNCHANGED Service!vars
  BY <1>1, <1>6 DEF CheckAge, Service!vars
<1>7. CASE Initialize \/ PushRequest \/ BeginDestroy \/ Destroy \/ Tick \/ StepClock
  BY <1>1, <1>7 DEF Initialize, LogonAll, LogonFails, StartWorker, StartFails,
                    AssignFields, PushRequest, Push, NotifyOne, BeginDestroy, Destroy,
                    SetStopFlag, StopFlagArrives, NotifyAll, Join, Tick, StepClock
<1>8. ASSUME NEW w \in Workers,
             \/ TestStopFlag(w) \/ AcquireLock(w) \/ Wait(w) \/ SpuriousWakeup(w)
             \/ Relock(w) \/ Unlock(w) \/ Pop(w) \/ PopFails(w)
             \/ ReadAge(w) \/ Process(w) \/ Reconnect(w)
      PROVE  [Service!Next]_(Service!vars)
  BY <1>1, <1>8 DEF TestStopFlag, AcquireLock, Wait, SpuriousWakeup, Relock, Unlock,
                    Pop, PopFails, ReadAge, Process, Reconnect
<1>9. CASE UNCHANGED vars
  BY <1>1, <1>9 DEF vars
<1>10. ASSUME NEW r \in Requests,
              Service!Accept(r) \/ Service!Settle(r) \/ Service!Charge(r) \/ Service!Forget(r)
       PROVE  Service!Next
  BY <1>10 DEF Service!Next
<1>11. ASSUME NEW w \in Workers, WorkerStep(w) \/ SpuriousWakeup(w)
       PROVE  [Service!Next]_(Service!vars)
  <2>1. CASE Holding(w)
    <3>1. request[w] \in Requests
      BY <1>0, <2>1
    <3>2. CASE ProcessThrows(w) \/ SendResult(w) \/ (CheckAge(w) /\ pc[w] = "tooOld")
      BY <1>3, <1>10, <3>1, <3>2
    <3>3. CASE LogToKafka(w)
      <4>1. Service!Charge(request[w]) \/ UNCHANGED Service!vars
        BY <1>4, <3>3
      <4>2. CASE Service!Charge(request[w])
        BY <3>1, <4>2 DEF Service!Next, Service!Charge
      <4>3. CASE UNCHANGED Service!vars
        BY <4>3
      <4>4. QED
        BY <4>1, <4>2, <4>3
    <3>4. CASE DeleteRequest(w)
      BY <1>5, <1>10, <3>1, <3>4
    <3>5. CASE CheckAge(w) /\ pc[w] = "fresh"
      BY <1>6, <3>5
    <3>6. CASE \/ TestStopFlag(w) \/ AcquireLock(w) \/ Wait(w) \/ SpuriousWakeup(w)
               \/ Relock(w) \/ Unlock(w) \/ Pop(w) \/ PopFails(w)
               \/ ReadAge(w) \/ Process(w) \/ Reconnect(w)
      BY <1>8, <3>6
    <3>7. CheckAge(w) => pc[w] \in {"fresh", "tooOld"}
      BY DEF CheckAge
    <3>8. QED
      BY <1>11, <3>2, <3>3, <3>4, <3>5, <3>6, <3>7 DEF WorkerStep
  <2>2. CASE ~Holding(w)
    BY <1>8, <1>11, <2>2 DEF WorkerStep, Holding, CheckAge, ProcessThrows, SendResult,
                             LogToKafka, DeleteRequest
  <2>3. QED
    BY <2>1, <2>2
<1>12. QED
  BY <1>2, <1>7, <1>9, <1>10, <1>11 DEF Next

\* Threads, queue, mutex and clock are invisible to a client: whatever they do,
\* each request is accepted, settled, charged and forgotten as RequestService
\* prescribes.
THEOREM PoolImplementsService == Spec => ImplementsService
<1>1. Init => Service!Init
  BY DEF Init, Service!Init, Life
<1>2. QED
  BY <1>1, ServiceStep, IndInvariant, PTL DEF Spec, ImplementsService, Service!Spec

-----------------------------------------------------------------------------
(* The pool uses its sessions as SessionService says.                      *)

\* Until its thread is started a worker has no place in WorkerThread, and its
\* session is logged on when the threads are about to be started.
SessionInv ==
  \A w \in Workers :
    /\ caller = "logon" => pc[w] = "unborn"
    /\ caller = "starting" /\ pc[w] = "unborn" => session[w]

\* The phase of a worker at p; the mapping in ConnectionPool, per worker.
Phase(p) == CASE p \in {"unborn", "exited"} -> "unused"
              [] p = "processing"           -> "calling"
              [] p = "reconnecting"         -> "failed"
              [] OTHER                      -> "idle"

\* Only one worker's phase and session change, and it is a step SessionService
\* knows; the others stay.
LEMMA OneSession ==
  ASSUME NEW w \in Workers,
         \A v \in Workers \ {w} : pc'[v] = pc[v] /\ session'[v] = session[v],
         \/ /\ <<Phase(pc[w]), Phase(pc'[w])>> \in
                 {<<"unused", "idle">>, <<"calling", "idle">>}
            /\ session[w] /\ session'[w] = session[w]
         \/ /\ <<Phase(pc[w]), Phase(pc'[w])>> \in
                 {<<"idle", "calling">>, <<"calling", "failed">>, <<"idle", "unused">>,
                  <<"idle", "idle">>}
            /\ session'[w] = session[w]
         \/ Phase(pc[w]) = "failed" /\ Phase(pc'[w]) = "idle"
  PROVE  Sessions!Next
<1>1. ASSUME NEW v \in Workers, v # w
      PROVE  Sessions!Stay(v)
  BY <1>1 DEF Sessions!Stay, Sessions!Same
<1>2. \/ Sessions!StartUse(w) \/ Sessions!Return(w) \/ Sessions!Call(w)
      \/ Sessions!Throw(w) \/ Sessions!EndUse(w) \/ Sessions!Stay(w)
      \/ Sessions!Reconnect(w)
  BY DEF Phase, Sessions!StartUse, Sessions!Return, Sessions!Call, Sessions!Throw,
         Sessions!EndUse, Sessions!Stay, Sessions!Reconnect, Sessions!Goto,
         Sessions!Same
<1>3. QED
  BY <1>1, <1>2 DEF Sessions!Next

\* Nobody works on any session: what happens to them is not SessionService's business.
LEMMA NoSessionInUse ==
  ASSUME \A w \in Workers : Phase(pc[w]) = "unused" /\ Phase(pc'[w]) = "unused"
  PROVE  Sessions!Next
BY DEF Phase, Sessions!Next, Sessions!LogonOrOff, Sessions!Goto

\* Every step of the pool keeps SessionInv, and is a step of SessionService.
LEMMA SessionStep ==
  IndInv /\ SessionInv /\ [Next]_vars => SessionInv' /\ [Sessions!Next]_(Sessions!vars)
<1> SUFFICES ASSUME IndInv, SessionInv, [Next]_vars
             PROVE  SessionInv' /\ [Sessions!Next]_(Sessions!vars)
  OBVIOUS
<1> USE DEF mainVars, workerVars, taskVars, Goto, CallerGoto
<1>1. ASSUME UNCHANGED <<caller, session, pc>>
      PROVE  SessionInv' /\ UNCHANGED Sessions!vars
  BY <1>1 DEF SessionInv, Sessions!vars
<1>2. CASE LogonAll \/ LogonFails \/ Join
  <2>1. \A w \in Workers : Phase(pc[w]) = "unused" /\ Phase(pc'[w]) = "unused"
    BY <1>2 DEF LogonAll, LogonFails, Join, SessionInv, Phase
  <2>2. SessionInv'
    BY <1>2 DEF LogonAll, LogonFails, Join, SessionInv
  <2>3. QED
    BY <2>1, <2>2, NoSessionInUse
<1>3. CASE StartFails \/ AssignFields \/ PushRequest \/ BeginDestroy \/ Destroy
  <2>1. CASE Join
    BY <1>2, <2>1
  <2>2. CASE NotifyOne \/ NotifyAll
    <3>1. /\ session' = session /\ caller' \notin {"logon", "starting"}
          /\ \A w \in Workers : Phase(pc'[w]) = Phase(pc[w])
      BY <2>2 DEF NotifyOne, NotifyAll, Waiters, Phase, IndInv, TypeOK
    <3>2. Sessions!Next
      BY <3>1 DEF Phase, Sessions!Next, Sessions!Stay, Sessions!Same
    <3>3. QED
      BY <3>1, <3>2 DEF SessionInv
  <2>3. CASE StartFails \/ AssignFields \/ Push \/ BeginDestroy \/ SetStopFlag
             \/ StopFlagArrives
    <3>1. UNCHANGED <<session, pc>> /\ caller' \notin {"logon", "starting"}
      BY <2>3 DEF StartFails, AssignFields, Push, BeginDestroy, SetStopFlag,
                  StopFlagArrives
    <3>2. QED
      BY <3>1 DEF SessionInv, Sessions!vars
  <2>4. QED
    BY <1>3, <2>1, <2>2, <2>3 DEF PushRequest, Destroy
<1>4. ASSUME NEW w \in Workers, StartWorker(w)
      PROVE  SessionInv' /\ Sessions!Next
  <2>1. /\ session[w] /\ session' = session /\ caller' = "starting"
        /\ pc[w] = "unborn" /\ pc'[w] = "top"
        /\ \A v \in Workers \ {w} : pc'[v] = pc[v]
    BY <1>4 DEF StartWorker, SessionInv, IndInv, TypeOK
  <2>2. Phase(pc[w]) = "unused" /\ Phase(pc'[w]) = "idle"
    BY <2>1 DEF Phase
  <2>3. QED
    BY <2>1, <2>2, OneSession, <1>4 DEF SessionInv, StartWorker
<1>5. ASSUME NEW w \in Workers, WorkerStep(w) \/ SpuriousWakeup(w)
      PROVE  SessionInv' /\ Sessions!Next
  <2>1. /\ caller' = caller /\ pc[w] # "unborn" /\ pc'[w] # "unborn"
        /\ \A v \in Workers \ {w} : pc'[v] = pc[v] /\ session'[v] = session[v]
    BY <1>5 DEF WorkerStep, TestStopFlag, AcquireLock, Wait, SpuriousWakeup, Relock,
                Unlock, Pop, PopFails, ReadAge, CheckAge, Process, ProcessThrows, Reconnect,
                SendResult, LogToKafka, DeleteRequest, IndInv, TypeOK
  <2>2. SessionInv'
    BY <2>1 DEF SessionInv
  <2>3. CASE Process(w)
    <3>1. /\ session[w] /\ session' = session
          /\ Phase(pc[w]) = "calling" /\ Phase(pc'[w]) = "idle"
      BY <2>3 DEF Process, Phase, IndInv, TypeOK
    <3>2. QED
      BY <2>1, <2>2, <3>1, OneSession
  <2>4. CASE ProcessThrows(w)
    <3>1. session' = session /\ Phase(pc[w]) = "calling" /\ Phase(pc'[w]) = "failed"
      BY <2>4 DEF ProcessThrows, Phase, IndInv, TypeOK
    <3>2. QED
      BY <2>1, <2>2, <3>1, OneSession
  <2>5. CASE Reconnect(w)
    <3>1. Phase(pc[w]) = "failed" /\ Phase(pc'[w]) = "idle"
      BY <2>5 DEF Reconnect, Phase, IndInv, TypeOK
    <3>2. QED
      BY <2>1, <2>2, <3>1, OneSession
  <2>6. CASE \/ TestStopFlag(w) \/ AcquireLock(w) \/ Wait(w) \/ SpuriousWakeup(w)
             \/ Relock(w) \/ Unlock(w) \/ Pop(w) \/ PopFails(w) \/ ReadAge(w)
             \/ CheckAge(w) \/ SendResult(w) \/ LogToKafka(w) \/ DeleteRequest(w)
    <3>1. /\ session' = session
          /\ Phase(pc[w]) = "idle" /\ Phase(pc'[w]) \in {"idle", "calling", "unused"}
      BY <2>6 DEF TestStopFlag, AcquireLock, Wait, SpuriousWakeup, Relock, Unlock,
                  Pop, PopFails, ReadAge, CheckAge, SendResult, LogToKafka, DeleteRequest,
                  Phase, IndInv, TypeOK
    <3>2. QED
      BY <2>1, <2>2, <3>1, OneSession
  <2>7. QED
    BY <1>5, <2>3, <2>4, <2>5, <2>6 DEF WorkerStep
<1>6. CASE (\E r \in Requests : BuildRequest(r)) \/ Tick \/ StepClock \/ UNCHANGED vars
  <2>1. UNCHANGED <<session, pc>> /\ (caller' = caller \/ caller' = "built")
    BY <1>6 DEF BuildRequest, Tick, StepClock, vars
  <2>2. QED
    BY <2>1 DEF SessionInv, Sessions!vars
<1>7. QED
  BY <1>2, <1>3, <1>4, <1>5, <1>6 DEF Next, Initialize

\* No worker gets a result without a logon or finds its session changed while it
\* works, and all of them start logged on.
THEOREM PoolUsesSessions == Spec => UsesSessions
<1>1. Init => SessionInv /\ Sessions!Init
  BY DEF Init, SessionInv, Sessions!Init
<1>2. QED
  BY <1>1, SessionStep, IndInvariant, PTL DEF Spec, UsesSessions, Sessions!Spec

=============================================================================

--------------------------- MODULE ConnectionPool ---------------------------
(***************************************************************************)
(* The worker pool of the SMS validator (ConnectionPool.h/.cpp): the main  *)
(* thread pushes requests on a lock-free queue and notifies a condition    *)
(* variable; each worker thread waits on the condition variable, then pops *)
(* until the queue is empty, handling every request it pops.               *)
(*                                                                         *)
(* One program counter per thread: pc[w] for worker w, caller for the main *)
(* thread inside the pool's own methods.  Between two values of a program  *)
(* counter a thread does one thing another thread could observe.           *)
(*                                                                         *)
(* Definitions whose comment starts with "Mutant:" are not the code: each  *)
(* is the definition after it with a bug, which some property must catch.  *)
(***************************************************************************)
EXTENDS Naturals, SequencesExt, ClientRequests

CONSTANTS
  Requests,         \* the requests clients send during the run
  Kind,             \* [Requests -> Kinds], the class of each request
  Workers,          \* the worker threads (CONNECTION_COUNT of them)
  NoRequest,        \* the request variable of a thread that holds none
  NoThread,         \* the owner of a free mutex
  MaxRequestAge,    \* maxRequestAgeSec, in clock ticks
  MaxClock,         \* bound: the last clock reading
  ClockMayStep,     \* may system_clock be set forward or back while we run?
  KafkaConfigured   \* is KAFKA_BROKER set, so that kafkaProducer # nullptr?

ASSUME ThreadAssumption ==
  /\ NoRequest \notin Requests
  /\ NoThread \notin Workers
  /\ Workers # {}

ASSUME KindAssumption == Kind \in [Requests -> Kinds]

ASSUME ClockAssumption ==
  /\ MaxRequestAge \in Nat \ {0}
  /\ MaxClock \in Nat
  /\ ClockMayStep \in BOOLEAN
  /\ KafkaConfigured \in BOOLEAN

VARIABLES
  caller,       \* where the main thread is in the pool's methods
  inHand,       \* the request the main thread has built and not yet pushed
  fieldsSet,    \* have udpSocket and kafkaProducer been assigned?
  stopFlag,     \* as the workers see it
  lock,         \* the owner of the mutex of the condition variable
  pc,           \* where each worker thread is
  request,      \* WorkerThread's local variable, per worker
  result,       \* what the database returned for it
  session,      \* is the worker's DBConnect logged on?
  queue,        \* incomingRequests
  heap,         \* the ClientRequest objects allocated and not deleted
  clock,        \* system_clock::now()
  accepted,     \* the time stamp each request was built with
  fate,         \* history: what became of each request
  cdrs          \* history: the records produced to Kafka

mainVars    == <<caller, inHand, fieldsSet, stopFlag>>
taskVars    == <<request, result, session>>
workerVars  == <<pc, taskVars>>
historyVars == <<fate, cdrs>>
dataVars    == <<queue, heap, clock, accepted>>
vars == <<mainVars, workerVars, historyVars, lock, dataVars>>

CallerPcs == {"logon", "starting", "idle", "built", "pushed",
              "stopping", "stopFlagSet", "joining", "gone"}

WorkerPcs == {"unborn", "top", "locking", "locked", "waiting", "woken", "relocked",
              "popping", "aging", "fresh", "tooOld", "processing", "sending",
              "logging", "reconnecting", "deleting", "exited"}

Fates == {"unseen", "pending", "answered", "unsent", "discarded", "dbError"}

NoResult == [code |-> "none"]

Time == 0..MaxClock

-----------------------------------------------------------------------------
(* The steps of the pool's methods that other threads can tell apart.      *)

\* The workers blocked in conditionVar.wait.
Waiters == {w \in Workers : pc[w] = "waiting"}

\* A worker that has been woken and has not yet found the queue empty.
Awake(w) == pc[w] \in {"woken", "relocked", "popping", "aging", "fresh", "tooOld",
                       "processing", "sending", "logging", "reconnecting", "deleting"}

\* A worker past its last pop that has not reached conditionVar.wait: a
\* notification now does not reach it.
InWindow(w) == pc[w] \in {"top", "locking", "locked"}

Goto(w, from, to) ==
  /\ pc[w] = from
  /\ pc' = [pc EXCEPT ![w] = to]

CallerGoto(from, to) ==
  /\ caller = from
  /\ caller' = to

\* Mutant: the comparison the wrong way round.
FreshReversed(r) == clock >= accepted[r] + MaxRequestAge

\* What a reading of the clock now says: the request is younger than maxRequestAgeSec.
\* (accepted can be in the future when the clock was set back.)
Fresh(r) == clock < accepted[r] + MaxRequestAge

Init ==
  /\ caller = "logon"
  /\ inHand = NoRequest
  /\ fieldsSet = FALSE
  /\ stopFlag = FALSE
  /\ lock = NoThread
  /\ pc = [w \in Workers |-> "unborn"]
  /\ request = [w \in Workers |-> NoRequest]
  /\ result = [w \in Workers |-> NoResult]
  /\ session = [w \in Workers |-> FALSE]
  /\ queue = <<>>
  /\ heap = {}
  /\ clock = 0
  /\ accepted = [r \in Requests |-> 0]
  /\ fate = [r \in Requests |-> "unseen"]
  /\ cdrs = {}

-----------------------------------------------------------------------------
(* Main thread: Initialize.                                                *)

\* Every DBConnect logs on.
LogonAll ==
  /\ CallerGoto("logon", "starting")
  /\ session' = [w \in Workers |-> TRUE]
  /\ UNCHANGED <<inHand, fieldsSet, stopFlag, pc, request, result, historyVars, lock,
                 dataVars>>

\* One logon throws otl_exception: Initialize returns false, main() calls
\* exit() and the static server is destroyed, the pool with it.
LogonFails ==
  /\ CallerGoto("logon", "stopping")
  /\ \E up \in SUBSET Workers :
       /\ up # Workers
       /\ session' = [w \in Workers |-> w \in up]
  /\ UNCHANGED <<inHand, fieldsSet, stopFlag, pc, request, result, historyVars, lock,
                 dataVars>>

\* workerThreads.push_back(std::thread(...)) for the next worker.
StartWorker(w) ==
  /\ caller = "starting"
  /\ Goto(w, "unborn", "top")
  /\ UNCHANGED <<mainVars, taskVars, historyVars, lock, dataVars>>

\* std::thread's constructor throws std::system_error; main() catches it,
\* and returns into the static destructors.
StartFails ==
  /\ \E w \in Workers : pc[w] = "unborn"
  /\ CallerGoto("starting", "stopping")
  /\ UNCHANGED <<inHand, fieldsSet, stopFlag, workerVars, historyVars, lock, dataVars>>

\* Mutant: the main loop runs before the assignments.
AssignFieldsForgotten ==
  /\ \A w \in Workers : pc[w] # "unborn"
  /\ CallerGoto("starting", "idle")
  /\ UNCHANGED <<inHand, fieldsSet, stopFlag, workerVars, historyVars, lock, dataVars>>

\* udpSocket and kafkaProducer are assigned after the threads were started.
AssignFields ==
  /\ \A w \in Workers : pc[w] # "unborn"
  /\ CallerGoto("starting", "idle")
  /\ fieldsSet' = TRUE
  /\ UNCHANGED <<inHand, stopFlag, workerVars, historyVars, lock, dataVars>>

-----------------------------------------------------------------------------
(* Main thread: a request and PushRequest.                                 *)

\* The ClientRequest constructor stamps the request with the current time.
BuildRequest(r) ==
  /\ fate[r] = "unseen"
  /\ CallerGoto("idle", "built")
  /\ inHand' = r
  /\ heap' = heap \cup {r}
  /\ accepted' = [accepted EXCEPT ![r] = clock]
  /\ fate' = [fate EXCEPT ![r] = "pending"]
  /\ UNCHANGED <<fieldsSet, stopFlag, workerVars, cdrs, lock, queue, clock>>

\* Mutant: the pointer is cleared before it is pushed.
PushCleared ==
  /\ CallerGoto("built", "pushed")
  /\ inHand' = NoRequest
  /\ queue' = Append(queue, inHand')
  /\ UNCHANGED <<fieldsSet, stopFlag, workerVars, historyVars, lock, heap, clock,
                 accepted>>

\* incomingRequests.push: the queue is not fixed-size, it grows past queueSize.
Push ==
  /\ CallerGoto("built", "pushed")
  /\ queue' = Append(queue, inHand)
  /\ inHand' = NoRequest
  /\ UNCHANGED <<fieldsSet, stopFlag, workerVars, historyVars, lock, heap, clock,
                 accepted>>

\* conditionVar.notify_one, with the mutex not held: it wakes one waiter, and
\* is lost when there is none.
NotifyOne ==
  /\ CallerGoto("pushed", "idle")
  /\ IF Waiters = {}
       THEN UNCHANGED pc
       ELSE \E w \in Waiters : pc' = [pc EXCEPT ![w] = "woken"]
  /\ UNCHANGED <<inHand, fieldsSet, stopFlag, taskVars, historyVars, lock, dataVars>>

-----------------------------------------------------------------------------
(* Main thread: ~ConnectionPool.                                           *)

\* Run() has returned and the static server is being destroyed.
BeginDestroy ==
  /\ CallerGoto("idle", "stopping")
  /\ UNCHANGED <<inHand, fieldsSet, stopFlag, workerVars, historyVars, lock, dataVars>>

\* stopFlag = true.  The flag is a plain bool that no lock protects: the workers
\* may see the new value at once or later, also after the notification.
SetStopFlag ==
  /\ CallerGoto("stopping", "stopFlagSet")
  /\ stopFlag' \in BOOLEAN
  /\ UNCHANGED <<inHand, fieldsSet, workerVars, historyVars, lock, dataVars>>

\* The new value reaches the workers.
StopFlagArrives ==
  /\ caller \in {"stopFlagSet", "joining"}
  /\ ~stopFlag
  /\ stopFlag' = TRUE
  /\ UNCHANGED <<caller, inHand, fieldsSet, workerVars, historyVars, lock, dataVars>>

\* Mutant: notify_one in the destructor.
NotifyAllNotifiesOne ==
  /\ CallerGoto("stopFlagSet", "joining")
  /\ IF Waiters = {}
       THEN UNCHANGED pc
       ELSE \E w \in Waiters : pc' = [pc EXCEPT ![w] = "woken"]
  /\ UNCHANGED <<inHand, fieldsSet, stopFlag, taskVars, historyVars, lock, dataVars>>

\* conditionVar.notify_all, with the mutex not held.
NotifyAll ==
  /\ CallerGoto("stopFlagSet", "joining")
  /\ pc' = [w \in Workers |-> IF w \in Waiters THEN "woken" ELSE pc[w]]
  /\ UNCHANGED <<inHand, fieldsSet, stopFlag, taskVars, historyVars, lock, dataVars>>

\* Mutant: thr.detach() instead of thr.join().
JoinDetaches ==
  /\ CallerGoto("joining", "gone")
  /\ session' = [w \in Workers |-> FALSE]
  /\ UNCHANGED <<inHand, fieldsSet, stopFlag, pc, request, result, historyVars, lock,
                 dataVars>>

\* Every started thread has been joined; the DBConnects are deleted.
Join ==
  /\ \A w \in Workers : pc[w] \in {"unborn", "exited"}
  /\ CallerGoto("joining", "gone")
  /\ session' = [w \in Workers |-> FALSE]
  /\ UNCHANGED <<inHand, fieldsSet, stopFlag, pc, request, result, historyVars, lock,
                 dataVars>>

-----------------------------------------------------------------------------
(* Worker thread: WorkerThread's wait.                                     *)

\* while (!stopFlag)
TestStopFlag(w) ==
  /\ Goto(w, "top", IF stopFlag THEN "exited" ELSE "locking")
  /\ UNCHANGED <<mainVars, taskVars, historyVars, lock, dataVars>>

\* std::unique_lock<std::mutex> ul(lock)
AcquireLock(w) ==
  /\ lock = NoThread
  /\ Goto(w, "locking", "locked")
  /\ lock' = w
  /\ UNCHANGED <<mainVars, taskVars, historyVars, dataVars>>

\* conditionVar.wait(ul), without a predicate: release the mutex and block.
Wait(w) ==
  /\ Goto(w, "locked", "waiting")
  /\ lock' = NoThread
  /\ UNCHANGED <<mainVars, taskVars, historyVars, dataVars>>

\* The standard lets wait return without a notification.
SpuriousWakeup(w) ==
  /\ Goto(w, "waiting", "woken")
  /\ UNCHANGED <<mainVars, taskVars, historyVars, lock, dataVars>>

\* wait reacquires the mutex before it returns.
Relock(w) ==
  /\ lock = NoThread
  /\ Goto(w, "woken", "relocked")
  /\ lock' = w
  /\ UNCHANGED <<mainVars, taskVars, historyVars, dataVars>>

\* ul.unlock()
Unlock(w) ==
  /\ Goto(w, "relocked", "popping")
  /\ lock' = NoThread
  /\ UNCHANGED <<mainVars, taskVars, historyVars, dataVars>>

-----------------------------------------------------------------------------
(* Worker thread: the pop loop and ProcessRequest.                         *)

\* incomingRequests.pop(request) returns true.
Pop(w) ==
  /\ queue # <<>>
  /\ Goto(w, "popping", "aging")
  /\ request' = [request EXCEPT ![w] = Head(queue)]
  /\ queue' = Tail(queue)
  /\ UNCHANGED <<mainVars, result, session, historyVars, lock, heap, clock, accepted>>

\* incomingRequests.pop(request) returns false.
PopFails(w) ==
  /\ queue = <<>>
  /\ Goto(w, "popping", "top")
  /\ UNCHANGED <<mainVars, taskVars, historyVars, lock, dataVars>>

\* system_clock::now() is read.  Of requestAgeSec, a local variable, only the outcome of
\* the comparison with maxRequestAgeSec is kept, in pc; it does not age with the clock.
ReadAge(w) ==
  /\ Goto(w, "aging", IF Fresh(request[w]) THEN "fresh" ELSE "tooOld")
  /\ UNCHANGED <<mainVars, taskVars, historyVars, lock, dataVars>>

\* Mutant: the else is missing, a discarded request is processed as well.
CheckAgeFallsThrough(w) ==
  /\ \/ Goto(w, "fresh", "processing") /\ UNCHANGED fate
     \/ /\ Goto(w, "tooOld", "processing")
        /\ fate' = [fate EXCEPT ![request[w]] = "discarded"]
  /\ UNCHANGED <<mainVars, taskVars, cdrs, lock, dataVars>>

\* By what was read, a while ago, ProcessRequest is entered or the request is
\* discarded without an answer.
CheckAge(w) ==
  /\ \/ Goto(w, "fresh", "processing") /\ UNCHANGED fate
     \/ /\ Goto(w, "tooOld", "deleting")
        /\ fate' = [fate EXCEPT ![request[w]] = "discarded"]
  /\ UNCHANGED <<mainVars, taskVars, cdrs, lock, dataVars>>

\* Mutant: a call on a session that is not logged on returns.
ProcessWithoutLogon(w) ==
  /\ Goto(w, "processing", "sending")
  /\ \E res \in DbResults(Kind[request[w]]) : result' = [result EXCEPT ![w] = res]
  /\ UNCHANGED <<mainVars, request, session, historyVars, lock, dataVars>>

\* request->Process: the stored procedure returns.
Process(w) ==
  /\ session[w]
  /\ Goto(w, "processing", "sending")
  /\ \E res \in DbResults(Kind[request[w]]) : result' = [result EXCEPT ![w] = res]
  /\ UNCHANGED <<mainVars, request, session, historyVars, lock, dataVars>>

\* Mutant: a call on a connection that is not logged on blocks.
ProcessBlocksWithoutLogon(w) ==
  /\ session[w]
  /\ Goto(w, "processing", "reconnecting")
  /\ fate' = [fate EXCEPT ![request[w]] = "dbError"]
  /\ UNCHANGED <<mainVars, taskVars, cdrs, lock, dataVars>>

\* request->Process throws otl_exception, always so without a logon.  The
\* handler sets resultCode and resultDescr, and sends nothing.
ProcessThrows(w) ==
  /\ Goto(w, "processing", "reconnecting")
  /\ fate' = [fate EXCEPT ![request[w]] = "dbError"]
  /\ UNCHANGED <<mainVars, taskVars, cdrs, lock, dataVars>>

\* DBConnect::reconnect: log off, log on; an exception is swallowed.
Reconnect(w) ==
  /\ Goto(w, "reconnecting", "deleting")
  /\ \E up \in BOOLEAN : session' = [session EXCEPT ![w] = up]
  /\ UNCHANGED <<mainVars, request, result, historyVars, lock, dataVars>>

\* SendResultToClient under socketMutex: sendto succeeds or fails.
SendResult(w) ==
  /\ Goto(w, "sending", "logging")
  /\ \E f \in {"answered", "unsent"} : fate' = [fate EXCEPT ![request[w]] = f]
  /\ UNCHANGED <<mainVars, taskVars, cdrs, lock, dataVars>>

\* Mutant: the result of sendto is ignored.
LogToKafkaAssumesSent(w) ==
  LET r == request[w]
      cdr == CdrOf(r, Kind[r], result[w], TRUE)
  IN /\ Goto(w, "logging", "deleting")
     /\ IF KafkaConfigured /\ LogsCdr(Kind[r], result[w])
          THEN cdrs' \in {cdrs, cdrs \cup {cdr}}
          ELSE UNCHANGED cdrs
     /\ UNCHANGED <<mainVars, taskVars, fate, lock, dataVars>>

\* LogToKafka(responseSendSuccess); produce may fail, which is only logged.
LogToKafka(w) ==
  LET r == request[w]
      cdr == CdrOf(r, Kind[r], result[w], fate[r] = "answered")
  IN /\ Goto(w, "logging", "deleting")
     /\ IF KafkaConfigured /\ LogsCdr(Kind[r], result[w])
          THEN cdrs' \in {cdrs, cdrs \cup {cdr}}
          ELSE UNCHANGED cdrs
     /\ UNCHANGED <<mainVars, taskVars, fate, lock, dataVars>>

\* Mutant: the request is not deleted.
DeleteForgotten(w) ==
  /\ Goto(w, "deleting", "popping")
  /\ request' = [request EXCEPT ![w] = NoRequest]
  /\ result' = [result EXCEPT ![w] = NoResult]
  /\ UNCHANGED <<mainVars, session, historyVars, lock, dataVars>>

\* Mutant: if (pop) instead of while (pop).
DeleteThenWait(w) ==
  /\ Goto(w, "deleting", "top")
  /\ heap' = heap \ {request[w]}
  /\ request' = [request EXCEPT ![w] = NoRequest]
  /\ result' = [result EXCEPT ![w] = NoResult]
  /\ UNCHANGED <<mainVars, session, historyVars, lock, queue, clock, accepted>>

\* delete request
DeleteRequest(w) ==
  /\ Goto(w, "deleting", "popping")
  /\ heap' = heap \ {request[w]}
  /\ request' = [request EXCEPT ![w] = NoRequest]
  /\ result' = [result EXCEPT ![w] = NoResult]
  /\ UNCHANGED <<mainVars, session, historyVars, lock, queue, clock, accepted>>

-----------------------------------------------------------------------------
(* The wall clock.                                                         *)

Tick ==
  /\ clock < MaxClock
  /\ clock' = clock + 1
  /\ UNCHANGED <<mainVars, workerVars, historyVars, lock, queue, heap, accepted>>

\* An administrator or NTP sets the clock.
StepClock ==
  /\ ClockMayStep
  /\ clock' \in Time
  /\ UNCHANGED <<mainVars, workerVars, historyVars, lock, queue, heap, accepted>>

-----------------------------------------------------------------------------

Initialize ==
  \/ LogonAll
  \/ LogonFails
  \/ \E w \in Workers : StartWorker(w)
  \/ StartFails
  \/ AssignFields

PushRequest == Push \/ NotifyOne

Destroy == SetStopFlag \/ StopFlagArrives \/ NotifyAll \/ Join

\* The steps a worker takes by itself when it is scheduled.
WorkerStep(w) ==
  \/ TestStopFlag(w)
  \/ AcquireLock(w)
  \/ Wait(w)
  \/ Relock(w)
  \/ Unlock(w)
  \/ Pop(w)
  \/ PopFails(w)
  \/ ReadAge(w)
  \/ CheckAge(w)
  \/ Process(w)
  \/ ProcessThrows(w)
  \/ Reconnect(w)
  \/ SendResult(w)
  \/ LogToKafka(w)
  \/ DeleteRequest(w)

Next ==
  \/ Initialize
  \/ \E r \in Requests : BuildRequest(r)
  \/ PushRequest
  \/ BeginDestroy
  \/ Destroy
  \/ \E w \in Workers : WorkerStep(w) \/ SpuriousWakeup(w)
  \/ Tick
  \/ StepClock

Spec == Init /\ [][Next]_vars

\* The scheduler runs every thread that can run (weak fairness); a worker that
\* wants the mutex gets it, since nobody keeps it (strong fairness).  Requests,
\* shutdown, spurious wake-ups and the clock are the environment's: not fair.
Fairness ==
  /\ WF_vars(Initialize)
  /\ WF_vars(PushRequest)
  /\ WF_vars(Destroy)
  /\ \A w \in Workers :
       /\ WF_vars(WorkerStep(w))
       /\ SF_vars(AcquireLock(w))
       /\ SF_vars(Relock(w))

FairSpec == Spec /\ Fairness

-----------------------------------------------------------------------------
(* Properties.                                                             *)

\* Every variable has its type.
TypeOK ==
  /\ caller \in CallerPcs
  /\ inHand \in Requests \cup {NoRequest}
  /\ fieldsSet \in BOOLEAN
  /\ stopFlag \in BOOLEAN
  /\ lock \in Workers \cup {NoThread}
  /\ pc \in [Workers -> WorkerPcs]
  /\ request \in [Workers -> Requests \cup {NoRequest}]
  /\ result \in [Workers -> AllDbResults \cup {NoResult}]
  /\ session \in [Workers -> BOOLEAN]
  /\ queue \in Seq(Requests)
  /\ heap \subseteq Requests
  /\ clock \in Time
  /\ accepted \in [Requests -> Time]
  /\ fate \in [Requests -> Fates]
  /\ \A c \in cdrs : c.request \in Requests

-----------------------------------------------------------------------------
(* Safety.                                                                 *)

\* The requests on the queue.
Queued == ToSet(queue)

\* A worker between a successful pop and delete.
Holding(w) == pc[w] \in {"aging", "fresh", "tooOld", "processing", "sending", "logging",
                         "reconnecting", "deleting"}

\* A ClientRequest object is reachable from exactly one place (the main
\* thread's hand, one slot of the queue, one worker) from new to delete:
\* nobody handles a request twice, uses it after delete, or loses it.
Ownership ==
  /\ IsInjective(queue)
  /\ \A v, w \in Workers : Holding(v) /\ request[v] = request[w] => v = w
  /\ \A w \in Workers : request[w] \notin Queued \cup ({inHand} \ {NoRequest})
  /\ inHand \notin Queued
  /\ heap = ({inHand} \cup Queued \cup {request[w] : w \in Workers}) \ {NoRequest}

\* The threads are started before udpSocket and kafkaProducer are assigned,
\* yet no worker gets as far as using them before they are.
NoUseBeforeInit == \A w \in Workers : Holding(w) => fieldsSet

\* A CDR is produced only for a request that was processed and whose answer
\* was attempted, once per request, and what it says about the answer is so.
CdrsAreTrue ==
  \A c \in cdrs :
    /\ fate[c.request] \in {"answered", "unsent"}
    /\ \A d \in cdrs : d.request = c.request => d = c
    /\ "responseSendSuccess" \in DOMAIN c =>
         (c.responseSendSuccess <=> fate[c.request] = "answered")

\* Requests lie on the queue and no thread is going to look for them.
Stranded ==
  /\ queue # <<>>
  /\ caller # "pushed"
  /\ \A w \in Workers : ~Awake(w)

\* Requests get stranded in one way only: notify_one runs while every worker
\* is between its last pop and conditionVar.wait.
StrandedOnlyByLostNotify ==
  [][~Stranded /\ Stranded' =>
       caller = "pushed" /\ \A w \in Workers : InWindow(w)]_vars

\* ~ConnectionPool interrupts no request: when it returns, every accepted request
\* has met its fate and is deleted, except for those that are still queued.
LeavesOnlyQueued ==
  caller = "gone" =>
    /\ heap = Queued
    /\ \A r \in Requests : fate[r] = "pending" <=> r \in Queued

\* A worker that has tested stopFlag and not yet reached conditionVar.wait.
CommittedToWait(w) == pc[w] \in {"locking", "locked"}

\* Every worker is on its way out: the stop flag is visible, no worker is about to
\* wait, and if one is waiting notify_all is still to come.
WayOut ==
  /\ caller \in {"stopFlagSet", "joining", "gone"}
  /\ stopFlag
  /\ \A w \in Workers : ~CommittedToWait(w)
  /\ caller # "stopFlagSet" => Waiters = {}

\* From there no worker goes to sleep, is overlooked by notify_all or misses the
\* flag, however many requests are still queued: the safety part of
\* ShutdownCompletes.
NobodyFallsAsleep == [][WayOut => WayOut']_vars

\* The request is too old by now, it has no answer, and no worker has found it fresh
\* when that was still so.
Expired(r) ==
  /\ fate[r] \in {"pending", "discarded"}
  /\ clock >= accepted[r] + MaxRequestAge
  /\ \A w \in Workers : request[w] = r => pc[w] \in {"aging", "tooOld", "deleting"}

\* While the wall clock is not set, the age test errs on one side only.  A request that
\* gets too old before a worker has read its age, on the way to the queue, on it or
\* just popped, is never processed or answered, and only such requests are discarded.
\* (One found fresh in time is processed, however old it is by then.)
ExpiredIsNotProcessed ==
  [][\A r \in Requests : Expired(r) \/ fate'[r] = "discarded" => Expired(r)']_vars

\* Where a request is in its life.
Life(r) ==
  IF fate[r] \in {"unseen", "pending"} \/ r \in heap THEN fate[r] ELSE "forgotten"

\* The pool implements RequestService.
Service == INSTANCE RequestService WITH
  status  <- [r \in Requests |-> Life(r)],
  charged <- {c.request : c \in cdrs}

ImplementsService == Service!Spec

\* The pool asks of the database sessions what SessionService lets it ask: no
\* result without a logon, and none changes under a worker that is using it.
Sessions == INSTANCE SessionService WITH
  Sessions <- Workers,
  up       <- session,
  phase    <- [w \in Workers |->
                 CASE pc[w] \in {"unborn", "exited"} -> "unused"
                   [] pc[w] = "processing"           -> "calling"
                   [] pc[w] = "reconnecting"         -> "failed"
                   [] OTHER                          -> "idle"]

UsesSessions == Sessions!Spec

-----------------------------------------------------------------------------
(* Liveness, under FairSpec.                                               *)

\* As long as one worker is awake, the queue is drained: a request pushed
\* while a worker is busy does not depend on its own notification.
AwakeWorkerDrains ==
  (\E w \in Workers : Awake(w)) ~> queue = <<>>

\* A worker finishes every request it takes, in particular during shutdown.
TakenIsFinished == \A w \in Workers : Holding(w) ~> ~Holding(w)

\* ~ConnectionPool returns if the workers see the stop flag before notify_all and
\* none is then on its way into wait: those that sleep are woken, those that
\* work see the flag.
ShutdownCompletes ==
  (caller = "stopFlagSet" /\ stopFlag /\ ~\E w \in Workers : CommittedToWait(w))
     ~> caller = "gone"

-----------------------------------------------------------------------------
(* What the program says of itself and does not do.                        *)

ShuttingDown == caller \in {"stopping", "stopFlagSet", "joining", "gone"}

\* A single request is settled, or the pool is shut down (tester, option 1).
EveryRequestTaken ==
  \A r \in Requests :
    fate[r] = "pending" ~> fate[r] # "pending" \/ ShuttingDown

\* The process stops when it is told to ("Stopping ...").
ShutdownAlwaysCompletes == caller = "stopping" ~> caller = "gone"

=============================================================================

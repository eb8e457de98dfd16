# TLA+ models of the SMS online validator

The SMS online validator is a UDP server.  Network elements send it questions
("may this SMS be delivered?", "may this call go on?", "this call is over"), it
calls a stored procedure in Oracle for each, answers, and logs a charging record
(CDR) to Kafka.  One main thread receives; a pool of worker threads, each with its
own database session, does the rest.  What is hard to get right is what happens
*between* the threads, and that is what the modules here are about.

## The system

| component | state it keeps | operations |
|---|---|---|
| Worker pool (`ConnectionPool.h/.cpp`) | lock-free queue of request pointers, mutex and condition variable, `stopFlag`, threads, sessions, `udpSocket`, `kafkaProducer` | `Initialize`, `PushRequest`, `WorkerThread`, `ProcessRequest`, `SendResponseAndLogToKafka`, destructor |
| Request classes (`ClientRequest`, `SmsRequest`, `CamelRequest`, `CallFinishRequest`) | parameters, time stamp `accepted`, result | `ValidateAndSetParams`, `Process`, `SendResultToClient`, `LogToKafka` |
| Server (`Server.h/.cpp`) | socket, `shutdownInProgress`, the pool, the producer and its topics | `Initialize`, `Run`, `ProcessIncomingData`, `ProcessNextRequestFromBuffer`, two immediate responses, `Stop`, `WaitForKafkaQueue`, destructor |
| `main()` and the signal handler (`main.cpp`) | the static `server` | start, `Run`, `Stop` from the handler, static destruction |
| Database session (`DBConnect.h`) | logged on or not, credentials | `rlogon`, `reconnect` |
| Kafka producer (librdkafka, external) | messages not yet delivered | `produce`, `outq_len`, `poll`, destruction |
| Configuration (`Config.h/.cpp`) | settings | `ReadConfigFile`, `ParseULongValue`, `ValidateParams` |
| Packet format (PSPacket, external; `Common.h`), Avro records (generated), logging, OTL helpers | none | conversions and output |
| Test client (`tester/main.cpp`) | none | sends requests, prints responses |

How they interact.  The main thread builds a request and pushes a raw pointer on the
pool's queue, then notifies the condition variable.  A worker that is woken pops until
the queue is empty, deletes what it popped, and waits again.  Workers share the socket
with the main thread and the producer with each other.  Signals set a flag that the
main thread tests at least every three seconds.  On the way out the main thread waits
for the producer's queue, and static destruction closes the socket, destroys the
producer, and only then joins the workers.

What is hard, and what makes each part correct:

* **Pool.**  Notification and stop flag race with workers on their way into a wait
  that has no predicate; ownership of raw pointers; fields assigned after the threads
  that use them were started; a wall clock decides about age.  Correct means: a
  request is owned once and settled once, charged at most once and truthfully, and
  requests and shutdown do not hang on a lost notification (they can: see below).
* **Server.**  One datagram holds several packets, and one of them may be bad;
  shutdown races with workers that still send and produce.  Correct means: a bad
  packet costs only itself (or, if it cannot be parsed, what is behind it), the
  process ends when told to, and CDRs are not dropped.
* **Requests.**  Attributes of unexpected sizes, integer conversions at the edges, a field
  nobody assigns; which outcome leaves a CDR.  Correct means: the database gets the
  numbers the client sent, the client reads what the database returned, and the CDR
  agrees with both.
* **Session.**  A failed call reconnects; logging off may throw and leave it half done,
  the database may be down.  Correct means: workers start with sessions that are logged
  on, only such a session returns a result, and a lost one is replaced soon.
* **Configuration.**  Lines with blanks, comments and separators in any place, numbers
  that are cut to the width of a field before they are tested.  Correct means: a setting
  is what the last line about it says, and a file is rejected for a reason.

`PROJECT.json` lists every hazard at its line with the properties that cover it.

## The modules

| module | models |
|---|---|
| `ClientRequests` | constant level: what the request classes make of the values the database returns (kind of answer, whether a CDR is logged and what it says) |
| `RequestParams` | the numbers of one request: attributes, fields, arguments of the stored procedure, results, the answer and the client's reading of it, the CDR |
| `Config` | the configuration file, line by line, and what a line means by its grammar |
| `Startup` | from the configuration to the workers' database sessions: `main()`, the logons, `reconnect`, and the database; extends `Config` |
| `SessionService` | abstract specification: what a worker may rely on of its session |
| `RequestService` | abstract specification: what the pool promises about one request |
| `PacketService` | abstract specification: what a client may rely on for the packets of its datagrams; extends `RequestService` |
| `ConnectionPool` | the pool, one program counter per thread |
| `Server` | the process: `main()`, `Server`, signals, producer and broker, composed with `ConnectionPool` |
| `ConnectionPoolProofs`, `ServerProofs`, `StartupProofs`, `RequestParamsProofs` | theorems and proofs about the module of that name |
| `ConfigProofs`, `ConversionProofs` | lemmas: what the searches of `ReadConfigFile` find and what reading keeps (for `StartupProofs`), what the conversions of `RequestParams` do (for `RequestParamsProofs`) |
| `MCConnectionPool`, `MCServer`, `MCRequestParams`, `MCStartup` | instances for TLC |

Definitions whose comment starts with "Mutant:" are deliberate bugs.  No specification
uses them; each is put in the place of the definition after it to see that the
properties notice.

### ConnectionPool

`pc[w]` is where worker `w` is in `WorkerThread`, `caller` where the main thread is in
the pool's methods.  A step is what another thread could observe: `conditionVar.wait`
is three steps (`Wait` releases the mutex and blocks, a notification or
`SpuriousWakeup` wakes, `Relock` takes the mutex), `PushRequest` is two (`Push`,
`NotifyOne`), the destructor is `SetStopFlag`, `NotifyAll`, `Join`, and the age test of a
popped request is `ReadAge` (the clock is read and compared) and `CheckAge` (the branch):
between the two the clock goes on and other workers process and discard.  `stopFlag` is a
plain `bool`, read and written by different threads without a lock: its new value
reaches the workers at once or later (`StopFlagArrives`), also after the notification.
A session is up or not; a call on any session may throw (`ProcessThrows`), a call on a
session that is not logged on always does.  `Reconnect` may fail silently.  `sendto` and
`produce` may fail.  The queue is as unbounded as in the code (`queueSize` is an initial
capacity); push and pop of the lock-free queue are atomic, as the library promises.

`socketMutex` is not a variable: it makes `SendResultToClient` of two workers exclude
each other, and `SendResult` is one step.  The main thread does not take it for its own
two responses; a UDP `sendto` is atomic, so that is harmless.

`fate` and `cdrs` are history: what became of each request and what was produced.
`dbError` is one of the ends: when the procedure throws, `ProcessRequest` stores
`resultCodeDbException` in the request, and the request is deleted without an answer.  (The
branch of `SmsRequest::SendResultToClient` that would send the description, line 92, is not
reached.)

### Server

The variables of `ConnectionPool` plus the main thread's `mainPc`, the flag of the
signal handler, the socket, the producer with its queue `outq`, the packets still to
process and the datagrams received.  Main thread actions that call the pool conjoin the
pool's actions (`Accept` is `BuildRequest`, `PushToPool` is `PushRequest`,
`DestroyPool` is `Destroy`), so the composition adds no interface of its own.  A packet
is the branch of `ProcessNextRequestFromBuffer` it takes: parse error, unsupported type,
alive question, request that fails validation, request that passes.  UDP may lose a
datagram (`Receive` never happens), reorder (`Receive` picks any) or repeat one
(another datagram with packets of its own).

Destruction follows the order of the members in `Server.h`: socket, producer and topic
names, then the pool.  A worker that logs a CDR after that uses destroyed objects
(`ProduceOnDestroyed`): the model lets the CDR vanish or the process crash.  A signal
before `sigaction` kills the process and is not modelled; once `Run` has returned
`Stop()` has no effect left.  `shutdownInProgress` is a plain `bool` as well; a value
that arrives late is a signal that arrives late.

`PacketService` is the process as its clients see it: datagrams are read one after the
other, their packets in order and each once, nothing behind a packet that cannot be parsed,
and a packet has one life with at most one answer in it, whether the main thread gives it at
once (`reply`) or a worker later (`fate`).

### RequestParams

One request object, from the first parameter to the answer, on one thread.  `SetParam` and
`FailParam` are one call of `SetRequiredIntParam`, `SetOptionalIntParam` or
`SetStringParam`; which parameters there are, in what order, with which field type and
required size, is in `SmsParams`, `QuotaParams` and `CallFinishParams`.  `Process` binds
the fields in the order of `Binds` to the procedure's parameters `Placeholders` and
narrows what comes back; `Unset` marks a value that no code assigned and that may
therefore be anything.  `SendResultToClient` and `SendNotAcceptedResponse` build the
answer, `ClientReads` is the test client's reading of it.  Conversions are by width:
`Convert` and `Fits` work on bytes of `Byte` values, where `Byte` is any even number from 4
on (with 4, four bytes hold every code of the program) and a type of n bytes has
`ByteValues[n]` values.  `LogToKafka` decides with the
operators of `ClientRequests` whether there is a CDR, from the outcome (`Outcome`) that
`ConnectionPool` starts from, and fills it with types `SMS_CDR` and `Call_CDR`.

### Config and Startup

A line is a sequence of the characters the code looks for (`Marks`: blank or tab, `=`,
`#`, carriage return, null) and of words, the longest runs of other characters; what
`toupper` makes of a word and the number it begins with are constants.  `Start`,
`Delimiter`, `OptionName` and `OptionValue` are the searches of `ReadConfigFile` in its
order, with `npos`; `Parsed` is what is assigned, cut to the width of the field, and {}
when the value throws.  One step is one `getline` with everything done for the line.
The lines read are kept in `file`, so that `SettingsAreLastLines` and `FileIsJudged` can
compare the settings with a second definition of what a line says (`Gives`,
`MeansNothing`), which speaks of blanks, a name, separators and a value and not of
searches.

`Startup` goes on where the file is accepted (`Configured` forgets the file: nothing
reads it any more).  The sessions are logged on one by one, with `DBConnect::rlogon`
saving the connect string; the workers call, and `reconnect` is a logoff that may throw
and a logon that may fail.  The database goes down and comes back at any moment, and
single sessions are lost.  What is assumed of OTL and of the database: a logoff that
throws has ended the session all the same; a logon is refused only when the database is
down or the connect string wrong, and the empty XA names that `reconnect` passes
(`DBConnect.h:56`) are as good as the null ones of the first logon.

`SessionService` is the contract between the two models of a session.  `ConnectionPool`
has one flag per session and one step for `reconnect` and uses it on these terms
(`UsesSessions`); `Startup` keeps them (`ImplementsSession`).

## What is checked

Bounds: two workers are enough for every race between two takers of the queue and for
"one worker sleeps, the other works"; two requests for order, for one request being
handled while another arrives, and for SMS and quota CDRs side by side.  `MaxClock` is
the last clock reading, `MaxRequestAge` the age limit in ticks.  Deadlock is not checked
because a finished process stops; that it gets there is the liveness runs' business.

| run | shows |
|---|---|
| `pool_safety` | two workers, an SMS and a quota request, age limit 2 with clock 0..3, so that both the fresh and the discarded case occur and a request may cross the limit on the queue. `Ownership` (no double handling, use after delete or loss), `NoUseBeforeInit`, `CdrsAreTrue`, `StrandedOnlyByLostNotify` (the only step that strands requests is a notification that finds every worker between its last pop and the wait), `LeavesOnlyQueued` (the destructor interrupts no request), `NobodyFallsAsleep` (once all workers are on their way out), `ExpiredIsNotProcessed` (a request that gets too old before a worker has read its age is never processed, and nothing else is discarded; the converse is no promise of the code, one found fresh may be processed late), the refinement `ImplementsService`, and that sessions are used as `SessionService` says (`UsesSessions`) |
| `pool_liveness` | two workers and two requests, age limit 1 and a clock of two readings that may be set forward and back at any time: `AwakeWorkerDrains`, `ShutdownCompletes`, `TakenIsFinished` (whatever becomes of the session) |
| `pool_lost_wakeup` | *violated*: a single request need not ever be taken |
| `pool_shutdown_hang` | *violated*: `join` may wait for ever for a worker that missed `notify_all` |
| `server_safety` | two datagrams that put requests before, between and behind every other kind of packet: `EveryPacketHandled`, `FlushedIsNotLost`, `EndsClean` (however the process ends, also when `Initialize` fails), that the composition only uses the pool as specified (`UsesPool`), and that to its clients the process is `PacketService` (`ImplementsPackets`) |
| `server_liveness` | one datagram, with one request and every other kind of packet, and the signal at any moment: `StopCountsDown` (after the signal each step in `Run` leaves less to do), `StopEndsLoop`, `StopEndsProcess` (unless a worker missed the notification) |
| `server_no_kafka` | *violated*: without a broker the process crashes when it stops |
| `server_cdr_lost` | *violated*: a CDR produced during shutdown is destroyed |
| `request_params` | requests of every class, each attribute in the length the test client uses (with a small value and with the highest bit set), in a length the code refuses and, for CAMEL, in other lengths it takes, or missing; the database returns numbers within and beyond `int8_t`: `ArgumentsAreSent`, `TesterRequestsAccepted`, `AnswerMeansResult`, `CdrAgreesWithAnswer` |
| `startup` | files of up to three lines: the first any line of up to four marks and words about one option, or one of a list about the connect string, the number of connections and others, the second about the connect string, the third about the number: `SettingsAreLastLines`, `FileIsJudged` (reading stops at bad lines only; a file with a connect string and a number of connections in range, as written, is not refused, one without a connect string or with another number that an `unsigned short` holds not accepted). Then one or two sessions and a database that comes and goes: `RecoversInTwo`, `ImplementsSession` |
| `startup_count` | *violated*: a file that asks for 65537 connections is accepted, as one, because the range is tested after the number was cut to an `unsigned short` |
| `request_unset_argument` | *violated*: `M2M.CallFinishRequest` gets a service key nobody assigned |

`RequestParams` is checked with `Byte` = 4, so that all values of a byte, and the numbers
just below and above the limits of `int8_t` (-2..1), `short` (-8..7) and `int32_t`
(-128..127), are few.  The code's branches depend on sizes and on where a number lies
relative to these limits, not on 256.

In `startup`, `unsigned short` is as wide as it is; `unsigned int` and `unsigned long`
have 2^20 and 2^24 values, so that a number above each limit can be written; the order of
the limits is what matters (`WidthAssumption`).  `maxConnCount` is 2 instead of 16: the
sessions do not touch each other, and two show that a logon may fail after another
succeeded.  Four marks and words are the longest line in which each of the four parts
(blanks, name, separators, value) can occur and be followed by one more; longer ones are in
the list.

The server runs stop the clock (`MaxClock` 0): age is a matter of the pool alone, is
covered by its own runs, and `UsesPool` carries those results over.  The liveness runs
use no symmetry.  `pool_liveness` sets `KafkaConfigured` to FALSE, which removes the choice
of a CDR and nothing that a thread waits for; `server_liveness` has it TRUE, because
there the main thread does wait for the producer.

The runs that end in a violation check what a message, a constant or the test client of
the repository says against what the code does; the `findings` in `PROJECT.json` quote
both sides.

### Fairness

Weak fairness of each thread: the operating system schedules every thread that can run.
Strong fairness of `AcquireLock` and `Relock`: nobody keeps the mutex for longer than two
statements, and the main thread never takes it, so a thread that asks for it again and
again gets it.  In `Server` also weak fairness of `RecvfromFails` within the main
thread's steps (`SO_RCVTIMEO` is set to three seconds) and of `BrokerSettles`
(librdkafka drops a message after `message.timeout.ms`).  Database calls are assumed to
return.  Datagrams, signals, spurious wake-ups and the clock are not fair: nothing that
is proved to happen may depend on them.

## What is proved

For every set of requests and workers, every age limit and clock bound, with or without
Kafka, from the assumptions on the constants named in the modules:

* `IndInvariant`: `IndInv` is an invariant of `ConnectionPool`.  `Ownership` is not
  inductive: that a popped request is nobody else's needs the program counters
  (`HoldInv`: a worker has a request and the assigned fields exactly while it is between
  pop and delete), where the main thread is (`CallerInv`), who has the mutex
  (`LockInv`), and what the histories say of what was pushed and popped (`FateInv`,
  `CdrInv`).  One lemma per conjunct, one step per action.
* From it: `TypeCorrect`, `OwnershipHolds`, `InitializedBeforeUse`, `CdrsTruthful`.
* `OnlyLostNotifyStrands` and `ExpiredStaysUnprocessed`, properties of steps.  The second
  assumes that the clock is not set (`ClockMayStep = FALSE`); it is false otherwise.  It
  needs that what a worker has read as too old is so still when it acts on it (`AgeInv`), and
  that no other worker has the request (`Ownership`).
* `OnlyQueuedIsLeft` and `ShutdownDrains`: what the destructor leaves behind.  That no worker
  is left when it has returned (`GoneInv`) gives the first, with who holds what (`HoldInv`,
  `CallerInv`) and `Ownership`.  The second has a hypothesis about the run: no notification is lost
  (`EveryNotifyArrives`); then nothing is left at all, because by the lemma behind
  `OnlyLostNotifyStrands` no request is ever stranded.  So the race `pool_lost_wakeup` shows is
  the only reason why requests are dropped at shutdown.
* `WayOutStays`: `NobodyFallsAsleep`, the safety part of `ShutdownCompletes`.  `WayOut` (the flag
  is visible, nobody is between its test and the wait, and who sleeps will be reached by
  `notify_all`) is preserved by every step, because the only way to the wait is through the
  test of the flag.  Fairness then does the rest, which TLC checks.
* `PoolImplementsService`: every step of the pool is a step of `RequestService` or
  leaves it alone, under the mapping in `ConnectionPool`.
* `PoolUsesSessions`: every step of the pool is a step of `SessionService` or leaves it
  alone (`SessionInv`: no thread runs while the sessions are logged on, and all are
  logged on when the threads are started).
* `ServerUsesPool`: every step of the process is a step of the pool or leaves it alone.
  With it the pool's theorems hold of the process: `ProcessOwnership`, `ProcessCdrsTruthful`,
  `ProcessKeepsPoolSafety` and `ProcessKeepsServices` say so.
* `ProcessEndsClean`: `EndsClean`.  The process gets to its end on many ways, and what is left
  depends on the way.  `PlaceInv` says where the main thread is in the pool for each place in
  `main.cpp` and `Server.cpp`; so at the end the pool has been destroyed (`GoneInv`) or never
  got further than the logon (`LogonInv`: no worker, no request).  `ReleaseInv` keeps the
  socket closed and the queue of a destroyed producer empty, also while workers still
  produce to it.
* `StopShortens`: `StopCountsDown`, the safety part of `StopEndsLoop`.  The measure is the place
  in the loop first, then three steps for each packet in the buffer and those `PushRequest` has
  left; `PlaceInv` is needed because a packet costs steps according to where the main thread is
  in `PushRequest`, and because a signal is only taken in `Run`.
* `FlushedSurvives`: `FlushedIsNotLost` of `Server`, by the invariant `FlushInv`.  What
  makes it inductive: a request is charged once (from `IndInv`), so what was flushed does
  not come back into the producer's queue, and there is no queue without a producer.
* `AllPacketsHandled`: `EveryPacketHandled` speaks of the moments between two datagrams and
  says nothing in the middle of one.  `PacketInv` does: the packets handled are then those
  of the earlier datagrams and the first k of this one, and the buffer is the rest
  (`ProcessedTo`).  That a worker's step handles no packet comes from `IndInv`: a worker only
  decides the fate of a request that is pending.
* `ServerImplementsPackets`: every step of the process is a step of `PacketService` or leaves
  it alone.  `PacketInv` gives the turn (`HeadIsInTurn`: the packet at the head of the buffer
  is new, those before it are seen, and no other datagram is begun and unfinished), from the
  assumption that a packet is in one datagram once.  The workers' steps are those of
  `RequestService` by the lemma behind `PoolImplementsService`, carried over to the lives of
  all packets (`MoveLifts`); `AnswerInv` keeps the two kinds of answer apart: the main thread
  answers no request.
* `DatagramsAreReadInOrder`: what that refinement means for a datagram, at every moment and not
  only between datagrams: what was handled of it is a part from its beginning, and at most
  one datagram is begun and goes on (`SeenGrows`, `OrderStep`, which use only the steps of
  `PacketService`).

For every configuration file, every `maxConnCount` and width of the integer types, and
every behaviour of the database:

* `SessionsInvariant`: `SessionsInv` is an invariant of `Startup`.  `RecoversInTwo` is not
  inductive: it needs how many calls can have missed the database where the worker is
  (`MissInv`), and that whoever works has a connect string the database takes
  (`LoginInv`), because its session was logged on with it before it started (`BeforeInv`).
* From it: `RecoversSoon`, and `StartupImplementsSession`, the other side of the contract
  `PoolUsesSessions` relies on.
* `StartupTypeCorrect`: for lines of any length the searches of `ReadConfigFile` end
  within the line or with `npos` (`SearchBounds`), so that what is cut out is text and
  what `stoul` returns is cut to the width of its field.
* `SettingsFollowFile` and `FileJudged`: `SettingsAreLastLines` and `FileIsJudged`.  The heart
  is that the searches and the grammar are two descriptions of the same thing.  A search finds
  the first place of its kind (`SearchFinds`), and there is one (`FirstIsOne`); hence a line is
  skipped exactly if it means nothing (`SkippedIsNothing`), gives an option exactly the value
  that is cut out of it (`GivesIsCut`, from `SpansAreCut` and `CutHasSpans`), and throws exactly
  if it is bad (`BadIsBad`).  `ReadInv` then goes through the file line by line: a further line
  changes what the file says of the option it names and of no other (`SaysNext`).  The number
  of connections is judged as it is written; that `stoul` and the cut leave a number alone that
  an `unsigned short` holds is `WrittenIsParsed`.

For every `Byte`, everything a client may send in a request (`Sent`) and every number the
database may return (`DbNumbers`):

* `ParamsInvariant`: `ParamsInv` is an invariant of `RequestParams`.  No property of the module
  is inductive, because each speaks of the end of a request; `ParamsInv` says how far the
  request has got in the parameters of its class and what every stage has made of the one
  before.
* From it, with the lemmas of `ConversionProofs`: `ParamsTypes`, `ArgumentsSent`,
  `TesterAccepted`, `AnswerTellsResult` and `CdrAgrees`.  The arithmetic rests on
  `ByteValues[n]`, a recursive function: that it is the function its definition describes is
  proved first (`CountsExist`, `CountsUnique`, `ByteValuesDef`), and all that is needed of it
  afterwards is that a wider type holds a multiple of the values of a narrower one
  (`WidthMultiples`).  Hence a number that fits is not changed by a conversion
  (`ConvertFits`), and one that is cut keeps its low bytes (`LowBytesSurvive`).

All invariants, step properties and refinements that a passing run checks are proved.

Only model-checked are the five properties under fairness: `AwakeWorkerDrains`,
`TakenIsFinished`, `ShutdownCompletes`, `StopEndsLoop` and `StopEndsProcess`.  Liveness needs
`ENABLED` of the fair actions, which the prover cannot handle.  The safety part of three is
proved: that an awake worker does not stop before the queue is empty
(`OnlyLostNotifyStrands`), that nothing leads back from the way out (`WayOutStays`), and that
the loop's steps after a signal are numbered (`StopShortens`).  The runs that end in a violation
are refutations and need no proof.

## Not modelled

The bytes of packets and Avro records, the times in CDRs, descriptions and logging.  The
pid file, which the program writes and never reads, and a second process on the same port
(`SO_REUSEADDR`).  The test client's loop, which prints whatever arrives and matches no
answer to a question.  Which UDP port `serverPort` becomes: `htons` cuts it to 16 bits, and
what is beyond is up to whoever addresses the server.  A response that
fails to be built (`CPSPacket::Init` with a buffer that is large enough).  Memory
exhaustion.  The behaviour of CPSPacket, OTL, librdkafka and Boost beyond what `src/`
relies on.

## What could come next

* Liveness proofs, when the prover has `ENABLED`: `WayOut` and the measure of `StopCountsDown`
  are the invariants they need.
* The hazards without a property, each with its reason in `PROJECT.json`: a clock that is set,
  the unbounded queue, the leak of rejected requests, a packet of length 0, the name of a
  parameter of the procedure, the pid file, and the numbers no document says anything of: results
  and durations beyond their fields, the sign of a large reference number, attributes longer than
  their field.  The properties of `RequestParams` are about numbers that fit.

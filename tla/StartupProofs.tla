---------------------------- MODULE StartupProofs ----------------------------
(***************************************************************************)
(* Theorems about Startup, for every file, every maxConnCount and every    *)
(* behaviour of the database.                                              *)
(*                                                                         *)
(* That a session recovers in two requests is not inductive: it needs how  *)
(* far a failed call has got, what is left of the session, and that the    *)
(* connect string saved for reconnect is one the database takes, because   *)
(* the worker was started.                                                 *)
(***************************************************************************)
EXTENDS Startup, ConfigProofs

\* The types of what the sessions are made of.
SessionTypeOK ==
  /\ dbUp \in BOOLEAN
  /\ open \in [Slots -> BOOLEAN]
  /\ alive \in [Slots -> BOOLEAN]
  /\ DOMAIN login = Slots
  /\ work \in [Slots -> Work]
  /\ misses \in [Slots -> 0..MaxMisses]

\* Nobody works before StartWorkers.
BeforeInv ==
  stage \in {"config", "server", "logon"} =>
    \A i \in Slots : work[i] = "none" /\ misses[i] = 0

\* A session that was ever logged on has saved what it needs to do it again.
LoginInv ==
  \A i \in Slots : open[i] \/ work[i] # "none" => login[i] \in Logins

\* How many requests have missed the database since it can be reached, by how far
\* the worker has come.
MissInv ==
  \A i \in Slots :
    /\ misses[i] <= 2
    /\ dbUp /\ work[i] \in {"idle", "calling"} =>
         misses[i] = 0 \/ (misses[i] = 1 /\ ~open[i]) \/ Usable(i)
    /\ dbUp /\ work[i] = "loggingOff" => misses[i] <= 1 \/ ~open[i]

SessionsInv == SessionTypeOK /\ BeforeInv /\ LoginInv /\ MissInv

-----------------------------------------------------------------------------
(* SessionsInv is an invariant.                                            *)

\* The sessions start logged off and unused.
LEMMA SessionsInit == StartupInit => SessionsInv
<1> SUFFICES ASSUME StartupInit PROVE SessionsInv
  OBVIOUS
<1> USE DEF StartupInit
<1>1. SessionTypeOK
  <2>1. 0 \in 0..MaxMisses /\ "none" \in Work
    BY DEF MaxMisses, Work
  <2>2. QED
    BY <2>1, Zenon DEF SessionTypeOK
<1>2. BeforeInv
  BY DEF BeforeInv
<1>3. LoginInv
  BY DEF LoginInv
<1>4. MissInv
  BY DEF MissInv
<1>5. QED
  BY <1>1, <1>2, <1>3, <1>4 DEF SessionsInv

\* Minimum of a number and MaxMisses.
LEMMA MinMisses ==
  ASSUME NEW n \in Nat
  PROVE  Min({n, MaxMisses}) = IF n <= MaxMisses THEN n ELSE MaxMisses
BY DEF Min, MaxMisses

\* The main thread.
LEMMA MainKeeps ==
  SessionsInv /\ MainStep => SessionsInv'
<1> SUFFICES ASSUME SessionsInv, MainStep PROVE SessionsInv'
  OBVIOUS
<1> USE DEF SessionsInv, SessionTypeOK, BeforeInv, LoginInv, MissInv, sessionVars, Goto,
            Usable
<1>1. CASE ReadConfig \/ Configured \/ Misconfigured
  BY <1>1 DEF ReadConfig, Configured, Misconfigured
<1>2. CASE InitServer
  BY <1>2 DEF InitServer
<1>3. ASSUME NEW i \in Connections, Logon(i)
      PROVE  SessionsInv'
  BY <1>3 DEF Logon, NextConnection
<1>4. ASSUME NEW i \in Connections, LogonFails(i)
      PROVE  SessionsInv'
  BY <1>4 DEF LogonFails, NextConnection
<1>5. CASE StartWorkers
  BY <1>5 DEF StartWorkers, Work
<1>6. CASE Stop
  BY <1>6 DEF Stop
<1>7. CASE DeleteConnections
  BY <1>7 DEF DeleteConnections
<1>8. QED
  BY <1>1, <1>2, <1>3, <1>4, <1>5, <1>6, <1>7 DEF MainStep

\* The workers.
LEMMA SessionKeeps ==
  ASSUME SessionsInv, NEW i \in Slots, SessionStep(i)
  PROVE  SessionsInv'
<1> USE DEF SessionsInv, SessionTypeOK, BeforeInv, LoginInv, MissInv, WorkGoto, Usable,
            Work
<1>1. CASE Call(i)
  BY <1>1 DEF Call
<1>2. CASE Return(i)
  BY <1>2 DEF Return, MaxMisses
<1>3. CASE Throw(i)
  BY <1>3, MinMisses DEF Throw, MaxMisses
<1>4. CASE Logoff(i)
  BY <1>4 DEF Logoff
<1>5. CASE LogoffThrows(i)
  BY <1>5 DEF LogoffThrows
<1>6. CASE Relogon(i)
  BY <1>6 DEF Relogon
<1>7. CASE EndWorker(i)
  BY <1>7 DEF EndWorker
<1>8. QED
  BY <1>1, <1>2, <1>3, <1>4, <1>5, <1>6, <1>7 DEF SessionStep

\* The database.
LEMMA DatabaseKeeps ==
  SessionsInv /\ (GoDown \/ ComeUp \/ \E i \in Slots : LoseSession(i)) => SessionsInv'
<1> SUFFICES ASSUME SessionsInv,
                    GoDown \/ ComeUp \/ \E i \in Slots : LoseSession(i)
             PROVE  SessionsInv'
  OBVIOUS
<1> USE DEF SessionsInv, SessionTypeOK, BeforeInv, LoginInv, MissInv, Usable
<1>1. CASE GoDown
  BY <1>1 DEF GoDown
<1>2. CASE ComeUp
  BY <1>2 DEF ComeUp, MaxMisses
<1>3. ASSUME NEW i \in Slots, LoseSession(i)
      PROVE  SessionsInv'
  BY <1>3 DEF LoseSession, MaxMisses
<1>4. QED
  BY <1>1, <1>2, <1>3

\* Every step of the program and of the database keeps SessionsInv.
LEMMA SessionsNext == SessionsInv /\ [StartupNext]_startupVars => SessionsInv'
<1>1. SessionsInv /\ UNCHANGED startupVars => SessionsInv'
  BY DEF SessionsInv, SessionTypeOK, BeforeInv, LoginInv, MissInv, Usable, startupVars,
         sessionVars
<1>2. QED
  BY <1>1, MainKeeps, SessionKeeps, DatabaseKeeps DEF StartupNext

\* At any time a session is usable, or it was logged on before and its worker is on the
\* way to log it on again with the saved connect string.
THEOREM SessionsInvariant == StartupSpec => []SessionsInv
BY SessionsInit, SessionsNext, PTL DEF StartupSpec

\* Once the database is up, a lost session costs its worker two requests at most,
\* whether it is lost while a call runs or in the middle of reconnect.
THEOREM RecoversSoon == StartupSpec => []RecoversInTwo
<1>1. SessionsInv => RecoversInTwo
  BY DEF SessionsInv, MissInv, RecoversInTwo
<1>2. QED
  BY <1>1, SessionsInvariant, PTL

-----------------------------------------------------------------------------
(* Startup implements SessionService.                                      *)

\* The phase of a worker at p; the mapping in Startup, per worker.
Phase(p) == CASE p = "none"                        -> "unused"
              [] p \in {"loggingOff", "loggingOn"} -> "failed"
              [] OTHER                             -> p

\* One session takes a step and the others stay.
LEMMA OneSession ==
  ASSUME NEW i \in Slots,
         \A j \in Slots \ {i} : work'[j] = work[j] /\ open'[j] = open[j],
         \/ /\ <<Phase(work[i]), Phase(work'[i])>> \in
                 {<<"idle", "calling">>, <<"calling", "failed">>, <<"idle", "unused">>}
            /\ open'[i] = open[i]
         \/ /\ Phase(work[i]) = "calling" /\ Phase(work'[i]) = "idle"
            /\ open[i] /\ open'[i] = open[i]
         \/ Phase(work[i]) = "failed" /\ Phase(work'[i]) \in {"failed", "idle"}
  PROVE  Session!Next
<1>1. ASSUME NEW j \in Slots, j # i
      PROVE  Session!Stay(j)
  BY <1>1 DEF Session!Stay, Session!Same
<1>2. \/ Session!Call(i) \/ Session!Throw(i) \/ Session!EndUse(i)
      \/ Session!Return(i) \/ Session!Stay(i) \/ Session!Reconnect(i)
  BY DEF Phase, Session!Call, Session!Throw, Session!EndUse, Session!Return,
         Session!Stay, Session!Reconnect, Session!Goto, Session!Same
<1>3. QED
  BY <1>1, <1>2 DEF Session!Next

\* The steps of the main thread, while nobody works or without a change.
LEMMA MainImplements ==
  SessionsInv /\ MainStep => [Session!Next]_(Session!vars)
<1> SUFFICES ASSUME SessionsInv, MainStep PROVE [Session!Next]_(Session!vars)
  OBVIOUS
<1>1. CASE ReadConfig \/ Configured \/ Misconfigured \/ InitServer \/ Stop
  BY <1>1 DEF ReadConfig, Configured, Misconfigured, InitServer, Stop, sessionVars,
              Session!vars
<1>2. ASSUME (\E i \in Connections : Logon(i) \/ LogonFails(i)) \/ DeleteConnections
      PROVE  Session!Next
  <2>1. work' = work /\ \A i \in Slots : work[i] = "none"
    BY <1>2 DEF Logon, LogonFails, NextConnection, DeleteConnections, Goto, SessionsInv,
                BeforeInv
  <2>2. QED
    BY <2>1 DEF Session!Next, Session!LogonOrOff, Session!Goto
<1>3. ASSUME StartWorkers
      PROVE  Session!Next
  <2>1. ASSUME NEW i \in Slots
        PROVE  Session!StartUse(i) \/ Session!LogonOrOff(i)
    BY <1>3 DEF StartWorkers, Goto, SessionsInv, BeforeInv, Session!StartUse,
                Session!LogonOrOff, Session!Goto, Session!Same
  <2>2. QED
    BY <2>1 DEF Session!Next
<1>4. QED
  BY <1>1, <1>2, <1>3 DEF MainStep

\* The steps of a worker.
LEMMA WorkerImplements ==
  ASSUME SessionsInv, NEW i \in Slots, SessionStep(i)
  PROVE  Session!Next
<1>1. /\ \A j \in Slots \ {i} : work'[j] = work[j] /\ open'[j] = open[j]
      /\ \/ Call(i) \/ Return(i) \/ Throw(i) \/ EndWorker(i)
         \/ Logoff(i) \/ LogoffThrows(i) \/ Relogon(i)
  BY DEF SessionStep, Call, Return, Throw, EndWorker, Logoff, LogoffThrows, Relogon,
         WorkGoto, SessionsInv, SessionTypeOK
<1>2. CASE Call(i) \/ Throw(i) \/ EndWorker(i)
  <2>1. /\ <<Phase(work[i]), Phase(work'[i])>> \in
             {<<"idle", "calling">>, <<"calling", "failed">>, <<"idle", "unused">>}
        /\ open'[i] = open[i]
    BY <1>2 DEF Call, Throw, EndWorker, WorkGoto, Phase, SessionsInv, SessionTypeOK
  <2>2. QED
    BY <1>1, <2>1, OneSession
<1>3. CASE Return(i)
  <2>1. /\ Phase(work[i]) = "calling" /\ Phase(work'[i]) = "idle"
        /\ open[i] /\ open'[i] = open[i]
    BY <1>3 DEF Return, Usable, WorkGoto, Phase, SessionsInv, SessionTypeOK
  <2>2. QED
    BY <1>1, <2>1, OneSession
<1>4. CASE Logoff(i) \/ LogoffThrows(i) \/ Relogon(i)
  <2>1. Phase(work[i]) = "failed" /\ Phase(work'[i]) \in {"failed", "idle"}
    BY <1>4 DEF Logoff, LogoffThrows, Relogon, WorkGoto, Phase, SessionsInv,
                SessionTypeOK
  <2>2. QED
    BY <1>1, <2>1, OneSession
<1>5. QED
  BY <1>1, <1>2, <1>3, <1>4

\* Every step of the program and of the database is one of SessionService, or leaves it
\* alone.
LEMMA SessionNext ==
  SessionsInv /\ [StartupNext]_startupVars => [Session!Next]_(Session!vars)
<1>1. GoDown \/ ComeUp \/ (\E i \in Slots : LoseSession(i)) \/ UNCHANGED startupVars
        => UNCHANGED Session!vars
  BY DEF GoDown, ComeUp, LoseSession, startupVars, sessionVars, Session!vars
<1>2. QED
  BY <1>1, MainImplements, WorkerImplements DEF StartupNext

\* However the database goes down and comes back, wherever logging off or on fails:
\* the pool's workers find their sessions as ConnectionPool assumes.
THEOREM StartupImplementsSession == StartupSpec => ImplementsSession
<1>1. StartupInit => Session!Init
  BY DEF StartupInit, Session!Init
<1>2. QED
  BY <1>1, SessionNext, SessionsInvariant, PTL
     DEF StartupSpec, ImplementsSession, Session!Spec

-----------------------------------------------------------------------------
(* The types of all variables.                                             *)

\* The variables of main() and what the sessions have saved.
StageTypeOK ==
  /\ ConfigTypeOK
  /\ stage \in Stages
  /\ login \in [Slots -> Text]

\* Every step keeps these types.
LEMMA StageNext == StageTypeOK /\ [StartupNext]_startupVars => StageTypeOK'
<1> SUFFICES ASSUME StageTypeOK, [StartupNext]_startupVars PROVE StageTypeOK'
  OBVIOUS
<1> USE DEF StageTypeOK, Goto, sessionVars, configVars
<1>1. CASE ReadConfig
  BY <1>1, ConfigTypeNext DEF ReadConfig
<1>2. CASE Configured
  <2>1. <<>> \in Seq(Text)
    OBVIOUS
  <2>2. QED
    BY <1>2, <2>1 DEF Configured, ConfigTypeOK, Stages
<1>3. CASE Misconfigured \/ InitServer \/ StartWorkers \/ Stop \/ DeleteConnections
  BY <1>3 DEF Misconfigured, InitServer, StartWorkers, Stop, DeleteConnections, Stages,
              ConfigTypeOK
<1>4. ASSUME NEW i \in Connections, Logon(i) \/ LogonFails(i)
      PROVE  StageTypeOK'
  <2>1. settings["CONNECT_STRING"] \in Text
    BY DEF ConfigTypeOK, Names, SettingType
  <2>2. QED
    BY <1>4, <2>1 DEF Logon, LogonFails, ConfigTypeOK, Stages
<1>5. ASSUME NEW i \in Slots, SessionStep(i) \/ LoseSession(i)
      PROVE  StageTypeOK'
  BY <1>5 DEF SessionStep, Call, Return, Throw, Logoff, LogoffThrows, Relogon, EndWorker,
              LoseSession, ConfigTypeOK
<1>6. CASE GoDown \/ ComeUp \/ UNCHANGED startupVars
  BY <1>6 DEF GoDown, ComeUp, startupVars, ConfigTypeOK
<1>7. QED
  BY <1>1, <1>2, <1>3, <1>4, <1>5, <1>6 DEF StartupNext, MainStep

\* Every setting is a number of the width of its field, a level or a string, from the
\* defaults on and whatever the file says; and what the sessions keep has its type.
THEOREM StartupTypeCorrect == StartupSpec => []StartupTypeOK
<1>1. StartupInit => StageTypeOK
  <2>1. <<>> \in Text
    BY DEF Text
  <2>2. QED
    BY <2>1, ConfigTypeInit DEF StartupInit, StageTypeOK, Stages
<1>2. StageTypeOK /\ SessionsInv => StartupTypeOK
  BY DEF StageTypeOK, ConfigTypeOK, SessionsInv, SessionTypeOK, StartupTypeOK, SettingType,
         Text
<1>3. QED
  BY <1>1, <1>2, StageNext, SessionsInvariant, PTL DEF StartupSpec

-----------------------------------------------------------------------------
(* The configuration the server is started with.                           *)

\* Reading the file is main()'s first step, and nothing afterwards changes a setting.
LEMMA StartupReads == ReadInv /\ [StartupNext]_startupVars => ReadInv'
<1> SUFFICES ASSUME ReadInv, [StartupNext]_startupVars PROVE ReadInv'
  OBVIOUS
<1>1. CASE ReadConfig
  BY <1>1, ReadNext DEF ReadConfig
<1>2. CASE Configured
  <2>1. status' = "closed" /\ settings' = settings /\ file' = <<>>
    BY <1>2 DEF Configured
  <2>2. ConfigTypeOK'
    BY <2>1 DEF ReadInv, ConfigTypeOK
  <2>3. QED
    BY <2>1, <2>2 DEF ReadInv, SettingsAreLastLines
<1>3. ~ReadConfig /\ ~Configured => UNCHANGED configVars
  BY DEF StartupNext, MainStep, Misconfigured, InitServer, Logon, LogonFails, StartWorkers,
         Stop, DeleteConnections, SessionStep, Call, Return, Throw, Logoff, LogoffThrows,
         Relogon, EndWorker, GoDown, ComeUp, LoseSession, startupVars, configVars
<1>4. QED
  BY <1>1, <1>2, <1>3, ReadStays

\* At any time of reading the settings are those of the lines read.
LEMMA ReadInvariant == StartupSpec => []ReadInv
<1>1. StartupInit => ReadInv
  BY ReadInit DEF StartupInit
<1>2. QED
  BY <1>1, StartupReads, PTL DEF StartupSpec

\* Whatever the file, of any number of lines of any form: each option has the value
\* that its last line gives it by the grammar, or its default if there is none.
THEOREM SettingsFollowFile == StartupSpec => []SettingsAreLastLines
BY ReadJudges, ReadInvariant, PTL

\* Whatever the file: reading stops at its first bad line and at no other.  At its end
\* a file with a connect string that is written with 1 to maxConnCount connections is
\* never refused; one without a connect string, or with another number of connections
\* that an unsigned short holds, is never accepted.
THEOREM FileJudged == StartupSpec => []FileIsJudged
BY ReadJudges, ReadInvariant, PTL

=============================================================================

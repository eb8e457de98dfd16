------------------------------ MODULE Startup ------------------------------
(***************************************************************************)
(* From the configuration file to the database sessions of the workers:    *)
(* main() reads the file, the server logs one session on for each of       *)
(* CONNECTION_COUNT workers, and DBConnect::reconnect tries to replace a   *)
(* session whose call threw.  The database goes down and comes back and    *)
(* sessions are lost, at any moment.                                       *)
(*                                                                         *)
(* What the workers do besides calling the database is ConnectionPool's;   *)
(* here a worker takes a request whenever it is idle.                      *)
(***************************************************************************)
EXTENDS Config

CONSTANT
  Logins     \* the connect strings the database takes, as the file has them

ASSUME LoginAssumption == <<>> \notin Logins

VARIABLES
  stage,     \* where the main thread is
  dbUp,      \* does the database take logons and keep sessions?
  open,      \* otl_connect's connected, per session
  alive,     \* does the database still have the session?
  login,     \* connectString as DBConnect::rlogon saved it
  work,      \* where the session's worker thread is
  misses     \* history: calls in a row that did not reach the database since the
             \*   session was lost or the database came back

sessionVars == <<open, alive, login, work, misses>>
startupVars == <<configVars, stage, dbUp, sessionVars>>

Stages == {"config", "server", "logon", "running", "exiting", "exited"}

Work == {"none", "idle", "calling", "loggingOff", "loggingOn"}

\* The sessions there can be.
Slots == minConnCount..maxConnCount

\* The elements of dbConnectPool.
Connections == 1..settings["CONNECTION_COUNT"]

MaxMisses == 3   \* bound: misses are counted no further

Goto(from, to) ==
  /\ stage = from
  /\ stage' = to

WorkGoto(i, from, to) ==
  /\ work[i] = from
  /\ work' = [work EXCEPT ![i] = to]

\* A call on the session reaches the database.
Usable(i) == dbUp /\ open[i] /\ alive[i]

StartupInit ==
  /\ ConfigInit
  /\ stage = "config"
  /\ dbUp = FALSE
  /\ open = [i \in Slots |-> FALSE]
  /\ alive = [i \in Slots |-> FALSE]
  /\ login = [i \in Slots |-> <<>>]
  /\ work = [i \in Slots |-> "none"]
  /\ misses = [i \in Slots |-> 0]

-----------------------------------------------------------------------------
(* The main thread.                                                        *)

ReadConfig ==
  /\ stage = "config"
  /\ ConfigNext
  /\ UNCHANGED <<stage, dbUp, sessionVars>>

\* The file is not looked at again.
Configured ==
  /\ status = "accepted"
  /\ Goto("config", "server")
  /\ status' = "closed"
  /\ file' = <<>>
  /\ UNCHANGED <<settings, dbUp, sessionVars>>

\* main() exits before there is anything to undo.
Misconfigured ==
  /\ status \in {"badLine", "invalid"}
  /\ Goto("config", "exited")
  /\ UNCHANGED <<configVars, dbUp, sessionVars>>

\* The log writer, the socket and the Kafka producer are made, or one fails.
InitServer ==
  /\ stage = "server"
  /\ stage' \in {"logon", "exiting"}
  /\ dbUp' \in BOOLEAN
  /\ UNCHANGED <<configVars, sessionVars>>

\* The next element of dbConnectPool.
NextConnection(i) ==
  /\ stage = "logon"
  /\ ~open[i]
  /\ \A j \in 1..i - 1 : open[j]

\* Mutant: the connect string is not saved (the base class's rlogon).
LogonUnsaved(i) ==
  /\ NextConnection(i)
  /\ dbUp /\ settings["CONNECT_STRING"] \in Logins
  /\ open' = [open EXCEPT ![i] = TRUE]
  /\ alive' = [alive EXCEPT ![i] = TRUE]
  /\ UNCHANGED <<configVars, stage, dbUp, login, work, misses>>

Logon(i) ==
  /\ NextConnection(i)
  /\ dbUp /\ settings["CONNECT_STRING"] \in Logins
  /\ login' = [login EXCEPT ![i] = settings["CONNECT_STRING"]]
  /\ open' = [open EXCEPT ![i] = TRUE]
  /\ alive' = [alive EXCEPT ![i] = TRUE]
  /\ UNCHANGED <<configVars, stage, dbUp, work, misses>>

\* Initialize returns false and main() exits.
LogonFails(i) ==
  /\ NextConnection(i)
  /\ ~(dbUp /\ settings["CONNECT_STRING"] \in Logins)
  /\ login' = [login EXCEPT ![i] = settings["CONNECT_STRING"]]
  /\ Goto("logon", "exiting")
  /\ UNCHANGED <<configVars, dbUp, open, alive, work, misses>>

\* Mutant: the threads are started although a logon is still to come.
StartWorkersEarly ==
  /\ Goto("logon", "running")
  /\ \E i \in Connections : open[i]
  /\ work' = [i \in Slots |-> IF i \in Connections THEN "idle" ELSE "none"]
  /\ UNCHANGED <<configVars, dbUp, open, alive, login, misses>>

\* The worker threads, one for each connection.
StartWorkers ==
  /\ Goto("logon", "running")
  /\ \A i \in Connections : open[i]
  /\ work' = [i \in Slots |-> IF i \in Connections THEN "idle" ELSE "none"]
  /\ UNCHANGED <<configVars, dbUp, open, alive, login, misses>>

\* Run returns and the pool is destroyed.
Stop ==
  /\ Goto("running", "exiting")
  /\ UNCHANGED <<configVars, dbUp, sessionVars>>

\* The threads have been joined and the connections are deleted, which logs off.
DeleteConnections ==
  /\ \A i \in Slots : work[i] = "none"
  /\ Goto("exiting", "exited")
  /\ open' = [i \in Slots |-> FALSE]
  /\ alive' = [i \in Slots |-> FALSE]
  /\ UNCHANGED <<configVars, dbUp, login, work, misses>>

-----------------------------------------------------------------------------
(* The worker threads.                                                     *)

\* request->Process calls the stored procedure.
Call(i) ==
  /\ WorkGoto(i, "idle", "calling")
  /\ UNCHANGED <<configVars, stage, dbUp, open, alive, login, misses>>

Return(i) ==
  /\ Usable(i)
  /\ WorkGoto(i, "calling", "idle")
  /\ misses' = [misses EXCEPT ![i] = 0]
  /\ UNCHANGED <<configVars, stage, dbUp, open, alive, login>>

\* For want of a session, or for what the procedure does.
Throw(i) ==
  /\ WorkGoto(i, "calling", "loggingOff")
  /\ misses' = [misses EXCEPT ![i] = IF Usable(i) THEN 0
                                     ELSE IF dbUp THEN Min({@ + 1, MaxMisses})
                                     ELSE @]
  /\ UNCHANGED <<configVars, stage, dbUp, open, alive, login>>

\* reconnect: logoff() returns, which it always does when not logged on, ...
Logoff(i) ==
  /\ WorkGoto(i, "loggingOff", "loggingOn")
  /\ open' = [open EXCEPT ![i] = FALSE]
  /\ alive' = [alive EXCEPT ![i] = FALSE]
  /\ UNCHANGED <<configVars, stage, dbUp, login, misses>>

\* ... or throws, so that rlogon is left out.
LogoffThrows(i) ==
  /\ open[i]
  /\ WorkGoto(i, "loggingOff", "idle")
  /\ open' = [open EXCEPT ![i] = FALSE]
  /\ alive' = [alive EXCEPT ![i] = FALSE]
  /\ UNCHANGED <<configVars, stage, dbUp, login, misses>>

\* reconnect: rlogon with what was saved; an exception is swallowed.
Relogon(i) ==
  /\ WorkGoto(i, "loggingOn", "idle")
  /\ open' = [open EXCEPT ![i] = dbUp /\ login[i] \in Logins]
  /\ alive' = [alive EXCEPT ![i] = dbUp /\ login[i] \in Logins]
  /\ UNCHANGED <<configVars, stage, dbUp, login, misses>>

\* The thread ends.
EndWorker(i) ==
  /\ stage = "exiting"
  /\ WorkGoto(i, "idle", "none")
  /\ UNCHANGED <<configVars, stage, dbUp, open, alive, login, misses>>

-----------------------------------------------------------------------------
(* The database.                                                           *)

\* Before and after nobody can tell whether it is up.
InUse == stage \in {"logon", "running", "exiting"}

GoDown ==
  /\ dbUp
  /\ InUse
  /\ dbUp' = FALSE
  /\ alive' = [i \in Slots |-> FALSE]
  /\ UNCHANGED <<configVars, stage, open, login, work, misses>>

ComeUp ==
  /\ ~dbUp
  /\ InUse
  /\ dbUp' = TRUE
  /\ misses' = [i \in Slots |-> 0]
  /\ UNCHANGED <<configVars, stage, open, alive, login, work>>

\* A time limit, a network failure or an administrator ends one session.
LoseSession(i) ==
  /\ alive[i]
  /\ alive' = [alive EXCEPT ![i] = FALSE]
  /\ misses' = [misses EXCEPT ![i] = 0]
  /\ UNCHANGED <<configVars, stage, dbUp, open, login, work>>

-----------------------------------------------------------------------------

MainStep ==
  \/ ReadConfig
  \/ Configured
  \/ Misconfigured
  \/ InitServer
  \/ \E i \in Connections : Logon(i) \/ LogonFails(i)
  \/ StartWorkers
  \/ Stop
  \/ DeleteConnections

SessionStep(i) ==
  \/ Call(i)
  \/ Return(i)
  \/ Throw(i)
  \/ Logoff(i)
  \/ LogoffThrows(i)
  \/ Relogon(i)
  \/ EndWorker(i)

StartupNext ==
  \/ MainStep
  \/ \E i \in Slots : SessionStep(i) \/ LoseSession(i)
  \/ GoDown
  \/ ComeUp

StartupSpec == StartupInit /\ [][StartupNext]_startupVars

-----------------------------------------------------------------------------
(* Properties.                                                             *)

\* Every variable has its type; each setting is a number of its width, a level
\* or a string.
StartupTypeOK ==
  /\ status \in {"reading", "badLine", "invalid", "accepted", "closed"}
  /\ \A name \in Names :
       CASE name = "SERVER_PORT"      -> settings[name] \in 0..UInt - 1
         [] name = "CONNECTION_COUNT" -> settings[name] \in 0..UShort - 1
         [] name = "LOG_LEVEL"        -> settings[name] \in LogLevels
         [] OTHER                     -> settings[name] \in Seq(Marks \cup Words)
  /\ file \in Seq(Seq(Marks \cup Words))
  /\ stage \in Stages
  /\ dbUp \in BOOLEAN
  /\ open \in [Slots -> BOOLEAN]
  /\ alive \in [Slots -> BOOLEAN]
  /\ login \in [Slots -> Seq(Marks \cup Words)]
  /\ work \in [Slots -> Work]
  /\ misses \in [Slots -> 0..MaxMisses]

\* While the database is up, a lost session costs its worker two requests at
\* most: one that finds the session lost, and one more if logging off throws, so
\* that reconnect leaves before it logs on.
RecoversInTwo == \A i \in Slots : misses[i] <= 2

\* Every session keeps what ConnectionPool relies on.
Session == INSTANCE SessionService WITH
  Sessions <- Slots,
  up       <- open,
  phase    <- [i \in Slots |-> CASE work[i] = "none" -> "unused"
                                 [] work[i] \in {"loggingOff", "loggingOn"} -> "failed"
                                 [] OTHER -> work[i]]

ImplementsSession == Session!Spec

=============================================================================

--------------------------- MODULE SessionService ---------------------------
(***************************************************************************)
(* What a worker thread may rely on of its database session (DBConnect):   *)
(* it starts with a session that is logged on, only a session that is      *)
(* logged on returns a result, and whether it is logged on changes while   *)
(* nobody works on it and in reconnect, never in the middle of a call.     *)
(* ConnectionPool is written on these terms; Startup, where sessions are   *)
(* lost and logging off and on are steps that fail, keeps them.            *)
(***************************************************************************)
CONSTANT
  Sessions

VARIABLES
  up,      \* is it logged on? per session
  phase    \* "unused", "idle", "calling" or "failed"

Init ==
  /\ up = [s \in Sessions |-> FALSE]
  /\ phase = [s \in Sessions |-> "unused"]

Goto(s, from, to) ==
  /\ phase[s] = from
  /\ phase'[s] = to

Same(s) == up'[s] = up[s]

\* Initialize and the destructor log on and off.
LogonOrOff(s) == Goto(s, "unused", "unused")

StartUse(s) == Goto(s, "unused", "idle") /\ up[s] /\ Same(s)

Call(s) == Goto(s, "idle", "calling") /\ Same(s)

Return(s) == Goto(s, "calling", "idle") /\ up[s] /\ Same(s)

Throw(s) == Goto(s, "calling", "failed") /\ Same(s)

\* It ends logged on or not.
Reconnect(s) == Goto(s, "failed", "idle")

\* Waiting, in reconnect or not.
Stay(s) == phase'[s] = phase[s] /\ (phase[s] = "failed" \/ Same(s))

EndUse(s) == Goto(s, "idle", "unused") /\ Same(s)

Next ==
  \A s \in Sessions :
    \/ LogonOrOff(s)
    \/ StartUse(s)
    \/ Call(s)
    \/ Return(s)
    \/ Throw(s)
    \/ Reconnect(s)
    \/ Stay(s)
    \/ EndUse(s)

vars == <<up, phase>>

Spec == Init /\ [][Next]_vars

=============================================================================

--------------------------- MODULE RequestService ---------------------------
(***************************************************************************)
(* What the pool promises about one request, whatever threads, queue and   *)
(* clock do: it is accepted once, meets one fate, is charged at most once  *)
(* and only after an attempt to answer it, and is then forgotten.          *)
(*                                                                         *)
(* ConnectionPool is shown to implement this specification.                *)
(***************************************************************************)
EXTENDS Naturals

CONSTANT Requests

VARIABLES
  status,    \* where each request is in its life
  charged    \* the requests a CDR was produced for

vars == <<status, charged>>

Final == {"answered", "unsent", "discarded", "dbError"}

Statuses == {"unseen", "pending"} \cup Final \cup {"forgotten"}

Init ==
  /\ status = [r \in Requests |-> "unseen"]
  /\ charged = {}

Move(r, from, to) ==
  /\ status[r] = from
  /\ status' = [status EXCEPT ![r] = to]

Accept(r) ==
  /\ Move(r, "unseen", "pending")
  /\ UNCHANGED charged

\* The request is answered, or answering fails, or it is too old, or the
\* database cannot handle it: one of these, once.
Settle(r) ==
  /\ \E f \in Final : Move(r, "pending", f)
  /\ UNCHANGED charged

\* A CDR is produced after the answer was sent or could not be sent.
Charge(r) ==
  /\ status[r] \in {"answered", "unsent"}
  /\ r \notin charged
  /\ charged' = charged \cup {r}
  /\ UNCHANGED status

Forget(r) ==
  /\ \E f \in Final : Move(r, f, "forgotten")
  /\ UNCHANGED charged

Next == \E r \in Requests : Accept(r) \/ Settle(r) \/ Charge(r) \/ Forget(r)

Spec == Init /\ [][Next]_vars

=============================================================================

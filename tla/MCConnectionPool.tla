-------------------------- MODULE MCConnectionPool --------------------------
(***************************************************************************)
(* Small instances of ConnectionPool for TLC.                              *)
(***************************************************************************)
EXTENDS ConnectionPool, TLC

CONSTANTS r1, r2, r3, r4, w1, w2

\* r1 is an SMS, r2 a quota request, the others are call finish requests.
MCKind ==
  [r \in Requests |->
     CASE r = r1 -> "sms" [] r = r2 -> "quota" [] OTHER -> "callFinish"]

WorkerSymmetry == Permutations(Workers)

=============================================================================

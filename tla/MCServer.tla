------------------------------ MODULE MCServer ------------------------------
(***************************************************************************)
(* Small instances of Server for TLC.                                      *)
(***************************************************************************)
EXTENDS Server, TLC

CONSTANTS r1, r2, w1, w2, bad, alive, unsupported, garbage, ignored

MCKind == [r \in Requests |-> IF r = r1 THEN "sms" ELSE "callFinish"]

MCPackets == Requests \cup {bad, alive, unsupported, garbage, ignored}

MCClass ==
  [p \in MCPackets |->
     CASE p \in Requests -> "valid"
       [] p \in {bad, ignored} -> "invalid"
       [] p = alive -> "alive"
       [] p = unsupported -> "unsupported"
       [] p = garbage -> "garbage"]

\* Requests in front of, between and behind packets of every other class.
OneRequest == {<<bad, unsupported, r1, alive, garbage, ignored>>}

TwoRequests == {<<bad, r1, garbage, ignored>>, <<unsupported, r2, alive>>}

WorkerSymmetry == Permutations(Workers)

=============================================================================

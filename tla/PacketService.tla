---------------------------- MODULE PacketService ----------------------------
(***************************************************************************)
(* What a client may rely on for the packets of its datagrams, whatever    *)
(* the main thread, the workers and signals do: datagrams are read one     *)
(* after the other, a packet after those before it and never twice, none   *)
(* behind one that cannot be read; and each packet is answered at most     *)
(* once, at once or, if it is a request, as RequestService says.           *)
(*                                                                         *)
(* Server is shown to implement this specification.                        *)
(***************************************************************************)
EXTENDS RequestService, Sequences

CONSTANTS
  Packets,      \* the packets of the clients, Requests among them
  Unreadable,   \* those that cannot be parsed
  Datagrams     \* sequences of packets

PacketsInit ==
  /\ status = [p \in Packets |-> "unseen"]
  /\ charged = {}

Seen == {p \in Packets : status[p] # "unseen"}

\* The first n packets of a datagram were read.
ReadTo(d, n) == \A i \in 1..n : d[i] \in Seen

\* A datagram that was begun and goes on with a packet that can be read.
Open(d) ==
  \E i \in 2..Len(d) : ReadTo(d, i - 1) /\ d[i] \notin Seen \cup Unreadable

\* The packet is the next of its datagram, and no other datagram is open.
InTurn(p) ==
  \E d \in Datagrams :
    /\ \E i \in DOMAIN d : d[i] = p /\ ReadTo(d, i - 1)
    /\ \A e \in Datagrams \ {d} : ~Open(e)

\* The packet is no request: it is answered and that is all, or sending fails.
Answer(p) ==
  /\ p \notin Requests \cup Unreadable
  /\ \E f \in {"answered", "unsent"} : Move(p, "unseen", f)
  /\ InTurn(p)
  /\ UNCHANGED charged

PacketsNext ==
  \/ \E p \in Packets : Answer(p)
  \/ \E r \in Requests : (Accept(r) /\ InTurn(r)) \/ Settle(r) \/ Charge(r) \/ Forget(r)

PacketsSpec == PacketsInit /\ [][PacketsNext]_vars

=============================================================================

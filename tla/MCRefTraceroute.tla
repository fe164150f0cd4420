--------------------------- MODULE MCRefTraceroute ---------------------------
(* The instance of RefTraceroute for TLC. *)
EXTENDS RefTraceroute

\* On the way, unreachable (for IPv4 from the destination, for IPv6 on its way)
\* and the answer to a ping, which a UDP traceroute turns down.
MCAnswers ==
    { [type |-> "exceeded", code |-> 0],
      [type |-> "unreach", code |-> 3],
      [type |-> "echoreply", code |-> 0] }

\* No sequence number, and one of the table.
MCStack == {-1, 1}
=============================================================================

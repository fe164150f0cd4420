----------------------------- MODULE RefProbes -----------------------------
(***************************************************************************)
(* The probes of the reference traceroute and the ICMP messages that       *)
(* answer them: what is written into a probe, and what packet_ok reads     *)
(* back from the copy of it that an answer quotes. (ref/worker.c)          *)
(*                                                                         *)
(* A probe is what its protocol header identifies it by: two 16-bit words, *)
(* as they lie in memory, so in network byte order where the code calls    *)
(* htons.                                                                  *)
(***************************************************************************)
EXTENDS Integers

CONSTANTS Ident,     \* conf->ident: the process ID with its top bit set
          SrcPort    \* srcport: the UDP port the IPv6 socket is bound to

Byte == 256
Word == 65536

ASSUME IdentAssumption ==
    /\ Ident \in 32768 .. Word - 1
    /\ SrcPort \in 0 .. Word - 1

\* htons, called with an int: cut to 16 bits, bytes swapped. ntohs does the same.
Htons(x) == ((x % Byte) * Byte) + ((x \div Byte) % Byte)

\* What sendto leaves on the wire, as build_probe4 makes it.
BuildProbe4(conf, seq) ==
    CASE conf.proto = "icmp" -> [proto |-> "icmp", from |-> Htons(Ident), to |-> Htons(seq)]
      [] conf.proto = "udp"  -> [proto |-> "udp", from |-> Htons(Ident), to |-> Htons(conf.port + seq)]
      [] OTHER               -> [proto |-> "other", from |-> 0, to |-> 0]

\* As build_probe6 makes it: icmp6_id is not swapped, and the kernel fills in
\* the source port of UDP.
BuildProbe6(conf, seq) ==
    IF conf.proto = "icmp"
    THEN [proto |-> "icmp", from |-> Ident, to |-> Htons(seq)]
    ELSE [proto |-> "udp", from |-> Htons(SrcPort), to |-> Htons(conf.port + seq)]

BuildProbe(conf, seq) ==
    IF conf.v6 THEN BuildProbe6(conf, seq) ELSE BuildProbe4(conf, seq)
-----------------------------------------------------------------------------
(***************************************************************************)
(* An ICMP message as packet_ok sees it: its type and code, and the probe  *)
(* it quotes (of an echo reply: the request it answers). "exceeded" is the *)
(* one with the code "in transit"; every type packet_ok turns down is      *)
(* "other", and so is a message too short for the header it should quote.  *)
(***************************************************************************)
Wrong == [ok |-> 0, seq |-> 0]

\* The code of an unreachable message stays apart from 0, -1 and -2.
Quoting(m, seq) == [ok |-> IF m.type = "exceeded" THEN -1 ELSE m.code + 1, seq |-> seq]

\* Mutation: the ports are counted from 1, as they are not when they are sent.
SeqOfPortFromOne(conf, word) == Htons(word) - conf.port - 1

\* What is left of the port without the base: an int, negative if it wrapped.
SeqOfPort(conf, word) == Htons(word) - conf.port

Errors == {"exceeded", "unreach"}

(***************************************************************************)
(* packet_ok4. The result is a set, of one outcome but for a protocol that *)
(* is neither UDP nor ICMP: then *seq is never assigned, and sock_read     *)
(* goes on with what its stack holds (garbage).                            *)
(***************************************************************************)
PacketOk4(conf, m, garbage) ==
    CASE m.type = "other" -> {Wrong}
      [] conf.proto = "icmp" /\ m.type = "echoreply" /\ m.quoted.from = Htons(Ident) ->
            {[ok |-> -2, seq |-> Htons(m.quoted.to)]}
      [] conf.proto = "icmp" /\ m.type \in Errors /\ m.quoted.proto = "icmp"
            /\ m.quoted.from = Htons(Ident) ->
            {Quoting(m, Htons(m.quoted.to))}
      [] conf.proto = "udp" /\ m.type \in Errors /\ m.quoted.proto = "udp"
            /\ m.quoted.from = Htons(Ident) ->
            {Quoting(m, SeqOfPort(conf, m.quoted.to))}
      [] conf.proto = "other" /\ m.type \in Errors /\ m.quoted.proto = "other" ->
            { Quoting(m, seq) : seq \in garbage }
      [] OTHER -> {Wrong}

\* packet_ok6, with what get_udphdr has found in the quoted packet.
PacketOk6(conf, m) ==
    CASE m.type \in Errors /\ conf.proto = "icmp" /\ m.quoted.proto = "icmp"
            /\ m.quoted.from = Ident ->
            {Quoting(m, Htons(m.quoted.to))}
      [] m.type \in Errors /\ conf.proto # "icmp" /\ m.quoted.proto = "udp"
            /\ m.quoted.from = Htons(SrcPort) ->
            {Quoting(m, SeqOfPort(conf, m.quoted.to))}
      [] m.type = "echoreply" /\ conf.proto = "icmp" /\ m.quoted.from = Ident ->
            {[ok |-> -2, seq |-> Htons(m.quoted.to)]}
      [] OTHER -> {Wrong}

PacketOk(conf, m, garbage) ==
    IF conf.v6 THEN PacketOk6(conf, m) ELSE PacketOk4(conf, m, garbage)

(***************************************************************************)
(* icmp4_code and icmp6_code: the codes of an unreachable message that     *)
(* come from the destination itself (its port or, for IPv4, its protocol); *)
(* every other code, known or not, says that it cannot be reached.         *)
(***************************************************************************)
FromDestination(conf, code) == code \in IF conf.v6 THEN {4} ELSE {2, 3}
=============================================================================

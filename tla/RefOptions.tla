----------------------------- MODULE RefOptions -----------------------------
(***************************************************************************)
(* The command line of the reference traceroute: main reads one option     *)
(* after the other, and checks each against what was read before it.       *)
(* (ref/traceroute.c) Options that change no decision of the program are   *)
(* left out, and so is what makes main give up for other reasons.          *)
(***************************************************************************)
EXTENDS Integers

CONSTANTS DefaultTTL,     \* the system's default TTL (sysctl), 64
          DefaultProbes,  \* nprobes if there is no -q, 3
          Numbers,        \* the numbers a user gives with -f, -m and -q
          Ports,          \* the numbers a user gives with -p
          Protos,         \* the protocols a user names with -P
          MaxOptions      \* bound: the number of options on a command line

MAXTTL == 255

\* What conf->proto is told apart by: every other number is "other".
Protocols == {"udp", "icmp", "other"}

\* What strtonum takes for a TTL, for -q and for -p.
TTLs         == 1 .. MAXTTL
ProbeNumbers == 1 .. 1024
PortNumbers  == 1 .. 65535

ASSUME DefaultsAssumption ==
    /\ DefaultTTL \in TTLs
    /\ DefaultProbes \in ProbeNumbers
    /\ MaxOptions \in Nat
    /\ Protos \subseteq Protocols

VARIABLES conf,     \* struct tr_conf
          phase,    \* "options", "running", and how the process has ended
          optind    \* how many options have been read

optionVars == <<conf, phase, optind>>

\* The configuration before the first option, of traceroute or traceroute6.
Defaults(v6) ==
    [v6 |-> v6, proto |-> "udp", protoset |-> FALSE, port |-> 33434,
     first_ttl |-> 1, max_ttl |-> DefaultTTL, nprobes |-> DefaultProbes,
     Aflag |-> FALSE, nflag |-> FALSE, expected_responses |-> 2]

OptionsInit ==
    /\ \E v6 \in BOOLEAN : conf = Defaults(v6)
    /\ phase = "options"
    /\ optind = 0

NextOption ==
    /\ phase = "options"
    /\ optind < MaxOptions
    /\ optind' = optind + 1

\* strtonum: a number outside its range ends the process with a message.
Checked(ok, new) ==
    IF ok THEN conf' = new /\ UNCHANGED phase
          ELSE phase' = "failed" /\ UNCHANGED conf

LookUpAS ==
    /\ NextOption
    /\ conf' = [conf EXCEPT !.Aflag = TRUE, !.expected_responses = @ + 1]
    /\ UNCHANGED phase

Numeric ==
    /\ NextOption
    /\ conf' = [conf EXCEPT !.nflag = TRUE, !.expected_responses = @ - 1]
    /\ UNCHANGED phase

FirstTTL(k) ==
    /\ NextOption
    /\ Checked(k \in 1 .. conf.max_ttl, [conf EXCEPT !.first_ttl = k])

\* Mutation: the maximum is not compared with the first TTL.
MaxTTLUnchecked(k) ==
    /\ NextOption
    /\ Checked(k \in TTLs, [conf EXCEPT !.max_ttl = k])

MaxTTL(k) ==
    /\ NextOption
    /\ Checked(k \in conf.first_ttl .. MAXTTL, [conf EXCEPT !.max_ttl = k])

Queries(k) ==
    /\ NextOption
    /\ Checked(k \in ProbeNumbers, [conf EXCEPT !.nprobes = k])

BasePort(k) ==
    /\ NextOption
    /\ Checked(k \in PortNumbers, [conf EXCEPT !.port = k])

UseICMP ==
    /\ NextOption
    /\ Checked(~conf.protoset, [conf EXCEPT !.protoset = TRUE, !.proto = "icmp"])

\* -P: 1 and 17 are ICMP and UDP; traceroute6 does not know the option.
UseProtocol(p) ==
    /\ NextOption
    /\ Checked(~conf.protoset /\ ~conf.v6, [conf EXCEPT !.protoset = TRUE, !.proto = p])

Option ==
    \/ LookUpAS \/ Numeric \/ UseICMP
    \/ \E p \in Protos : UseProtocol(p)
    \/ \E k \in Numbers : FirstTTL(k) \/ MaxTTL(k) \/ Queries(k)
    \/ \E k \in Ports : BasePort(k)

(***************************************************************************)
(* The flags count once: as many answers are expected as there are kinds   *)
(* of them. A second -A or -n is counted again.                            *)
(***************************************************************************)
FlagsOnce ==
    conf.expected_responses =
        1 + (IF conf.nflag THEN 0 ELSE 1) + (IF conf.Aflag THEN 1 ELSE 0)
-----------------------------------------------------------------------------
Conf ==
    [v6 : BOOLEAN, proto : Protocols, protoset : BOOLEAN, port : PortNumbers,
     first_ttl : TTLs, max_ttl : TTLs, nprobes : ProbeNumbers,
     Aflag : BOOLEAN, nflag : BOOLEAN, expected_responses : Int]

OptionsTypeOK ==
    /\ conf \in Conf
    /\ optind \in 0 .. MaxOptions

(***************************************************************************)
(* -f and -m are checked against each other in whichever order they come:  *)
(* there is always a hop to probe.                                         *)
(***************************************************************************)
TTLsInOrder == conf.first_ttl <= conf.max_ttl
=============================================================================

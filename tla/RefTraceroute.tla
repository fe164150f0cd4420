--------------------------- MODULE RefTraceroute ---------------------------
(***************************************************************************)
(* The reference traceroute: one process whose callbacks send a probe when *)
(* the timer fires (send_timer), take in an ICMP message (sock_read) and   *)
(* take in the end of a name lookup; the first two then print the hops     *)
(* that are complete, in order. (ref/traceroute.c, ref/worker.c)           *)
(*                                                                         *)
(* Probes are numbered from 0 in the order they are sent, seq / nprobes is *)
(* the row of the table a probe belongs to, and row r holds the probes of  *)
(* hop first_ttl + r. Times are left out: the probes whose time to wait is *)
(* over are the first ones that were sent.                                 *)
(***************************************************************************)
EXTENDS RefOptions, RefProbes, Sequences, FiniteSets

CONSTANTS Answers,   \* ICMP messages about a probe: records of type and code
          NoProbe,   \* no answer
          Stack      \* what recv_seq may hold before it is assigned

ASSUME AnswersAssumption ==
    /\ Answers \subseteq [type : {"exceeded", "unreach", "echoreply", "other"}, code : 0 .. Byte - 1]
    /\ NoProbe \notin Nat
    /\ Stack \subseteq Int

VARIABLES
    seq,           \* send_timer's seq: the number of probes sent
    expired,       \* time: the number of probes whose waittime is over
    results,       \* tr_results
    waiting_ttls,  \* how many answers and lookups each row still waits for
    timeout_row,   \* catchup_result_rows's: the rows before it wait for nothing
    print_row,     \* catchup_result_rows's: the next row to print
    printed        \* the rows on the standard output

tableVars == <<results, waiting_ttls>>
rowVars   == <<timeout_row, print_row, printed>>
vars == <<optionVars, seq, expired, tableVars, rowVars>>

Rows   == 0 .. conf.max_ttl - 1
Probes == 0 .. conf.max_ttl * conf.nprobes - 1
Row(r) == conf.nprobes * r .. conf.nprobes * r + conf.nprobes - 1

\* calloc: every field of every result is zero.
ZeroResult ==
    [ row |-> 0, ttl |-> 0, dup |-> FALSE, timeout |-> FALSE,
      got_there |-> 0, unreachable |-> 0,
      inetname |-> "none", asn |-> "none",  \* lookups: none, asked or done
      answer |-> NoProbe ]                  \* whose answer it is

Init ==
    /\ OptionsInit
    /\ seq = 0
    /\ expired = 0
    /\ results = << >>
    /\ waiting_ttls = << >>
    /\ timeout_row = 0
    /\ print_row = 0
    /\ printed = << >>

GetOption ==
    /\ Option
    /\ UNCHANGED <<seq, expired, tableVars, rowVars>>

\* The rest of main: the options are used up, the tables are made, and the event
\* loop starts.
Main ==
    /\ phase = "options"
    /\ phase' = "running"
    /\ results' = [i \in Probes |-> ZeroResult]
    /\ waiting_ttls' = [r \in Rows |-> conf.nprobes * conf.expected_responses]
    /\ optind' = MaxOptions
    /\ UNCHANGED <<conf, seq, expired, rowVars>>
-----------------------------------------------------------------------------
(***************************************************************************)
(* catchup_result_rows, on a table res whose rows wait for wait. It looks  *)
(* at the rows from timeout_row up to the first that still waits for       *)
(* something (top), and in all of these lets the late probes time out.     *)
(***************************************************************************)
Late(res, i) == res[i].ttl # 0 /\ ~res[i].dup /\ i < expired

\* Mutation: a late answer is still taken.
TimedOutOpen(res) == [res EXCEPT !.timeout = TRUE]

TimedOut(res) == [res EXCEPT !.timeout = TRUE, !.dup = TRUE]

\* Mutation: a probe that is given up counts as one response.
StillWaitingOne(res, wait, r) ==
    wait[r] - Cardinality({ i \in Row(r) : Late(res, i) })

\* What row r waits for, once check_timeout has been through it.
StillWaiting(res, wait, r) ==
    wait[r] - conf.expected_responses * Cardinality({ i \in Row(r) : Late(res, i) })

CheckTimeouts(res, wait, top) ==
    /\ \A r \in timeout_row .. top - 1 : StillWaiting(res, wait, r) <= 0
    /\ top \in Rows => StillWaiting(res, wait, top) > 0
    /\ timeout_row' = top
    /\ LET checked == (timeout_row .. top) \cap Rows
       IN  /\ results' = [i \in Probes |->
                 IF (\E r \in checked : i \in Row(r)) /\ Late(res, i)
                 THEN TimedOut(res[i]) ELSE res[i]]
           /\ waiting_ttls' = [r \in Rows |->
                 IF r \in checked THEN StillWaiting(res, wait, r) ELSE wait[r]]

\* Mutation: a row with an asterisk.
SomeTimeout(r) == \E i \in Row(r) : results'[i].timeout

\* A row of nothing but asterisks.
AllTimeout(r) == \A i \in Row(r) : results'[i].timeout

\* Mutation: the maximum TTL does not end the program.
EndsWithAnswer(r) ==
    \E i \in Row(r) : results'[i].got_there + results'[i].unreachable > 0

\* print_result_row calls exit after this row.
EndsWith(r) ==
    \/ \E i \in Row(r) : results'[i].got_there + results'[i].unreachable > 0
    \/ results'[conf.nprobes * r].ttl = conf.max_ttl

Interval(a, b) == [k \in 1 .. b - a + 1 |-> a + k - 1]

\* Mutation: the row that stopped the search is printed again with the next.
PrintRowsAgain(first, i) ==
    \E last \in first .. i :
       /\ \A r \in first .. last - 1 : ~EndsWith(r)
       /\ printed' = printed \o Interval(first, last)
       /\ print_row' = last
       /\ \/ EndsWith(last) /\ phase' = "exited"
          \/ ~EndsWith(last) /\ last = i /\ UNCHANGED phase

(***************************************************************************)
(* Rows first .. i are printed, up to one that ends the program. The test  *)
(* of waiting_ttls before each changes nothing for the rows before         *)
(* timeout_row, and reads past the end of the table after the last row.    *)
(***************************************************************************)
PrintRows(first, i) ==
    \E last \in first .. i :
       /\ \A r \in first .. last - 1 : ~EndsWith(r)
       /\ \/ /\ last \notin Rows
             /\ phase' = "overrun"
             /\ printed' = printed \o Interval(first, last - 1)
             /\ print_row' = last
          \/ /\ last \in Rows /\ EndsWith(last)
             /\ phase' = "exited"
             /\ printed' = printed \o Interval(first, last)
             /\ print_row' = last
          \/ /\ last \in Rows /\ ~EndsWith(last) /\ last = i
             /\ UNCHANGED phase
             /\ printed' = printed \o Interval(first, last)
             /\ print_row' = last + 1

(***************************************************************************)
(* i is the first row that is complete and has an answer. Without one      *)
(* nothing is printed, but for the last row of all: then what is left is   *)
(* a trail of asterisks, of which only the last row is shown.              *)
(***************************************************************************)
PrintHops(top) ==
    \E i \in print_row .. top :
       /\ \A r \in print_row .. i - 1 : AllTimeout(r)
       /\ \/ i = conf.max_ttl /\ PrintRows(i - 1, i)
          \/ i < top /\ ~AllTimeout(i) /\ PrintRows(print_row, i)
          \/ i = top /\ i # conf.max_ttl /\ UNCHANGED <<phase, print_row, printed>>

CatchUp(res, wait) ==
    \E top \in timeout_row .. conf.max_ttl :
       /\ CheckTimeouts(res, wait, top)
       /\ PrintHops(top)
-----------------------------------------------------------------------------
(***************************************************************************)
(* The callbacks of the event loop.                                        *)
(***************************************************************************)
NextTTL == conf.first_ttl + seq \div conf.nprobes

\* Mutation: probes are sent beyond the maximum.
SendTimerUnbounded ==
    /\ phase = "running"
    /\ seq \in Probes
    /\ CatchUp([results EXCEPT ![seq].row = seq \div conf.nprobes, ![seq].ttl = NextTTL],
               waiting_ttls)
    /\ seq' = seq + 1
    /\ UNCHANGED <<conf, optind, expired>>

\* The timer is always set: it sends what is left to send, then catches up.
SendTimer ==
    /\ phase = "running"
    /\ IF NextTTL <= conf.max_ttl
       THEN /\ seq' = seq + 1
            /\ CatchUp([results EXCEPT ![seq].row = seq \div conf.nprobes,
                                       ![seq].ttl = NextTTL],
                       waiting_ttls)
       ELSE /\ UNCHANGED seq
            /\ CatchUp(results, waiting_ttls)
    /\ UNCHANGED <<conf, optind, expired>>

\* A lookup is asked for, or fails before it starts; without the flag there is none.
Lookup(flag) == IF flag THEN {"asked", "done"} ELSE {"none"}

Less(wait, r, n) == [wait EXCEPT ![r] = @ - n]

Count(cond) == IF cond THEN 1 ELSE 0

\* The result e with the answer of probe i: ok is what packet_ok made of it, name
\* and asn is how the lookups start.
Taken(e, i, ok, name, asn) ==
    [e EXCEPT !.dup = TRUE, !.answer = i, !.inetname = name, !.asn = asn,
              !.got_there = @ + Count(ok = -2 \/ (ok > 0 /\ FromDestination(conf, ok - 1))),
              !.unreachable = @ + Count(ok > 0 /\ ~FromDestination(conf, ok - 1))]

\* The answer of probe i, taken for that of probe s.
Record(s, i, ok, name, asn) == [results EXCEPT ![s] = Taken(@, i, ok, name, asn)]

\* print counts a lookup that failed at once on the row the result names.
Answered(s, name, asn) ==
    Less(Less(waiting_ttls, results[s].row, Count(name = "done") + Count(asn = "done")),
         s \div conf.nprobes, 1)

(***************************************************************************)
(* An answer to probe i is read, the first, another or a late one. A wrong *)
(* or known one only lets the table catch up.                              *)
(***************************************************************************)
SockRead(i, answer) ==
    /\ phase = "running"
    /\ i < seq
    /\ \E ok \in PacketOk(conf, [type |-> answer.type, code |-> answer.code,
                                 quoted |-> BuildProbe(conf, i)], Stack) :
          IF ok.ok = 0 \/ ok.seq \notin Probes
          THEN CatchUp(results, waiting_ttls)
          ELSE IF results[ok.seq].dup
          THEN CatchUp(results, waiting_ttls)
          ELSE \E name \in Lookup(~conf.nflag), asn \in Lookup(conf.Aflag) :
                  CatchUp(Record(ok.seq, i, ok.ok, name, asn), Answered(ok.seq, name, asn))
    /\ UNCHANGED <<conf, optind, seq, expired>>

\* Mutation: the answer of the resolver is not counted.
NameDoneUncounted(i) ==
    /\ phase = "running"
    /\ results[i].inetname = "asked"
    /\ results' = [results EXCEPT ![i].inetname = "done"]
    /\ UNCHANGED <<optionVars, seq, expired, waiting_ttls, rowVars>>

\* The resolver answers or gives up. The table is left for the next event.
NameDone(i) ==
    /\ phase = "running"
    /\ results[i].inetname = "asked"
    /\ results' = [results EXCEPT ![i].inetname = "done"]
    /\ waiting_ttls' = Less(waiting_ttls, results[i].row, 1)
    /\ UNCHANGED <<optionVars, seq, expired, rowVars>>

ASDone(i) ==
    /\ phase = "running"
    /\ results[i].asn = "asked"
    /\ results' = [results EXCEPT ![i].asn = "done"]
    /\ waiting_ttls' = Less(waiting_ttls, results[i].row, 1)
    /\ UNCHANGED <<optionVars, seq, expired, rowVars>>

\* The time to wait for one more probe is over.
Expire ==
    /\ phase = "running"
    /\ expired < seq
    /\ expired' = expired + 1
    /\ UNCHANGED <<optionVars, seq, tableVars, rowVars>>

\* The process is gone, or its behaviour is no longer defined.
Ended ==
    /\ phase \in {"failed", "exited", "overrun"}
    /\ UNCHANGED vars

Next ==
    \/ GetOption \/ Main
    \/ SendTimer \/ Expire
    \/ \E i \in DOMAIN results : (\E a \in Answers : SockRead(i, a)) \/ NameDone(i) \/ ASDone(i)
    \/ Ended

(***************************************************************************)
(* The timer keeps firing, time goes by, and the resolver gives up on a    *)
(* name it cannot find. Nothing makes an answer arrive.                    *)
(***************************************************************************)
Fairness ==
    /\ WF_vars(SendTimer)
    /\ WF_vars(Expire)
    /\ WF_vars(\E i \in DOMAIN results : NameDone(i))
    /\ WF_vars(\E i \in DOMAIN results : ASDone(i))

Spec == Init /\ [][Next]_vars

FairSpec == Spec /\ Fairness
-----------------------------------------------------------------------------
LookupStates == {"none", "asked", "done"}

Result ==
    [ row : Nat, ttl : 0 .. MAXTTL, dup : BOOLEAN, timeout : BOOLEAN,
      got_there : 0 .. 1, unreachable : 0 .. 1,
      inetname : LookupStates, asn : LookupStates, answer : Nat \cup {NoProbe} ]

Phases == {"options", "running", "failed", "exited", "overrun"}

TypeOK ==
    /\ OptionsTypeOK
    /\ seq \in Nat /\ expired \in 0 .. seq
    /\ phase \in {"options", "failed"} => results = << >> /\ waiting_ttls = << >> /\ seq = 0
    /\ phase \in {"running", "exited", "overrun"} =>
          /\ seq \in 0 .. (conf.max_ttl - conf.first_ttl + 1) * conf.nprobes
          /\ results \in [Probes -> Result]
          /\ waiting_ttls \in [Rows -> Int]
    /\ timeout_row \in 0 .. conf.max_ttl
    /\ print_row \in 0 .. timeout_row
    /\ printed \in Seq(Rows)

(***************************************************************************)
(* Rules of use the program does not check itself: a flag is given once,   *)
(* the protocol is one packet_ok knows, and the probes fit a 16-bit        *)
(* sequence number.                                                        *)
(***************************************************************************)
WellUsed ==
    /\ FlagsOnce
    /\ conf.proto # "other"
    /\ conf.max_ttl * conf.nprobes <= Word

\* An answer to the probe is still to be taken, or to be given up.
Open(r)     == { i \in Row(r) : ~results[i].dup }
NoName(r)   == { i \in Row(r) : results[i].inetname = "asked" }
NoASN(r)    == { i \in Row(r) : results[i].asn = "asked" }

(***************************************************************************)
(* The counter of a row is what the row really waits for, whatever comes   *)
(* first, answer, timeout or lookup, and however often: every open probe   *)
(* counts for all its responses, every other one for its lookups.          *)
(***************************************************************************)
WaitingExact ==
    WellUsed /\ DOMAIN results # {} => \A r \in Rows :
       waiting_ttls[r] = conf.expected_responses * Cardinality(Open(r))
                         + Cardinality(NoName(r)) + Cardinality(NoASN(r))

(***************************************************************************)
(* What has been printed stays true: no answer and no name arrives for a   *)
(* row after it has been printed.                                          *)
(***************************************************************************)
PrintedIsFinal ==
    [][WellUsed => \A k \in DOMAIN printed : \A i \in Row(printed[k]) :
          results'[i] = results[i]]_vars

(***************************************************************************)
(* Every hop is printed at most once and in order, and one that is left    *)
(* out, in a trail of asterisks, has had no answer.                        *)
(***************************************************************************)
SkippedAreSilent ==
    WellUsed => \A k \in DOMAIN printed :
       \A r \in (IF k = 1 THEN 0 ELSE printed[k - 1] + 1) .. printed[k] - 1 :
          \A i \in Row(r) : results[i].timeout

PrintedInOrder ==
    WellUsed => \A j, k \in DOMAIN printed : j < k => printed[j] < printed[k]

(***************************************************************************)
(* An answer is credited to the probe it answers, for every base port, and *)
(* a probe is answered or has timed out, never both.                       *)
(***************************************************************************)
AnswersCredited ==
    WellUsed => \A i \in DOMAIN results :
       /\ results[i].answer \in {i, NoProbe}
       /\ results[i].timeout => results[i].answer = NoProbe

(***************************************************************************)
(* The table is never read past its last row: the row of the maximum TTL   *)
(* ends the program.                                                       *)
(***************************************************************************)
NoOverrun == WellUsed => phase # "overrun"

(***************************************************************************)
(* A traceroute from the first hop ends, whoever stays silent.             *)
(***************************************************************************)
Terminates ==
    (phase = "running" /\ WellUsed /\ conf.first_ttl = 1) ~> (phase = "exited")

(***************************************************************************)
(* traceroute.8: a host that cannot be reached is traced until the maximum *)
(* TTL is reached, also from a later hop on.                               *)
(***************************************************************************)
EndsAtMaximum == (phase = "running" /\ WellUsed) ~> (phase = "exited")
=============================================================================

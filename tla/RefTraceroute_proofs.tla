------------------------ MODULE RefTraceroute_proofs ------------------------
(***************************************************************************)
(* What is proved about the reference traceroute, for every command line,  *)
(* every number of hops and probes, and every order of answers, timeouts   *)
(* and lookups.                                                            *)
(***************************************************************************)
EXTENDS RefTraceroute, FiniteSetTheorems, SequenceTheorems, TLAPS

-----------------------------------------------------------------------------
(***************************************************************************)
(* Options.                                                                *)
(***************************************************************************)
OptionsInv == OptionsTypeOK /\ TTLsInOrder

LEMMA TTLNumbers ==
    /\ MAXTTL \in Nat
    /\ \A k \in TTLs : k \in Nat /\ 1 <= k /\ k <= MAXTTL
    /\ \A k \in Nat : 1 <= k /\ k <= MAXTTL => k \in TTLs
  BY SMT DEF TTLs, MAXTTL

LEMMA DefaultNumbers ==
    33434 \in PortNumbers /\ 1 \in TTLs
  BY SMT DEF PortNumbers, TTLs, MAXTTL

\* Each option leaves -f not behind -m, and numbers in their ranges.
LEMMA OptionKeepsOrder ==
    ASSUME OptionsInv, Option
    PROVE  OptionsInv'
  <1>0. /\ conf \in Conf /\ conf.first_ttl <= conf.max_ttl /\ optind \in 0 .. MaxOptions
        /\ MaxOptions \in Nat
    BY DefaultsAssumption DEF OptionsInv, OptionsTypeOK, TTLsInOrder
  <1>1. optind' \in 0 .. MaxOptions
    <2>1. optind < MaxOptions /\ optind' = optind + 1
      BY DEF Option, LookUpAS, Numeric, UseICMP, UseProtocol, FirstTTL, MaxTTL, Queries, BasePort,
             NextOption
    <2> QED  BY ONLY <1>0, <2>1
  <1> SUFFICES conf' \in Conf /\ conf'.first_ttl <= conf'.max_ttl
    BY <1>1 DEF OptionsInv, OptionsTypeOK, TTLsInOrder
  <1>2. CASE LookUpAS
    <2> DEFINE e == conf.expected_responses + 1
    <2>1. e \in Int
      BY <1>0 DEF Conf
    <2>2. conf' = [[conf EXCEPT !.Aflag = TRUE] EXCEPT !.expected_responses = e]
      BY <1>2 DEF LookUpAS
    <2> HIDE DEF e
    <2> QED  BY <1>0, <2>1, <2>2 DEF Conf
  <1>3. CASE Numeric
    <2> DEFINE e == conf.expected_responses - 1
    <2>1. e \in Int
      BY <1>0 DEF Conf
    <2>2. conf' = [[conf EXCEPT !.nflag = TRUE] EXCEPT !.expected_responses = e]
      BY <1>3 DEF Numeric
    <2> HIDE DEF e
    <2> QED  BY <1>0, <2>1, <2>2 DEF Conf
  <1>4. CASE UseICMP
    BY <1>0, <1>4 DEF UseICMP, Checked, Conf, Protocols
  <1>5. CASE \E p \in Protos : UseProtocol(p)
    BY <1>0, <1>5, DefaultsAssumption DEF UseProtocol, Checked, Conf
  <1>6. CASE \E k \in Numbers : FirstTTL(k)
    <2>1. PICK k \in Numbers : FirstTTL(k)
      BY <1>6
    <2>2. conf.max_ttl \in TTLs
      BY <1>0 DEF Conf
    <2>3. k \in 1 .. conf.max_ttl => k \in TTLs /\ k <= conf.max_ttl
      BY <2>2, TTLNumbers
    <2> QED  BY <1>0, <2>1, <2>3 DEF FirstTTL, Checked, Conf
  <1>7. CASE \E k \in Numbers : MaxTTL(k)
    <2>1. PICK k \in Numbers : MaxTTL(k)
      BY <1>7
    <2>2. conf.first_ttl \in TTLs
      BY <1>0 DEF Conf
    <2>3. k \in conf.first_ttl .. MAXTTL => k \in TTLs /\ conf.first_ttl <= k
      BY <2>2, TTLNumbers
    <2> QED  BY <1>0, <2>1, <2>3 DEF MaxTTL, Checked, Conf
  <1>8. CASE \E k \in Numbers : Queries(k)
    BY <1>0, <1>8 DEF Queries, Checked, Conf
  <1>9. CASE \E k \in Ports : BasePort(k)
    BY <1>0, <1>9 DEF BasePort, Checked, Conf
  <1> QED  BY <1>2, <1>3, <1>4, <1>5, <1>6, <1>7, <1>8, <1>9 DEF Option

\* Once the options are used up nothing changes the configuration.
LEMMA ConfKept ==
    ASSUME [Next]_vars
    PROVE  UNCHANGED <<conf, optind>> \/ Option
        \/ (Main /\ UNCHANGED conf /\ optind' = MaxOptions)
  BY DEF Next, vars, optionVars, GetOption, Main, SendTimer, Expire, SockRead, NameDone, ASDone, Ended

LEMMA FirstOptions ==
    ASSUME Init
    PROVE  OptionsInv
  <1>1. PICK v6 \in BOOLEAN : conf = Defaults(v6)
    BY DEF Init, OptionsInit
  <1>2. conf \in Conf /\ conf.first_ttl = 1 /\ conf.max_ttl \in TTLs
    BY <1>1, DefaultsAssumption, DefaultNumbers DEF Defaults, Conf, Protocols
  <1>3. optind \in 0 .. MaxOptions
    BY DefaultsAssumption DEF Init, OptionsInit
  <1> QED  BY <1>2, <1>3, TTLNumbers DEF OptionsInv, OptionsTypeOK, TTLsInOrder

LEMMA OptionsStep ==
    ASSUME OptionsInv, [Next]_vars
    PROVE  OptionsInv'
  <1>1. CASE UNCHANGED <<conf, optind>>
    BY <1>1 DEF OptionsInv, OptionsTypeOK, TTLsInOrder
  <1>2. CASE UNCHANGED conf /\ optind' = MaxOptions
    BY <1>2, DefaultsAssumption DEF OptionsInv, OptionsTypeOK, TTLsInOrder
  <1> QED  BY <1>1, <1>2, ConfKept, OptionKeepsOrder

\* -f and -m are in order, whatever comes first on the command line, and so they
\* stay: there is a hop to probe.
THEOREM FirstHopBeforeLast == Spec => []TTLsInOrder
  <1>1. Init => OptionsInv
    BY FirstOptions
  <1>2. OptionsInv /\ [Next]_vars => OptionsInv'
    BY OptionsStep
  <1>3. OptionsInv => TTLsInOrder
    BY DEF OptionsInv
  <1> QED  BY <1>1, <1>2, <1>3, PTL DEF Spec
-----------------------------------------------------------------------------
(***************************************************************************)
(* Rows: the probes of the table fall into rows of nprobes each.           *)
(***************************************************************************)
LEMMA Divides ==
    ASSUME NEW n \in Nat, 1 <= n, NEW i \in Nat
    PROVE  /\ i \div n \in Nat
           /\ n * (i \div n) <= i /\ i <= (n * (i \div n) + n) - 1
  BY SMT

LEMMA Monotonic ==
    ASSUME NEW n \in Nat, NEW a \in Nat, NEW b \in Nat, a <= b
    PROVE  n * a <= n * b /\ n * a \in Nat
  <1>1. n * b = n * a + n * (b - a)
    BY SMT
  <1>2. n * (b - a) >= 0 /\ n * a \in Nat /\ n * b \in Nat
    BY SMT
  <1> QED  BY <1>1, <1>2, SMT

LEMMA NextMultiple ==
    ASSUME NEW n \in Nat, NEW a \in Nat
    PROVE  n * (a + 1) = n * a + n /\ n * a = a * n /\ n * a \in Nat
  BY SMT

LEMMA ConfNumbers ==
    ASSUME conf \in Conf
    PROVE  /\ conf.nprobes \in Nat /\ 1 <= conf.nprobes
           /\ conf.max_ttl \in Nat /\ 1 <= conf.max_ttl /\ conf.max_ttl <= MAXTTL
           /\ conf.first_ttl \in Nat /\ 1 <= conf.first_ttl
           /\ conf.expected_responses \in Int
           /\ conf.v6 \in BOOLEAN /\ conf.nflag \in BOOLEAN /\ conf.Aflag \in BOOLEAN
           /\ conf.max_ttl * conf.nprobes \in Nat
  <1>1. \A k \in ProbeNumbers : k \in Nat /\ 1 <= k
    BY SMT DEF ProbeNumbers
  <1>2. /\ conf.nprobes \in ProbeNumbers /\ conf.max_ttl \in TTLs /\ conf.first_ttl \in TTLs
        /\ conf.expected_responses \in Int
        /\ conf.v6 \in BOOLEAN /\ conf.nflag \in BOOLEAN /\ conf.Aflag \in BOOLEAN
    BY DEF Conf
  <1>3. /\ conf.nprobes \in Nat /\ 1 <= conf.nprobes
        /\ conf.max_ttl \in Nat /\ 1 <= conf.max_ttl /\ conf.max_ttl <= MAXTTL
        /\ conf.first_ttl \in Nat /\ 1 <= conf.first_ttl
    BY <1>1, <1>2, TTLNumbers
  <1> QED  BY <1>2, <1>3, NextMultiple

\* There are no two rows a probe could belong to.
LEMMA OneRow ==
    ASSUME conf \in Conf, NEW r \in Nat, NEW q \in Nat, NEW i \in Row(r), i \in Row(q)
    PROVE  r = q
  <1> DEFINE n == conf.nprobes
  <1>1. n \in Nat /\ 1 <= n
    BY ConfNumbers
  <1>2. /\ n * r \in Nat /\ n * q \in Nat
        /\ n * (r + 1) = n * r + n /\ n * (q + 1) = n * q + n
    BY <1>1, NextMultiple
  <1>3. /\ i \in Int /\ n * r <= i /\ i <= (n * r + n) - 1
        /\ n * q <= i /\ i <= (n * q + n) - 1
    BY <1>1, <1>2 DEF Row
  <1> HIDE DEF n
  <1>4. ASSUME r < q PROVE FALSE
    <2>1. n * (r + 1) <= n * q
      BY <1>1, <1>4, Monotonic
    <2> QED  BY <1>1, <1>2, <1>3, <2>1
  <1>5. ASSUME q < r PROVE FALSE
    <2>1. n * (q + 1) <= n * r
      BY <1>1, <1>5, Monotonic
    <2> QED  BY <1>1, <1>2, <1>3, <2>1
  <1> QED  BY <1>4, <1>5

\* The row of a probe.
LEMMA RowOf ==
    ASSUME conf \in Conf, NEW i \in Nat
    PROVE  i \div conf.nprobes \in Nat /\ i \in Row(i \div conf.nprobes)
  <1> DEFINE n == conf.nprobes
             r == i \div conf.nprobes
  <1>1. n \in Nat /\ 1 <= n
    BY ConfNumbers
  <1>2. r \in Nat /\ n * r <= i /\ i <= (n * r + n) - 1
    BY <1>1, Divides
  <1>3. n * r \in Nat
    BY <1>1, <1>2, NextMultiple
  <1>4. Row(r) = n * r .. (n * r + n) - 1
    BY <1>1, <1>3 DEF Row
  <1> HIDE DEF n, r
  <1>5. r \in Nat /\ i \in Row(r)
    BY <1>1, <1>2, <1>3, <1>4
  <1> QED  BY <1>5 DEF r

\* The probes of a row are entries of the table.
LEMMA RowInTable ==
    ASSUME conf \in Conf, NEW r \in Rows
    PROVE  /\ r \in Nat /\ Row(r) \subseteq Probes
           /\ conf.nprobes * r \in Row(r)
           /\ IsFiniteSet(Row(r)) /\ Cardinality(Row(r)) = conf.nprobes
  <1> DEFINE n == conf.nprobes
             m == conf.max_ttl
  <1>1. n \in Nat /\ 1 <= n /\ m \in Nat /\ r \in Nat /\ r + 1 <= m
    BY ConfNumbers DEF Rows
  <1>2. n * r \in Nat /\ n * (r + 1) = n * r + n /\ n * m = m * n /\ m * n \in Nat
    BY <1>1, NextMultiple
  <1>3. n * (r + 1) <= n * m
    BY <1>1, Monotonic
  <1>4. Row(r) = n * r .. (n * r + n) - 1
    BY <1>1, <1>2 DEF Row
  <1>5. Probes = 0 .. m * n - 1
    BY DEF Probes
  <1> HIDE DEF n, m
  <1>6. Row(r) \subseteq Probes /\ n * r \in Row(r)
    BY <1>1, <1>2, <1>3, <1>4, <1>5
  <1>7. IsFiniteSet(Row(r)) /\ Cardinality(Row(r)) = n
    <2>1. n * r \in Int /\ (n * r + n) - 1 \in Int /\ ~(n * r > (n * r + n) - 1)
          /\ (((n * r + n) - 1) - n * r) + 1 = n
      BY <1>1, <1>2
    <2> QED  BY <1>4, <2>1, FS_Interval
  <1> QED  BY <1>1, <1>6, <1>7 DEF n

\* A probe belongs to one row, that of its quotient.
LEMMA RowOfProbe ==
    ASSUME conf \in Conf, NEW i \in Probes
    PROVE  i \in Nat /\ i \div conf.nprobes \in Rows /\ i \in Row(i \div conf.nprobes)
  <1> DEFINE n == conf.nprobes
             m == conf.max_ttl
             r == i \div conf.nprobes
  <1>1. n \in Nat /\ 1 <= n /\ m \in Nat /\ m * n \in Nat /\ n * m = m * n
    BY ConfNumbers, NextMultiple
  <1>2. i \in Nat /\ i < m * n
    BY <1>1 DEF Probes
  <1>3. r \in Nat /\ i \in Row(r) /\ n * r <= i
    BY <1>1, <1>2, RowOf, Divides
  <1>4. Rows = 0 .. m - 1
    BY DEF Rows
  <1> HIDE DEF n, m, r
  <1>5. ASSUME m <= r PROVE FALSE
    <2>1. n * m <= n * r /\ n * m \in Nat
      BY <1>1, <1>3, <1>5, Monotonic
    <2>2. n * r \in Nat
      BY <1>1, <1>3, NextMultiple
    <2> QED  BY <1>1, <1>2, <1>3, <2>1, <2>2
  <1>6. r \in Rows
    BY <1>1, <1>3, <1>4, <1>5
  <1> QED  BY <1>2, <1>3, <1>6 DEF r

\* The next probe to send fits the table, as long as its TTL does.
LEMMA NextFits ==
    ASSUME conf \in Conf, seq \in Nat, NextTTL <= conf.max_ttl
    PROVE  /\ seq \in Probes
           /\ seq + 1 <= ((conf.max_ttl - conf.first_ttl) + 1) * conf.nprobes
           /\ NextTTL \in 1 .. conf.max_ttl
  <1> DEFINE n == conf.nprobes
             m == conf.max_ttl
             f == conf.first_ttl
             r == seq \div conf.nprobes
  <1>1. /\ n \in Nat /\ 1 <= n /\ m \in Nat /\ m * n \in Nat /\ n * m = m * n
        /\ f \in Nat /\ 1 <= f
    BY ConfNumbers, NextMultiple
  <1>2. r \in Nat /\ n * r <= seq /\ seq <= (n * r + n) - 1
    BY <1>1, Divides
  <1>3. f + r <= m
    BY DEF NextTTL
  <1>4. /\ NextTTL = f + r
        /\ Probes = 0 .. m * n - 1
    BY DEF NextTTL, Probes
  <1> HIDE DEF n, m, f, r
  <1>5. n * (r + 1) = n * r + n /\ n * r \in Nat
    BY <1>1, <1>2, NextMultiple
  <1>6. (m - f) + 1 \in Nat /\ r + 1 <= (m - f) + 1 /\ (m - f) + 1 <= m
    BY <1>1, <1>2, <1>3
  <1>7. /\ n * (r + 1) <= n * ((m - f) + 1) /\ n * ((m - f) + 1) <= n * m
        /\ n * ((m - f) + 1) \in Nat
        /\ n * ((m - f) + 1) = ((m - f) + 1) * n
    BY <1>1, <1>2, <1>6, Monotonic, NextMultiple
  <1>8. seq + 1 <= ((m - f) + 1) * n /\ seq < m * n
    BY <1>1, <1>2, <1>5, <1>7
  <1>9. seq \in Probes /\ f + r \in 1 .. m
    BY <1>1, <1>2, <1>3, <1>4, <1>8
  <1> QED  BY <1>4, <1>8, <1>9 DEF n, m, f
-----------------------------------------------------------------------------
(***************************************************************************)
(* The table of results. A probe that is not answered and has not timed    *)
(* out has nothing but the hop it was sent to, a probe that is not sent    *)
(* not even that, and the answer of a probe is its own.                    *)
(***************************************************************************)
Untouched(e) ==
    /\ e.got_there = 0 /\ e.unreachable = 0 /\ ~e.timeout
    /\ e.inetname = "none" /\ e.asn = "none" /\ e.answer = NoProbe

TableOK(res) ==
    /\ res \in [Probes -> Result]
    /\ \A i \in Probes : ~res[i].dup => Untouched(res[i])

SentOK(res, n) ==
    \A i \in Probes :
        /\ i < n => res[i].row = i \div conf.nprobes
                    /\ res[i].ttl = conf.first_ttl + (i \div conf.nprobes)
        /\ n <= i => ~res[i].dup /\ res[i].ttl = 0
        /\ res[i].answer \in {i, NoProbe}
        /\ res[i].timeout => res[i].answer = NoProbe

OpenIn(res, r)  == { i \in Row(r) : ~res[i].dup }
NamesIn(res, r) == { i \in Row(r) : res[i].inetname = "asked" }
ASNsIn(res, r)  == { i \in Row(r) : res[i].asn = "asked" }

Ledger(res, wait) ==
    \A r \in Rows :
        wait[r] = conf.expected_responses * Cardinality(OpenIn(res, r))
                  + Cardinality(NamesIn(res, r)) + Cardinality(ASNsIn(res, r))

LateIn(res, r) == { i \in Row(r) : Late(res, i) }

LEMMA ResultFields ==
    ASSUME NEW e \in Result
    PROVE  /\ e.row \in Nat /\ e.ttl \in 0 .. MAXTTL /\ e.dup \in BOOLEAN /\ e.timeout \in BOOLEAN
           /\ e.got_there \in 0 .. 1 /\ e.unreachable \in 0 .. 1
           /\ e.inetname \in LookupStates /\ e.asn \in LookupStates
           /\ e.answer \in Nat \cup {NoProbe}
  BY DEF Result

LEMMA TimedOutResult ==
    ASSUME NEW e \in Result
    PROVE  /\ TimedOut(e) \in Result
           /\ TimedOut(e).dup /\ TimedOut(e).timeout
           /\ TimedOut(e).row = e.row /\ TimedOut(e).ttl = e.ttl
           /\ TimedOut(e).got_there = e.got_there /\ TimedOut(e).unreachable = e.unreachable
           /\ TimedOut(e).inetname = e.inetname /\ TimedOut(e).asn = e.asn
           /\ TimedOut(e).answer = e.answer
  BY DEF Result, TimedOut

\* What a row is made of is finite.
LEMMA PartsOfRow ==
    ASSUME conf \in Conf, NEW r \in Rows, NEW S \in SUBSET Row(r)
    PROVE  IsFiniteSet(S) /\ Cardinality(S) \in Nat
  BY RowInTable, FS_Subset, FS_CardinalityType

\* What check_timeout makes of the result of a probe, if catchup_result_rows looks
\* at its row.
LEMMA CheckedResult ==
    ASSUME conf \in Conf, timeout_row \in 0 .. conf.max_ttl, NEW res, NEW wait,
           NEW top \in timeout_row .. conf.max_ttl, CheckTimeouts(res, wait, top),
           NEW r \in Rows, NEW i \in Row(r)
    PROVE  results'[i] = IF r <= top /\ timeout_row <= r /\ Late(res, i)
                         THEN TimedOut(res[i]) ELSE res[i]
  <1> DEFINE checked == (timeout_row .. top) \cap Rows
  <1>1. i \in Probes /\ r \in Nat
    BY RowInTable
  <1>2. results'[i] = IF (\E q \in checked : i \in Row(q)) /\ Late(res, i)
                      THEN TimedOut(res[i]) ELSE res[i]
    BY <1>1 DEF CheckTimeouts
  <1>3. (\E q \in checked : i \in Row(q)) <=> r \in checked
    <2>1. \A q \in checked : q \in Nat
      BY RowInTable
    <2> QED  BY <1>1, <2>1, OneRow
  <1>4. r \in checked <=> timeout_row <= r /\ r <= top
    BY <1>1, ConfNumbers
  <1> QED  BY <1>2, <1>3, <1>4

\* What check_timeout makes of a table: late probes are given up, the rest is
\* as it was.
LEMMA CheckedTable ==
    ASSUME conf \in Conf, timeout_row \in 0 .. conf.max_ttl, NEW res, TableOK(res), NEW wait,
           NEW top \in timeout_row .. conf.max_ttl, CheckTimeouts(res, wait, top)
    PROVE  /\ TableOK(results')
           /\ \A n \in Nat : SentOK(res, n) => SentOK(results', n)
           /\ \A i \in Probes : results'[i] = res[i]
                                \/ (Late(res, i) /\ results'[i] = TimedOut(res[i]))
  <1>1. \A i \in Probes : results'[i] = res[i] \/ (Late(res, i) /\ results'[i] = TimedOut(res[i]))
    BY DEF CheckTimeouts
  <1>2. \A i \in Probes : res[i] \in Result
    BY DEF TableOK
  <1>3. results' \in [Probes -> Result]
    <2>1. results' = [i \in Probes |-> results'[i]]
      BY DEF CheckTimeouts
    <2>2. \A i \in Probes : results'[i] \in Result
      BY <1>1, <1>2, TimedOutResult
    <2> QED  BY <2>1, <2>2
  <1>4. TableOK(results')
    BY <1>1, <1>2, <1>3, TimedOutResult DEF TableOK
  <1>5. ASSUME NEW n \in Nat, SentOK(res, n) PROVE SentOK(results', n)
    <2> SUFFICES ASSUME NEW i \in Probes
                 PROVE  /\ i < n => results'[i].row = i \div conf.nprobes
                                   /\ results'[i].ttl = conf.first_ttl + (i \div conf.nprobes)
                        /\ n <= i => ~results'[i].dup /\ results'[i].ttl = 0
                        /\ results'[i].answer \in {i, NoProbe}
                        /\ results'[i].timeout => results'[i].answer = NoProbe
      BY DEF SentOK
    <2>1. CASE results'[i] = res[i]
      BY <1>5, <2>1 DEF SentOK
    <2>2. CASE Late(res, i) /\ results'[i] = TimedOut(res[i])
      <3>1. ~res[i].dup /\ res[i].ttl # 0
        BY <2>2 DEF Late
      <3>2. res[i].answer = NoProbe
        BY <3>1 DEF TableOK, Untouched
      <3> QED  BY <1>2, <1>5, <2>2, <3>1, <3>2, TimedOutResult DEF SentOK
    <2> QED  BY <1>1, <2>1, <2>2
  <1> QED  BY <1>1, <1>4, <1>5

\* Cardinalities of parts of a row.
LEMMA WithoutPart ==
    ASSUME NEW A, IsFiniteSet(A), NEW B \in SUBSET A
    PROVE  Cardinality(A \ B) = Cardinality(A) - Cardinality(B)
  <1>1. IsFiniteSet(B) /\ IsFiniteSet(A \ B)
    BY FS_Subset
  <1>2. (A \ B) \cup B = A /\ (A \ B) \cap B = {}
    OBVIOUS
  <1>3. Cardinality({}) = 0
    BY FS_EmptySet
  <1>4. Cardinality(A) = Cardinality(A \ B) + Cardinality(B) - 0
    BY <1>1, <1>2, <1>3, FS_Union
  <1>5. Cardinality(A) \in Nat /\ Cardinality(B) \in Nat /\ Cardinality(A \ B) \in Nat
    BY <1>1, FS_CardinalityType
  <1> QED  BY <1>4, <1>5

LEMMA StillWaitingType ==
    ASSUME conf \in Conf, NEW r \in Rows, NEW res, NEW wait \in [Rows -> Int]
    PROVE  StillWaiting(res, wait, r) \in Int
  <1>1. Cardinality(LateIn(res, r)) \in Nat
    BY PartsOfRow DEF LateIn
  <1>2. conf.expected_responses \in Int
    BY ConfNumbers
  <1>3. conf.expected_responses * Cardinality(LateIn(res, r)) \in Int
    BY <1>1, <1>2, SMT
  <1>4. StillWaiting(res, wait, r) = wait[r] - conf.expected_responses * Cardinality(LateIn(res, r))
    BY DEF StillWaiting, LateIn
  <1> QED  BY <1>3, <1>4

\* With each flag given once, a probe waits for one to three responses.
LEMMA Expected ==
    ASSUME conf \in Conf, WellUsed
    PROVE  conf.expected_responses \in 1 .. 3
  BY ConfNumbers DEF WellUsed, FlagsOnce

\* Letting late probes time out keeps the ledger: each gives back all the
\* responses it was counted for.
LEMMA TimeoutsLedger ==
    ASSUME conf \in Conf, WellUsed, timeout_row \in 0 .. conf.max_ttl,
           NEW res, TableOK(res), NEW wait \in [Rows -> Int], Ledger(res, wait),
           NEW top \in timeout_row .. conf.max_ttl, CheckTimeouts(res, wait, top)
    PROVE  Ledger(results', waiting_ttls')
  <1> SUFFICES ASSUME NEW r \in Rows
               PROVE  waiting_ttls'[r] = conf.expected_responses * Cardinality(OpenIn(results', r))
                         + Cardinality(NamesIn(results', r)) + Cardinality(ASNsIn(results', r))
    BY DEF Ledger
  <1>1. r \in Nat /\ Row(r) \subseteq Probes
    BY RowInTable
  <1>2. \A i \in Row(r) : res[i] \in Result
    BY <1>1 DEF TableOK
  <1>3. \A i \in Row(r) : /\ results'[i].inetname = res[i].inetname
                          /\ results'[i].asn = res[i].asn
    BY <1>1, <1>2, CheckedTable, TimedOutResult
  <1>4. NamesIn(results', r) = NamesIn(res, r) /\ ASNsIn(results', r) = ASNsIn(res, r)
    BY <1>3 DEF NamesIn, ASNsIn
  <1>5. wait[r] = conf.expected_responses * Cardinality(OpenIn(res, r))
                  + Cardinality(NamesIn(res, r)) + Cardinality(ASNsIn(res, r))
    BY DEF Ledger
  <1>6. CASE timeout_row <= r /\ r <= top
    <2>1. waiting_ttls'[r] = wait[r] - conf.expected_responses * Cardinality(LateIn(res, r))
      BY <1>1, <1>6, ConfNumbers DEF CheckTimeouts, StillWaiting, LateIn
    <2>2. LateIn(res, r) \subseteq OpenIn(res, r)
      BY DEF LateIn, OpenIn, Late
    <2>3. \A i \in Row(r) : results'[i] = IF Late(res, i) THEN TimedOut(res[i]) ELSE res[i]
      BY <1>6, CheckedResult
    <2>4. OpenIn(results', r) = OpenIn(res, r) \ LateIn(res, r)
      BY <1>2, <2>3, TimedOutResult DEF OpenIn, LateIn
    <2>5. IsFiniteSet(OpenIn(res, r))
      BY PartsOfRow DEF OpenIn
    <2>6. Cardinality(OpenIn(results', r)) = Cardinality(OpenIn(res, r)) - Cardinality(LateIn(res, r))
      BY <2>2, <2>4, <2>5, WithoutPart
    <2>7. /\ Cardinality(OpenIn(res, r)) \in Nat /\ Cardinality(LateIn(res, r)) \in Nat
          /\ Cardinality(NamesIn(res, r)) \in Nat /\ Cardinality(ASNsIn(res, r)) \in Nat
      BY PartsOfRow DEF OpenIn, LateIn, NamesIn, ASNsIn
    <2> DEFINE e == conf.expected_responses
               a == Cardinality(OpenIn(res, r))
               b == Cardinality(LateIn(res, r))
               x == Cardinality(NamesIn(res, r))
               y == Cardinality(ASNsIn(res, r))
    <2>8. e \in 1 .. 3
      BY Expected
    <2> HIDE DEF e, a, b, x, y
    <2>9. (e * a + x + y) - e * b = e * (a - b) + x + y
      <3>1. a \in Nat /\ b \in Nat /\ x \in Nat /\ y \in Nat
        BY <2>7 DEF a, b, x, y
      <3> QED  BY <2>8, <3>1, SMT
    <2> QED  BY <1>4, <1>5, <2>1, <2>6, <2>9 DEF e, a, b, x, y
  <1>7. CASE ~(timeout_row <= r /\ r <= top)
    <2>1. waiting_ttls'[r] = wait[r]
      BY <1>1, <1>7, ConfNumbers DEF CheckTimeouts
    <2>2. \A i \in Row(r) : results'[i] = res[i]
      BY <1>7, CheckedResult
    <2>3. OpenIn(results', r) = OpenIn(res, r)
      BY <2>2 DEF OpenIn
    <2> QED  BY <1>4, <1>5, <2>1, <2>3
  <1> QED  BY <1>6, <1>7

\* What check_timeout leaves the counters is one number for each row.
LEMMA CheckedWaits ==
    ASSUME conf \in Conf, NEW res, NEW wait \in [Rows -> Int],
           NEW top \in timeout_row .. conf.max_ttl, CheckTimeouts(res, wait, top)
    PROVE  waiting_ttls' \in [Rows -> Int]
  BY StillWaitingType DEF CheckTimeouts
-----------------------------------------------------------------------------
(***************************************************************************)
(* What the callbacks make of the table before it is checked.              *)
(***************************************************************************)

\* The ledger is about what is open, and which lookups are asked for.
LEMMA SameParts ==
    ASSUME conf \in Conf, NEW old, NEW res, NEW wait, Ledger(old, wait),
           \A i \in Probes : /\ res[i].dup = old[i].dup
                             /\ res[i].inetname = old[i].inetname
                             /\ res[i].asn = old[i].asn
    PROVE  Ledger(res, wait)
  <1> SUFFICES ASSUME NEW r \in Rows
               PROVE  /\ OpenIn(res, r) = OpenIn(old, r)
                      /\ NamesIn(res, r) = NamesIn(old, r)
                      /\ ASNsIn(res, r) = ASNsIn(old, r)
    BY DEF Ledger
  <1>1. Row(r) \subseteq Probes
    BY RowInTable
  <1> QED  BY <1>1 DEF OpenIn, NamesIn, ASNsIn

\* The table after send_timer has filled in one more probe.
LEMMA SentTable ==
    ASSUME conf \in Conf, seq \in Nat, NextTTL <= conf.max_ttl, TableOK(results), NEW res,
           res = [results EXCEPT ![seq].row = seq \div conf.nprobes, ![seq].ttl = NextTTL]
    PROVE  /\ TableOK(res)
           /\ \A i \in Probes : /\ i # seq => res[i] = results[i]
                                /\ res[i].dup = results[i].dup
                                /\ res[i].inetname = results[i].inetname
                                /\ res[i].asn = results[i].asn
           /\ SentOK(results, seq) => SentOK(res, seq + 1)
  <1> DEFINE row == seq \div conf.nprobes
             ttl == NextTTL
             e == [[results[seq] EXCEPT !.row = row] EXCEPT !.ttl = ttl]
  <1>1. seq \in Probes /\ ttl \in 1 .. conf.max_ttl /\ row \in Nat
    BY NextFits, RowOf
  <1>2. ttl \in 0 .. MAXTTL /\ ttl = conf.first_ttl + row
    <2>1. conf.max_ttl \in Nat /\ conf.max_ttl <= MAXTTL /\ MAXTTL \in Nat
      BY ConfNumbers, TTLNumbers
    <2> QED  BY <1>1, <2>1 DEF NextTTL
  <1>3. results \in [Probes -> Result]
    BY DEF TableOK
  <1>4. res = [results EXCEPT ![seq] = e]
    <2>1. res = [results EXCEPT ![seq].row = row, ![seq].ttl = ttl]
      OBVIOUS
    <2> HIDE DEF row, ttl
    <2> QED  BY <1>1, <1>3, <2>1 DEF Result
  <1>5. /\ e \in Result /\ e.row = row /\ e.ttl = ttl
        /\ e.dup = results[seq].dup /\ e.timeout = results[seq].timeout
        /\ e.got_there = results[seq].got_there /\ e.unreachable = results[seq].unreachable
        /\ e.inetname = results[seq].inetname /\ e.asn = results[seq].asn
        /\ e.answer = results[seq].answer
    <2>1. results[seq] \in Result
      BY <1>1, <1>3
    <2> HIDE DEF row, ttl
    <2> QED  BY <1>1, <1>2, <2>1 DEF Result
  <1> HIDE DEF e
  <1>6. /\ res \in [Probes -> Result] /\ res[seq] = e
        /\ \A i \in Probes : i # seq => res[i] = results[i]
    BY <1>1, <1>3, <1>4, <1>5
  <1>7. \A i \in Probes : ~res[i].dup => Untouched(res[i])
    BY <1>5, <1>6 DEF TableOK, Untouched
  <1>8. ASSUME SentOK(results, seq) PROVE SentOK(res, seq + 1)
    <2> SUFFICES ASSUME NEW i \in Probes
                 PROVE  /\ i < seq + 1 => res[i].row = i \div conf.nprobes
                                   /\ res[i].ttl = conf.first_ttl + (i \div conf.nprobes)
                        /\ seq + 1 <= i => ~res[i].dup /\ res[i].ttl = 0
                        /\ res[i].answer \in {i, NoProbe}
                        /\ res[i].timeout => res[i].answer = NoProbe
      BY DEF SentOK
    <2>1. i \in Nat
      BY RowOfProbe
    <2>2. CASE i = seq
      <3>1. ~(seq + 1 <= i)
        BY <2>2
      <3>2. /\ res[i].answer = results[i].answer /\ res[i].timeout = results[i].timeout
            /\ res[i].row = i \div conf.nprobes
            /\ res[i].ttl = conf.first_ttl + (i \div conf.nprobes)
        BY <1>2, <1>5, <1>6, <2>2
      <3> QED  BY <1>8, <3>1, <3>2 DEF SentOK
    <2>3. CASE i # seq
      <3>1. res[i] = results[i]
        BY <1>6, <2>3
      <3>2. /\ i < seq + 1 => i < seq
            /\ seq + 1 <= i => seq <= i
        BY <2>1, <2>3
      <3> QED  BY <1>8, <3>1, <3>2 DEF SentOK
    <2> QED  BY <2>2, <2>3
  <1> QED  BY <1>5, <1>6, <1>7, <1>8 DEF TableOK

\* The result that Record writes for an answer.
LEMMA TakenResult ==
    ASSUME NEW e \in Result, Untouched(e), NEW i \in Nat, NEW ok,
           NEW name \in LookupStates, NEW asn \in LookupStates
    PROVE  LET t == Taken(e, i, ok, name, asn)
           IN  /\ t \in Result /\ t.dup /\ t.answer = i /\ t.inetname = name /\ t.asn = asn
               /\ t.row = e.row /\ t.ttl = e.ttl /\ ~t.timeout
  <1> DEFINE g == Count(ok = -2 \/ (ok > 0 /\ FromDestination(conf, ok - 1)))
             u == Count(ok > 0 /\ ~FromDestination(conf, ok - 1))
             t == [e EXCEPT !.dup = TRUE, !.answer = i, !.inetname = name, !.asn = asn,
                            !.got_there = @ + g, !.unreachable = @ + u]
  <1>1. g \in 0 .. 1 /\ u \in 0 .. 1
    BY DEF Count
  <1>2. Taken(e, i, ok, name, asn) = t
    BY DEF Taken
  <1> HIDE DEF g, u
  <1>3. e.got_there + g \in 0 .. 1 /\ e.unreachable + u \in 0 .. 1
    BY <1>1 DEF Untouched
  <1>4. t \in Result
    BY <1>3 DEF Result
  <1>5. /\ t.dup /\ t.answer = i /\ t.inetname = name /\ t.asn = asn
        /\ t.row = e.row /\ t.ttl = e.ttl /\ t.timeout = e.timeout
    BY DEF Result
  <1> QED  BY <1>2, <1>4, <1>5 DEF Untouched

\* One more in a set, if something holds.
LEMMA AddIf ==
    ASSUME NEW A, IsFiniteSet(A), NEW s, s \notin A, NEW cond \in BOOLEAN
    PROVE  Cardinality(IF cond THEN A \cup {s} ELSE A) = Cardinality(A) + Count(cond)
  <1>1. Cardinality(A) \in Nat
    BY FS_CardinalityType
  <1>2. CASE cond
    BY <1>1, <1>2, FS_AddElement DEF Count
  <1>3. CASE ~cond
    BY <1>1, <1>3 DEF Count
  <1> QED  BY <1>2, <1>3

\* A lookup that is asked for is counted in the ledger until it ends.
LEMMA LookupCounts ==
    ASSUME NEW flag \in BOOLEAN, NEW how \in Lookup(flag)
    PROVE  /\ how \in LookupStates
           /\ Count(how = "done") \in 0 .. 1 /\ Count(how = "asked") \in 0 .. 1
           /\ Count(how = "done") + Count(how = "asked") = Count(flag)
  BY DEF Lookup, LookupStates, Count

\* The table after an answer to probe i is taken for that of probe s.
LEMMA RecordedTable ==
    ASSUME conf \in Conf, seq \in Nat, TableOK(results),
           NEW s \in Probes, ~results[s].dup, NEW i \in Nat,
           NEW ok, NEW name \in LookupStates, NEW asn \in LookupStates
    PROVE  LET res == Record(s, i, ok, name, asn)
           IN  /\ TableOK(res)
               /\ \A j \in Probes : j # s => res[j] = results[j]
               /\ res[s].dup /\ res[s].inetname = name /\ res[s].asn = asn
               /\ SentOK(results, seq) /\ s = i /\ s < seq => SentOK(res, seq)
  <1> DEFINE res == Record(s, i, ok, name, asn)
             t == Taken(results[s], i, ok, name, asn)
  <1>1. results \in [Probes -> Result] /\ results[s] \in Result /\ Untouched(results[s])
    BY DEF TableOK
  <1>2. res = [results EXCEPT ![s] = t]
    BY DEF Record
  <1>3. /\ t \in Result /\ t.dup /\ t.answer = i /\ t.inetname = name /\ t.asn = asn
        /\ t.row = results[s].row /\ t.ttl = results[s].ttl /\ ~t.timeout
    BY <1>1, TakenResult
  <1> HIDE DEF t, res
  <1>4. /\ res \in [Probes -> Result] /\ res[s] = t
        /\ \A j \in Probes : j # s => res[j] = results[j]
    BY <1>1, <1>2, <1>3
  <1>5. TableOK(res)
    BY <1>3, <1>4 DEF TableOK
  <1>6. ASSUME SentOK(results, seq), s = i, s < seq PROVE SentOK(res, seq)
    <2> SUFFICES ASSUME NEW j \in Probes
                 PROVE  /\ j < seq => res[j].row = j \div conf.nprobes
                                   /\ res[j].ttl = conf.first_ttl + (j \div conf.nprobes)
                        /\ seq <= j => ~res[j].dup /\ res[j].ttl = 0
                        /\ res[j].answer \in {j, NoProbe}
                        /\ res[j].timeout => res[j].answer = NoProbe
      BY DEF SentOK
    <2>1. CASE j = s
      <3>1. ~(seq <= s) \/ (seq <= s /\ ~results[s].dup /\ results[s].ttl = 0)
        BY <1>6 DEF SentOK
      <3>2. /\ results[s].row = s \div conf.nprobes
            /\ results[s].ttl = conf.first_ttl + (s \div conf.nprobes)
        BY <1>6 DEF SentOK
      <3>3. /\ res[j].row = j \div conf.nprobes
            /\ res[j].ttl = conf.first_ttl + (j \div conf.nprobes)
            /\ res[j].answer = j /\ ~res[j].timeout
        BY <1>3, <1>4, <1>6, <2>1, <3>2
      <3>4. seq <= j => FALSE
        <4>1. s \in Nat
          BY RowOfProbe
        <4>2. SUFFICES ASSUME seq <= j PROVE FALSE
          OBVIOUS
        <4> QED  BY <1>6, <2>1, <4>1, <4>2
      <3> QED  BY <3>3, <3>4
    <2>2. CASE j # s
      BY <1>4, <1>6, <2>2 DEF SentOK
    <2> QED  BY <2>1, <2>2
  <1> QED  BY <1>3, <1>4, <1>5, <1>6 DEF res

\* htons undoes htons.
LEMMA SwappedTwice ==
    ASSUME NEW x \in Nat, x < 65536
    PROVE  Htons(Htons(x)) = x
  <1> DEFINE a == x \div 256
             b == x % 256
  <1>1. a \in 0 .. 255 /\ b \in 0 .. 255 /\ x = 256 * a + b
    BY SMT
  <1> HIDE DEF a, b
  <1>2. (256 * a + b) % 256 = b /\ (256 * a + b) \div 256 = a /\ a % 256 = a
    BY <1>1, SMT
  <1>3. (256 * b + a) % 256 = a /\ (256 * b + a) \div 256 = b /\ b % 256 = b
    BY <1>1, SMT
  <1>4. Htons(x) = 256 * b + a
    BY <1>1, <1>2 DEF Htons, Byte
  <1>5. Htons(256 * b + a) = 256 * a + b
    BY <1>1, <1>3, SMT DEF Htons, Byte
  <1> QED  BY <1>1, <1>4, <1>5

\* A word is cut to 16 bits.
LEMMA Swapped ==
    ASSUME NEW x \in Nat, 65536 <= x, x < 131072
    PROVE  Htons(Htons(x)) = x - 65536
  <1>1. x - 65536 \in Nat /\ x - 65536 < 65536
    OBVIOUS
  <1>2. x % 256 = (x - 65536) % 256 /\ (x \div 256) % 256 = ((x - 65536) \div 256) % 256
    BY SMT
  <1>3. Htons(x) = Htons(x - 65536)
    BY <1>2 DEF Htons, Byte
  <1> QED  BY <1>1, <1>3, SwappedTwice

\* An answer names the probe it quotes, or none of the table: the port of a probe
\* that does not fit 16 bits comes back below the base port.
LEMMA OwnAnswer ==
    ASSUME conf \in Conf, WellUsed, NEW i \in Probes, NEW m,
           m.quoted = BuildProbe(conf, i),
           NEW ok \in PacketOk(conf, m, Stack), ok.ok # 0, ok.seq \in Probes
    PROVE  ok.seq = i
  <1>1. i \in Nat /\ i < 65536
    <2>1. conf.max_ttl * conf.nprobes <= 65536
      BY SMT DEF WellUsed, Word
    <2>2. i \in Nat /\ i <= conf.max_ttl * conf.nprobes - 1 /\ conf.max_ttl * conf.nprobes \in Nat
      BY ConfNumbers DEF Probes
    <2> QED  BY <2>1, <2>2, SMT
  <1>2. conf.port \in Nat /\ conf.port < 65536
    <2>1. conf.port \in PortNumbers
      BY DEF Conf
    <2>2. \A k \in PortNumbers : k \in Nat /\ k < 65536
      BY SMT DEF PortNumbers
    <2> QED  BY <2>1, <2>2
  <1>3. CASE conf.proto = "icmp"
    <2>1. m.quoted.to = Htons(i)
      BY <1>3 DEF BuildProbe, BuildProbe4, BuildProbe6
    <2>2. ok = Wrong \/ ok.seq = Htons(m.quoted.to)
      BY <1>3 DEF PacketOk, PacketOk4, PacketOk6, Quoting, Errors
    <2> QED  BY <1>1, <2>1, <2>2, SwappedTwice DEF Wrong
  <1>4. CASE conf.proto # "icmp"
    <2>1. conf.proto = "udp"
      BY <1>4 DEF Conf, Protocols, WellUsed
    <2>2. m.quoted.to = Htons(conf.port + i)
      BY <2>1 DEF BuildProbe, BuildProbe4, BuildProbe6
    <2>3. ok = Wrong \/ ok.seq = SeqOfPort(conf, m.quoted.to)
      BY <2>1 DEF PacketOk, PacketOk4, PacketOk6, Quoting, Errors
    <2>4. ok.seq = Htons(Htons(conf.port + i)) - conf.port
      BY <2>2, <2>3 DEF Wrong, SeqOfPort
    <2> DEFINE p == conf.port
    <2>5. p \in Nat /\ p < 65536 /\ ok.seq = Htons(Htons(p + i)) - p
      BY <1>2, <2>4
    <2> HIDE DEF p
    <2>6. CASE p + i < 65536
      <3>1. Htons(Htons(p + i)) = p + i
        BY <1>1, <2>5, <2>6, SwappedTwice
      <3> QED  BY <1>1, <2>5, <3>1
    <2>7. CASE 65536 <= p + i
      <3>1. p + i < 131072
        BY <1>1, <2>5, SMT
      <3>2. Htons(Htons(p + i)) = (p + i) - 65536
        BY <1>1, <2>5, <2>7, <3>1, Swapped
      <3>3. ok.seq < 0
        BY <1>1, <2>5, <3>2, SMT
      <3> QED  BY <3>3, RowOfProbe
    <2> QED  BY <1>1, <2>5, <2>6, <2>7, SMT
  <1> QED  BY <1>3, <1>4

\* Taking an answer keeps the ledger: the probe is no longer open, and each of its
\* lookups is either asked for or already over.
LEMMA AnswerLedger ==
    ASSUME conf \in Conf, seq \in Nat, WellUsed, TableOK(results), SentOK(results, seq),
           waiting_ttls \in [Rows -> Int], Ledger(results, waiting_ttls),
           NEW i \in Probes, i < seq, ~results[i].dup, NEW ok,
           NEW name \in Lookup(~conf.nflag), NEW asn \in Lookup(conf.Aflag)
    PROVE  Ledger(Record(i, i, ok, name, asn), Answered(i, name, asn))
  <1> DEFINE res == Record(i, i, ok, name, asn)
             wait == Answered(i, name, asn)
             s == i \div conf.nprobes
             late == Count(name = "done") + Count(asn = "done")
  <1>1. i \in Nat /\ s \in Rows /\ i \in Row(s) /\ results[i].row = s
    BY RowOfProbe DEF SentOK
  <1>2. (~conf.nflag) \in BOOLEAN /\ conf.Aflag \in BOOLEAN
    <2>1. conf.nflag \in BOOLEAN /\ conf.Aflag \in BOOLEAN
      BY ConfNumbers
    <2> QED  BY <2>1
  <1>3. /\ name \in LookupStates /\ asn \in LookupStates
        /\ Count(name = "done") \in 0 .. 1 /\ Count(name = "asked") \in 0 .. 1
        /\ Count(asn = "done") \in 0 .. 1 /\ Count(asn = "asked") \in 0 .. 1
        /\ Count(name = "done") + Count(name = "asked") = Count(~conf.nflag)
        /\ Count(asn = "done") + Count(asn = "asked") = Count(conf.Aflag)
    BY <1>2, LookupCounts
  <1>4. /\ \A j \in Probes : j # i => res[j] = results[j]
        /\ res[i].dup /\ res[i].inetname = name /\ res[i].asn = asn
    BY <1>1, <1>3, RecordedTable
  <1>5. wait = Less(Less(waiting_ttls, s, late), s, 1)
    BY <1>1 DEF Answered
  <1>6. late \in Int
    BY <1>3
  <1>7. /\ wait[s] = (waiting_ttls[s] - late) - 1
        /\ \A r \in Rows : r # s => wait[r] = waiting_ttls[r]
    <2> HIDE DEF wait, late, s
    <2> QED  BY <1>1, <1>5, <1>6 DEF Less
  <1> HIDE DEF res, wait, late
  <1>8. SUFFICES ASSUME NEW r \in Rows
                 PROVE  wait[r] = conf.expected_responses * Cardinality(OpenIn(res, r))
                                  + Cardinality(NamesIn(res, r)) + Cardinality(ASNsIn(res, r))
    BY DEF Ledger, res, wait
  <1>9. /\ Row(r) \subseteq Probes /\ r \in Nat /\ s \in Nat
        /\ waiting_ttls[r] = conf.expected_responses * Cardinality(OpenIn(results, r))
                  + Cardinality(NamesIn(results, r)) + Cardinality(ASNsIn(results, r))
    BY <1>1, RowInTable DEF Ledger
  <1>10. CASE r # s
    <2>1. i \notin Row(r)
      BY <1>1, <1>9, <1>10, OneRow
    <2>2. \A j \in Row(r) : res[j] = results[j]
      BY <1>4, <1>9, <2>1
    <2>3. /\ OpenIn(res, r) = OpenIn(results, r) /\ NamesIn(res, r) = NamesIn(results, r)
          /\ ASNsIn(res, r) = ASNsIn(results, r)
      BY <2>2 DEF OpenIn, NamesIn, ASNsIn
    <2> QED  BY <1>7, <1>9, <1>10, <2>3
  <1>11. CASE r = s
    <2>1. /\ OpenIn(res, r) = OpenIn(results, r) \ {i} /\ i \in OpenIn(results, r)
      BY <1>1, <1>4, <1>9, <1>11 DEF OpenIn
    <2>2. Untouched(results[i])
      BY DEF TableOK
    <2>3. /\ NamesIn(res, r) = IF name = "asked" THEN NamesIn(results, r) \cup {i}
                                                 ELSE NamesIn(results, r)
          /\ i \notin NamesIn(results, r)
      <3>1. i \in Row(r) /\ i \notin NamesIn(results, r)
        BY <1>1, <1>11, <2>2 DEF NamesIn, Untouched
      <3>2. \A j \in Row(r) : res[j].inetname = (IF j = i THEN name ELSE results[j].inetname)
        BY <1>4, <1>9
      <3>3. CASE name = "asked"
        BY <3>1, <3>2, <3>3 DEF NamesIn
      <3>4. CASE name # "asked"
        BY <3>1, <3>2, <3>4 DEF NamesIn
      <3> QED  BY <3>1, <3>3, <3>4
    <2>4. /\ ASNsIn(res, r) = IF asn = "asked" THEN ASNsIn(results, r) \cup {i}
                                               ELSE ASNsIn(results, r)
          /\ i \notin ASNsIn(results, r)
      <3>1. i \in Row(r) /\ i \notin ASNsIn(results, r)
        BY <1>1, <1>11, <2>2 DEF ASNsIn, Untouched
      <3>2. \A j \in Row(r) : res[j].asn = (IF j = i THEN asn ELSE results[j].asn)
        BY <1>4, <1>9
      <3>3. CASE asn = "asked"
        BY <3>1, <3>2, <3>3 DEF ASNsIn
      <3>4. CASE asn # "asked"
        BY <3>1, <3>2, <3>4 DEF ASNsIn
      <3> QED  BY <3>1, <3>3, <3>4
    <2>5. /\ IsFiniteSet(OpenIn(results, r)) /\ IsFiniteSet(NamesIn(results, r))
          /\ IsFiniteSet(ASNsIn(results, r))
          /\ Cardinality(OpenIn(results, r)) \in Nat /\ Cardinality(NamesIn(results, r)) \in Nat
          /\ Cardinality(ASNsIn(results, r)) \in Nat
      BY PartsOfRow DEF OpenIn, NamesIn, ASNsIn
    <2>6. Cardinality(OpenIn(res, r)) = Cardinality(OpenIn(results, r)) - 1
      <3> DEFINE A == OpenIn(results, r)
      <3> HIDE DEF A
      <3>1. IsFiniteSet(A) /\ i \in A /\ OpenIn(res, r) = A \ {i}
        BY <2>1, <2>5 DEF A
      <3>2. Cardinality(A \ {i}) = Cardinality(A) - 1
        BY <3>1, FS_RemoveElement
      <3> QED  BY <3>1, <3>2 DEF A
    <2>7. Cardinality(NamesIn(res, r)) = Cardinality(NamesIn(results, r)) + Count(name = "asked")
      <3>1. Cardinality(IF name = "asked" THEN NamesIn(results, r) \cup {i} ELSE NamesIn(results, r))
            = Cardinality(NamesIn(results, r)) + Count(name = "asked")
        BY <2>3, <2>5, AddIf
      <3> QED  BY <2>3, <3>1
    <2>8. Cardinality(ASNsIn(res, r)) = Cardinality(ASNsIn(results, r)) + Count(asn = "asked")
      <3>1. Cardinality(IF asn = "asked" THEN ASNsIn(results, r) \cup {i} ELSE ASNsIn(results, r))
            = Cardinality(ASNsIn(results, r)) + Count(asn = "asked")
        BY <2>4, <2>5, AddIf
      <3> QED  BY <2>4, <3>1
    <2> DEFINE e == conf.expected_responses
               a == Cardinality(OpenIn(results, r))
               x == Cardinality(NamesIn(results, r))
               y == Cardinality(ASNsIn(results, r))
               u == Count(name = "asked")
               v == Count(asn = "asked")
    <2>9. e = 1 + (late + u + v)
      <3>1. e = 1 + (IF conf.nflag THEN 0 ELSE 1) + (IF conf.Aflag THEN 1 ELSE 0)
        BY DEF WellUsed, FlagsOnce
      <3>2. e = 1 + Count(~conf.nflag) + Count(conf.Aflag)
        BY <1>2, <3>1 DEF Count
      <3> QED  BY <1>3, <3>2 DEF late
    <2>10. a \in Nat /\ x \in Nat /\ y \in Nat /\ u \in Int /\ v \in Int /\ e \in Int
      BY <1>3, <2>5, ConfNumbers
    <2> HIDE DEF e, a, x, y, u, v
    <2>11. ((e * a + x + y) - late) - 1 = e * (a - 1) + (x + u) + (y + v)
      <3>1. e * (a - 1) = e * a - e
        BY <2>10, SMT
      <3>2. e * a \in Int
        BY <2>10, SMT
      <3> DEFINE ea == e * a
      <3> HIDE DEF ea
      <3>3. ((ea + x + y) - late) - 1 = (ea - e) + (x + u) + (y + v)
        BY <1>6, <2>9, <2>10, <3>2 DEF ea
      <3> QED  BY <3>1, <3>3 DEF ea
    <2>12. wait[r] = ((e * a + x + y) - late) - 1
      BY <1>7, <1>9, <1>11 DEF e, a, x, y
    <2> QED  BY <2>6, <2>7, <2>8, <2>11, <2>12 DEF e, a, x, y, u, v
  <1> QED  BY <1>10, <1>11

\* What is asked for was asked for an answered probe, so for a sent one, and its
\* row is right.
LEMMA AskedProbe ==
    ASSUME conf \in Conf, seq \in Nat, TableOK(results), SentOK(results, seq), NEW i \in Probes,
           results[i].inetname = "asked" \/ results[i].asn = "asked"
    PROVE  /\ results[i].dup /\ i < seq /\ results[i].row = i \div conf.nprobes
           /\ results[i].row \in Rows /\ i \in Row(results[i].row)
  <1>1. results[i].dup
    BY DEF TableOK, Untouched
  <1>2. i < seq
    BY <1>1, RowOfProbe DEF SentOK
  <1> QED  BY <1>1, <1>2, RowOfProbe DEF SentOK

\* The end of a lookup: one that is asked for is done, and the row waits for one
\* thing less.
LEMMA NameLedger ==
    ASSUME conf \in Conf, seq \in Nat, TableOK(results), NEW i \in Probes,
           results[i].inetname = "asked", waiting_ttls \in [Rows -> Int],
           NEW res, res = [results EXCEPT ![i].inetname = "done"]
    PROVE  /\ TableOK(res)
           /\ \A j \in Probes : j # i => res[j] = results[j]
           /\ SentOK(results, seq) => SentOK(res, seq)
           /\ SentOK(results, seq) /\ Ledger(results, waiting_ttls) =>
                 Ledger(res, Less(waiting_ttls, results[i].row, 1))
  <1> DEFINE t == [results[i] EXCEPT !.inetname = "done"]
             wait == Less(waiting_ttls, results[i].row, 1)
  <1>1. results \in [Probes -> Result] /\ results[i] \in Result
    BY DEF TableOK
  <1>2. res = [results EXCEPT ![i] = t]
    OBVIOUS
  <1>3. /\ t \in Result /\ t.inetname = "done" /\ t.row = results[i].row /\ t.ttl = results[i].ttl
        /\ t.dup = results[i].dup /\ t.timeout = results[i].timeout /\ t.asn = results[i].asn
        /\ t.answer = results[i].answer
    BY <1>1 DEF Result, LookupStates
  <1> HIDE DEF t
  <1>4. /\ res \in [Probes -> Result] /\ res[i] = t
        /\ \A j \in Probes : j # i => res[j] = results[j]
    BY <1>1, <1>2, <1>3
  <1>5. results[i].dup
    BY DEF TableOK, Untouched
  <1>6. TableOK(res)
    BY <1>3, <1>4, <1>5 DEF TableOK
  <1>7. ASSUME SentOK(results, seq) PROVE SentOK(res, seq)
    <2> SUFFICES ASSUME NEW j \in Probes
                 PROVE  /\ res[j].row = results[j].row /\ res[j].ttl = results[j].ttl
                        /\ res[j].dup = results[j].dup /\ res[j].timeout = results[j].timeout
                        /\ res[j].answer = results[j].answer
      BY <1>7 DEF SentOK
    <2> QED  BY <1>3, <1>4
  <1>8. ASSUME SentOK(results, seq), Ledger(results, waiting_ttls) PROVE Ledger(res, wait)
    <2> DEFINE s == results[i].row
    <2>1. s \in Rows /\ i \in Row(s)
      BY <1>8, AskedProbe
    <2>2. wait[s] = waiting_ttls[s] - 1 /\ \A r \in Rows : r # s => wait[r] = waiting_ttls[r]
      <3> HIDE DEF s
      <3>1. wait = Less(waiting_ttls, s, 1)
        BY DEF s
      <3> QED  BY <2>1, <3>1 DEF Less
    <2> HIDE DEF wait, s
    <2> SUFFICES ASSUME NEW r \in Rows
                 PROVE  wait[r] = conf.expected_responses * Cardinality(OpenIn(res, r))
                                  + Cardinality(NamesIn(res, r)) + Cardinality(ASNsIn(res, r))
      BY DEF Ledger
    <2>3. /\ Row(r) \subseteq Probes /\ r \in Nat /\ s \in Nat
          /\ waiting_ttls[r] = conf.expected_responses * Cardinality(OpenIn(results, r))
                    + Cardinality(NamesIn(results, r)) + Cardinality(ASNsIn(results, r))
      BY <1>8, <2>1, RowInTable DEF Ledger
    <2>4. OpenIn(res, r) = OpenIn(results, r) /\ ASNsIn(res, r) = ASNsIn(results, r)
      <3>1. \A j \in Row(r) : res[j].dup = results[j].dup /\ res[j].asn = results[j].asn
        BY <1>3, <1>4, <2>3
      <3> QED  BY <3>1 DEF OpenIn, ASNsIn
    <2>5. CASE r # s
      <3>1. i \notin Row(r)
        BY <2>1, <2>3, <2>5, OneRow
      <3>2. NamesIn(res, r) = NamesIn(results, r)
        BY <1>4, <2>3, <3>1 DEF NamesIn
      <3> QED  BY <2>2, <2>3, <2>4, <2>5, <3>2
    <2>6. CASE r = s
      <3> DEFINE A == NamesIn(results, r)
      <3>1. NamesIn(res, r) = A \ {i} /\ i \in A
        BY <1>3, <1>4, <2>1, <2>3, <2>6 DEF NamesIn
      <3>2. IsFiniteSet(A) /\ Cardinality(A) \in Nat
        BY PartsOfRow DEF NamesIn
      <3> HIDE DEF A
      <3>3. Cardinality(A \ {i}) = Cardinality(A) - 1
        BY <3>1, <3>2, FS_RemoveElement
      <3> DEFINE x == conf.expected_responses * Cardinality(OpenIn(results, r))
                 a == Cardinality(A)
                 y == Cardinality(ASNsIn(results, r))
      <3>4. x \in Int /\ a \in Int /\ y \in Int
        <4>1. Cardinality(OpenIn(results, r)) \in Nat /\ y \in Nat
          BY PartsOfRow DEF OpenIn, ASNsIn
        <4> QED  BY <3>2, <4>1, ConfNumbers, SMT
      <3>5. wait[r] = (x + a + y) - 1
        BY <2>2, <2>3, <2>6 DEF A
      <3> HIDE DEF x, a, y
      <3>6. (x + a + y) - 1 = x + (a - 1) + y
        BY <3>4
      <3> QED  BY <2>4, <3>1, <3>3, <3>5, <3>6 DEF x, a, y
    <2> QED  BY <2>5, <2>6
  <1> QED  BY <1>4, <1>6, <1>7, <1>8

\* The end of an AS lookup and its share of the counter.
LEMMA ASLedger ==
    ASSUME conf \in Conf, seq \in Nat, TableOK(results), NEW i \in Probes,
           results[i].asn = "asked", waiting_ttls \in [Rows -> Int],
           NEW res, res = [results EXCEPT ![i].asn = "done"]
    PROVE  /\ TableOK(res)
           /\ \A j \in Probes : j # i => res[j] = results[j]
           /\ SentOK(results, seq) => SentOK(res, seq)
           /\ SentOK(results, seq) /\ Ledger(results, waiting_ttls) =>
                 Ledger(res, Less(waiting_ttls, results[i].row, 1))
  <1> DEFINE t == [results[i] EXCEPT !.asn = "done"]
             wait == Less(waiting_ttls, results[i].row, 1)
  <1>1. results \in [Probes -> Result] /\ results[i] \in Result
    BY DEF TableOK
  <1>2. res = [results EXCEPT ![i] = t]
    OBVIOUS
  <1>3. /\ t \in Result /\ t.asn = "done" /\ t.row = results[i].row /\ t.ttl = results[i].ttl
        /\ t.dup = results[i].dup /\ t.timeout = results[i].timeout /\ t.inetname = results[i].inetname
        /\ t.answer = results[i].answer
    BY <1>1 DEF Result, LookupStates
  <1> HIDE DEF t
  <1>4. /\ res \in [Probes -> Result] /\ res[i] = t
        /\ \A j \in Probes : j # i => res[j] = results[j]
    BY <1>1, <1>2, <1>3
  <1>5. results[i].dup
    BY DEF TableOK, Untouched
  <1>6. TableOK(res)
    BY <1>3, <1>4, <1>5 DEF TableOK
  <1>7. ASSUME SentOK(results, seq) PROVE SentOK(res, seq)
    <2> SUFFICES ASSUME NEW j \in Probes
                 PROVE  /\ res[j].row = results[j].row /\ res[j].ttl = results[j].ttl
                        /\ res[j].dup = results[j].dup /\ res[j].timeout = results[j].timeout
                        /\ res[j].answer = results[j].answer
      BY <1>7 DEF SentOK
    <2> QED  BY <1>3, <1>4
  <1>8. ASSUME SentOK(results, seq), Ledger(results, waiting_ttls) PROVE Ledger(res, wait)
    <2> DEFINE s == results[i].row
    <2>1. s \in Rows /\ i \in Row(s)
      BY <1>8, AskedProbe
    <2>2. wait[s] = waiting_ttls[s] - 1 /\ \A r \in Rows : r # s => wait[r] = waiting_ttls[r]
      <3> HIDE DEF s
      <3>1. wait = Less(waiting_ttls, s, 1)
        BY DEF s
      <3> QED  BY <2>1, <3>1 DEF Less
    <2> HIDE DEF wait, s
    <2> SUFFICES ASSUME NEW r \in Rows
                 PROVE  wait[r] = conf.expected_responses * Cardinality(OpenIn(res, r))
                                  + Cardinality(NamesIn(res, r)) + Cardinality(ASNsIn(res, r))
      BY DEF Ledger
    <2>3. /\ Row(r) \subseteq Probes /\ r \in Nat /\ s \in Nat
          /\ waiting_ttls[r] = conf.expected_responses * Cardinality(OpenIn(results, r))
                    + Cardinality(NamesIn(results, r)) + Cardinality(ASNsIn(results, r))
      BY <1>8, <2>1, RowInTable DEF Ledger
    <2>4. OpenIn(res, r) = OpenIn(results, r) /\ NamesIn(res, r) = NamesIn(results, r)
      <3>1. \A j \in Row(r) : res[j].dup = results[j].dup /\ res[j].inetname = results[j].inetname
        BY <1>3, <1>4, <2>3
      <3> QED  BY <3>1 DEF OpenIn, NamesIn
    <2>5. CASE r # s
      <3>1. i \notin Row(r)
        BY <2>1, <2>3, <2>5, OneRow
      <3>2. ASNsIn(res, r) = ASNsIn(results, r)
        BY <1>4, <2>3, <3>1 DEF ASNsIn
      <3> QED  BY <2>2, <2>3, <2>4, <2>5, <3>2
    <2>6. CASE r = s
      <3> DEFINE A == ASNsIn(results, r)
      <3>1. ASNsIn(res, r) = A \ {i} /\ i \in A
        BY <1>3, <1>4, <2>1, <2>3, <2>6 DEF ASNsIn
      <3>2. IsFiniteSet(A) /\ Cardinality(A) \in Nat
        BY PartsOfRow DEF ASNsIn
      <3> HIDE DEF A
      <3>3. Cardinality(A \ {i}) = Cardinality(A) - 1
        BY <3>1, <3>2, FS_RemoveElement
      <3> DEFINE x == conf.expected_responses * Cardinality(OpenIn(results, r))
                 a == Cardinality(A)
                 y == Cardinality(NamesIn(results, r))
      <3>4. x \in Int /\ a \in Int /\ y \in Int
        <4>1. Cardinality(OpenIn(results, r)) \in Nat /\ y \in Nat
          BY PartsOfRow DEF OpenIn, NamesIn
        <4> QED  BY <3>2, <4>1, ConfNumbers, SMT
      <3>5. wait[r] = (x + y + a) - 1
        BY <2>2, <2>3, <2>6 DEF A
      <3> HIDE DEF x, a, y
      <3>6. (x + y + a) - 1 = x + y + (a - 1)
        BY <3>4
      <3> QED  BY <2>4, <3>1, <3>3, <3>5, <3>6 DEF x, a, y
    <2> QED  BY <2>5, <2>6
  <1> QED  BY <1>4, <1>6, <1>7, <1>8
-----------------------------------------------------------------------------
(***************************************************************************)
(* Every callback hands a table that is in order to catchup_result_rows,   *)
(* or leaves one.                                                          *)
(***************************************************************************)

\* Nothing can change this result any more.
Closed(e) == e.dup /\ e.inetname # "asked" /\ e.asn # "asked"

Good(res, wait, n) ==
    /\ TableOK(res)
    /\ wait \in [Rows -> Int]
    /\ WellUsed => /\ SentOK(res, n)
                   /\ Ledger(res, wait)
                   /\ \A i \in Probes : Closed(results[i]) => res[i] = results[i]

Bound == ((conf.max_ttl - conf.first_ttl) + 1) * conf.nprobes

Running ==
    /\ conf \in Conf
    /\ phase = "running"
    /\ seq \in Nat /\ seq <= Bound
    /\ TableOK(results)
    /\ waiting_ttls \in [Rows -> Int]
    /\ timeout_row \in 0 .. conf.max_ttl
    /\ WellUsed => SentOK(results, seq) /\ Ledger(results, waiting_ttls)

\* The table that a callback leaves is res, with res waiting for wait, or what
\* catchup_result_rows makes of them.
Leaves(res, wait) ==
    \/ CatchUp(res, wait)
    \/ results' = res /\ waiting_ttls' = wait /\ UNCHANGED <<phase, rowVars>>

LEMMA LessType ==
    ASSUME NEW wait \in [Rows -> Int], NEW r, NEW n \in Int
    PROVE  Less(wait, r, n) \in [Rows -> Int]
  <1>1. CASE r \in Rows
    <2>1. wait[r] - n \in Int
      BY <1>1
    <2> QED  BY <2>1 DEF Less
  <1>2. CASE r \notin Rows
    <2>1. Less(wait, r, n) = wait
      BY <1>2 DEF Less
    <2> QED  BY <2>1
  <1> QED  BY <1>1, <1>2

LEMMA GoodNow ==
    ASSUME Running
    PROVE  Good(results, waiting_ttls, seq)
  <1>1. /\ TableOK(results) /\ waiting_ttls \in [Rows -> Int]
        /\ WellUsed => SentOK(results, seq) /\ Ledger(results, waiting_ttls)
    BY DEF Running
  <1> QED  BY <1>1 DEF Good

\* send_timer hands catchup_result_rows a table with an exact ledger.
LEMMA SendTimerLeaves ==
    ASSUME Running, SendTimer
    PROVE  /\ \E res, wait : Good(res, wait, seq') /\ Leaves(res, wait)
           /\ seq' \in Nat /\ seq <= seq' /\ seq' <= Bound
  <1>1. conf \in Conf /\ seq \in Nat /\ seq <= Bound /\ TableOK(results)
        /\ waiting_ttls \in [Rows -> Int]
    BY DEF Running
  <1>2. CASE NextTTL <= conf.max_ttl
    <2> DEFINE res == [results EXCEPT ![seq].row = seq \div conf.nprobes, ![seq].ttl = NextTTL]
    <2>1. seq' = seq + 1 /\ CatchUp(res, waiting_ttls)
      BY <1>2 DEF SendTimer
    <2>2. /\ TableOK(res)
          /\ \A i \in Probes : /\ i # seq => res[i] = results[i]
                               /\ res[i].dup = results[i].dup
                               /\ res[i].inetname = results[i].inetname
                               /\ res[i].asn = results[i].asn
          /\ SentOK(results, seq) => SentOK(res, seq + 1)
      BY <1>1, <1>2, SentTable
    <2> HIDE DEF res
    <2>3. ASSUME WellUsed PROVE SentOK(res, seq + 1) /\ Ledger(res, waiting_ttls)
      BY <1>1, <2>2, <2>3, SameParts DEF Running
    <2>4. ASSUME WellUsed, NEW i \in Probes, Closed(results[i]) PROVE res[i] = results[i]
      <3>1. results[seq].dup => seq \notin Probes
        <4>1. SentOK(results, seq) /\ seq <= seq
          BY <1>1, <2>4 DEF Running
        <4> QED  BY <4>1 DEF SentOK
      <3>2. i # seq
        BY <2>4, <3>1 DEF Closed
      <3> QED  BY <2>2, <3>2
    <2>5. Good(res, waiting_ttls, seq')
      BY <1>1, <2>1, <2>2, <2>3, <2>4 DEF Good
    <2>6. seq + 1 <= Bound
      BY <1>1, <1>2, NextFits DEF Bound
    <2>7. \E r, w : Good(r, w, seq') /\ Leaves(r, w)
      BY <2>1, <2>5 DEF Leaves
    <2> QED  BY <1>1, <2>1, <2>6, <2>7
  <1>3. CASE ~(NextTTL <= conf.max_ttl)
    <2>1. seq' = seq /\ CatchUp(results, waiting_ttls)
      BY <1>3 DEF SendTimer
    <2>2. Good(results, waiting_ttls, seq')
      BY <2>1, GoodNow
    <2>3. \E r, w : Good(r, w, seq') /\ Leaves(r, w)
      BY <2>1, <2>2 DEF Leaves
    <2> QED  BY <1>1, <2>1, <2>3
  <1> QED  BY <1>2, <1>3

\* So does sock_read, whether or not the answer is taken.
LEMMA SockReadLeaves ==
    ASSUME Running, NEW i \in Probes, NEW answer \in Answers, SockRead(i, answer)
    PROVE  \E res, wait : Good(res, wait, seq) /\ Leaves(res, wait)
  <1> DEFINE m == [type |-> answer.type, code |-> answer.code, quoted |-> BuildProbe(conf, i)]
  <1>1. conf \in Conf /\ seq \in Nat /\ TableOK(results) /\ waiting_ttls \in [Rows -> Int]
        /\ i < seq /\ m.quoted = BuildProbe(conf, i)
    BY DEF Running, SockRead
  <1>2. PICK ok \in PacketOk(conf, m, Stack) :
          IF ok.ok = 0 \/ ok.seq \notin Probes
          THEN CatchUp(results, waiting_ttls)
          ELSE IF results[ok.seq].dup
          THEN CatchUp(results, waiting_ttls)
          ELSE \E name \in Lookup(~conf.nflag), asn \in Lookup(conf.Aflag) :
                  CatchUp(Record(ok.seq, i, ok.ok, name, asn), Answered(ok.seq, name, asn))
    BY DEF SockRead
  <1> HIDE DEF m
  <1>3. CASE CatchUp(results, waiting_ttls)
    BY <1>3, GoodNow DEF Leaves
  <1>4. CASE ~CatchUp(results, waiting_ttls)
    <2>1. ok.ok # 0 /\ ok.seq \in Probes /\ ~results[ok.seq].dup
      BY <1>2, <1>4
    <2>2. PICK name \in Lookup(~conf.nflag), asn \in Lookup(conf.Aflag) :
                  CatchUp(Record(ok.seq, i, ok.ok, name, asn), Answered(ok.seq, name, asn))
      BY <1>2, <2>1
    <2> DEFINE s == ok.seq
               res == Record(s, i, ok.ok, name, asn)
               wait == Answered(s, name, asn)
    <2>3. /\ name \in LookupStates /\ asn \in LookupStates
          /\ Count(name = "done") \in 0 .. 1 /\ Count(asn = "done") \in 0 .. 1
      <3>1. (~conf.nflag) \in BOOLEAN /\ conf.Aflag \in BOOLEAN
        <4>1. conf.nflag \in BOOLEAN /\ conf.Aflag \in BOOLEAN
          BY <1>1, ConfNumbers
        <4> QED  BY <4>1
      <3> QED  BY <3>1, LookupCounts
    <2>4. i \in Nat
      BY <1>1, RowOfProbe
    <2>5. /\ TableOK(res)
          /\ \A j \in Probes : j # s => res[j] = results[j]
          /\ SentOK(results, seq) /\ s = i /\ s < seq => SentOK(res, seq)
      <3> HIDE DEF s
      <3>1. s \in Probes /\ ~results[s].dup
        BY <2>1 DEF s
      <3> QED  BY <1>1, <2>3, <2>4, <3>1, RecordedTable
    <2>6. wait \in [Rows -> Int]
      <3>1. Count(name = "done") + Count(asn = "done") \in Int /\ 1 \in Int
        BY <2>3
      <3> QED  BY <1>1, <3>1, LessType DEF Answered
    <2>7. ASSUME WellUsed PROVE SentOK(res, seq) /\ Ledger(res, wait)
      <3>1. s = i
        BY <1>1, <2>1, <2>7, OwnAnswer
      <3>2. SentOK(results, seq) /\ Ledger(results, waiting_ttls)
        BY <2>7 DEF Running
      <3>3. Ledger(Record(i, i, ok.ok, name, asn), Answered(i, name, asn))
        BY <1>1, <2>1, <2>7, <3>1, <3>2, AnswerLedger
      <3>4. Record(s, i, ok.ok, name, asn) = Record(i, i, ok.ok, name, asn)
            /\ Answered(s, name, asn) = Answered(i, name, asn)
        BY <3>1
      <3>5. Ledger(res, wait)
        BY <3>3, <3>4
      <3>6. SentOK(res, seq)
        <4> HIDE DEF res
        <4> QED  BY <1>1, <2>5, <3>1, <3>2
      <3> QED  BY <3>5, <3>6
    <2>8. ASSUME NEW j \in Probes, Closed(results[j]) PROVE res[j] = results[j]
      BY <2>1, <2>5, <2>8 DEF Closed
    <2>9. CatchUp(res, wait)
      BY <2>2
    <2> HIDE DEF res, wait
    <2>10. Good(res, wait, seq)
      BY <2>5, <2>6, <2>7, <2>8 DEF Good
    <2> QED  BY <2>9, <2>10 DEF Leaves
  <1> QED  BY <1>3, <1>4

\* So does the end of a name lookup, which does not catch up itself.
LEMMA NameDoneLeaves ==
    ASSUME Running, NEW i \in Probes, NameDone(i)
    PROVE  \E res, wait : Good(res, wait, seq) /\ Leaves(res, wait)
  <1> DEFINE res == [results EXCEPT ![i].inetname = "done"]
             wait == Less(waiting_ttls, results[i].row, 1)
  <1>1. /\ conf \in Conf /\ seq \in Nat /\ TableOK(results) /\ waiting_ttls \in [Rows -> Int]
        /\ WellUsed => SentOK(results, seq) /\ Ledger(results, waiting_ttls)
    BY DEF Running
  <1>2. /\ results[i].inetname = "asked" /\ results' = res /\ waiting_ttls' = wait
        /\ UNCHANGED <<phase, rowVars>>
    BY DEF NameDone, optionVars
  <1>3. /\ TableOK(res)
        /\ \A j \in Probes : j # i => res[j] = results[j]
        /\ SentOK(results, seq) => SentOK(res, seq)
        /\ SentOK(results, seq) /\ Ledger(results, waiting_ttls) => Ledger(res, wait)
    BY <1>1, <1>2, NameLedger
  <1>4. wait \in [Rows -> Int]
    BY <1>1, LessType
  <1> HIDE DEF res, wait
  <1>5. Good(res, wait, seq)
    BY <1>1, <1>2, <1>3, <1>4 DEF Good, Closed
  <1> QED  BY <1>2, <1>5 DEF Leaves

\* So does the end of an AS lookup.
LEMMA ASDoneLeaves ==
    ASSUME Running, NEW i \in Probes, ASDone(i)
    PROVE  \E res, wait : Good(res, wait, seq) /\ Leaves(res, wait)
  <1> DEFINE res == [results EXCEPT ![i].asn = "done"]
             wait == Less(waiting_ttls, results[i].row, 1)
  <1>1. /\ conf \in Conf /\ seq \in Nat /\ TableOK(results) /\ waiting_ttls \in [Rows -> Int]
        /\ WellUsed => SentOK(results, seq) /\ Ledger(results, waiting_ttls)
    BY DEF Running
  <1>2. /\ results[i].asn = "asked" /\ results' = res /\ waiting_ttls' = wait
        /\ UNCHANGED <<phase, rowVars>>
    BY DEF ASDone, optionVars
  <1>3. /\ TableOK(res)
        /\ \A j \in Probes : j # i => res[j] = results[j]
        /\ SentOK(results, seq) => SentOK(res, seq)
        /\ SentOK(results, seq) /\ Ledger(results, waiting_ttls) => Ledger(res, wait)
    BY <1>1, <1>2, ASLedger
  <1>4. wait \in [Rows -> Int]
    BY <1>1, LessType
  <1> HIDE DEF res, wait
  <1>5. Good(res, wait, seq)
    BY <1>1, <1>2, <1>3, <1>4 DEF Good, Closed
  <1> QED  BY <1>2, <1>5 DEF Leaves

\* Whatever step the running event loop takes, it leaves a good table.
LEMMA Callback ==
    ASSUME Running, expired \in 0 .. seq, Next
    PROVE  /\ conf' = conf /\ optind' = optind
           /\ seq' \in Nat /\ seq <= seq' /\ seq' <= Bound /\ expired' \in 0 .. seq'
           /\ \E res, wait : Good(res, wait, seq') /\ Leaves(res, wait)
  <1>1. phase = "running" /\ seq \in Nat /\ seq <= Bound /\ DOMAIN results = Probes
    BY DEF Running, TableOK
  <1>2. CASE SendTimer
    <2>1. conf' = conf /\ optind' = optind /\ expired' = expired
      BY <1>2 DEF SendTimer
    <2>2. /\ \E res, wait : Good(res, wait, seq') /\ Leaves(res, wait)
          /\ seq' \in Nat /\ seq <= seq' /\ seq' <= Bound
      BY <1>2, SendTimerLeaves
    <2> QED  BY <1>1, <2>1, <2>2
  <1>3. CASE Expire
    <2>1. Leaves(results, waiting_ttls) /\ conf' = conf /\ optind' = optind /\ seq' = seq
          /\ expired < seq /\ expired' = expired + 1
      BY <1>3 DEF Expire, Leaves, optionVars, tableVars
    <2>2. \E res, wait : Good(res, wait, seq') /\ Leaves(res, wait)
      BY <2>1, GoodNow
    <2>3. seq <= seq' /\ seq' <= Bound /\ expired' \in 0 .. seq'
      BY <1>1, <2>1
    <2> QED  BY <1>1, <2>1, <2>2, <2>3
  <1>4. ASSUME NEW i \in Probes,
               (\E a \in Answers : SockRead(i, a)) \/ NameDone(i) \/ ASDone(i)
        PROVE  /\ conf' = conf /\ optind' = optind /\ seq' = seq /\ expired' = expired
               /\ \E res, wait : Good(res, wait, seq) /\ Leaves(res, wait)
    <2>1. conf' = conf /\ optind' = optind /\ seq' = seq /\ expired' = expired
      BY <1>4 DEF SockRead, NameDone, ASDone, optionVars
    <2>2. \E res, wait : Good(res, wait, seq) /\ Leaves(res, wait)
      BY <1>4, SockReadLeaves, NameDoneLeaves, ASDoneLeaves
    <2> QED  BY <2>1, <2>2
  <1>5. \/ SendTimer \/ Expire
        \/ \E i \in Probes : (\E a \in Answers : SockRead(i, a)) \/ NameDone(i) \/ ASDone(i)
    BY <1>1 DEF Next, GetOption, Option, LookUpAS, Numeric, UseICMP, UseProtocol, FirstTTL, MaxTTL,
                Queries, BasePort, NextOption, Main, Ended
  <1>6. CASE \E i \in Probes : (\E a \in Answers : SockRead(i, a)) \/ NameDone(i) \/ ASDone(i)
    <2>1. /\ conf' = conf /\ optind' = optind /\ seq' = seq /\ expired' = expired
          /\ \E res, wait : Good(res, wait, seq) /\ Leaves(res, wait)
      BY <1>4, <1>6
    <2>2. seq <= seq /\ expired \in 0 .. seq'
      BY <1>1, <2>1
    <2> QED  BY <1>1, <2>1, <2>2
  <1> QED  BY <1>2, <1>3, <1>5, <1>6

\* The rows before t wait for nothing.
Settled(res, t) == \A r \in Rows : r < t => \A i \in Row(r) : Closed(res[i])

\* A row whose counter is not above zero waits for nothing.
LEMMA NothingLeft ==
    ASSUME conf \in Conf, WellUsed, NEW res, NEW wait, Ledger(res, wait),
           NEW r \in Rows, wait[r] <= 0
    PROVE  \A i \in Row(r) : Closed(res[i])
  <1> DEFINE e == conf.expected_responses
             a == Cardinality(OpenIn(res, r))
             x == Cardinality(NamesIn(res, r))
             y == Cardinality(ASNsIn(res, r))
  <1>1. /\ IsFiniteSet(OpenIn(res, r)) /\ IsFiniteSet(NamesIn(res, r)) /\ IsFiniteSet(ASNsIn(res, r))
        /\ a \in Nat /\ x \in Nat /\ y \in Nat
    BY PartsOfRow DEF OpenIn, NamesIn, ASNsIn
  <1>2. e \in 1 .. 3 /\ e * a + x + y <= 0
    BY Expected DEF Ledger
  <1>3. a = 0 /\ x = 0 /\ y = 0
    <2> HIDE DEF e, a, x, y
    <2>1. a <= e * a
      BY <1>1, <1>2, SMT
    <2>2. e * a \in Int
      BY <1>1, <1>2, SMT
    <2> QED  BY <1>1, <1>2, <2>1, <2>2
  <1>4. OpenIn(res, r) = {} /\ NamesIn(res, r) = {} /\ ASNsIn(res, r) = {}
    BY <1>1, <1>3, FS_EmptySet
  <1> QED  BY <1>4 DEF OpenIn, NamesIn, ASNsIn, Closed

\* What a callback leaves is in order again; of a row that waits for nothing,
\* nothing has changed.
LEMMA LeavesGood ==
    ASSUME Running, NEW n \in Nat, NEW res, NEW wait, Good(res, wait, n), Leaves(res, wait)
    PROVE  /\ TableOK(results') /\ waiting_ttls' \in [Rows -> Int]
           /\ timeout_row' \in timeout_row .. conf.max_ttl
           /\ WellUsed =>
                 /\ SentOK(results', n) /\ Ledger(results', waiting_ttls')
                 /\ Settled(results, timeout_row) =>
                       /\ Settled(results', timeout_row')
                       /\ \A r \in Rows : r < timeout_row =>
                             \A i \in Row(r) : results'[i] = results[i]
  <1>1. /\ conf \in Conf /\ timeout_row \in 0 .. conf.max_ttl /\ conf.max_ttl \in Nat
        /\ TableOK(res) /\ wait \in [Rows -> Int]
        /\ WellUsed => SentOK(res, n) /\ Ledger(res, wait)
                       /\ \A i \in Probes : Closed(results[i]) => res[i] = results[i]
    BY ConfNumbers DEF Running, Good
  <1>2. ASSUME WellUsed, Settled(results, timeout_row), NEW r \in Rows, r < timeout_row,
               NEW i \in Row(r)
        PROVE  res[i] = results[i] /\ Closed(results[i])
    <2>1. i \in Probes
      BY <1>1, RowInTable
    <2> QED  BY <1>1, <1>2, <2>1 DEF Settled
  <1>3. CASE results' = res /\ waiting_ttls' = wait /\ UNCHANGED <<phase, rowVars>>
    <2>1. timeout_row' = timeout_row
      BY <1>3 DEF rowVars
    <2>2. timeout_row' \in timeout_row .. conf.max_ttl
      BY <1>1, <2>1
    <2>3. ASSUME WellUsed, Settled(results, timeout_row)
          PROVE  /\ Settled(results', timeout_row')
                 /\ \A r \in Rows : r < timeout_row => \A i \in Row(r) : results'[i] = results[i]
      BY <1>2, <1>3, <2>1, <2>3 DEF Settled
    <2> QED  BY <1>1, <1>3, <2>2, <2>3
  <1>4. CASE CatchUp(res, wait)
    <2>1. PICK top \in timeout_row .. conf.max_ttl : CheckTimeouts(res, wait, top)
      BY <1>4 DEF CatchUp
    <2>2. timeout_row' = top
      BY <2>1 DEF CheckTimeouts
    <2>3. TableOK(results') /\ (SentOK(res, n) => SentOK(results', n))
      BY <1>1, <2>1, CheckedTable
    <2>4. waiting_ttls' \in [Rows -> Int]
      BY <1>1, <2>1, CheckedWaits
    <2>5. ASSUME WellUsed PROVE Ledger(results', waiting_ttls')
      BY <1>1, <2>1, <2>5, TimeoutsLedger
    <2>6. ASSUME WellUsed, Settled(results, timeout_row), NEW r \in Rows, r < timeout_row,
                 NEW i \in Row(r)
          PROVE  results'[i] = results[i]
      <3>1. r \in Nat /\ ~(timeout_row <= r)
        BY <1>1, <2>6, RowInTable
      <3>2. results'[i] = res[i]
        BY <1>1, <2>1, <3>1, CheckedResult
      <3> QED  BY <1>2, <2>6, <3>2
    <2>7. ASSUME WellUsed, Settled(results, timeout_row), NEW r \in Rows, r < top,
                 NEW i \in Row(r)
          PROVE  Closed(results'[i])
      <3>1. r \in Nat
        BY <1>1, RowInTable
      <3>2. CASE r < timeout_row
        BY <1>2, <2>6, <2>7, <3>2
      <3>3. CASE ~(r < timeout_row)
        <4>1. r \in timeout_row .. top - 1 /\ r \in (timeout_row .. top) \cap Rows
          BY <1>1, <2>7, <3>1, <3>3
        <4>2. waiting_ttls'[r] = StillWaiting(res, wait, r) /\ StillWaiting(res, wait, r) <= 0
          BY <2>1, <4>1 DEF CheckTimeouts
        <4>3. waiting_ttls'[r] <= 0
          BY <4>2
        <4> QED  BY <1>1, <2>5, <2>7, <4>3, NothingLeft
      <3> QED  BY <3>2, <3>3
    <2>8. ASSUME WellUsed, Settled(results, timeout_row) PROVE Settled(results', timeout_row')
      BY <2>2, <2>7, <2>8 DEF Settled
    <2> QED  BY <1>1, <2>2, <2>3, <2>4, <2>5, <2>6, <2>8
  <1> QED  BY <1>3, <1>4 DEF Leaves
-----------------------------------------------------------------------------
(***************************************************************************)
(* Types.                                                                  *)
(***************************************************************************)
Ends == {"running", "exited", "overrun"}

LEMMA IntervalIsOutput ==
    ASSUME conf \in Conf, NEW a \in Nat, NEW b \in Int, a - 1 <= b, b <= conf.max_ttl - 1
    PROVE  Interval(a, b) \in Seq(Rows)
  <1> DEFINE n == (b - a) + 1
  <1>1. n \in Nat /\ n = b - a + 1
    OBVIOUS
  <1>2. \A k \in 1 .. n : a + k - 1 \in Rows
    BY <1>1, ConfNumbers DEF Rows
  <1>3. Interval(a, b) = [k \in 1 .. n |-> a + k - 1]
    BY <1>1 DEF Interval
  <1> HIDE DEF n
  <1> QED  BY <1>1, <1>2, <1>3

LEMMA PrintRowsTypes ==
    ASSUME conf \in Conf, phase = "running", printed \in Seq(Rows),
           NEW first \in Nat, NEW i \in Nat, first <= i, i <= conf.max_ttl, PrintRows(first, i)
    PROVE  /\ phase' \in Ends /\ printed' \in Seq(Rows)
           /\ print_row' \in Nat /\ print_row' <= i + 1 /\ (i = conf.max_ttl => print_row' <= i)
  <1>1. PICK last \in first .. i :
          \/ /\ last \notin Rows
             /\ phase' = "overrun"
             /\ printed' = printed \o Interval(first, last - 1)
             /\ print_row' = last
          \/ /\ last \in Rows
             /\ phase' = "exited"
             /\ printed' = printed \o Interval(first, last)
             /\ print_row' = last
          \/ /\ last \in Rows /\ last = i
             /\ UNCHANGED phase
             /\ printed' = printed \o Interval(first, last)
             /\ print_row' = last + 1
    BY DEF PrintRows
  <1>2. /\ last \in Nat /\ first <= last /\ last <= i
        /\ conf.max_ttl \in Nat
        /\ last \in Rows <=> last <= conf.max_ttl - 1
    BY ConfNumbers DEF Rows
  <1>3. Interval(first, last - 1) \in Seq(Rows)
        /\ (last \in Rows => Interval(first, last) \in Seq(Rows))
    BY <1>2, IntervalIsOutput
  <1>4. printed' \in Seq(Rows)
    <2>1. \E t \in Seq(Rows) : printed' = printed \o t
      BY <1>1, <1>3, Zenon
    <2> QED  BY <2>1
  <1>5. phase' \in Ends
    BY <1>1 DEF Ends
  <1>6. print_row' \in Nat /\ print_row' <= i + 1 /\ (i = conf.max_ttl => print_row' <= i)
    <2>1. print_row' = last \/ (last <= conf.max_ttl - 1 /\ print_row' = last + 1)
      BY <1>1, <1>2, Zenon
    <2> QED  BY <1>2, <2>1
  <1> QED  BY <1>4, <1>5, <1>6

LEMMA PrintHopsTypes ==
    ASSUME conf \in Conf, phase = "running", printed \in Seq(Rows), timeout_row \in 0 .. conf.max_ttl,
           print_row \in 0 .. timeout_row, NEW top \in timeout_row .. conf.max_ttl, PrintHops(top)
    PROVE  phase' \in Ends /\ printed' \in Seq(Rows) /\ print_row' \in 0 .. top
  <1>1. /\ conf.max_ttl \in Nat /\ 1 <= conf.max_ttl /\ timeout_row \in Nat /\ print_row \in Nat
        /\ top \in Nat /\ print_row <= top /\ top <= conf.max_ttl
    BY ConfNumbers
  <1>2. PICK i \in print_row .. top :
           \/ i = conf.max_ttl /\ PrintRows(i - 1, i)
           \/ i < top /\ ~AllTimeout(i) /\ PrintRows(print_row, i)
           \/ i = top /\ i # conf.max_ttl /\ UNCHANGED <<phase, print_row, printed>>
    BY DEF PrintHops
  <1>3. CASE i = conf.max_ttl /\ PrintRows(i - 1, i)
    <2>1. i - 1 \in Nat /\ i \in Nat /\ i - 1 <= i /\ i <= conf.max_ttl /\ i = top
      BY <1>1, <1>3
    <2> DEFINE f == i - 1
    <2>2. f \in Nat /\ f <= i /\ PrintRows(f, i)
      BY <1>3, <2>1
    <2> HIDE DEF f
    <2>3. /\ phase' \in Ends /\ printed' \in Seq(Rows)
          /\ print_row' \in Nat /\ (i = conf.max_ttl => print_row' <= i)
      BY <2>1, <2>2, PrintRowsTypes
    <2> QED  BY <1>1, <1>3, <2>1, <2>3
  <1>4. CASE i < top /\ PrintRows(print_row, i)
    <2>1. i \in Nat /\ print_row <= i /\ i <= conf.max_ttl
      BY <1>1, <1>4
    <2>2. /\ phase' \in Ends /\ printed' \in Seq(Rows)
          /\ print_row' \in Nat /\ print_row' <= i + 1
      BY <1>1, <1>4, <2>1, PrintRowsTypes
    <2> QED  BY <1>1, <1>4, <2>1, <2>2
  <1>5. CASE UNCHANGED <<phase, print_row, printed>>
    BY <1>1, <1>5 DEF Ends
  <1> QED  BY <1>2, <1>3, <1>4, <1>5

\* catchup_result_rows leaves values of their types behind.
LEMMA LeavesTypes ==
    ASSUME conf \in Conf, phase = "running", printed \in Seq(Rows), timeout_row \in 0 .. conf.max_ttl,
           print_row \in 0 .. timeout_row, NEW res, NEW wait, Leaves(res, wait)
    PROVE  phase' \in Ends /\ printed' \in Seq(Rows) /\ print_row' \in 0 .. timeout_row'
  <1>1. CASE CatchUp(res, wait)
    <2>1. PICK top \in timeout_row .. conf.max_ttl : CheckTimeouts(res, wait, top) /\ PrintHops(top)
      BY <1>1 DEF CatchUp
    <2>2. timeout_row' = top
      BY <2>1 DEF CheckTimeouts
    <2> QED  BY <2>1, <2>2, PrintHopsTypes
  <1>2. CASE UNCHANGED <<phase, rowVars>>
    BY <1>2 DEF rowVars, Ends
  <1> QED  BY <1>1, <1>2 DEF Leaves

TypeInv ==
    /\ OptionsInv
    /\ phase \in Phases
    /\ seq \in Nat /\ expired \in 0 .. seq
    /\ phase \in {"options", "failed"} =>
          /\ results = << >> /\ waiting_ttls = << >> /\ seq = 0
          /\ timeout_row = 0 /\ print_row = 0 /\ printed = << >>
    /\ phase \in Ends => seq <= Bound /\ TableOK(results) /\ waiting_ttls \in [Rows -> Int]
    /\ timeout_row \in 0 .. conf.max_ttl
    /\ print_row \in 0 .. timeout_row
    /\ printed \in Seq(Rows)

\* The table is about one configuration.
LEMMA SameTable ==
    ASSUME conf' = conf
    PROVE  /\ Probes' = Probes /\ Rows' = Rows /\ Bound' = Bound /\ WellUsed' = WellUsed
           /\ TableOK(results)' = TableOK(results')
  <1>1. /\ Probes' = Probes /\ Rows' = Rows /\ Bound' = Bound
    BY DEF Probes, Rows, Bound
  <1>2. WellUsed' = WellUsed
    BY DEF WellUsed, FlagsOnce
  <1>3. TableOK(results)' = TableOK(results')
    BY <1>1 DEF TableOK
  <1> QED  BY <1>1, <1>2, <1>3

LEMMA OptionPhase ==
    ASSUME Option
    PROVE  phase = "options" /\ phase' \in {"options", "failed"}
  <1>1. \A ok, new : Checked(ok, new) => phase' = phase \/ phase' = "failed"
    BY DEF Checked
  <1>2. NextOption => phase = "options"
    BY DEF NextOption
  <1>3. LookUpAS \/ Numeric => NextOption /\ phase' = phase
    BY Zenon DEF LookUpAS, Numeric
  <1>4. UseICMP => NextOption /\ (phase' = phase \/ phase' = "failed")
    BY <1>1, Zenon DEF UseICMP
  <1>5. ASSUME NEW p \in Protos, UseProtocol(p)
        PROVE  NextOption /\ (phase' = phase \/ phase' = "failed")
    BY <1>1, <1>5, Zenon DEF UseProtocol
  <1>6. ASSUME NEW k, FirstTTL(k) \/ MaxTTL(k) \/ Queries(k) \/ BasePort(k)
        PROVE  NextOption /\ (phase' = phase \/ phase' = "failed")
    BY <1>1, <1>6, Zenon DEF FirstTTL, MaxTTL, Queries, BasePort
  <1>7. NextOption /\ (phase' = phase \/ phase' = "failed")
    BY <1>3, <1>4, <1>5, <1>6, Zenon DEF Option
  <1> QED  BY <1>2, <1>7

\* calloc: the first table is in order, and every row waits for all of its probes.
LEMMA FirstTable ==
    ASSUME conf \in Conf, NEW res, NEW wait, res = [i \in Probes |-> ZeroResult],
           wait = [r \in Rows |-> conf.nprobes * conf.expected_responses]
    PROVE  TableOK(res) /\ SentOK(res, 0) /\ wait \in [Rows -> Int] /\ Ledger(res, wait)
  <1>1. ZeroResult \in Result /\ Untouched(ZeroResult) /\ ~ZeroResult.dup /\ ZeroResult.ttl = 0
    <2>1. 0 \in 0 .. MAXTTL /\ 0 \in 0 .. 1
      BY TTLNumbers
    <2> QED  BY <2>1 DEF ZeroResult, Result, LookupStates, Untouched
  <1>2. /\ res \in [Probes -> Result]
        /\ \A i \in Probes : res[i] = ZeroResult
    BY <1>1
  <1>3. TableOK(res)
    BY <1>1, <1>2 DEF TableOK
  <1>4. SentOK(res, 0)
    <2> SUFFICES ASSUME NEW i \in Probes
                 PROVE  /\ ~(i < 0) /\ ~res[i].dup /\ res[i].ttl = 0
                        /\ res[i].answer = NoProbe
      BY DEF SentOK
    <2>1. i \in Nat
      BY RowOfProbe
    <2> QED  BY <1>1, <1>2, <2>1 DEF Untouched
  <1>5. conf.nprobes * conf.expected_responses \in Int
        /\ conf.nprobes * conf.expected_responses = conf.expected_responses * conf.nprobes
    BY ConfNumbers, SMT
  <1>6. wait \in [Rows -> Int]
    BY <1>5
  <1>7. ASSUME NEW r \in Rows
        PROVE  wait[r] = conf.expected_responses * Cardinality(OpenIn(res, r))
                         + Cardinality(NamesIn(res, r)) + Cardinality(ASNsIn(res, r))
    <2>1. Row(r) \subseteq Probes /\ Cardinality(Row(r)) = conf.nprobes
      BY RowInTable
    <2>2. OpenIn(res, r) = Row(r) /\ NamesIn(res, r) = {} /\ ASNsIn(res, r) = {}
      BY <1>1, <1>2, <2>1 DEF OpenIn, NamesIn, ASNsIn, Untouched
    <2>3. Cardinality({}) = 0
      BY FS_EmptySet
    <2> DEFINE e == conf.expected_responses * conf.nprobes
    <2>4. e \in Int /\ wait[r] = e
      BY <1>5
    <2> HIDE DEF e
    <2>5. wait[r] = e + 0 + 0
      BY <2>4
    <2> QED  BY <2>1, <2>2, <2>3, <2>5 DEF e
  <1> QED  BY <1>3, <1>4, <1>6, <1>7 DEF Ledger

LEMMA BoundIsNat ==
    ASSUME OptionsInv
    PROVE  Bound \in Nat
  <1> DEFINE d == (conf.max_ttl - conf.first_ttl) + 1
             n == conf.nprobes
  <1>1. conf \in Conf /\ conf.first_ttl <= conf.max_ttl
    BY DEF OptionsInv, OptionsTypeOK, TTLsInOrder
  <1>2. d \in Nat /\ n \in Nat
    BY <1>1, ConfNumbers
  <1>3. Bound = d * n
    BY DEF Bound
  <1> HIDE DEF d, n
  <1> QED  BY <1>2, <1>3, NextMultiple

LEMMA TypeInit ==
    ASSUME Init
    PROVE  TypeInv
  <1>1. OptionsInv /\ phase = "options" /\ conf.max_ttl \in Nat
    BY FirstOptions, ConfNumbers DEF Init, OptionsInit, OptionsInv, OptionsTypeOK
  <1> QED  BY <1>1 DEF Init, TypeInv, Phases, Ends

LEMMA TypeGetOption ==
    ASSUME TypeInv, GetOption
    PROVE  TypeInv'
  <1>1. OptionsInv' /\ phase = "options" /\ phase' \in {"options", "failed"}
        /\ UNCHANGED <<seq, expired, tableVars, rowVars>>
    BY OptionPhase, OptionsStep DEF TypeInv, GetOption, Next
  <1>2. (conf')["max_ttl"] \in Nat
    <2>1. conf' \in Conf
      BY <1>1 DEF OptionsInv, OptionsTypeOK
    <2>2. \A c \in Conf : c.max_ttl \in Nat
      BY TTLNumbers DEF Conf
    <2> QED  BY <2>1, <2>2
  <1>3. /\ seq' = 0 /\ seq = 0 /\ expired' = expired /\ results' = << >> /\ waiting_ttls' = << >>
        /\ timeout_row' = 0 /\ print_row' = 0 /\ printed' = << >>
    BY <1>1 DEF TypeInv, tableVars, rowVars
  <1>4. expired' \in 0 .. seq'
    BY <1>3 DEF TypeInv
  <1>5. /\ seq' \in Nat /\ timeout_row' \in 0 .. (conf')["max_ttl"] /\ print_row' \in 0 .. timeout_row'
        /\ printed' \in Seq(Rows')
    BY <1>2, <1>3
  <1> QED  BY <1>1, <1>3, <1>4, <1>5 DEF TypeInv, Phases, Ends

LEMMA TypeMain ==
    ASSUME TypeInv, Main
    PROVE  TypeInv'
  <1>1. /\ OptionsInv /\ OptionsInv' /\ phase = "options" /\ phase' = "running" /\ conf' = conf
        /\ UNCHANGED <<seq, expired, rowVars>>
    BY OptionsStep DEF TypeInv, Main, Next
  <1>2. conf \in Conf
    BY <1>1 DEF OptionsInv, OptionsTypeOK
  <1>3. TableOK(results)' /\ waiting_ttls' \in [Rows' -> Int]
    BY <1>1, <1>2, FirstTable, SameTable DEF Main
  <1>4. seq' \in Nat /\ seq' <= Bound'
    <2>1. seq' = 0 /\ Bound' = Bound
      BY <1>1, SameTable DEF TypeInv
    <2> QED  BY <1>1, <2>1, BoundIsNat
  <1>5. /\ expired' \in 0 .. seq' /\ timeout_row' \in 0 .. (conf')["max_ttl"]
        /\ print_row' \in 0 .. timeout_row' /\ printed' \in Seq(Rows')
    BY <1>1, SameTable DEF TypeInv, rowVars
  <1> QED  BY <1>1, <1>3, <1>4, <1>5 DEF TypeInv, Phases, Ends

\* Every callback preserves the types.
LEMMA TypeCallback ==
    ASSUME TypeInv, Running, Next
    PROVE  TypeInv'
  <1>1. /\ conf' = conf /\ seq' \in Nat /\ seq' <= Bound /\ expired' \in 0 .. seq'
        /\ \E res, wait : Good(res, wait, seq') /\ Leaves(res, wait)
    BY Callback DEF TypeInv
  <1>2. OptionsInv' /\ phase = "running" /\ conf \in Conf
    BY OptionsStep DEF TypeInv, Running
  <1>3. PICK res, wait : Good(res, wait, seq') /\ Leaves(res, wait)
    BY <1>1
  <1>4. /\ TableOK(results') /\ waiting_ttls' \in [Rows -> Int]
        /\ timeout_row' \in timeout_row .. conf.max_ttl
    BY <1>1, <1>3, LeavesGood
  <1>5. phase' \in Ends /\ printed' \in Seq(Rows) /\ print_row' \in 0 .. timeout_row'
    BY <1>2, <1>3, LeavesTypes DEF TypeInv
  <1>6. TableOK(results)' /\ waiting_ttls' \in [Rows' -> Int] /\ printed' \in Seq(Rows')
        /\ seq' <= Bound' /\ timeout_row' \in 0 .. (conf')["max_ttl"]
    BY <1>1, <1>2, <1>4, <1>5, SameTable, ConfNumbers DEF TypeInv
  <1> QED  BY <1>1, <1>2, <1>5, <1>6 DEF TypeInv, Phases, Ends

\* As long as the process runs, and a rule of use gives the ledger.
LEMMA RunningNow ==
    ASSUME TypeInv, phase = "running",
           WellUsed => SentOK(results, seq) /\ Ledger(results, waiting_ttls)
    PROVE  Running
  BY DEF TypeInv, Running, Ends, OptionsInv, OptionsTypeOK

\* Where a step comes from.
LEMMA StepKinds ==
    ASSUME [Next]_vars, phase \in Phases
    PROVE  GetOption \/ Main \/ (phase = "running" /\ Next) \/ UNCHANGED vars
  BY DEF Next, Phases, GetOption, Main, SendTimer, Expire, SockRead, NameDone, ASDone, Ended
-----------------------------------------------------------------------------
(***************************************************************************)
(* The ledger.                                                             *)
(***************************************************************************)
LedgerInv ==
    /\ TypeInv
    /\ WellUsed /\ phase \in Ends =>
          /\ SentOK(results, seq)
          /\ Ledger(results, waiting_ttls)
          /\ Settled(results, timeout_row)

\* The configuration fixes the rows, so the ledger after a step is that of the
\* new table.
LEMMA SameLedger ==
    ASSUME conf' = conf
    PROVE  /\ SentOK(results, seq)' = SentOK(results', seq')
           /\ Ledger(results, waiting_ttls)' = Ledger(results', waiting_ttls')
           /\ Settled(results, timeout_row)' = Settled(results', timeout_row')
  <1>1. Probes' = Probes /\ Rows' = Rows
    BY SameTable
  <1>2. SentOK(results, seq)' = SentOK(results', seq')
    BY <1>1 DEF SentOK
  <1>3. Ledger(results, waiting_ttls)' = Ledger(results', waiting_ttls')
    BY <1>1 DEF Ledger, OpenIn, NamesIn, ASNsIn, Row
  <1>4. Settled(results, timeout_row)' = Settled(results', timeout_row')
    BY <1>1 DEF Settled, Closed, Row
  <1> QED  BY <1>2, <1>3, <1>4

\* What every callback does to the ledger, if the rules of use are kept.
LEMMA LedgerCallback ==
    ASSUME LedgerInv, Running, Next, WellUsed
    PROVE  \E res, wait :
              /\ Good(res, wait, seq') /\ Leaves(res, wait)
              /\ SentOK(results', seq') /\ Ledger(results', waiting_ttls')
              /\ Settled(results', timeout_row')
              /\ \A r \in Rows : r < timeout_row => \A i \in Row(r) : results'[i] = results[i]
  <1>1. seq' \in Nat /\ \E res, wait : Good(res, wait, seq') /\ Leaves(res, wait)
    BY Callback DEF LedgerInv, TypeInv
  <1>2. PICK res, wait : Good(res, wait, seq') /\ Leaves(res, wait)
    BY <1>1
  <1>3. Settled(results, timeout_row)
    BY DEF LedgerInv, Running, Ends
  <1> QED  BY <1>1, <1>2, <1>3, LeavesGood

LEMMA LedgerInit ==
    ASSUME Init
    PROVE  LedgerInv
  BY TypeInit DEF LedgerInv, Init, OptionsInit, Ends

LEMMA LedgerRunning ==
    ASSUME LedgerInv, phase = "running"
    PROVE  Running
  BY RunningNow DEF LedgerInv, Ends

\* Every callback preserves the ledger.
LEMMA LedgerStep ==
    ASSUME LedgerInv, [Next]_vars
    PROVE  LedgerInv'
  <1>1. TypeInv
    BY DEF LedgerInv
  <1>2. CASE GetOption
    <2>1. TypeInv' /\ phase' \in {"options", "failed"}
      BY <1>1, <1>2, TypeGetOption, OptionPhase DEF GetOption
    <2> QED  BY <2>1 DEF LedgerInv, Ends
  <1>3. CASE Main
    <2>1. TypeInv' /\ conf' = conf
      BY <1>1, <1>3, TypeMain DEF Main
    <2>2. conf \in Conf /\ seq' = 0 /\ timeout_row' = 0
      BY <1>1, <1>3 DEF Main, TypeInv, OptionsInv, OptionsTypeOK, rowVars
    <2>3. SentOK(results', seq') /\ Ledger(results', waiting_ttls')
      BY <1>3, <2>2, FirstTable DEF Main
    <2>4. Settled(results', timeout_row')
      <3>1. \A r \in Rows : ~(r < timeout_row')
        BY <2>2, RowInTable
      <3> QED  BY <3>1 DEF Settled
    <2> QED  BY <2>1, <2>3, <2>4, SameLedger DEF LedgerInv
  <1>4. CASE phase = "running" /\ Next
    <2>1. Running
      BY <1>4, LedgerRunning
    <2>2. TypeInv' /\ conf' = conf
      BY <1>1, <1>4, <2>1, TypeCallback, Callback DEF TypeInv
    <2>3. ASSUME WellUsed
          PROVE  /\ SentOK(results', seq') /\ Ledger(results', waiting_ttls')
                 /\ Settled(results', timeout_row')
      BY <1>4, <2>1, <2>3, LedgerCallback
    <2> QED  BY <2>2, <2>3, SameLedger, SameTable DEF LedgerInv
  <1>5. CASE UNCHANGED vars
    <2>1. /\ conf' = conf /\ phase' = phase /\ optind' = optind /\ seq' = seq /\ expired' = expired
          /\ results' = results /\ waiting_ttls' = waiting_ttls /\ timeout_row' = timeout_row
          /\ print_row' = print_row /\ printed' = printed
      BY <1>5 DEF vars, optionVars, tableVars, rowVars
    <2>2. OptionsInv'
      BY <1>1, OptionsStep DEF TypeInv
    <2>3. TypeInv'
      BY <1>1, <2>1, <2>2, SameTable DEF TypeInv
    <2> QED  BY <2>1, <2>3, SameLedger, SameTable DEF LedgerInv
  <1> QED  BY <1>1, <1>2, <1>3, <1>4, <1>5, StepKinds DEF TypeInv

\* Every variable keeps its type, however the program is used: the tables keep
\* their sizes, and no probe is sent that they have no room for.
THEOREM TypeCorrect == Spec => []TypeOK
  <1>1. LedgerInv => TypeOK
    <2> SUFFICES ASSUME LedgerInv PROVE TypeOK
      OBVIOUS
    <2>1. TypeInv /\ OptionsInv
      BY DEF LedgerInv, TypeInv
    <2>2. Bound = (conf.max_ttl - conf.first_ttl + 1) * conf.nprobes /\ Bound \in Nat
      BY <2>1, BoundIsNat DEF Bound
    <2>3. phase \in Ends => seq \in 0 .. Bound
      BY <2>1, <2>2 DEF TypeInv
    <2> QED  BY <2>1, <2>2, <2>3 DEF TypeInv, TypeOK, TableOK, OptionsInv, Ends
  <1> QED  BY <1>1, LedgerInit, LedgerStep, PTL DEF Spec

\* The counter of a row is what the row really waits for: in whatever order answers,
\* timeouts and the ends of lookups come, none is counted twice and none is lost.
THEOREM LedgerIsExact == Spec => []WaitingExact
  <1>1. LedgerInv => WaitingExact
    <2> SUFFICES ASSUME LedgerInv, WellUsed, DOMAIN results # {}, NEW r \in Rows
                 PROVE  waiting_ttls[r] = conf.expected_responses * Cardinality(Open(r))
                           + Cardinality(NoName(r)) + Cardinality(NoASN(r))
      BY DEF WaitingExact
    <2>1. phase \in Ends
      <3>1. DOMAIN << >> = {}
        OBVIOUS
      <3> QED  BY <3>1 DEF LedgerInv, TypeInv, Phases, Ends
    <2> QED  BY <2>1 DEF LedgerInv, Ledger, Open, NoName, NoASN, OpenIn, NamesIn, ASNsIn
  <1> QED  BY <1>1, LedgerInit, LedgerStep, PTL DEF Spec

\* An answer is credited to the probe it quotes, for every base port and however
\* often it comes, and a probe that has timed out has no answer.
THEOREM AnswersAreCredited == Spec => []AnswersCredited
  <1>1. LedgerInv => AnswersCredited
    <2> SUFFICES ASSUME LedgerInv, WellUsed, NEW i \in DOMAIN results
                 PROVE  /\ results[i].answer \in {i, NoProbe}
                        /\ results[i].timeout => results[i].answer = NoProbe
      BY DEF AnswersCredited
    <2>1. phase \in Ends
      <3>1. DOMAIN << >> = {}
        OBVIOUS
      <3> QED  BY <3>1 DEF LedgerInv, TypeInv, Phases, Ends
    <2>2. i \in Probes
      BY <2>1 DEF LedgerInv, TypeInv, TableOK
    <2> QED  BY <2>1, <2>2 DEF LedgerInv, SentOK
  <1> QED  BY <1>1, LedgerInit, LedgerStep, PTL DEF Spec
-----------------------------------------------------------------------------
(***************************************************************************)
(* The output. While the process runs it has printed the rows from the     *)
(* first on, without a gap; only the last row of all may follow a gap, and *)
(* then the process ends.                                                  *)
(***************************************************************************)
Gapless(out) == \A k \in 1 .. Len(out) : out[k] = k - 1

InOrder(out) == \A j, k \in DOMAIN out : j < k => out[j] < out[k]

Silent(res, out) ==
    \A k \in DOMAIN out :
       \A r \in (IF k = 1 THEN 0 ELSE out[k - 1] + 1) .. out[k] - 1 :
          \A i \in Row(r) : res[i].timeout

OutputInv ==
    WellUsed =>
       /\ phase # "overrun"
       /\ phase # "exited" => /\ print_row < conf.max_ttl /\ Len(printed) = print_row
                              /\ Gapless(printed)
       /\ phase = "exited" => InOrder(printed) /\ Silent(results, printed)

\* When the last row waits for nothing, its TTL is the maximum: all of it was sent,
\* so the first TTL is 1.
LEMMA LastRowEnds ==
    ASSUME OptionsInv, NEW n \in Nat, n <= Bound, NEW res, SentOK(res, n),
           Settled(res, conf.max_ttl)
    PROVE  res[conf.nprobes * (conf.max_ttl - 1)].ttl = conf.max_ttl
  <1> DEFINE q == conf.nprobes
             m == conf.max_ttl
             f == conf.first_ttl
             r == m - 1
             i == q * r
             d == (m - f) + 1
  <1>0. conf \in Conf /\ f <= m
    BY DEF OptionsInv, OptionsTypeOK, TTLsInOrder
  <1>1. q \in Nat /\ 1 <= q /\ m \in Nat /\ 1 <= m /\ f \in Nat /\ 1 <= f
    BY <1>0, ConfNumbers
  <1>2. r \in Nat /\ r \in Rows /\ r < m /\ d \in Nat
    BY <1>0, <1>1 DEF Rows
  <1>3. i \in Row(r) /\ i \in Probes
    BY <1>0, <1>2, RowInTable
  <1>4. res[i].dup
    BY <1>2, <1>3 DEF Settled, Closed
  <1>5. i \in Nat /\ ~(n <= i)
    BY <1>0, <1>3, <1>4, RowOfProbe DEF SentOK
  <1>6. i \div q = r
    <2>1. i \div q \in Nat /\ i \in Row(i \div q)
      BY <1>0, <1>5, RowOf
    <2> QED  BY <1>0, <1>2, <1>3, <2>1, OneRow
  <1>7. res[i].ttl = f + r
    BY <1>3, <1>5, <1>6 DEF SentOK
  <1>8. Bound = d * q
    BY DEF Bound
  <1>9. i = q * r
    OBVIOUS
  <1> HIDE DEF q, i
  <1>10. d * q = q * d
    BY <1>1, <1>2, NextMultiple
  <1>11. ASSUME d <= r PROVE FALSE
    <2>1. q * d <= q * r /\ q * d \in Nat
      BY <1>1, <1>2, <1>11, Monotonic
    <2> DEFINE z == q * d
    <2>2. n <= z /\ z <= i /\ z \in Nat
      BY <1>8, <1>9, <1>10, <2>1
    <2> HIDE DEF z
    <2> QED  BY <1>5, <2>2
  <1>12. f = 1
    <2>1. ~(d <= r)
      BY <1>11
    <2> HIDE DEF m, f
    <2> QED  BY <1>1, <2>1
  <1>13. f + r = m
    <2> HIDE DEF m, f
    <2> QED  BY <1>1, <1>12
  <1> QED  BY <1>7, <1>13 DEF q, i

\* new is out and the rows from a to b.
IsAppended(new, out, a, b) ==
    /\ new \in Seq(Rows) /\ Len(out) \in Nat
    /\ Len(new) = Len(out) + ((b - a) + 1)
    /\ \A k \in 1 .. Len(out) : new[k] = out[k]
    /\ \A k \in 1 .. Len(new) : k > Len(out) => new[k] = (a + (k - Len(out))) - 1

\* Printing the rows from a to b.
LEMMA Appended ==
    ASSUME conf \in Conf, NEW out \in Seq(Rows), NEW a \in Nat, NEW b \in Nat, a <= b,
           b <= conf.max_ttl - 1, NEW new, new = out \o Interval(a, b)
    PROVE  IsAppended(new, out, a, b)
  <1> DEFINE t == Interval(a, b)
             n == (b - a) + 1
  <1>1. t \in Seq(Rows)
    <2>1. a - 1 <= b
      OBVIOUS
    <2> QED  BY <2>1, IntervalIsOutput
  <1>2. n \in Nat /\ t = [k \in 1 .. n |-> a + k - 1]
    BY DEF Interval
  <1>3. Len(t) = n
    <2> HIDE DEF t, n
    <2> QED  BY <1>1, <1>2
  <1>4. (\A k \in 1 .. n : t[k] = (a + k) - 1) /\ new = out \o t
    BY <1>2
  <1> HIDE DEF t, n
  <1>5. /\ new \in Seq(Rows) /\ Len(out) \in Nat /\ Len(new) = Len(out) + n
        /\ \A k \in 1 .. Len(out) : new[k] = out[k]
        /\ \A k \in 1 .. Len(new) : k > Len(out) => new[k] = t[k - Len(out)]
    <2>1. /\ new \in Seq(Rows) /\ Len(new) = Len(out) + Len(t) /\ Len(out) \in Nat
          /\ \A k \in 1 .. Len(out) + Len(t) :
                new[k] = IF k <= Len(out) THEN out[k] ELSE t[k - Len(out)]
      BY <1>1, <1>4, ConcatProperties
    <2>2. 1 .. Len(new) = 1 .. Len(out) + Len(t) /\ \A k \in 1 .. Len(out) : k \in 1 .. Len(new)
      BY <1>2, <1>3, <2>1
    <2>3. \A k \in 1 .. Len(new) : k > Len(out) => new[k] = t[k - Len(out)]
      BY <2>1, <2>2
    <2>4. \A k \in 1 .. Len(out) : new[k] = out[k]
      BY <2>1, <2>2
    <2> QED  BY <1>3, <2>1, <2>3, <2>4
  <1>6. ASSUME NEW k \in 1 .. Len(new), k > Len(out)
        PROVE  new[k] = (a + (k - Len(out))) - 1
    <2> DEFINE j == k - Len(out)
    <2>0. new[k] = t[k - Len(out)]
      BY <1>5, <1>6
    <2>1. j \in 1 .. n /\ new[k] = t[j]
      <3>1. Len(out) \in Nat /\ k \in Nat /\ k <= Len(out) + n /\ k > Len(out)
        BY <1>2, <1>5, <1>6
      <3>2. j \in 1 .. n
        BY <1>2, <3>1
      <3> QED  BY <2>0, <3>2
    <2> HIDE DEF j
    <2>2. new[k] = (a + j) - 1
      BY <1>4, <2>1
    <2> QED  BY <2>2 DEF j
  <1> QED  BY <1>5, <1>6 DEF n, IsAppended

\* Without a gap the output is in order, and nothing has been left out.
LEMMA GaplessIsSilent ==
    ASSUME NEW out \in Seq(Rows), Gapless(out), NEW res
    PROVE  InOrder(out) /\ Silent(res, out)
  <1>1. DOMAIN out = 1 .. Len(out) /\ Len(out) \in Nat
    OBVIOUS
  <1>2. InOrder(out)
    BY <1>1 DEF Gapless, InOrder
  <1>3. ASSUME NEW k \in DOMAIN out, NEW r \in (IF k = 1 THEN 0 ELSE out[k - 1] + 1) .. out[k] - 1
        PROVE  FALSE
    <2>1. k \in Nat /\ 1 <= k /\ out[k] = k - 1
      BY <1>1 DEF Gapless
    <2>2. CASE k = 1
      <3>1. r \in 0 .. -1
        BY <2>1, <2>2
      <3> QED  BY <3>1
    <2>3. CASE k # 1
      <3>1. out[k - 1] = k - 2
        BY <1>1, <2>1, <2>3 DEF Gapless
      <3>2. r \in (k - 2) + 1 .. (k - 1) - 1
        BY <2>1, <2>3, <3>1
      <3> QED  BY <2>1, <3>2
    <2> QED  BY <2>2, <2>3
  <1> QED  BY <1>2, <1>3 DEF Silent

\* The rows that are left out are from n to b.
GapWithin(new, n, b) ==
    \A k \in DOMAIN new :
       \A r \in (IF k = 1 THEN 0 ELSE new[k - 1] + 1) .. new[k] - 1 : r \in n .. b

\* Rows without a gap, and then one more.
LEMMA GapBeforeLast ==
    ASSUME NEW n \in Nat, NEW b \in Nat, n <= b, NEW new, DOMAIN new = 1 .. n + 1,
           \A k \in 1 .. n : new[k] = k - 1, new[n + 1] = b
    PROVE  InOrder(new) /\ GapWithin(new, n, b)
  <1>1. InOrder(new)
    <2> SUFFICES ASSUME NEW j \in 1 .. n + 1, NEW k \in 1 .. n + 1, j < k PROVE new[j] < new[k]
      BY DEF InOrder
    <2>1. j \in 1 .. n /\ new[j] = j - 1
      OBVIOUS
    <2>2. CASE k \in 1 .. n
      BY <2>1, <2>2
    <2>3. CASE k = n + 1
      BY <2>1, <2>3
    <2> QED  BY <2>2, <2>3
  <1>2. ASSUME NEW k \in 1 .. n + 1, NEW r \in (IF k = 1 THEN 0 ELSE new[k - 1] + 1) .. new[k] - 1
        PROVE  r \in n .. b
    <2>1. k \in Nat /\ 1 <= k /\ k <= n + 1
      OBVIOUS
    <2>2. (IF k = 1 THEN 0 ELSE new[k - 1] + 1) = k - 1
      <3>1. CASE k = 1
        BY <3>1
      <3>2. CASE k # 1
        <4>1. k - 1 \in 1 .. n
          BY <2>1, <3>2
        <4> QED  BY <2>1, <3>2, <4>1
      <3> QED  BY <3>1, <3>2
    <2>3. r \in k - 1 .. new[k] - 1
      BY <1>2, <2>2
    <2>4. CASE k \in 1 .. n
      BY <2>1, <2>3, <2>4
    <2>5. CASE k = n + 1
      BY <2>3, <2>5
    <2> QED  BY <2>4, <2>5
  <1> QED  BY <1>1, <1>2 DEF GapWithin

Asterisks(res, a, b) == \A r \in a .. b : \A i \in Row(r) : res[i].timeout

\* The last row of all, after rows of nothing but asterisks.
LEMMA LastAfterGap ==
    ASSUME conf \in Conf, NEW out \in Seq(Rows), Gapless(out), NEW m \in Nat, m = conf.max_ttl,
           Len(out) < m, NEW new, new = out \o Interval(m - 1, m - 1), NEW res,
           Asterisks(res, Len(out), m - 1)
    PROVE  InOrder(new) /\ Silent(res, new)
  <1> DEFINE n == Len(out)
             b == m - 1
  <1>1. n \in Nat /\ b \in Nat /\ n <= b
    <2>1. n \in Nat
      OBVIOUS
    <2>2. n < m /\ m \in Nat /\ 1 <= m
      BY ConfNumbers
    <2> HIDE DEF n
    <2> QED  BY <2>1, <2>2
  <1>2. b <= conf.max_ttl - 1 /\ new = out \o Interval(b, b)
    BY ConfNumbers
  <1>3. \A r \in n .. b : \A i \in Row(r) : res[i].timeout
    BY Zenon DEF Asterisks
  <1> HIDE DEF b
  <1>4. /\ new \in Seq(Rows) /\ Len(new) = n + ((b - b) + 1)
        /\ \A k \in 1 .. n : new[k] = out[k]
        /\ \A k \in 1 .. Len(new) : k > n => new[k] = (b + (k - n)) - 1
    <2>1. b <= b
      BY <1>1
    <2>2. IsAppended(new, out, b, b)
      BY <1>1, <1>2, <2>1, Appended
    <2> QED  BY <2>2 DEF IsAppended
  <1>5. \A k \in 1 .. n : out[k] = k - 1
    BY DEF Gapless
  <1> HIDE DEF n
  <1>6. DOMAIN new = 1 .. n + 1 /\ Len(new) = n + 1
    BY <1>1, <1>4
  <1>7. new[n + 1] = b /\ \A k \in 1 .. n : new[k] = k - 1
    BY <1>1, <1>4, <1>5, <1>6
  <1>8. InOrder(new) /\ GapWithin(new, n, b)
    BY <1>1, <1>6, <1>7, GapBeforeLast
  <1> QED  BY <1>3, <1>8 DEF Silent, GapWithin

\* n rows without a gap.
GaplessTo(out, n) == out \in Seq(Rows) /\ Gapless(out) /\ Len(out) = n

\* Rows that follow the last printed one keep the output free of gaps.
LEMMA GaplessAppended ==
    ASSUME conf \in Conf, NEW out, NEW a \in Nat, GaplessTo(out, a),
           NEW b \in Nat, a <= b, b <= conf.max_ttl - 1
    PROVE  GaplessTo(out \o Interval(a, b), b + 1)
  <1> DEFINE new == out \o Interval(a, b)
  <1>0. out \in Seq(Rows) /\ Gapless(out) /\ a = Len(out) /\ new = out \o Interval(a, b)
    BY DEF GaplessTo
  <1> HIDE DEF new
  <1>1. IsAppended(new, out, a, b)
    BY <1>0, Appended
  <1>2. /\ new \in Seq(Rows) /\ Len(new) = a + ((b - a) + 1)
        /\ \A k \in 1 .. a : new[k] = out[k]
        /\ \A k \in 1 .. Len(new) : k > a => new[k] = (a + (k - a)) - 1
    BY <1>0, <1>1 DEF IsAppended
  <1>3. Len(new) = b + 1
    BY <1>2
  <1>4. \A k \in 1 .. a : new[k] = k - 1
    BY <1>0, <1>2 DEF Gapless
  <1>5. ASSUME NEW k \in 1 .. Len(new) PROVE new[k] = k - 1
    <2>1. CASE k > a
      <3>1. new[k] = (a + (k - a)) - 1
        BY <1>2, <2>1
      <3> QED  BY <1>3, <3>1
    <2>2. CASE ~(k > a)
      <3>1. k \in 1 .. a
        BY <1>3, <2>2
      <3> QED  BY <1>4, <3>1
    <2> QED  BY <2>1, <2>2
  <1> QED  BY <1>2, <1>3, <1>5 DEF Gapless, GaplessTo, new

\* What the output is after a step, if the rules of use are kept.
OutputAfter ==
    /\ phase' # "overrun"
    /\ phase' # "exited" => /\ print_row' < conf.max_ttl /\ Len(printed') = print_row'
                            /\ Gapless(printed')
    /\ phase' = "exited" => InOrder(printed') /\ Silent(results', printed')

\* What catchup_result_rows prints: the next rows, or at the very end the last
\* row alone.
LEMMA HopsPrinted ==
    ASSUME conf \in Conf, phase = "running", printed \in Seq(Rows),
           print_row \in 0 .. timeout_row, timeout_row \in 0 .. conf.max_ttl,
           print_row < conf.max_ttl, Len(printed) = print_row, Gapless(printed),
           NEW top \in timeout_row .. conf.max_ttl,
           top = conf.max_ttl => EndsWith(conf.max_ttl - 1), PrintHops(top)
    PROVE  OutputAfter
  <1> DEFINE m == conf.max_ttl
             p == print_row
  <1>1. /\ m \in Nat /\ 1 <= m /\ p \in Nat /\ top \in Nat /\ p <= top /\ top <= m /\ p < m
        /\ \A r \in Nat : r \in Rows <=> r < m
    <2>1. m \in Nat /\ 1 <= m /\ Rows = 0 .. m - 1
      BY ConfNumbers DEF Rows
    <2> HIDE DEF m
    <2>2. \A r \in Nat : r \in Rows <=> r < m
      BY <2>1
    <2>3. /\ p \in Nat /\ top \in Nat /\ p <= top /\ top <= m /\ p < m
      BY <2>1 DEF m
    <2> QED  BY <2>1, <2>2, <2>3
  <1>2. PICK i \in p .. top :
           /\ \A r \in p .. i - 1 : AllTimeout(r)
           /\ \/ i = m /\ PrintRows(i - 1, i)
              \/ i < top /\ ~AllTimeout(i) /\ PrintRows(p, i)
              \/ i = top /\ i # m /\ UNCHANGED <<phase, print_row, printed>>
    BY DEF PrintHops
  <1>3. i \in Nat /\ p <= i /\ i <= top
    BY <1>1, <1>2
  <1>4. CASE i = m /\ PrintRows(i - 1, i)
    <2> DEFINE f == m - 1
    <2>1. f \in Nat /\ EndsWith(f) /\ i = f + 1 /\ PrintRows(f, i) /\ f \in Rows
      BY <1>1, <1>3, <1>4
    <2> HIDE DEF f
    <2>2. PICK last \in f .. i :
           /\ \A r \in f .. last - 1 : ~EndsWith(r)
           /\ \/ /\ last \notin Rows
                 /\ phase' = "overrun"
                 /\ printed' = printed \o Interval(f, last - 1)
                 /\ print_row' = last
              \/ /\ last \in Rows /\ EndsWith(last)
                 /\ phase' = "exited"
                 /\ printed' = printed \o Interval(f, last)
                 /\ print_row' = last
              \/ /\ last \in Rows /\ ~EndsWith(last) /\ last = i
                 /\ UNCHANGED phase
                 /\ printed' = printed \o Interval(f, last)
                 /\ print_row' = last + 1
      BY <2>1, Zenon DEF PrintRows
    <2>3. last = f
      <3>1. ASSUME last # f PROVE FALSE
        <4>1. f \in f .. last - 1
          BY <2>1, <2>2, <3>1
        <4> QED  BY <2>1, <2>2, <4>1
      <3> QED  BY <3>1
    <2>4. phase' = "exited" /\ printed' = printed \o Interval(f, f)
      BY <2>1, <2>2, <2>3, Zenon
    <2>5. Asterisks(results', p, m - 1)
      <3>1. \A r \in p .. m - 1 : AllTimeout(r)
        BY <1>2, <1>4
      <3> QED  BY <3>1 DEF Asterisks, AllTimeout
    <2>6. InOrder(printed') /\ Silent(results', printed')
      BY <1>1, <2>4, <2>5, LastAfterGap DEF f
    <2> QED  BY <2>4, <2>6 DEF OutputAfter
  <1>5. CASE i < top /\ PrintRows(p, i)
    <2>1. i < m /\ i \in Rows
      BY <1>1, <1>3, <1>5
    <2>2. PICK last \in p .. i :
           /\ \A r \in p .. last - 1 : ~EndsWith(r)
           /\ \/ /\ last \notin Rows
                 /\ phase' = "overrun"
                 /\ printed' = printed \o Interval(p, last - 1)
                 /\ print_row' = last
              \/ /\ last \in Rows /\ EndsWith(last)
                 /\ phase' = "exited"
                 /\ printed' = printed \o Interval(p, last)
                 /\ print_row' = last
              \/ /\ last \in Rows /\ ~EndsWith(last) /\ last = i
                 /\ UNCHANGED phase
                 /\ printed' = printed \o Interval(p, last)
                 /\ print_row' = last + 1
      BY <1>5, Zenon DEF PrintRows
    <2>3. last \in Nat /\ last <= i /\ p <= last /\ last < m /\ last \in Rows
      BY <1>1, <1>3, <2>1, <2>2
    <2>4. /\ printed' = printed \o Interval(p, last)
          /\ phase' = "exited" \/ (/\ phase' = phase /\ last = i /\ ~EndsWith(i)
                                   /\ print_row' = last + 1)
      BY <2>2, <2>3, Zenon
    <2>5. printed' \in Seq(Rows) /\ Gapless(printed') /\ Len(printed') = last + 1
      <3>1. last <= conf.max_ttl - 1
        BY <1>1, <2>3
      <3>2. print_row \in Nat /\ print_row <= last /\ GaplessTo(printed, print_row)
        BY <1>1, <2>3 DEF GaplessTo
      <3>3. GaplessTo(printed \o Interval(print_row, last), last + 1)
        BY <2>3, <3>1, <3>2, GaplessAppended
      <3> QED  BY <2>4, <3>3 DEF GaplessTo
    <2>6. CASE phase' = "exited"
      BY <2>5, <2>6, GaplessIsSilent DEF OutputAfter
    <2>7. CASE phase' = phase /\ last = i /\ ~EndsWith(i) /\ print_row' = last + 1
      <3>1. ASSUME i = m - 1 PROVE FALSE
        <4>1. top = m
          BY <1>1, <1>3, <1>5, <3>1
        <4> QED  BY <2>7, <3>1, <4>1
      <3>2. i + 1 < m
        BY <1>1, <1>3, <2>1, <3>1
      <3> QED  BY <2>5, <2>7, <3>2 DEF OutputAfter
    <2> QED  BY <2>4, <2>6, <2>7
  <1>6. CASE UNCHANGED <<phase, print_row, printed>>
    BY <1>6 DEF OutputAfter
  <1> QED  BY <1>2, <1>4, <1>5, <1>6

\* A callback prints what is complete, and keeps the output in order.
LEMMA OutputCallback ==
    ASSUME LedgerInv, OutputInv, Running, Next, WellUsed
    PROVE  OutputAfter
  <1>1. PICK res, wait :
              /\ Good(res, wait, seq') /\ Leaves(res, wait)
              /\ SentOK(results', seq') /\ Ledger(results', waiting_ttls')
              /\ Settled(results', timeout_row')
              /\ \A r \in Rows : r < timeout_row => \A i \in Row(r) : results'[i] = results[i]
    BY LedgerCallback
  <1>2. /\ OptionsInv /\ conf \in Conf /\ phase = "running" /\ printed \in Seq(Rows)
        /\ timeout_row \in 0 .. conf.max_ttl /\ print_row \in 0 .. timeout_row
    BY DEF LedgerInv, TypeInv, Running
  <1>3. print_row < conf.max_ttl /\ Len(printed) = print_row /\ Gapless(printed)
    BY <1>2 DEF OutputInv
  <1>4. seq' \in Nat /\ seq' <= Bound
    BY Callback DEF LedgerInv, TypeInv
  <1>5. CASE UNCHANGED <<phase, rowVars>>
    BY <1>2, <1>3, <1>5 DEF rowVars, OutputAfter
  <1>6. CASE CatchUp(res, wait)
    <2>1. PICK top \in timeout_row .. conf.max_ttl : CheckTimeouts(res, wait, top) /\ PrintHops(top)
      BY <1>6 DEF CatchUp
    <2>2. timeout_row' = top
      BY <2>1 DEF CheckTimeouts
    <2>3. ASSUME top = conf.max_ttl PROVE EndsWith(conf.max_ttl - 1)
      <3>1. Settled(results', conf.max_ttl)
        BY <1>1, <2>2, <2>3
      <3>2. results'[conf.nprobes * (conf.max_ttl - 1)].ttl = conf.max_ttl
        BY <1>1, <1>2, <1>4, <3>1, LastRowEnds
      <3> QED  BY <3>2 DEF EndsWith
    <2> QED  BY <1>2, <1>3, <2>1, <2>3, HopsPrinted
  <1> QED  BY <1>1, <1>5, <1>6 DEF Leaves

PrintInv == LedgerInv /\ OutputInv

\* Before the first callback nothing has been printed.
LEMMA NoOutput ==
    ASSUME conf \in Conf, phase # "overrun", phase # "exited", print_row = 0, printed = << >>
    PROVE  OutputInv
  BY ConfNumbers DEF OutputInv, Gapless

LEMMA NoOutputNext ==
    ASSUME TypeInv', phase' \in {"options", "running", "failed"}, print_row' = 0, printed' = << >>
    PROVE  OutputInv'
  <1>1. (conf')["max_ttl"] \in Nat /\ 1 <= (conf')["max_ttl"]
    <2>1. conf' \in Conf
      BY DEF TypeInv, OptionsInv, OptionsTypeOK
    <2>2. \A c \in Conf : c.max_ttl \in Nat /\ 1 <= c.max_ttl
      BY TTLNumbers DEF Conf
    <2> QED  BY <2>1, <2>2
  <1>2. Len(printed') = 0 /\ Gapless(printed')
    BY DEF Gapless
  <1> QED  BY <1>1, <1>2 DEF OutputInv

LEMMA SameOutput ==
    ASSUME conf' = conf
    PROVE  Silent(results, printed)' = Silent(results', printed')
  BY DEF Silent, Row

LEMMA OutputInit ==
    ASSUME Init
    PROVE  PrintInv
  <1>1. LedgerInv /\ conf \in Conf
    BY LedgerInit DEF LedgerInv, TypeInv, OptionsInv, OptionsTypeOK
  <1> QED  BY <1>1, NoOutput DEF Init, OptionsInit, PrintInv

\* Every step preserves what is known of the output.
LEMMA OutputStep ==
    ASSUME PrintInv, [Next]_vars
    PROVE  PrintInv'
  <1>1. LedgerInv /\ TypeInv /\ OutputInv /\ LedgerInv' /\ TypeInv' /\ phase \in Phases
    BY LedgerStep DEF PrintInv, LedgerInv, TypeInv
  <1>2. CASE GetOption
    <2>1. phase = "options" /\ phase' \in {"options", "failed"} /\ UNCHANGED rowVars
      BY <1>2, OptionPhase DEF GetOption
    <2>2. print_row' = 0 /\ printed' = << >>
      BY <1>1, <2>1 DEF TypeInv, rowVars
    <2> QED  BY <1>1, <2>1, <2>2, NoOutputNext DEF PrintInv
  <1>3. CASE Main
    <2>1. phase' = "running" /\ print_row' = 0 /\ printed' = << >>
      BY <1>1, <1>3 DEF Main, TypeInv, rowVars
    <2> QED  BY <1>1, <2>1, NoOutputNext DEF PrintInv
  <1>4. CASE phase = "running" /\ Next
    <2>1. Running
      BY <1>1, <1>4, LedgerRunning
    <2>2. conf' = conf
      BY <1>1, <1>4, <2>1, Callback DEF TypeInv
    <2>3. WellUsed => OutputAfter
      BY <1>1, <1>4, <2>1, OutputCallback
    <2>4. OutputInv'
      BY <2>2, <2>3, SameTable, SameOutput DEF OutputInv, OutputAfter
    <2> QED  BY <1>1, <2>4 DEF PrintInv
  <1>5. CASE UNCHANGED vars
    <2>1. /\ conf' = conf /\ phase' = phase /\ results' = results
          /\ print_row' = print_row /\ printed' = printed
      BY <1>5 DEF vars, optionVars, tableVars, rowVars
    <2>2. OutputInv'
      BY <1>1, <2>1, SameTable, SameOutput DEF OutputInv
    <2> QED  BY <1>1, <2>2 DEF PrintInv
  <1> QED  BY <1>1, <1>2, <1>3, <1>4, <1>5, StepKinds

\* While the process runs, the output is in order and without a gap, too.
LEMMA OutputFacts ==
    ASSUME PrintInv, WellUsed
    PROVE  phase # "overrun" /\ InOrder(printed) /\ Silent(results, printed)
  BY GaplessIsSilent DEF PrintInv, OutputInv, LedgerInv, TypeInv

\* The table is not read past its last row: when all of it has been looked at, the
\* last row has the maximum TTL, and the program ends.
THEOREM TableIsNotOverrun == Spec => []NoOverrun
  <1>1. PrintInv => NoOverrun
    BY OutputFacts DEF NoOverrun
  <1> QED  BY <1>1, OutputInit, OutputStep, PTL DEF Spec

\* The hops are printed in order, each at most once.
THEOREM HopsAreInOrder == Spec => []PrintedInOrder
  <1>1. PrintInv => PrintedInOrder
    BY OutputFacts DEF PrintedInOrder, InOrder
  <1> QED  BY <1>1, OutputInit, OutputStep, PTL DEF Spec

\* A hop that is left out has had no answer.
THEOREM LeftOutIsSilent == Spec => []SkippedAreSilent
  <1>1. PrintInv => SkippedAreSilent
    <2> SUFFICES ASSUME PrintInv, WellUsed, Silent(results, printed)
                 PROVE  \A k \in DOMAIN printed :
                           \A r \in (IF k = 1 THEN 0 ELSE printed[k - 1] + 1) .. printed[k] - 1 :
                              \A i \in Row(r) : results[i].timeout
      BY OutputFacts DEF SkippedAreSilent
    <2> QED  BY Zenon DEF Silent
  <1> QED  BY <1>1, OutputInit, OutputStep, PTL DEF Spec

\* What has been printed stays true: neither an answer nor a timeout nor a name comes
\* for a row that has been printed.
THEOREM OutputIsFinal == Spec => PrintedIsFinal
  <1> DEFINE Kept == WellUsed => \A k \in DOMAIN printed : \A i \in Row(printed[k]) :
                                     results'[i] = results[i]
  <1>1. PrintInv /\ [Next]_vars => [Kept]_vars
    <2> SUFFICES ASSUME PrintInv, Next, WellUsed, NEW k \in DOMAIN printed,
                        NEW i \in Row(printed[k])
                 PROVE  results'[i] = results[i]
      OBVIOUS
    <2>1. /\ LedgerInv /\ TypeInv /\ OutputInv /\ printed \in Seq(Rows) /\ printed[k] \in Rows
          /\ phase \in Phases
      BY DEF PrintInv, LedgerInv, TypeInv
    <2>2. CASE phase = "running"
      <3>1. Running
        BY <2>1, <2>2, LedgerRunning
      <3>2. \A r \in Rows : r < timeout_row => \A j \in Row(r) : results'[j] = results[j]
        BY <2>1, <3>1, LedgerCallback
      <3>3. printed[k] < timeout_row
        <4>1. Len(printed) = print_row /\ Gapless(printed)
          BY <2>1, <2>2 DEF OutputInv
        <4>2. k \in 1 .. Len(printed) /\ print_row \in 0 .. timeout_row /\ timeout_row \in Nat
          BY <2>1, ConfNumbers DEF TypeInv, OptionsInv, OptionsTypeOK
        <4>3. printed[k] = k - 1
          BY <4>1, <4>2 DEF Gapless
        <4> QED  BY <4>1, <4>2, <4>3
      <3> QED  BY <2>1, <3>2, <3>3
    <2>3. CASE phase # "running"
      <3>1. GetOption \/ Main \/ UNCHANGED vars
        BY <2>1, <2>3, StepKinds
      <3>2. CASE UNCHANGED vars
        BY <3>2 DEF vars, tableVars
      <3>3. CASE GetOption \/ Main
        <4>1. printed = << >>
          BY <2>1, <3>3, OptionPhase DEF GetOption, Main, TypeInv
        <4> QED  BY <4>1
      <3> QED  BY <3>1, <3>2, <3>3
    <2> QED  BY <2>2, <2>3
  <1>2. PrintInv /\ [Next]_vars => PrintInv'
    BY OutputStep
  <1>3. Init => PrintInv
    BY OutputInit
  <1> QED  BY <1>1, <1>2, <1>3, PTL DEF Spec, PrintedIsFinal
=============================================================================

---------------------------- MODULE MCController ----------------------------
(***************************************************************************)
(* Model checking Controller. The configurations differ in the number of   *)
(* requests, blocks and streams, and in the measurements users ask for.    *)
(***************************************************************************)
EXTENDS Controller, TLC

Conf(m, q) == [maxTTL |-> m, probeNum |-> q]

\* Measurements that fit a block of two IDs.
FittingConfs == { Conf(1, 1), Conf(2, 1) }

OneProbe == { Conf(1, 1) }

\* More probes than a block has IDs.
OversizeConfs == { Conf(1, 2), Conf(3, 1) }

\* For safety only: requests are interchangeable.
Symmetric == Permutations(Requests) \cup Permutations(Streams)
=============================================================================

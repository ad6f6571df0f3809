---------------------------- MODULE MCRunSummary ----------------------------
(***************************************************************************)
(* RunSummary for TLC: no endpoint, one named twice, two, and three.  The  *)
(* signatures are symmetric: nothing in RunSummary orders them.            *)
(***************************************************************************)
EXTENDS RunSummary, TLC

CONSTANTS s1, s2, s3

MCSignatures == {s1, s2, s3}
MCNameLists  == {<<>>, <<1, 1>>, <<2, 1>>, <<3, 1, 2>>}
Seen(time)   == [elapsed |-> time, historical |-> FALSE]
MCObservations == {Seen(0), Seen(2), [elapsed |-> 1, historical |-> TRUE]}
AnySignature == Permutations(MCSignatures)

\* A transaction that some but not all endpoints saw is skipped whoever they
\* are.  All but one of two may have seen it, and all but two of three.
MCInit ==
  /\ Init
  /\ \A s \in Signatures :
       Cardinality(DOMAIN comparator[s]) \in {0, 1, Len(endpoint_names)}
MCSpec == MCInit /\ [][Next]_vars
=============================================================================

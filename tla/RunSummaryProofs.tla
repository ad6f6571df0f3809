--------------------------- MODULE RunSummaryProofs ---------------------------
(***************************************************************************)
(* Proofs about RunSummary for any transactions, any lists of endpoint     *)
(* names and any observations.                                             *)
(***************************************************************************)
EXTENDS RunSummary, PercentileProofs

(***************************************************************************)
(* What the observations are.                                              *)
(***************************************************************************)

\* The names of the endpoints are finitely many numbers, no more than the list
\* is long.
LEMMA NamesAreFinite ==
  ASSUME TypeOK
  PROVE  /\ endpoint_names \in Seq(Nat) /\ Len(endpoint_names) \in Nat
         /\ Endpoints \subseteq Nat
         /\ IsFiniteSet(Endpoints)
         /\ Cardinality(Endpoints) \in Nat /\ Cardinality(Endpoints) <= Len(endpoint_names)
         /\ endpoint_names # <<>> => Len(endpoint_names) > 0 /\ Endpoints # {}
  <1> DEFINE n == Len(endpoint_names)
             D == 1..n
  <1>1. endpoint_names \in Seq(Nat)
    BY SummaryAssumption DEF TypeOK
  <1>2. n \in Nat /\ DOMAIN endpoint_names = D /\ endpoint_names \in [D -> Nat]
    BY <1>1
  <1>3. Endpoints \subseteq Nat /\ endpoint_names \in Surjection(D, Endpoints)
    <2>1. Endpoints = {endpoint_names[i] : i \in D}
      BY <1>2, Zenon DEF Endpoints, Range
    <2> HIDE DEF D
    <2>2. Endpoints \subseteq Nat /\ endpoint_names \in [D -> Endpoints]
      BY <1>2, <2>1
    <2> QED
      BY <2>1, <2>2, Zenon DEF Surjection
  <1>4. IsFiniteSet(D) /\ Cardinality(D) = n
    <2>1. \A m \in Nat : IsFiniteSet(1..m) /\ Cardinality(1..m) = m
      BY FS_Interval
    <2> QED
      BY <1>2, <2>1, Zenon
  <1>5. IsFiniteSet(Endpoints) /\ Cardinality(Endpoints) <= n
    <2> HIDE DEF D, n
    <2> QED
      BY <1>3, <1>4, FS_Surjection
  <1>6. Cardinality(Endpoints) \in Nat
    BY <1>5, FS_CardinalityType
  <1>7. endpoint_names # <<>> => n > 0 /\ Endpoints # {}
    BY <1>1, <1>2 DEF Endpoints, Range
  <1> QED
    BY <1>1, <1>2, <1>3, <1>5, <1>6, <1>7

\* What the Comparator has of a transaction.
LEMMA DataFacts ==
  ASSUME TypeOK, NEW s \in Signatures
  PROVE  /\ DOMAIN comparator[s] \subseteq Endpoints
         /\ IsFiniteSet(DOMAIN comparator[s])
         /\ Cardinality(DOMAIN comparator[s]) \in Nat
         /\ comparator[s] \in [DOMAIN comparator[s] -> Observations]
         /\ SeenByAll(s) => DOMAIN comparator[s] = Endpoints
  <1>1. PICK seen \in SUBSET Endpoints : comparator[s] \in [seen -> Observations]
    BY DEF TypeOK
  <1>2. DOMAIN comparator[s] = seen
    BY <1>1
  <1>3. IsFiniteSet(seen) /\ Cardinality(seen) <= Cardinality(Endpoints)
        /\ (Cardinality(Endpoints) = Cardinality(seen) => Endpoints = seen)
    BY NamesAreFinite, FS_Subset
  <1>4. Cardinality(seen) \in Nat
    BY <1>3, FS_CardinalityType
  <1>5. Cardinality(seen) = Len(endpoint_names) => Endpoints = seen
    BY <1>3, <1>4, NamesAreFinite
  <1> QED
    BY <1>1, <1>2, <1>3, <1>4, <1>5 DEF SeenByAll

\* Somebody was first.
LEMMA SomeoneIsEarliest ==
  ASSUME NEW S, S # {}, NEW sig_data \in [S -> Observations]
  PROVE  \E e \in S : Earliest(sig_data, e)
  <1> DEFINE times == {sig_data[e].elapsed : e \in S}
  <1>1. \A e \in S : sig_data[e].elapsed \in Nat
    BY SummaryAssumption
  <1>2. times \in SUBSET Nat /\ times # {}
    BY <1>1
  <1>3. PICK least \in times : \A k \in times : least <= k
    <2> HIDE DEF times
    <2> QED
      BY <1>2, LeastElement
  <1>4. PICK e \in S : sig_data[e].elapsed = least
    BY <1>3
  <1>5. DOMAIN sig_data = S
    OBVIOUS
  <1> QED
    BY <1>3, <1>4, <1>5 DEF Earliest

\* How far an endpoint is behind does not depend on which of the earliest it
\* is compared with.
LEMMA BehindFacts ==
  ASSUME NEW S, NEW sig_data \in [S -> Observations], NEW first \in S, Earliest(sig_data, first)
  PROVE  /\ EarliestOf(sig_data) \in S
         /\ sig_data[EarliestOf(sig_data)].elapsed = sig_data[first].elapsed
         /\ \A e \in S : sig_data[e].elapsed - sig_data[first].elapsed \in Nat
  <1>1. DOMAIN sig_data = S /\ \A e \in S : sig_data[e].elapsed \in Nat
    BY SummaryAssumption
  <1>2. EarliestOf(sig_data) \in S /\ Earliest(sig_data, EarliestOf(sig_data))
    BY <1>1 DEF EarliestOf
  <1> QED
    BY <1>1, <1>2 DEF Earliest

\* An order of a finite set lists each of its elements once.
LEMMA OrderFacts ==
  ASSUME NEW S, IsFiniteSet(S), NEW order \in Orders(S)
  PROVE  /\ order \in Seq(S) /\ Len(order) = Cardinality(S) /\ Cardinality(S) \in Nat
         /\ order \in Bijection(1..Len(order), S)
         /\ \A x \in S : \E i \in 1..Len(order) : order[i] = x
  <1> DEFINE D == 1..Cardinality(S)
  <1>1. Cardinality(S) \in Nat
    BY FS_CardinalityType
  <1>2. order \in Bijection(D, S)
    BY DEF Orders
  <1>3. order \in [D -> S] /\ \A x \in S : \E i \in D : order[i] = x
    BY <1>2 DEF Bijection, Injection, Surjection
  <1>4. order \in Seq(S) /\ Len(order) = Cardinality(S)
    BY <1>1, <1>3
  <1> QED
    BY <1>1, <1>2, <1>3, <1>4

\* min_by_key finds one of the earliest.
LEMMA FirstAtFacts ==
  ASSUME NEW S, IsFiniteSet(S), S # {}, NEW sig_data \in [S -> Observations],
         NEW order \in Orders(S)
  PROVE  /\ FirstAt(sig_data, order) \in 1..Len(order)
         /\ order[FirstAt(sig_data, order)] \in S
         /\ Earliest(sig_data, order[FirstAt(sig_data, order)])
  <1> DEFINE D  == 1..Len(order)
             Es == {i \in D : Earliest(sig_data, order[i])}
  <1>3. order \in Seq(S) /\ \A x \in S : \E i \in D : order[i] = x
    BY OrderFacts
  <1>4. Es \in SUBSET Nat /\ Es # {}
    <2>1. PICK e \in S : Earliest(sig_data, e)
      BY SomeoneIsEarliest
    <2>2. PICK i \in D : order[i] = e
      BY <1>3
    <2>3. i \in Es
      BY <2>1, <2>2
    <2>4. D \subseteq Nat
      OBVIOUS
    <2> QED
      BY <2>3, <2>4
  <1>5. PICK least \in Es : \A k \in Es : least <= k
    <2> HIDE DEF Es
    <2> QED
      BY <1>4, LeastElement
  <1>6. \A j \in 1..(least - 1) : ~Earliest(sig_data, order[j])
    BY <1>3, <1>5
  <1>7. DOMAIN order = D
    BY <1>3
  <1>8. /\ FirstAt(sig_data, order) \in D
        /\ Earliest(sig_data, order[FirstAt(sig_data, order)])
    BY <1>5, <1>6, <1>7 DEF FirstAt
  <1> QED
    BY <1>3, <1>8

(***************************************************************************)
(* What one turn does.                                                     *)
(***************************************************************************)

\* A visited transaction is taken from what is to do, and so added to what is
\* done of any set it is in.
LEMMA VisitFacts ==
  ASSUME TypeOK, NEW s, Visit(s), NEW X \in SUBSET Signatures
  PROVE  /\ s \in Signatures /\ s \in todo
         /\ IsFiniteSet(X \ todo) /\ Cardinality(X \ todo) \in Nat
         /\ s \notin X => X \ todo' = X \ todo
         /\ s \in X => /\ s \notin X \ todo
                       /\ X \ todo' = (X \ todo) \cup {s}
                       /\ Cardinality(X \ todo') = Cardinality(X \ todo) + 1
  <1>1. s \in todo /\ todo' = todo \ {s} /\ todo \subseteq Signatures
    BY DEF Visit, TypeOK
  <1>2. IsFiniteSet(X \ todo) /\ Cardinality(X \ todo) \in Nat
    <2>1. X \ todo \in SUBSET Signatures
      OBVIOUS
    <2> QED
      BY <2>1, SummaryAssumption, FS_Subset, FS_CardinalityType
  <1>3. s \notin X => X \ todo' = X \ todo
    BY <1>1
  <1>4. s \in X => s \notin X \ todo /\ X \ todo' = (X \ todo) \cup {s}
    BY <1>1
  <1>5. s \in X => Cardinality(X \ todo') = Cardinality(X \ todo) + 1
    BY <1>2, <1>4, FS_AddElement
  <1> QED
    BY <1>1, <1>2, <1>3, <1>4, <1>5

\* No turn changes what has been observed, nor what there is to say of it.
LEMMA ObservationsStay ==
  ASSUME UNCHANGED <<endpoint_names, comparator>>
  PROVE  /\ Endpoints' = Endpoints
         /\ Counted' = Counted /\ Old' = Old
         /\ \A s, e : Behind(s, e)' = Behind(s, e)
         /\ \A e : Wins(e)' = Wins(e) /\ SoleWins(e)' = SoleWins(e)
  <1>1. endpoint_names' = endpoint_names /\ comparator' = comparator
    OBVIOUS
  <1>2. Endpoints' = Endpoints
    BY <1>1 DEF Endpoints
  <1>3. Counted' = Counted /\ Old' = Old
    BY <1>1, <1>2 DEF Counted, Old, SeenByAll, Live
  <1>4. \A s, e : Behind(s, e)' = Behind(s, e)
    BY <1>1 DEF Behind
  <1>5. \A e : Wins(e)' = Wins(e)
    BY <1>3, <1>4 DEF Wins
  <1>6. \A e : SoleWins(e)' = SoleWins(e)
    BY <1>2, <1>5 DEF SoleWins
  <1> QED
    BY <1>2, <1>3, <1>4, <1>5, <1>6

\* The sum of finitely many counts is finite, and grows by one with one of them.
LEMMA CreditsAreFinite ==
  ASSUME NEW E, IsFiniteSet(E), NEW f \in [E -> Nat]
  PROVE  IsFiniteSet(Credits(f))
  <1> DEFINE each == [e \in E |-> {e} \X (1..f[e])]
             all  == {each[e] : e \in E}
  <1>1. each \in Surjection(E, all)
    BY DEF Surjection
  <1>2. IsFiniteSet(all)
    <2> HIDE DEF each, all
    <2> QED
      BY <1>1, FS_Surjection
  <1>3. ASSUME NEW e \in E
        PROVE  IsFiniteSet(each[e])
    <2>1. f[e] \in Int /\ 1 \in Int
      OBVIOUS
    <2>2. IsFiniteSet(1..f[e])
      <3> HIDE DEF each, all
      <3> QED
        BY <2>1, FS_Interval
    <2>3. IsFiniteSet({e})
      BY FS_Singleton
    <2> QED
      BY <2>2, <2>3, FS_Product
  <1>4. IsFiniteSet(UNION all)
    <2>1. \A x \in all : IsFiniteSet(x)
      BY <1>3
    <2> HIDE DEF all
    <2> QED
      BY <1>2, <2>1, FS_UNION
  <1>5. Credits(f) = UNION all
    <2>1. DOMAIN f = E
      OBVIOUS
    <2> QED
      BY <2>1 DEF Credits
  <1> QED
    BY <1>4, <1>5

LEMMA OneMoreCredit ==
  ASSUME NEW E, IsFiniteSet(E), NEW f \in [E -> Nat], NEW g \in [E -> Nat],
         NEW w \in E, g[w] = f[w] + 1, \A e \in E \ {w} : g[e] = f[e]
  PROVE  Cardinality(Credits(g)) = Cardinality(Credits(f)) + 1
  <1> DEFINE fresh == <<w, f[w] + 1>>
  <1>1. DOMAIN f = E /\ DOMAIN g = E
    OBVIOUS
  <1>2. \A x : x \in Credits(f) <=> \E e \in E : \E k \in 1..f[e] : x = <<e, k>>
    BY <1>1 DEF Credits
  <1>3. \A x : x \in Credits(g) <=> \E e \in E : \E k \in 1..g[e] : x = <<e, k>>
    BY <1>1 DEF Credits
  <1>4. \A e \in E, k \in Nat : k \in 1..g[e] <=> k \in 1..f[e] \/ (e = w /\ k = f[w] + 1)
    <2> SUFFICES ASSUME NEW e \in E, NEW k \in Nat
                 PROVE  k \in 1..g[e] <=> k \in 1..f[e] \/ (e = w /\ k = f[w] + 1)
      OBVIOUS
    <2>1. f[e] \in Nat /\ g[e] \in Nat
      OBVIOUS
    <2>2. CASE e = w
      BY <2>1, <2>2
    <2>3. CASE e # w
      BY <2>3
    <2> QED
      BY <2>2, <2>3
  <1>5. Credits(g) = Credits(f) \cup {fresh}
    <2>1. ASSUME NEW x \in Credits(g) PROVE x \in Credits(f) \cup {fresh}
      <3>1. PICK e \in E : \E k \in 1..g[e] : x = <<e, k>>
        BY <1>3
      <3>2. PICK k \in 1..g[e] : x = <<e, k>>
        BY <3>1
      <3>3. k \in Nat /\ (k \in 1..f[e] \/ (e = w /\ k = f[w] + 1))
        BY <1>4
      <3> QED
        BY <1>2, <3>2, <3>3
    <2>2. ASSUME NEW x \in Credits(f) \cup {fresh} PROVE x \in Credits(g)
      <3>1. CASE x = fresh
        <4>1. f[w] + 1 \in 1..g[w]
          OBVIOUS
        <4> QED
          BY <1>3, <3>1, <4>1
      <3>2. CASE x \in Credits(f)
        <4>1. PICK e \in E : \E k \in 1..f[e] : x = <<e, k>>
          BY <1>2, <3>2
        <4>2. PICK k \in 1..f[e] : x = <<e, k>>
          BY <4>1
        <4>3. k \in 1..g[e]
          BY <1>4
        <4> QED
          BY <1>3, <4>2, <4>3
      <3> QED
        BY <3>1, <3>2
    <2> QED
      BY <2>1, <2>2
  <1>6. fresh \notin Credits(f)
    <2> SUFFICES ASSUME NEW e \in E, NEW k \in 1..f[e], fresh = <<e, k>> PROVE FALSE
      BY <1>2
    <2>1. e = w /\ k = f[w] + 1
      OBVIOUS
    <2> QED
      BY <2>1
  <1>7. IsFiniteSet(Credits(f))
    BY CreditsAreFinite
  <1> QED
    BY <1>5, <1>6, <1>7, FS_AddElement

\* One more observation of an endpoint.
LEMMA TalliedType ==
  ASSUME NEW stats \in EndpointStats, NEW won \in BOOLEAN, NEW delay \in Nat
  PROVE  Tallied(stats, won, delay) \in EndpointStats
  <1>1. /\ stats.total_observations \in Nat /\ stats.first_detections \in Nat
        /\ stats.delays_ms \in Seq(Nat) /\ stats.backfill_transactions \in Nat
    BY DEF EndpointStats
  <1>2. Append(stats.delays_ms, IF won THEN 0 ELSE delay) \in Seq(Nat)
    BY <1>1
  <1>3. stats.first_detections + (IF won THEN 1 ELSE 0) \in Nat
    BY <1>1
  <1> QED
    BY <1>1, <1>2, <1>3 DEF Tallied, EndpointStats

\* A turn that counts: somebody is first, and everybody's delay is how far it
\* is behind.
LEMMA CountFacts ==
  ASSUME TypeOK, NEW s, NEW order \in Orders(DOMAIN comparator[s]), Count(s, order)
  PROVE  \E first \in DOMAIN comparator[s] :
           /\ Behind(s, first) = 0
           /\ \A e \in DOMAIN comparator[s] : Behind(s, e) \in Nat
           /\ endpoint_stats' = [e \in Endpoints |->
                IF e \in DOMAIN comparator[s]
                THEN Tallied(endpoint_stats[e], e = first, Behind(s, e))
                ELSE endpoint_stats[e]]
           /\ overall_delays' \in Seq(Nat)
  <1> DEFINE sig_data == comparator[s]
             S        == DOMAIN sig_data
             winner   == FirstAt(sig_data, order)
             first    == order[winner]
             losers   == SubSeq(order, 1, winner - 1) \o SubSeq(order, winner + 1, Len(order))
  <1>1. s \in Signatures
    BY DEF Count, Visit, TypeOK
  <1>2. /\ S \subseteq Endpoints /\ IsFiniteSet(S) /\ S # {}
        /\ sig_data \in [S -> Observations]
    BY <1>1, DataFacts DEF Count
  <1>3. winner \in 1..Len(order) /\ first \in S /\ Earliest(sig_data, first)
    <2>1. order \in Orders(S)
      OBVIOUS
    <2> HIDE DEF S, sig_data
    <2> QED
      BY <1>2, <2>1, FirstAtFacts
  <1>4. /\ sig_data[EarliestOf(sig_data)].elapsed = sig_data[first].elapsed
        /\ \A e \in S : sig_data[e].elapsed - sig_data[first].elapsed \in Nat
    <2> HIDE DEF S, sig_data, first
    <2> QED
      BY <1>2, <1>3, BehindFacts
  <1>5. \A e \in S : Behind(s, e) \in Nat /\ Delay(sig_data, first, e) = Behind(s, e)
    BY <1>4 DEF Behind, Delay
  <1>6. Behind(s, first) = 0
    <2>1. sig_data[first].elapsed \in Nat
      BY <1>2, <1>3, SummaryAssumption
    <2> QED
      BY <1>4, <2>1 DEF Behind
  <1>7. endpoint_stats' = [e \in Endpoints |->
          IF e \in S THEN Tallied(endpoint_stats[e], e = first, Delay(sig_data, first, e))
                     ELSE endpoint_stats[e]]
    BY DEF Count
  <1>9. \A e \in S : Tallied(endpoint_stats[e], e = first, Delay(sig_data, first, e))
                     = Tallied(endpoint_stats[e], e = first, Behind(s, e))
    BY <1>5
  <1>10. order \in Seq(S)
    <2>1. order \in Orders(S)
      OBVIOUS
    <2> HIDE DEF S
    <2> QED
      BY <1>2, <2>1, OrderFacts
  <1>11. losers \in Seq(S)
    <2> HIDE DEF S, winner
    <2>1. SubSeq(order, 1, winner - 1) \in Seq(S)
      BY <1>3, <1>10
    <2>2. SubSeq(order, winner + 1, Len(order)) \in Seq(S)
      BY <1>3, <1>10
    <2> QED
      BY <2>1, <2>2
  <1>12. overall_delays' = overall_delays \o [i \in DOMAIN losers |-> Delay(sig_data, first, losers[i])]
    BY DEF Count
  <1>13. [i \in DOMAIN losers |-> Delay(sig_data, first, losers[i])] \in Seq(Nat)
    <2>1. DOMAIN losers = 1..Len(losers) /\ \A i \in DOMAIN losers : losers[i] \in S
      <3> HIDE DEF losers, S
      <3> QED
        BY <1>11
    <2>2. \A i \in DOMAIN losers : Delay(sig_data, first, losers[i]) \in Nat
      BY <1>5, <2>1
    <2>3. Len(losers) \in Nat
      <3> HIDE DEF losers, S
      <3> QED
        BY <1>11
    <2> HIDE DEF losers, S, sig_data, first
    <2> QED
      BY <2>1, <2>2, <2>3
  <1>14. overall_delays' \in Seq(Nat)
    <2>1. overall_delays \in Seq(Nat)
      BY DEF TypeOK
    <2> HIDE DEF losers, S, sig_data, first
    <2> QED
      BY <1>12, <1>13, <2>1
  <1>15. endpoint_stats' = [e \in Endpoints |->
                IF e \in S
                THEN Tallied(endpoint_stats[e], e = first, Behind(s, e))
                ELSE endpoint_stats[e]]
    <2> HIDE DEF S, sig_data, first
    <2> QED
      BY <1>7, <1>9
  <1> QED
    <2> HIDE DEF first, winner
    <2> QED
      BY <1>3, <1>5, <1>6, <1>14, <1>15

(***************************************************************************)
(* The invariant.                                                          *)
(***************************************************************************)

\* The loop and what comes after it.
LEMMA StepCases ==
  ASSUME TypeOK, [Next]_vars
  PROVE  \/ \E s \in Signatures :
              SkipPartial(s) \/ Backfill(s) \/ SkipUnseen(s)
              \/ \E order \in Orders(DOMAIN comparator[s]) : Count(s, order)
         \/ Finish
         \/ UNCHANGED vars
  BY DEF Next, Returned

\* What a turn adds to the statistics of an endpoint.
LEMMA StatsStep ==
  ASSUME TypeOK, NEW s, NEW order \in Orders(DOMAIN comparator[s]), Count(s, order)
  PROVE  \E first \in DOMAIN comparator[s] :
           /\ Behind(s, first) = 0
           /\ \A e \in Endpoints \ DOMAIN comparator[s] : endpoint_stats'[e] = endpoint_stats[e]
           /\ \A e \in DOMAIN comparator[s] :
                /\ Behind(s, e) \in Nat
                /\ endpoint_stats'[e].total_observations = endpoint_stats[e].total_observations + 1
                /\ endpoint_stats'[e].first_detections
                     = endpoint_stats[e].first_detections + (IF e = first THEN 1 ELSE 0)
                /\ endpoint_stats'[e].delays_ms = Append(endpoint_stats[e].delays_ms, Behind(s, e))
  <1>1. s \in Signatures
    BY DEF Count, Visit, TypeOK
  <1>2. DOMAIN comparator[s] \subseteq Endpoints
    BY <1>1, DataFacts
  <1>3. PICK first \in DOMAIN comparator[s] :
           /\ Behind(s, first) = 0
           /\ \A e \in DOMAIN comparator[s] : Behind(s, e) \in Nat
           /\ endpoint_stats' = [e \in Endpoints |->
                IF e \in DOMAIN comparator[s]
                THEN Tallied(endpoint_stats[e], e = first, Behind(s, e))
                ELSE endpoint_stats[e]]
    BY CountFacts
  <1>4. ASSUME NEW e \in DOMAIN comparator[s]
        PROVE  /\ endpoint_stats'[e].total_observations = endpoint_stats[e].total_observations + 1
               /\ endpoint_stats'[e].first_detections
                    = endpoint_stats[e].first_detections + (IF e = first THEN 1 ELSE 0)
               /\ endpoint_stats'[e].delays_ms = Append(endpoint_stats[e].delays_ms, Behind(s, e))
    <2>2. endpoint_stats'[e] = Tallied(endpoint_stats[e], e = first, Behind(s, e))
      BY <1>2, <1>3
    <2> QED
      <3>1. (IF e = first THEN 0 ELSE Behind(s, e)) = Behind(s, e)
        BY <1>3
      <3>2. /\ endpoint_stats'[e].total_observations = endpoint_stats[e].total_observations + 1
            /\ endpoint_stats'[e].first_detections
                 = endpoint_stats[e].first_detections + (IF e = first THEN 1 ELSE 0)
            /\ endpoint_stats'[e].delays_ms
                 = Append(endpoint_stats[e].delays_ms, IF e = first THEN 0 ELSE Behind(s, e))
        BY <2>2 DEF Tallied
      <3> QED
        BY <3>1, <3>2
  <1>5. \A e \in Endpoints \ DOMAIN comparator[s] : endpoint_stats'[e] = endpoint_stats[e]
    BY <1>3
  <1> QED
    BY <1>3, <1>4, <1>5

LEMMA TypeStep ==
  ASSUME TypeOK, [Next]_vars
  PROVE  TypeOK'
  <1>1. UNCHANGED <<endpoint_names, comparator>>
    BY StepCases DEF SkipPartial, Backfill, SkipUnseen, Count, Visit, Finish, vars
  <1>2. Endpoints' = Endpoints
    BY <1>1, ObservationsStay
  <1>3. ASSUME NEW s \in Signatures, Visit(s),
               endpoint_stats' \in [Endpoints -> EndpointStats],
               total_signatures' \in Nat, backfill_signatures' \in Nat, overall_delays' \in Seq(Nat)
        PROVE  TypeOK'
    BY <1>1, <1>2, <1>3 DEF TypeOK, Visit
  <1>4. ASSUME NEW s \in Signatures, SkipPartial(s) \/ SkipUnseen(s) PROVE TypeOK'
    <2>1. Visit(s) /\ UNCHANGED <<endpoint_stats, total_signatures, backfill_signatures, overall_delays>>
      BY <1>4 DEF SkipPartial, SkipUnseen
    <2> QED
      BY <1>3, <2>1 DEF TypeOK
  <1>5. ASSUME NEW s \in Signatures, Backfill(s) PROVE TypeOK'
    <2>1. Visit(s) /\ UNCHANGED <<total_signatures, overall_delays>>
          /\ backfill_signatures' = backfill_signatures + 1
      BY <1>5 DEF Backfill
    <2>2. endpoint_stats' \in [Endpoints -> EndpointStats]
      <3>1. \A e \in Endpoints : endpoint_stats[e] \in EndpointStats
        BY DEF TypeOK
      <3>2. ASSUME NEW stats \in EndpointStats
            PROVE  [stats EXCEPT !.backfill_transactions = @ + 1] \in EndpointStats
        BY DEF EndpointStats
      <3> QED
        BY <1>5, <3>1, <3>2 DEF Backfill
    <2> QED
      BY <1>3, <2>1, <2>2 DEF TypeOK
  <1>6. ASSUME NEW s \in Signatures, NEW order \in Orders(DOMAIN comparator[s]), Count(s, order)
        PROVE  TypeOK'
    <2>1. Visit(s) /\ backfill_signatures' = backfill_signatures
          /\ total_signatures' = total_signatures + 1
      BY <1>6 DEF Count
    <2>2. PICK first \in DOMAIN comparator[s] :
           /\ \A e \in DOMAIN comparator[s] : Behind(s, e) \in Nat
           /\ endpoint_stats' = [e \in Endpoints |->
                IF e \in DOMAIN comparator[s]
                THEN Tallied(endpoint_stats[e], e = first, Behind(s, e))
                ELSE endpoint_stats[e]]
           /\ overall_delays' \in Seq(Nat)
      BY <1>6, CountFacts
    <2>3. endpoint_stats' \in [Endpoints -> EndpointStats]
      <3>1. ASSUME NEW e \in Endpoints, NEW d \in Nat
            PROVE  Tallied(endpoint_stats[e], e = first, d) \in EndpointStats
        BY TalliedType DEF TypeOK
      <3>2. \A e \in Endpoints : endpoint_stats[e] \in EndpointStats
        BY DEF TypeOK
      <3> QED
        BY <2>2, <3>1, <3>2
    <2>4. total_signatures' \in Nat /\ backfill_signatures' \in Nat /\ s \in Signatures
      BY <2>1 DEF TypeOK, Visit
    <2> QED
      BY <1>3, <2>1, <2>2, <2>3, <2>4
  <1>7. CASE Finish
    BY <1>1, <1>2, <1>7 DEF Finish, TypeOK
  <1>8. CASE UNCHANGED vars
    BY <1>1, <1>2, <1>8 DEF vars, TypeOK
  <1> QED
    BY <1>4, <1>5, <1>6, <1>7, <1>8, StepCases

\* What a sequence is with one more element.
LEMMA AppendFacts ==
  ASSUME NEW S, NEW d \in Seq(S), NEW x \in S
  PROVE  Append(d, x) = [i \in 1..(Len(d) + 1) |-> IF i = Len(d) + 1 THEN x ELSE d[i]]
  <1> DEFINE more == Append(d, x)
  <1>1. more \in Seq(S) /\ Len(more) = Len(d) + 1
    OBVIOUS
  <1>2. \A i \in 1..(Len(d) + 1) : more[i] = IF i = Len(d) + 1 THEN x ELSE d[i]
    OBVIOUS
  <1>3. more = [i \in 1..Len(more) |-> more[i]]
    <2> HIDE DEF more
    <2> QED
      BY <1>1
  <1> HIDE DEF more
  <1>4. more = [i \in 1..(Len(d) + 1) |-> IF i = Len(d) + 1 THEN x ELSE d[i]]
    BY <1>1, <1>2, <1>3
  <1> QED
    BY <1>4 DEF more

\* A transaction more at the end of an order.
LEMMA OrderExtends ==
  ASSUME NEW X, IsFiniteSet(X), NEW order \in Orders(X), NEW s, s \notin X
  PROVE  /\ Append(order, s) \in Orders(X \cup {s})
         /\ DOMAIN order = 1..Len(order)
         /\ DOMAIN Append(order, s) = 1..(Len(order) + 1) /\ Len(order) \in Nat
         /\ Append(order, s)[Len(order) + 1] = s
         /\ \A i \in 1..Len(order) : Append(order, s)[i] = order[i]
  <1> DEFINE n    == Len(order)
             more == Append(order, s)
             Y    == X \cup {s}
             D    == 1..(n + 1)
  <1>1. order \in Seq(X) /\ n = Cardinality(X) /\ n \in Nat
        /\ order \in Bijection(1..n, X)
    BY OrderFacts
  <1>2. order \in [1..n -> X] /\ (\A i, j \in 1..n : order[i] = order[j] => i = j)
        /\ \A x \in X : \E i \in 1..n : order[i] = x
    BY <1>1 DEF Bijection, Injection, Surjection, IsInjective
  <1>3. order \in Seq(Y) /\ s \in Y
    <2>1. \A i \in 1..n : order[i] \in Y
      BY <1>2
    <2> QED
      BY <1>1, <2>1
  <1>4. /\ more \in Seq(Y) /\ Len(more) = n + 1
        /\ \A i \in 1..n : more[i] = order[i]
        /\ more[n + 1] = s
    BY <1>1, <1>3
  <1>5. more \in [D -> Y] /\ DOMAIN more = D
    <2> HIDE DEF more
    <2> QED
      BY <1>1, <1>4
  <1>6. \A i, j \in D : more[i] = more[j] => i = j
    <2> SUFFICES ASSUME NEW i \in D, NEW j \in D, more[i] = more[j] PROVE i = j
      OBVIOUS
    <2>1. (i \in 1..n \/ i = n + 1) /\ (j \in 1..n \/ j = n + 1)
      BY <1>1
    <2> HIDE DEF more
    <2> QED
      BY <1>2, <1>4, <2>1
  <1>7. \A y \in Y : \E i \in D : more[i] = y
    <2> SUFFICES ASSUME NEW y \in Y PROVE \E i \in D : more[i] = y
      OBVIOUS
    <2>1. CASE y = s
      <3>1. n + 1 \in D
        BY <1>1
      <3> QED
        BY <1>4, <2>1, <3>1
    <2>2. CASE y \in X
      <3>1. PICK i \in 1..n : order[i] = y
        BY <1>2, <2>2
      <3>2. i \in D
        BY <1>1
      <3> QED
        BY <1>4, <3>1, <3>2
    <2> QED
      BY <2>1, <2>2
  <1>8. more \in Bijection(D, Y)
    <2> HIDE DEF more, D, Y
    <2> QED
      BY <1>5, <1>6, <1>7 DEF Bijection, Injection, Surjection, IsInjective
  <1>9. Cardinality(Y) = n + 1
    BY <1>1, FS_AddElement
  <1>10. more \in Orders(Y)
    BY <1>8, <1>9 DEF Orders
  <1> QED
    BY <1>1, <1>2, <1>4, <1>5, <1>10

\* What is said of an endpoint stays when nothing it is about changes.
LEMMA StatsStay ==
  ASSUME NEW e, StatsSoFar(e), UNCHANGED <<endpoint_names, comparator>>,
         Counted \ todo' = Counted \ todo,
         Wins(e) \ todo' = Wins(e) \ todo, SoleWins(e) \ todo' = SoleWins(e) \ todo,
         endpoint_stats'[e].total_observations = endpoint_stats[e].total_observations,
         endpoint_stats'[e].first_detections = endpoint_stats[e].first_detections,
         endpoint_stats'[e].delays_ms = endpoint_stats[e].delays_ms
  PROVE  StatsSoFar(e)'
  <1>1. /\ Counted' = Counted
        /\ \A t : Behind(t, e)' = Behind(t, e)
        /\ Wins(e)' = Wins(e) /\ SoleWins(e)' = SoleWins(e)
    BY ObservationsStay
  <1>2. PICK order \in Orders(Counted \ todo) :
          endpoint_stats[e].delays_ms = [i \in DOMAIN order |-> Behind(order[i], e)]
    BY DEF StatsSoFar
  <1>3. endpoint_stats'[e].delays_ms = [i \in DOMAIN order |-> Behind(order[i], e)']
    BY <1>1, <1>2
  <1>4. order \in Orders((Counted \ todo)')
    BY <1>1
  <1>5. /\ endpoint_stats'[e].total_observations = Cardinality((Counted \ todo)')
        /\ endpoint_stats'[e].first_detections
             \in Cardinality((SoleWins(e) \ todo)')..Cardinality((Wins(e) \ todo)')
    <2>1. /\ endpoint_stats[e].total_observations = Cardinality(Counted \ todo)
          /\ endpoint_stats[e].first_detections
               \in Cardinality(SoleWins(e) \ todo)..Cardinality(Wins(e) \ todo)
      BY DEF StatsSoFar
    <2>2. /\ (Counted \ todo)' = Counted \ todo
          /\ (SoleWins(e) \ todo)' = SoleWins(e) \ todo /\ (Wins(e) \ todo)' = Wins(e) \ todo
      BY <1>1
    <2> QED
      BY <2>1, <2>2
  <1> QED
    BY <1>3, <1>4, <1>5 DEF StatsSoFar

\* A turn that counts nothing, but perhaps backfill.
LEMMA TurnUncounted ==
  ASSUME TypeOK, CountedSoFar, NEW s, Visit(s), s \notin Counted,
         total_signatures' = total_signatures,
         endpoint_names # <<>> =>
           backfill_signatures' = backfill_signatures + (IF s \in Old THEN 1 ELSE 0),
         \A e \in Endpoints :
           /\ endpoint_stats'[e].total_observations = endpoint_stats[e].total_observations
           /\ endpoint_stats'[e].first_detections = endpoint_stats[e].first_detections
           /\ endpoint_stats'[e].delays_ms = endpoint_stats[e].delays_ms
  PROVE  CountedSoFar'
  <1> SUFFICES ASSUME endpoint_names # <<>>
               PROVE  CountedSoFar'
    BY DEF CountedSoFar, Visit
  <1>1. UNCHANGED <<endpoint_names, comparator>>
    BY DEF Visit
  <1>2. /\ Endpoints' = Endpoints
        /\ Counted' = Counted /\ Old' = Old
        /\ \A t, e : Behind(t, e)' = Behind(t, e)
        /\ \A e : Wins(e)' = Wins(e) /\ SoleWins(e)' = SoleWins(e)
    BY <1>1, ObservationsStay
  <1>3. Counted \subseteq Signatures /\ Old \subseteq Signatures
        /\ \A e : Wins(e) \subseteq Counted /\ SoleWins(e) \subseteq Counted
    BY DEF Counted, Old, Wins, SoleWins
  <1>4. Counted \ todo' = Counted \ todo
    BY <1>3, VisitFacts
  <1>5. \A e : Wins(e) \ todo' = Wins(e) \ todo /\ SoleWins(e) \ todo' = SoleWins(e) \ todo
    <2> SUFFICES ASSUME NEW e
                 PROVE  Wins(e) \ todo' = Wins(e) \ todo /\ SoleWins(e) \ todo' = SoleWins(e) \ todo
      OBVIOUS
    <2>1. s \notin Wins(e) /\ s \notin SoleWins(e)
      BY <1>3
    <2> QED
      BY <1>3, <2>1, VisitFacts
  <1>6. Cardinality(Old \ todo') = Cardinality(Old \ todo) + (IF s \in Old THEN 1 ELSE 0)
    <2>1. Cardinality(Old \ todo) \in Nat
      BY <1>3, VisitFacts
    <2>2. CASE s \in Old
      BY <1>3, <2>2, VisitFacts
    <2>3. CASE s \notin Old
      <3>1. Old \ todo' = Old \ todo
        BY <1>3, <2>3, VisitFacts
      <3>2. Cardinality(Old \ todo') = Cardinality(Old \ todo)
        BY <3>1
      <3> QED
        BY <2>1, <2>3, <3>2
    <2> QED
      BY <2>2, <2>3
  <1>7. ASSUME NEW e \in Endpoints
        PROVE  StatsSoFar(e)'
    <2>1. StatsSoFar(e)
      BY <1>7 DEF CountedSoFar
    <2> QED
      BY <1>1, <1>4, <1>5, <2>1, StatsStay
  <1>8. [e \in Endpoints' |-> endpoint_stats'[e].first_detections]
          = [e \in Endpoints |-> endpoint_stats[e].first_detections]
    BY <1>2
  <1> QED
    BY <1>1, <1>2, <1>4, <1>6, <1>7, <1>8 DEF CountedSoFar

\* Every endpoint has the transaction among its wins when it is not behind;
\* only the first one has it when it is the only one.
LEMMA TurnOfEndpoint ==
  ASSUME TypeOK, NEW s, Visit(s), s \in Counted, NEW e \in Endpoints, StatsSoFar(e),
         NEW first \in Endpoints, Behind(s, first) = 0, Behind(s, e) \in Nat,
         endpoint_stats'[e].total_observations = endpoint_stats[e].total_observations + 1,
         endpoint_stats'[e].first_detections
           = endpoint_stats[e].first_detections + (IF e = first THEN 1 ELSE 0),
         endpoint_stats'[e].delays_ms = Append(endpoint_stats[e].delays_ms, Behind(s, e))
  PROVE  StatsSoFar(e)'
  <1>1. UNCHANGED <<endpoint_names, comparator>>
    BY DEF Visit
  <1>2. /\ Counted' = Counted
        /\ \A t : Behind(t, e)' = Behind(t, e)
        /\ Wins(e)' = Wins(e) /\ SoleWins(e)' = SoleWins(e)
    BY <1>1, ObservationsStay
  <1>3. Counted \subseteq Signatures /\ Wins(e) \subseteq Counted /\ SoleWins(e) \subseteq Wins(e)
        /\ Wins(e) \in SUBSET Signatures /\ SoleWins(e) \in SUBSET Signatures
    BY DEF Counted, Wins, SoleWins
  <1>4. /\ IsFiniteSet(Counted \ todo) /\ s \notin Counted \ todo
        /\ Counted \ todo' = (Counted \ todo) \cup {s}
        /\ Cardinality(Counted \ todo') = Cardinality(Counted \ todo) + 1
    BY <1>3, VisitFacts
  <1>5. endpoint_stats'[e].total_observations = Cardinality((Counted \ todo)')
    <2>1. (Counted \ todo)' = Counted \ todo'
      BY <1>2
    <2>2. endpoint_stats[e].total_observations = Cardinality(Counted \ todo)
      BY DEF StatsSoFar
    <2> QED
      BY <1>4, <2>1, <2>2
  <1>6. endpoint_stats'[e].first_detections
          \in Cardinality((SoleWins(e) \ todo)')..Cardinality((Wins(e) \ todo)')
    <2> DEFINE a == Cardinality(SoleWins(e) \ todo)
               b == Cardinality(Wins(e) \ todo)
               f == endpoint_stats[e].first_detections
    <2>1. a \in Nat /\ b \in Nat /\ f \in a..b
      <3>1. a \in Nat /\ b \in Nat
        BY <1>3, VisitFacts
      <3>2. f \in a..b
        BY DEF StatsSoFar
      <3> QED
        BY <3>1, <3>2
    <2>2. Cardinality(Wins(e) \ todo') = b + (IF s \in Wins(e) THEN 1 ELSE 0)
      <3>1. CASE s \in Wins(e)
        BY <1>3, <3>1, VisitFacts
      <3>2. CASE s \notin Wins(e)
        <4>1. Wins(e) \ todo' = Wins(e) \ todo
          BY <1>3, <3>2, VisitFacts
        <4>2. Cardinality(Wins(e) \ todo') = b
          BY <4>1
        <4> HIDE DEF b
        <4> QED
          BY <2>1, <3>2, <4>2
      <3> QED
        BY <3>1, <3>2
    <2>3. Cardinality(SoleWins(e) \ todo') = a + (IF s \in SoleWins(e) THEN 1 ELSE 0)
      <3>1. CASE s \in SoleWins(e)
        BY <1>3, <3>1, VisitFacts
      <3>2. CASE s \notin SoleWins(e)
        <4>1. SoleWins(e) \ todo' = SoleWins(e) \ todo
          BY <1>3, <3>2, VisitFacts
        <4>2. Cardinality(SoleWins(e) \ todo') = a
          BY <4>1
        <4> HIDE DEF a
        <4> QED
          BY <2>1, <3>2, <4>2
      <3> QED
        BY <3>1, <3>2
    <2>4. e = first => s \in Wins(e)
      BY DEF Wins
    <2>5. s \in SoleWins(e) => e = first
      BY DEF SoleWins, Wins
    <2>6. endpoint_stats'[e].first_detections \in Cardinality(SoleWins(e) \ todo')..Cardinality(Wins(e) \ todo')
      <3>1. endpoint_stats'[e].first_detections = f + (IF e = first THEN 1 ELSE 0)
        OBVIOUS
      <3> HIDE DEF a, b, f
      <3> QED
        BY <2>1, <2>2, <2>3, <2>4, <2>5, <3>1
    <2>7. (SoleWins(e) \ todo)' = SoleWins(e) \ todo' /\ (Wins(e) \ todo)' = Wins(e) \ todo'
      BY <1>2
    <2> QED
      BY <2>6, <2>7
  <1>7. PICK order \in Orders(Counted \ todo) :
          endpoint_stats[e].delays_ms = [i \in DOMAIN order |-> Behind(order[i], e)]
    BY DEF StatsSoFar
  <1> DEFINE more == Append(order, s)
             n    == Len(order)
             d    == endpoint_stats[e].delays_ms
  <1>8. /\ more \in Orders(Counted \ todo')
        /\ DOMAIN order = 1..n /\ DOMAIN more = 1..(n + 1) /\ n \in Nat
        /\ more[n + 1] = s
        /\ \A i \in 1..n : more[i] = order[i]
    BY <1>4, OrderExtends
  <1>9. endpoint_stats'[e].delays_ms = [i \in DOMAIN more |-> Behind(more[i], e)']
    <2>1. d \in Seq(Nat) /\ d = [i \in 1..n |-> Behind(order[i], e)] /\ Len(d) = n
      <3>1. d \in Seq(Nat)
        BY DEF TypeOK, EndpointStats
      <3>2. DOMAIN d = 1..n
        BY <1>7, <1>8
      <3> QED
        BY <1>7, <1>8, <3>1, <3>2
    <2>2. endpoint_stats'[e].delays_ms = Append(d, Behind(s, e))
      OBVIOUS
    <2>3. Append(d, Behind(s, e)) = [i \in 1..(n + 1) |-> IF i = n + 1 THEN Behind(s, e) ELSE d[i]]
      BY <2>1, AppendFacts
    <2>4. \A i \in 1..(n + 1) : (IF i = n + 1 THEN Behind(s, e) ELSE d[i]) = Behind(more[i], e)'
      <3> SUFFICES ASSUME NEW i \in 1..(n + 1)
                   PROVE  (IF i = n + 1 THEN Behind(s, e) ELSE d[i]) = Behind(more[i], e)'
        OBVIOUS
      <3>1. CASE i = n + 1
        BY <1>2, <1>8, <3>1
      <3>2. CASE i # n + 1
        <4>1. i \in 1..n
          BY <1>8, <3>2
        <4>2. d[i] = Behind(order[i], e) /\ more[i] = order[i]
          BY <1>8, <2>1, <4>1
        <4> QED
          BY <1>2, <3>2, <4>2
      <3> QED
        BY <3>1, <3>2
    <2> HIDE DEF more, n, d
    <2> QED
      BY <1>8, <2>2, <2>3, <2>4
  <1>10. more \in Orders((Counted \ todo)')
    BY <1>2, <1>8
  <1> HIDE DEF more
  <1> QED
    BY <1>5, <1>6, <1>9, <1>10 DEF StatsSoFar

\* Which transactions are counted, or backfill, or neither.
LEMMA WhatIsCounted ==
  ASSUME TypeOK, endpoint_names # <<>>, NEW s \in Signatures
  PROVE  /\ Partial(DOMAIN comparator[s]) <=> ~SeenByAll(s)
         /\ SeenByAll(s) => /\ DOMAIN comparator[s] = Endpoints
                            /\ DOMAIN comparator[s] # {}
                            /\ IsHistorical(comparator[s]) <=> ~Live(s)
  <1>1. Len(endpoint_names) > 0 /\ Endpoints # {}
    BY NamesAreFinite
  <1>2. SeenByAll(s) => DOMAIN comparator[s] = Endpoints
    BY DataFacts
  <1>3. Partial(DOMAIN comparator[s]) <=> ~SeenByAll(s)
    BY <1>1 DEF Partial, SeenByAll
  <1>4. DOMAIN comparator[s] = Endpoints => (IsHistorical(comparator[s]) <=> ~Live(s))
    BY DEF IsHistorical, Live
  <1> QED
    BY <1>1, <1>2, <1>3, <1>4

LEMMA CountedStep ==
  ASSUME TypeOK, CountedSoFar, [Next]_vars
  PROVE  CountedSoFar'
  <1>1. ASSUME NEW s \in Signatures, SkipPartial(s) \/ SkipUnseen(s) PROVE CountedSoFar'
    <2>1. Visit(s) /\ UNCHANGED <<endpoint_stats, total_signatures, backfill_signatures>>
      BY <1>1 DEF SkipPartial, SkipUnseen
    <2>2. CASE endpoint_names = <<>>
      BY <2>1, <2>2 DEF CountedSoFar, Visit
    <2>3. CASE endpoint_names # <<>>
      <3>1. ~SeenByAll(s)
        BY <1>1, <2>3, WhatIsCounted DEF SkipPartial, SkipUnseen
      <3>2. s \notin Counted /\ s \notin Old
        BY <3>1 DEF Counted, Old
      <3>3. backfill_signatures' = backfill_signatures + (IF s \in Old THEN 1 ELSE 0)
        BY <2>1, <3>2 DEF TypeOK
      <3> QED
        BY <2>1, <3>2, <3>3, TurnUncounted
    <2> QED
      BY <2>2, <2>3
  <1>2. ASSUME NEW s \in Signatures, Backfill(s) PROVE CountedSoFar'
    <2>1. Visit(s) /\ total_signatures' = total_signatures
          /\ backfill_signatures' = backfill_signatures + 1
      BY <1>2 DEF Backfill
    <2>2. CASE endpoint_names = <<>>
      BY <2>1, <2>2 DEF CountedSoFar, Visit
    <2>3. CASE endpoint_names # <<>>
      <3>1. SeenByAll(s) /\ ~Live(s)
        BY <1>2, <2>3, WhatIsCounted DEF Backfill
      <3>2. s \notin Counted /\ s \in Old
        BY <3>1 DEF Counted, Old
      <3>3. ASSUME NEW e \in Endpoints
            PROVE  /\ endpoint_stats'[e].total_observations = endpoint_stats[e].total_observations
                   /\ endpoint_stats'[e].first_detections = endpoint_stats[e].first_detections
                   /\ endpoint_stats'[e].delays_ms = endpoint_stats[e].delays_ms
        <4>1. endpoint_stats[e] \in EndpointStats
          BY DEF TypeOK
        <4>2. endpoint_stats'[e] = endpoint_stats[e]
              \/ endpoint_stats'[e] = [endpoint_stats[e] EXCEPT !.backfill_transactions = @ + 1]
          BY <1>2 DEF Backfill
        <4> QED
          BY <4>1, <4>2 DEF EndpointStats
      <3> QED
        BY <2>1, <3>2, <3>3, TurnUncounted
    <2> QED
      BY <2>2, <2>3
  <1>3. ASSUME NEW s \in Signatures, NEW order \in Orders(DOMAIN comparator[s]), Count(s, order)
        PROVE  CountedSoFar'
    <2>1. Visit(s) /\ total_signatures' = total_signatures + 1
          /\ backfill_signatures' = backfill_signatures
      BY <1>3 DEF Count
    <2>2. CASE endpoint_names = <<>>
      BY <2>1, <2>2 DEF CountedSoFar, Visit
    <2>3. CASE endpoint_names # <<>>
      <3>1. SeenByAll(s) /\ Live(s) /\ DOMAIN comparator[s] = Endpoints
        BY <1>3, <2>3, WhatIsCounted DEF Count
      <3>2. s \in Counted /\ s \notin Old
        BY <3>1 DEF Counted, Old
      <3>3. PICK first \in DOMAIN comparator[s] :
              /\ Behind(s, first) = 0
              /\ \A e \in DOMAIN comparator[s] :
                /\ Behind(s, e) \in Nat
                /\ endpoint_stats'[e].total_observations = endpoint_stats[e].total_observations + 1
                /\ endpoint_stats'[e].first_detections
                     = endpoint_stats[e].first_detections + (IF e = first THEN 1 ELSE 0)
                /\ endpoint_stats'[e].delays_ms = Append(endpoint_stats[e].delays_ms, Behind(s, e))
        BY <1>3, StatsStep
      <3>4. first \in Endpoints
        BY <3>1, <3>3
      <3>5. UNCHANGED <<endpoint_names, comparator>>
        BY <2>1 DEF Visit
      <3>6. Endpoints' = Endpoints /\ Counted' = Counted /\ Old' = Old
        BY <3>5, ObservationsStay
      <3>7. ASSUME NEW e \in Endpoints PROVE StatsSoFar(e)'
        <4>1. StatsSoFar(e)
          BY <2>3 DEF CountedSoFar
        <4> QED
          BY <2>1, <3>1, <3>2, <3>3, <3>4, <4>1, TurnOfEndpoint
      <3>8. Counted \in SUBSET Signatures /\ Old \in SUBSET Signatures
        BY DEF Counted, Old
      <3>9. total_signatures' = Cardinality((Counted \ todo)')
        <4>1. total_signatures = Cardinality(Counted \ todo)
          BY <2>3 DEF CountedSoFar
        <4>2. Cardinality(Counted \ todo') = Cardinality(Counted \ todo) + 1
          BY <2>1, <3>2, <3>8, VisitFacts
        <4>3. (Counted \ todo)' = Counted \ todo'
          BY <3>6
        <4> QED
          BY <2>1, <4>1, <4>2, <4>3
      <3>10. backfill_signatures' = Cardinality((Old \ todo)')
        <4>1. backfill_signatures = Cardinality(Old \ todo)
          BY <2>3 DEF CountedSoFar
        <4>2. Old \ todo' = Old \ todo
          BY <2>1, <3>2, <3>8, VisitFacts
        <4>3. (Old \ todo)' = Old \ todo
          BY <3>6, <4>2
        <4> QED
          BY <2>1, <4>1, <4>3
      <3>11. Cardinality(Credits([e \in Endpoints |-> endpoint_stats[e].first_detections])')
               = total_signatures'
        <4> DEFINE f == [e \in Endpoints |-> endpoint_stats[e].first_detections]
                   g == [e \in Endpoints |-> endpoint_stats'[e].first_detections]
        <4>1. f \in [Endpoints -> Nat]
          BY DEF TypeOK, EndpointStats
        <4>2. \A e \in Endpoints : g[e] = f[e] + (IF e = first THEN 1 ELSE 0)
          BY <3>1, <3>3
        <4>3. g \in [Endpoints -> Nat] /\ g[first] = f[first] + 1
              /\ \A e \in Endpoints \ {first} : g[e] = f[e]
          <5>1. DOMAIN g = Endpoints /\ g = [e \in Endpoints |-> g[e]]
            OBVIOUS
          <5> HIDE DEF f, g
          <5>2. \A e \in Endpoints : g[e] \in Nat
            BY <4>1, <4>2
          <5>3. g[first] = f[first] + 1
            BY <3>4, <4>2
          <5>4. \A e \in Endpoints \ {first} : g[e] = f[e]
            BY <4>1, <4>2
          <5> QED
            BY <5>1, <5>2, <5>3, <5>4
        <4>4. Cardinality(Credits(g)) = Cardinality(Credits(f)) + 1
          <5>1. IsFiniteSet(Endpoints)
            BY NamesAreFinite
          <5> HIDE DEF f, g
          <5> QED
            BY <3>4, <4>1, <4>3, <5>1, OneMoreCredit
        <4>5. Cardinality(Credits(f)) = total_signatures
          BY <2>3 DEF CountedSoFar
        <4>6. [e \in Endpoints |-> endpoint_stats[e].first_detections]' = g
          BY <3>6
        <4> QED
          BY <2>1, <4>4, <4>5, <4>6
      <3> QED
        BY <3>6, <3>7, <3>9, <3>10, <3>11 DEF CountedSoFar
    <2> QED
      BY <2>2, <2>3
  <1>4. CASE Finish \/ UNCHANGED vars
    <2>1. UNCHANGED <<endpoint_names, comparator>>
          /\ UNCHANGED <<todo, endpoint_stats, total_signatures, backfill_signatures>>
      BY <1>4 DEF Finish, vars
    <2>2. Endpoints' = Endpoints /\ Counted' = Counted /\ Old' = Old
      BY <2>1, ObservationsStay
    <2>3. ASSUME NEW e, StatsSoFar(e) PROVE StatsSoFar(e)'
      BY <2>1, <2>3, StatsStay
    <2> QED
      BY <2>1, <2>2, <2>3 DEF CountedSoFar
  <1> QED
    BY <1>1, <1>2, <1>3, <1>4, StepCases

\* The statistics have their last turn before they are summed up.
LEMMA EndStep ==
  ASSUME TypeOK, SummaryIsOfTheEnd, [Next]_vars
  PROVE  SummaryIsOfTheEnd'
  <1>1. ASSUME NEW s, Visit(s) PROVE SummaryIsOfTheEnd'
    BY <1>1 DEF Visit, SummaryIsOfTheEnd
  <1>2. ASSUME UNCHANGED <<endpoint_names, comparator, todo, endpoint_stats,
                           total_signatures, backfill_signatures, overall_delays>>
        PROVE  Results' = Results /\ todo' = todo
    <2>1. Endpoints' = Endpoints
      BY <1>2 DEF Endpoints
    <2>2. \A e : BuildSummary(e)' = BuildSummary(e)
      BY <1>2 DEF BuildSummary
    <2>3. {BuildSummary(e) : e \in Endpoints}' = {BuildSummary(e) : e \in Endpoints}
      BY <2>1, <2>2
    <2> QED
      BY <1>2, <2>3 DEF Results
  <1>3. CASE Finish
    BY <1>2, <1>3 DEF Finish, SummaryIsOfTheEnd
  <1>4. CASE UNCHANGED vars
    BY <1>2, <1>4 DEF vars, SummaryIsOfTheEnd
  <1> QED
    BY <1>1, <1>3, <1>4, StepCases DEF SkipPartial, Backfill, SkipUnseen, Count

\* What holds of the loop and of the summary, without what follows from it.
LoopInv == TypeOK /\ CountedSoFar /\ SummaryIsOfTheEnd

LEMMA LoopInit == Init => LoopInv
  <1> SUFFICES ASSUME Init PROVE LoopInv
    OBVIOUS
  <1>1. TypeOK
    <2>1. NoStats \in EndpointStats
      BY DEF NoStats, EndpointStats
    <2> QED
      BY <2>1 DEF Init, TypeOK
  <1>2. CountedSoFar
    <2>1. /\ Counted \ todo = {} /\ Old \ todo = {}
          /\ \A e : Wins(e) \ todo = {} /\ SoleWins(e) \ todo = {}
      BY DEF Init, Counted, Old, Wins, SoleWins
    <2>2. Cardinality({}) = 0
      BY FS_EmptySet
    <2>3. \A e \in Endpoints : endpoint_stats[e] = NoStats
      BY DEF Init
    <2>4. ASSUME NEW e \in Endpoints PROVE StatsSoFar(e)
      <3> DEFINE none == [i \in {} |-> i]
      <3>1. none \in Orders({})
        <4>1. 1..0 = {}
          OBVIOUS
        <4>2. none \in Bijection({}, {})
          BY DEF Bijection, Injection, Surjection, IsInjective
        <4> QED
          BY <2>2, <4>1, <4>2 DEF Orders
      <3>2. endpoint_stats[e].delays_ms = [i \in DOMAIN none |-> Behind(none[i], e)]
        <4>1. endpoint_stats[e].delays_ms = <<>>
          BY <2>3 DEF NoStats
        <4>2. DOMAIN none = {}
          OBVIOUS
        <4> HIDE DEF none
        <4> QED
          BY <4>1, <4>2
      <3>3. endpoint_stats[e].total_observations = 0 /\ endpoint_stats[e].first_detections = 0
        BY <2>3 DEF NoStats
      <3> HIDE DEF none
      <3> QED
        BY <2>1, <2>2, <3>1, <3>2, <3>3 DEF StatsSoFar
    <2>5. Credits([e \in Endpoints |-> endpoint_stats[e].first_detections]) = {}
      <3>1. \A e \in Endpoints : endpoint_stats[e].first_detections = 0
        BY <2>3 DEF NoStats
      <3> QED
        BY <3>1 DEF Credits
    <2> QED
      BY <2>1, <2>2, <2>4, <2>5 DEF Init, CountedSoFar
  <1>3. SummaryIsOfTheEnd
    BY DEF Init, SummaryIsOfTheEnd
  <1> QED
    BY <1>1, <1>2, <1>3 DEF LoopInv

LEMMA LoopStep == LoopInv /\ [Next]_vars => LoopInv'
  BY TypeStep, CountedStep, EndStep DEF LoopInv

\* What a returned summary is.
LEMMA SummaryFacts ==
  ASSUME LoopInv, endpoint_names # <<>>, NEW r \in Range(summary)
  PROVE  /\ r = Results
         /\ r.endpoints = {BuildSummary(e) : e \in Endpoints}
         /\ total_signatures = Cardinality(Counted)
         /\ backfill_signatures = Cardinality(Old)
         /\ Cardinality(Credits([e \in Endpoints |-> endpoint_stats[e].first_detections]))
              = total_signatures
         /\ \A e \in Endpoints :
              /\ endpoint_stats[e].total_observations = Cardinality(Counted)
              /\ endpoint_stats[e].first_detections
                   \in Cardinality(SoleWins(e))..Cardinality(Wins(e))
              /\ \E order \in Orders(Counted) :
                   endpoint_stats[e].delays_ms = [i \in DOMAIN order |-> Behind(order[i], e)]
  <1>1. summary # <<>>
    BY DEF Range
  <1>2. todo = {} /\ summary = <<Results>>
    BY <1>1 DEF LoopInv, SummaryIsOfTheEnd
  <1>3. r = Results
    BY <1>2 DEF Range
  <1>4. r.endpoints = {BuildSummary(e) : e \in Endpoints}
    BY <1>3 DEF Results
  <1>5. Counted \ todo = Counted /\ Old \ todo = Old
        /\ \A e : Wins(e) \ todo = Wins(e) /\ SoleWins(e) \ todo = SoleWins(e)
    BY <1>2
  <1> QED
    BY <1>3, <1>4, <1>5 DEF LoopInv, CountedSoFar, StatsSoFar

LEMMA SumsAreRight ==
  ASSUME LoopInv
  PROVE  FirstsAddUp
  <1> SUFFICES ASSUME NEW r \in Range(summary), endpoint_names # <<>>
               PROVE  LET report == MetricsReport(r)
                      IN /\ Cardinality(Credits([e \in DOMAIN report.per_endpoint |->
                               report.per_endpoint[e].firsts])) = report.total_signatures
                         /\ report.total_signatures + report.backfill_signatures
                              = Cardinality({s \in Signatures : SeenByAll(s)})
    BY DEF FirstsAddUp
  <1> DEFINE per == MetricsReport(r).per_endpoint
  <1>1. r.endpoints = {BuildSummary(e) : e \in Endpoints} /\ r = Results
    BY SummaryFacts
  <1>2. \A e \in Endpoints : BuildSummary(e).name = e
                             /\ BuildSummary(e).firsts = endpoint_stats[e].first_detections
    BY DEF BuildSummary
  <1>3. DOMAIN per = Endpoints
    BY <1>1, <1>2 DEF MetricsReport
  <1>4. \A e \in Endpoints : per[e] = BuildSummary(e)
    BY <1>1, <1>2 DEF MetricsReport
  <1>5. MetricsReport(r).total_signatures = total_signatures
        /\ MetricsReport(r).backfill_signatures = backfill_signatures
    BY <1>1 DEF MetricsReport, Results
  <1>6. [e \in DOMAIN per |-> per[e].firsts] = [e \in Endpoints |-> endpoint_stats[e].first_detections]
    <2> HIDE DEF per
    <2> QED
      BY <1>2, <1>3, <1>4
  <1>7. total_signatures + backfill_signatures = Cardinality({s \in Signatures : SeenByAll(s)})
    <2> DEFINE seen == {s \in Signatures : SeenByAll(s)}
    <2>1. Counted \cup Old = seen /\ Counted \cap Old = {}
      BY DEF Counted, Old
    <2>2. Counted \in SUBSET Signatures /\ Old \in SUBSET Signatures
      BY DEF Counted, Old
    <2>3. IsFiniteSet(Counted) /\ IsFiniteSet(Old)
      BY <2>2, SummaryAssumption, FS_Subset
    <2>4. Cardinality(Counted) \in Nat /\ Cardinality(Old) \in Nat
      BY <2>3, FS_CardinalityType
    <2>5. Cardinality(Counted \cup Old) = Cardinality(Counted) + Cardinality(Old) - Cardinality(Counted \cap Old)
      BY <2>3, FS_Union
    <2>6. Cardinality(Counted \cap Old) = 0
      BY <2>1, FS_EmptySet
    <2>7. total_signatures = Cardinality(Counted) /\ backfill_signatures = Cardinality(Old)
      BY SummaryFacts
    <2> HIDE DEF seen
    <2>8. Cardinality(seen) = Cardinality(Counted) + Cardinality(Old)
      <3> DEFINE c == Cardinality(Counted)
                 o == Cardinality(Old)
                 b == Cardinality(Counted \cap Old)
      <3>1. Cardinality(seen) = c + o - b
        BY <2>1, <2>5
      <3>2. c \in Nat /\ o \in Nat /\ b = 0
        BY <2>4, <2>6
      <3> HIDE DEF c, o, b
      <3>3. c + o - b = c + o
        BY <3>2
      <3>4. Cardinality(seen) = c + o
        BY <3>1, <3>3
      <3> QED
        BY <3>4 DEF c, o
    <2>9. total_signatures + backfill_signatures = Cardinality(seen)
      BY <2>7, <2>8
    <2> QED
      BY <2>9 DEF seen
  <1>8. Cardinality(Credits([e \in Endpoints |-> endpoint_stats[e].first_detections])) = total_signatures
    BY SummaryFacts
  <1> QED
    BY <1>5, <1>6, <1>7, <1>8

\* Throughout a summary, the counts are of the transactions visited: of each
\* endpoint, what all saw live; of all endpoints, one first detection each;
\* and what is returned is of the last turn and adds up.  So the order in
\* which the maps yield their entries never shows in a count.
THEOREM SummaryInvariant == Spec => []SummaryInv
  <1>1. LoopInv => SummaryInv
    BY SumsAreRight DEF LoopInv, SummaryInv
  <1> QED
    BY <1>1, LoopInit, LoopStep, PTL DEF Spec

(***************************************************************************)
(* The results.                                                            *)
(***************************************************************************)

\* The delays of an endpoint are of the counted transactions, so each
\* percentile of the delays is one of theirs.
LEMMA DelaysAreRanked ==
  ASSUME LoopInv, endpoint_names # <<>>, NEW r \in Range(summary), NEW e \in Endpoints,
         NEW d \in Range(BuildSummary(e).delays), NEW p \in DOMAIN d
  PROVE  IsPercentile([s \in Counted |-> Behind(s, e)], p, d[p])
  <1> DEFINE data == endpoint_stats[e].delays_ms
             f    == [s \in Counted |-> Behind(s, e)]
             ps   == {50, 95, 99}
  <1>1. data \in Seq(Nat)
    BY DEF LoopInv, TypeOK, EndpointStats
  <1>2. data \in Seq(Int)
    <2> HIDE DEF data
    <2> QED
      BY <1>1
  <1>3. PICK order \in Orders(Counted) : data = [i \in DOMAIN order |-> Behind(order[i], e)]
    BY SummaryFacts
  <1>4. IsFiniteSet(Counted)
    <2>1. Counted \in SUBSET Signatures
      BY DEF Counted
    <2> QED
      BY <2>1, SummaryAssumption, FS_Subset
  <1>5. order \in Seq(Counted) /\ order \in Bijection(1..Len(order), Counted)
        /\ \A s \in Counted : \E i \in 1..Len(order) : order[i] = s
    BY <1>4, OrderFacts
  <1> DEFINE n == Len(order)
  <1>6. DOMAIN order = 1..n /\ n \in Nat /\ (\A i \in 1..n : order[i] \in Counted)
    BY <1>5
  <1>7. DOMAIN data = 1..n /\ Len(data) = n /\ \A i \in 1..n : data[i] = Behind(order[i], e)
    <2>1. DOMAIN data = 1..n /\ \A i \in 1..n : data[i] = Behind(order[i], e)
      BY <1>3, <1>6
    <2> HIDE DEF data, n
    <2> QED
      BY <1>1, <1>6, <2>1
  <1>8. \A i \in 1..n : data[i] = f[order[i]]
    BY <1>6, <1>7
  <1>9. f \in [Counted -> Int]
    <2>1. ASSUME NEW s \in Counted PROVE Behind(s, e) \in Int
      <3>1. PICK i \in 1..n : order[i] = s
        BY <1>5
      <3>2. data[i] \in Int
        <4> HIDE DEF data, n
        <4> QED
          BY <1>2, <1>7
      <3> QED
        BY <1>7, <3>1, <3>2
    <2> QED
      BY <2>1
  <1>10. data # <<>> /\ d = [q \in ps |-> Percentile(Sorted(data), q)]
    <2>1. BuildSummary(e).delays
            = IF data = <<>> THEN <<>> ELSE <<[q \in ps |-> Percentile(Sorted(data), q)]>>
      BY DEF BuildSummary, Percentiles
    <2> HIDE DEF data
    <2> QED
      BY <2>1 DEF Range
  <1>11. p \in ps /\ d[p] = Percentile(Sorted(data), p)
    BY <1>10
  <1>12. order \in Bijection(1..Len(data), Counted) /\ \A i \in 1..Len(data) : data[i] = f[order[i]]
    BY <1>5, <1>7, <1>8
  <1>13. p \in 0..100
    BY <1>11
  <1> HIDE DEF data, f, ps
  <1>14. IsPercentile(f, p, Percentile(Sorted(data), p))
    BY <1>2, <1>9, <1>10, <1>12, <1>13, PercentileIsRight
  <1> QED
    BY <1>11, <1>14 DEF f

\* The summary is what the observations say it is, whatever order the
\* concurrent map yields them in: the transactions every endpoint saw live are
\* the ones that count, every percentile is one of their delays behind the
\* first, and ties for the first place are somebody's.
THEOREM SummaryIsRight == Spec => []SummaryMatchesObservations
  <1>1. ASSUME LoopInv PROVE SummaryMatchesObservations
    <2> SUFFICES ASSUME NEW r \in Range(summary), endpoint_names # <<>>
                 PROVE  /\ r.total_signatures = Cardinality(Counted)
                        /\ \A e \in r.endpoints :
                             /\ e.valid = Cardinality(Counted)
                             /\ e.firsts \in Cardinality(SoleWins(e.name))..Cardinality(Wins(e.name))
                             /\ \A d \in Range(e.delays) : \A p \in DOMAIN d :
                                  IsPercentile([s \in Counted |-> Behind(s, e.name)], p, d[p])
      BY DEF SummaryMatchesObservations
    <2>1. r.total_signatures = Cardinality(Counted)
      <3>1. r = Results /\ total_signatures = Cardinality(Counted)
        BY <1>1, SummaryFacts
      <3>2. Results.total_signatures = total_signatures
        BY DEF Results
      <3> QED
        BY <3>1, <3>2
    <2>2. ASSUME NEW e \in r.endpoints
          PROVE  /\ e.valid = Cardinality(Counted)
                 /\ e.firsts \in Cardinality(SoleWins(e.name))..Cardinality(Wins(e.name))
                 /\ \A d \in Range(e.delays) : \A p \in DOMAIN d :
                      IsPercentile([s \in Counted |-> Behind(s, e.name)], p, d[p])
      <3>1. PICK name \in Endpoints : e = BuildSummary(name)
        BY <1>1, SummaryFacts
      <3>2. /\ e.name = name
            /\ e.valid = endpoint_stats[name].total_observations
            /\ e.firsts = endpoint_stats[name].first_detections
        BY <3>1 DEF BuildSummary
      <3>3. /\ endpoint_stats[name].total_observations = Cardinality(Counted)
            /\ endpoint_stats[name].first_detections
                 \in Cardinality(SoleWins(name))..Cardinality(Wins(name))
        BY <1>1, SummaryFacts
      <3>4. \A d \in Range(e.delays) : \A p \in DOMAIN d :
              IsPercentile([s \in Counted |-> Behind(s, name)], p, d[p])
        BY <1>1, <3>1, DelaysAreRanked
      <3> QED
        BY <3>2, <3>3, <3>4
    <2> QED
      BY <2>1, <2>2
  <1> QED
    BY <1>1, LoopInit, LoopStep, PTL DEF Spec

(***************************************************************************)
(* The table.                                                              *)
(***************************************************************************)

\* With data, every endpoint has delays, and so a median.
LEMMA EveryoneHasAMedian ==
  ASSUME LoopInv, endpoint_names # <<>>, NEW r \in Range(summary), r.has_data,
         NEW e \in Endpoints
  PROVE  /\ BuildSummary(e).name = e
         /\ BuildSummary(e).valid > 0
         /\ BuildSummary(e).delays # <<>>
         /\ BuildSummary(e).delays[1][50] \in Int
  <1> DEFINE data == endpoint_stats[e].delays_ms
             ps   == {50, 95, 99}
             d    == [q \in ps |-> Percentile(Sorted(data), q)]
  <1>1. total_signatures > 0
    <2>1. r = Results
      BY SummaryFacts
    <2>2. Results.has_data = (total_signatures > 0)
      BY DEF Results
    <2> QED
      BY <2>1, <2>2
  <1>2. total_signatures \in Nat /\ total_signatures = Cardinality(Counted)
        /\ endpoint_stats[e].total_observations = Cardinality(Counted)
    BY SummaryFacts DEF LoopInv, TypeOK
  <1>3. IsFiniteSet(Counted)
    <2>1. Counted \in SUBSET Signatures
      BY DEF Counted
    <2> QED
      BY <2>1, SummaryAssumption, FS_Subset
  <1>4. PICK order \in Orders(Counted) : data = [i \in DOMAIN order |-> Behind(order[i], e)]
    BY SummaryFacts
  <1>5. order \in Seq(Counted) /\ Len(order) = Cardinality(Counted)
    BY <1>3, OrderFacts
  <1>6. data \in Seq(Int)
    <2>1. data \in Seq(Nat)
      BY DEF LoopInv, TypeOK, EndpointStats
    <2> HIDE DEF data
    <2> QED
      BY <2>1
  <1>7. data # <<>>
    <2>1. DOMAIN order = 1..Len(order) /\ 1 \in DOMAIN order
      BY <1>1, <1>2, <1>5
    <2>2. 1 \in DOMAIN data
      BY <1>4, <2>1
    <2> HIDE DEF data
    <2> QED
      BY <2>2
  <1>8. BuildSummary(e).delays = <<d>>
    <2>1. BuildSummary(e).delays = IF data = <<>> THEN <<>> ELSE <<d>>
      BY DEF BuildSummary, Percentiles
    <2> HIDE DEF data
    <2> QED
      BY <1>7, <2>1
  <1>9. d[50] \in Int
    <2>1. d[50] = Percentile(Sorted(data), 50)
      OBVIOUS
    <2> DEFINE n == Len(data)
    <2> HIDE DEF data
    <2>2. n \in Nat \ {0} /\ Sorted(data) \in Seq(Int) /\ Len(Sorted(data)) = n
      BY <1>6, <1>7, SortedFacts
    <2>3. Rank(50, n) \in 0..(n - 1)
      <3> HIDE DEF n
      <3> QED
        BY <2>2, RankInBounds
    <2>4. PICK k \in 1..n : k = Rank(50, n) + 1
      <3> HIDE DEF n
      <3> QED
        BY <2>2, <2>3
    <2>5. Percentile(Sorted(data), 50) = Sorted(data)[k]
      BY <2>2, <2>4 DEF Percentile
    <2> QED
      BY <2>1, <2>2, <2>5
  <1>10. BuildSummary(e).name = e /\ BuildSummary(e).valid = endpoint_stats[e].total_observations
    BY DEF BuildSummary
  <1> HIDE DEF d
  <1> QED
    BY <1>1, <1>2, <1>8, <1>9, <1>10

\* Summaries with a median are ordered by it and then by their names.
LEMMA LatencyOrder ==
  ASSUME NEW x, x.delays # <<>>, NEW y, y.delays # <<>>
  PROVE  LowerLatency(x, y) <=>
           \/ x.delays[1][50] < y.delays[1][50]
           \/ x.delays[1][50] = y.delays[1][50] /\ x.name < y.name
  BY DEF LowerLatency, SmallerMedian, SameMedian

\* What display_run_summary marks as fastest is what its table puts first,
\* though one comes of a minimum over the endpoints and the other of a sort.
THEOREM FastestFirst == Spec => []FastestHeadsTheTable
  <1>1. ASSUME LoopInv PROVE FastestHeadsTheTable
    <2> SUFFICES ASSUME NEW r \in Range(summary), r.has_data, endpoint_names # <<>>
                 PROVE  /\ {i \in DOMAIN Rows(r) : Marked(r, Rows(r)[i])} = {1}
                        /\ \A i \in 2..Len(Rows(r)) :
                             Rows(r)[i - 1].delays[1][50] <= Rows(r)[i].delays[1][50]
      BY DEF FastestHeadsTheTable
    <2> DEFINE S == r.endpoints
               n == Cardinality(S)
               D == 1..n
               before == [x \in S |-> {y \in S : LowerLatency(y, x)}]
    <2>1. S = {BuildSummary(e) : e \in Endpoints} /\ r = Results
      BY <1>1, SummaryFacts
    <2>2. \A x \in S : /\ x.name \in Nat /\ x = BuildSummary(x.name)
                       /\ x.valid > 0 /\ x.delays # <<>> /\ x.delays[1][50] \in Int
      <3> SUFFICES ASSUME NEW e \in Endpoints
                   PROVE  LET x == BuildSummary(e)
                          IN /\ x.name \in Nat /\ x = BuildSummary(x.name)
                             /\ x.valid > 0 /\ x.delays # <<>> /\ x.delays[1][50] \in Int
        BY <2>1
      <3>1. e \in Nat
        BY <1>1, NamesAreFinite DEF LoopInv
      <3> QED
        BY <1>1, <3>1, EveryoneHasAMedian
    <2>3. \A x, y \in S : x.name = y.name => x = y
      BY <2>2
    <2>4. IsFiniteSet(S) /\ S # {}
      <3> DEFINE build == [e \in Endpoints |-> BuildSummary(e)]
      <3>1. build \in Surjection(Endpoints, S)
        BY <2>1 DEF Surjection
      <3>2. IsFiniteSet(Endpoints) /\ Endpoints # {}
        BY <1>1, NamesAreFinite DEF LoopInv
      <3>3. IsFiniteSet(S)
        <4> HIDE DEF build, S
        <4> QED
          BY <3>1, <3>2, FS_Surjection
      <3> QED
        BY <2>1, <3>2, <3>3
    <2> HIDE DEF S
    <2>5. \A x, y \in S : LowerLatency(x, y) <=>
             \/ x.delays[1][50] < y.delays[1][50]
             \/ x.delays[1][50] = y.delays[1][50] /\ x.name < y.name
      BY <2>2, LatencyOrder
    <2>6. n \in Nat \ {0}
      BY <2>4, FS_CardinalityType, FS_EmptySet
    <2>7. /\ before \in [S -> SUBSET S]
          /\ \A x \in S : x \notin before[x]
          /\ \A x, y \in S : y \in before[x] => before[y] \subseteq before[x]
          /\ \A x, y \in S : x # y => x \in before[y] \/ y \in before[x]
      <3>1. before \in [S -> SUBSET S]
        OBVIOUS
      <3>2. \A x \in S : ~LowerLatency(x, x)
        BY <2>2, <2>5
      <3>3. \A x, y, z \in S : LowerLatency(x, y) /\ LowerLatency(y, z) => LowerLatency(x, z)
        BY <2>2, <2>5
      <3>4. \A x, y \in S : x # y => LowerLatency(x, y) \/ LowerLatency(y, x)
        <4>1. \A x, y \in S : x # y => x.name # y.name
          BY <2>3
        <4> QED
          BY <2>2, <2>5, <4>1
      <3> QED
        BY <3>1, <3>2, <3>3, <3>4
    <2>8. \E rows \in Bijection(D, S) : \A i, j \in D : i < j => rows[j] \notin before[rows[i]]
      <3> HIDE DEF before
      <3> QED
        BY <2>4, <2>7, AnOrderExists
    <2>9. \E rows \in Orders(S) : InOrder(rows)
      <3>1. PICK rows \in Bijection(D, S) : \A i, j \in D : i < j => rows[j] \notin before[rows[i]]
        BY <2>8
      <3>2. DOMAIN rows = D /\ \A i \in D : rows[i] \in S
        <4> HIDE DEF D
        <4> QED
          BY DEF Bijection, Injection
      <3>3. InOrder(rows)
        BY <3>1, <3>2 DEF InOrder
      <3> QED
        BY <3>1, <3>3 DEF Orders
    <2> DEFINE rows == Rows(r)
    <2>10. rows \in Orders(S) /\ InOrder(rows)
      BY <2>9 DEF Rows, S
    <2> HIDE DEF rows
    <2>11. /\ DOMAIN rows = D /\ Len(rows) = n
           /\ \A i \in D : rows[i] \in S
           /\ \A i, j \in D : rows[i] = rows[j] => i = j
           /\ \A x \in S : \E i \in D : rows[i] = x
      <3>1. rows \in Bijection(D, S) /\ rows \in Seq(S) /\ Len(rows) = n
        BY <2>4, <2>10, OrderFacts DEF Orders
      <3>2. rows \in [D -> S] /\ (\A i, j \in D : rows[i] = rows[j] => i = j)
            /\ \A x \in S : \E i \in D : rows[i] = x
        <4> HIDE DEF D
        <4> QED
          BY <3>1 DEF Bijection, Injection, Surjection, IsInjective
      <3> QED
        BY <3>1, <3>2
    <2>12. \A i, j \in D : i < j => ~LowerLatency(rows[j], rows[i])
      BY <2>10, <2>11 DEF InOrder
    <2>13. 1 \in D
      BY <2>6
    <2>14. \A x \in S : ~LowerLatency(x, rows[1])
      <3> SUFFICES ASSUME NEW x \in S, LowerLatency(x, rows[1]) PROVE FALSE
        OBVIOUS
      <3>1. PICK i \in D : rows[i] = x
        BY <2>11
      <3>2. CASE i = 1
        BY <2>2, <2>5, <3>1, <3>2
      <3>3. CASE i # 1
        <4>1. 1 < i
          BY <2>6, <3>3
        <4> QED
          BY <2>12, <2>13, <3>1, <4>1
      <3> QED
        BY <3>2, <3>3
    <2>15. \A x \in S : (\A y \in S : ~LowerLatency(y, x)) => x = rows[1]
      <3> SUFFICES ASSUME NEW x \in S, \A y \in S : ~LowerLatency(y, x), x # rows[1] PROVE FALSE
        OBVIOUS
      <3>1. rows[1] \in S
        BY <2>11, <2>13
      <3>2. ~LowerLatency(rows[1], x) /\ ~LowerLatency(x, rows[1])
        BY <2>14, <3>1
      <3> QED
        BY <2>7, <3>1, <3>2
    <2>16. Fastest(S) = <<rows[1].name>>
      <3>1. {e \in S : e.valid > 0} = S
        BY <2>2
      <3>2. (CHOOSE f \in S : \A g \in S : ~LowerLatency(g, f)) = rows[1]
        BY <2>11, <2>13, <2>14, <2>15
      <3> QED
        BY <2>4, <3>1, <3>2 DEF Fastest
    <2>17. r.fastest_endpoint = <<rows[1].name>>
      BY <2>1, <2>16 DEF Results, S
    <2>18. \A i \in D : Marked(r, rows[i]) <=> i = 1
      <3>1. \A i \in D : <<rows[1].name>> = <<rows[i].name>> <=> rows[1].name = rows[i].name
        OBVIOUS
      <3> QED
        BY <2>3, <2>11, <2>13, <2>17, <3>1 DEF Marked
    <2>19. {i \in DOMAIN rows : Marked(r, rows[i])} = {1}
      BY <2>11, <2>13, <2>18
    <2>20. ASSUME NEW i \in 2..Len(rows)
           PROVE  rows[i - 1].delays[1][50] <= rows[i].delays[1][50]
      <3>1. i \in D /\ i - 1 \in D /\ i - 1 < i
        BY <2>6, <2>11
      <3>2. ~LowerLatency(rows[i], rows[i - 1]) /\ rows[i] \in S /\ rows[i - 1] \in S
        BY <2>11, <2>12, <3>1
      <3> QED
        BY <2>2, <2>5, <3>2
    <2> QED
      BY <2>19, <2>20 DEF rows
  <1> QED
    BY <1>1, LoopInit, LoopStep, PTL DEF Spec
=============================================================================

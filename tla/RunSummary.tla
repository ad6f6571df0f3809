------------------------------ MODULE RunSummary ------------------------------
(***************************************************************************)
(* src/src/analysis.rs: compute_run_summary, which turns what the          *)
(* Comparator has collected of every provider into the results of a run,   *)
(* and the two renderings of these.  The Comparator is a concurrent map    *)
(* that yields its entries, and each entry its observations, in any order; *)
(* one turn of the loop over it is one action.                             *)
(*                                                                         *)
(* Nothing in the repository calls compute_run_summary.  The providers are *)
(* all that write to a Comparator, each under its endpoint's name, and the *)
(* caller is taken to list these: an observation is of a listed endpoint   *)
(* and finds its statistics, so the misses of get_mut are not modelled.    *)
(*                                                                         *)
(* An endpoint name is its position in the alphabetical order of names.    *)
(* Times are milliseconds, and None is the empty sequence.                 *)
(***************************************************************************)
EXTENDS Percentiles, HashMaps

CONSTANTS
  Signatures,  \* keys of the Comparator
  NameLists,   \* what endpoint_names may be
  Observations \* what an endpoint may have recorded of a signature

ASSUME SummaryAssumption ==
  /\ IsFiniteSet(Signatures)
  /\ NameLists \subseteq Seq(Nat)
  /\ IsFiniteSet(Observations)
  /\ Observations \subseteq [elapsed : Nat, historical : BOOLEAN]

VARIABLES
  endpoint_names,
  comparator,           \* signature -> endpoint -> its observation
  todo,                 \* signatures the loop has yet to visit
  endpoint_stats,       \* endpoint -> EndpointStats
  total_signatures,
  backfill_signatures,
  overall_delays,
  summary               \* the RunSummary, once there is one

vars == <<endpoint_names, comparator, todo, endpoint_stats, total_signatures,
          backfill_signatures, overall_delays, summary>>

\* An observation is historical when its wallclock time is before the start.
Endpoints == Range(endpoint_names)

EndpointStats == [total_observations : Nat, first_detections : Nat,
                  delays_ms : Seq(Nat), backfill_transactions : Nat]
NoStats == [total_observations |-> 0, first_detections |-> 0,
            delays_ms |-> <<>>, backfill_transactions |-> 0]

\* Every provider of the run may or may not have seen a transaction.
Init ==
  /\ endpoint_names \in NameLists
  /\ comparator \in
       [Signatures -> UNION {[seen -> Observations] : seen \in SUBSET Endpoints}]
  /\ todo = Signatures
  /\ endpoint_stats = [e \in Endpoints |-> NoStats]
  /\ total_signatures = 0
  /\ backfill_signatures = 0
  /\ overall_delays = <<>>
  /\ summary = <<>>
-----------------------------------------------------------------------------
(***************************************************************************)
(* One turn of the loop, for the observations of s.                        *)
(***************************************************************************)
Visit(s) ==
  /\ s \in todo
  /\ todo' = todo \ {s}
  /\ UNCHANGED <<endpoint_names, comparator, summary>>

\* expected_producers > 0 && sig_data.len() != expected_producers
SomeoneSaw(seen)  == seen = {}
Partial(seen) ==
  Len(endpoint_names) > 0 /\ Cardinality(seen) # Len(endpoint_names)

\* sig_data.values().any(..)
AllHistorical(sig_data) == \A e \in DOMAIN sig_data : sig_data[e].historical
IsHistorical(sig_data)  == \E e \in DOMAIN sig_data : sig_data[e].historical

SkipPartial(s) ==
  /\ Visit(s)
  /\ Partial(DOMAIN comparator[s])
  /\ UNCHANGED <<endpoint_stats, total_signatures, backfill_signatures, overall_delays>>

Backfill(s) ==
  /\ Visit(s)
  /\ ~Partial(DOMAIN comparator[s])
  /\ IsHistorical(comparator[s])
  /\ backfill_signatures' = backfill_signatures + 1
  /\ endpoint_stats' = [e \in Endpoints |->
       IF e \in DOMAIN comparator[s]
       THEN [endpoint_stats[e] EXCEPT !.backfill_transactions = @ + 1]
       ELSE endpoint_stats[e]]
  /\ UNCHANGED <<total_signatures, overall_delays>>

\* min_by_key of nothing: without endpoint names even a signature nobody saw
\* gets this far.
SkipUnseen(s) ==
  /\ Visit(s)
  /\ ~Partial(DOMAIN comparator[s])
  /\ DOMAIN comparator[s] = {}
  /\ UNCHANGED <<endpoint_stats, total_signatures, backfill_signatures, overall_delays>>

\* diff_ms(tx, first_tx).max(0.0)
Delay(sig_data, first, e) == sig_data[e].elapsed - sig_data[first].elapsed

\* The orders in which the elements of S may come out of a map or a sort, as
\* sig_data.iter() yields the observations.
Orders(S) == Bijection(1..Cardinality(S), S)

\* min_by_key returns the first of the earliest observations in iteration order.
Earliest(sig_data, e) == \A f \in DOMAIN sig_data : sig_data[e].elapsed <= sig_data[f].elapsed
FirstAt(sig_data, order) ==
  CHOOSE i \in DOMAIN order :
    /\ Earliest(sig_data, order[i])
    /\ \A j \in 1..(i - 1) : ~Earliest(sig_data, order[j])

\* The first endpoint too has a delay: none.
Tallied(stats, won, delay) ==
  [total_observations    |-> stats.total_observations + 1,
   first_detections      |-> stats.first_detections + (IF won THEN 1 ELSE 0),
   delays_ms             |-> Append(stats.delays_ms, IF won THEN 0 ELSE delay),
   backfill_transactions |-> stats.backfill_transactions]

Count(s, order) ==
  LET sig_data == comparator[s]
      winner   == FirstAt(sig_data, order)
      first    == order[winner]
      losers   == SubSeq(order, 1, winner - 1) \o SubSeq(order, winner + 1, Len(order))
  IN /\ Visit(s)
     /\ ~Partial(DOMAIN sig_data)
     /\ ~IsHistorical(sig_data)
     /\ DOMAIN sig_data # {}
     /\ total_signatures' = total_signatures + 1
     /\ endpoint_stats' = [e \in Endpoints |->
          IF e \in DOMAIN sig_data
          THEN Tallied(endpoint_stats[e], e = first, Delay(sig_data, first, e))
          ELSE endpoint_stats[e]]
     /\ overall_delays' = overall_delays \o
          [i \in DOMAIN losers |-> Delay(sig_data, first, losers[i])]
     /\ UNCHANGED backfill_signatures

-----------------------------------------------------------------------------
(***************************************************************************)
(* After the loop.                                                         *)
(***************************************************************************)

\* Some(percentile(..)) of data that are not empty.
Percentiles(data, ps) ==
  IF data = <<>> THEN <<>> ELSE <<[p \in ps |-> Percentile(Sorted(data), p)]>>

\* build_summary
BuildSummary(e) ==
  [name         |-> e,
   first_share  |-> <<endpoint_stats[e].first_detections, total_signatures>>,
   delays       |-> Percentiles(endpoint_stats[e].delays_ms, {50, 95, 99}),
   valid        |-> endpoint_stats[e].total_observations,
   firsts       |-> endpoint_stats[e].first_detections,
   backfill     |-> endpoint_stats[e].backfill_transactions]

\* compare_latency = Less, between summaries of different names.
SmallerMedian(lhs, rhs) ==
  \/ lhs.delays # <<>> /\ rhs.delays = <<>>
  \/ lhs.delays # <<>> /\ rhs.delays # <<>> /\ lhs.delays[1][50] < rhs.delays[1][50]
SameMedian(lhs, rhs) ==
  \/ lhs.delays = <<>> /\ rhs.delays = <<>>
  \/ lhs.delays # <<>> /\ rhs.delays # <<>> /\ lhs.delays[1][50] = rhs.delays[1][50]
LowerLatency(lhs, rhs) ==
  SmallerMedian(lhs, rhs) \/ (SameMedian(lhs, rhs) /\ lhs.name < rhs.name)

\* filter(valid_transactions > 0).min_by(compare_latency): the name of one of
\* them, if any is left.  The names of summaries differ, being keys of a map, so
\* there is one minimum whatever the order they come in.
MostFirsts(summaries) ==
  LET valid == {e \in summaries : e.valid > 0}
  IN IF valid = {} THEN <<>>
     ELSE <<(CHOOSE f \in valid : \A g \in valid : g.firsts <= f.firsts).name>>
Fastest(summaries) ==
  LET valid == {e \in summaries : e.valid > 0}
  IN IF valid = {} THEN <<>>
     ELSE <<(CHOOSE f \in valid : \A g \in valid : ~LowerLatency(g, f)).name>>

\* RunSummary { .. }
Results ==
  LET summaries == {BuildSummary(e) : e \in Endpoints}
  IN [endpoints           |-> summaries,
      fastest_endpoint    |-> Fastest(summaries),
      has_data            |-> total_signatures > 0,
      total_signatures    |-> total_signatures,
      backfill_signatures |-> backfill_signatures,
      overall             |-> Percentiles(overall_delays, {50, 90, 95, 99})]

Finish ==
  /\ todo = {}
  /\ summary = <<>>
  /\ summary' = <<Results>>
  /\ UNCHANGED <<endpoint_names, comparator, todo, endpoint_stats,
                 total_signatures, backfill_signatures, overall_delays>>

\* display_run_summary: the rows of its list, in order, and their marks; the
\* table below it has the same rows.
InOrder(rows) == \A i, j \in DOMAIN rows : i < j => ~LowerLatency(rows[j], rows[i])
Rows(s) ==
  IF s.has_data
  THEN CHOOSE rows \in Orders(s.endpoints) : InOrder(rows)
  ELSE <<>>
Marked(s, row) == s.fastest_endpoint = <<row.name>>

\* build_metrics_report
MetricsReport(s) ==
  [total_signatures    |-> s.total_signatures,
   backfill_signatures |-> s.backfill_signatures,
   per_endpoint        |-> [e \in {r.name : r \in s.endpoints} |->
                              CHOOSE r \in s.endpoints : r.name = e]]

Returned == summary # <<>> /\ UNCHANGED vars

Next ==
  \/ \E s \in Signatures :
       \/ SkipPartial(s)
       \/ Backfill(s)
       \/ SkipUnseen(s)
       \/ \E order \in Orders(DOMAIN comparator[s]) : Count(s, order)
  \/ Finish
  \/ Returned

Spec == Init /\ [][Next]_vars
-----------------------------------------------------------------------------
(***************************************************************************)
(* Properties                                                              *)
(***************************************************************************)
TypeOK ==
  /\ endpoint_names \in NameLists
  /\ comparator \in
       [Signatures -> UNION {[seen -> Observations] : seen \in SUBSET Endpoints}]
  /\ todo \subseteq Signatures
  /\ endpoint_stats \in [Endpoints -> EndpointStats]
  /\ total_signatures \in Nat /\ backfill_signatures \in Nat
  /\ overall_delays \in Seq(Nat)

\* What the summary is about, said without the loop: the transactions that
\* each name of the list saw live, how far behind each was, and the ones that
\* each saw but not all of them live.
SeenByAll(s) == Cardinality(DOMAIN comparator[s]) = Len(endpoint_names)
Live(s)      == \A e \in Endpoints : ~comparator[s][e].historical
Counted      == {s \in Signatures : SeenByAll(s) /\ Live(s)}
Old          == {s \in Signatures : SeenByAll(s) /\ ~Live(s)}
EarliestOf(sig_data) == CHOOSE f \in DOMAIN sig_data : Earliest(sig_data, f)
Behind(s, e) == comparator[s][e].elapsed - comparator[s][EarliestOf(comparator[s])].elapsed
Wins(e)      == {s \in Counted : Behind(s, e) = 0}
SoleWins(e)  == {s \in Wins(e) : \A f \in Endpoints \ {e} : s \notin Wins(f)}

\* Neither the order of the entries nor the order of the observations in one
\* shows in the delays: each percentile is the percentile of the counted
\* transactions' delays, and an endpoint's first detections are its wins, ties
\* being somebody's.
SummaryMatchesObservations ==
  \A r \in Range(summary) : endpoint_names # <<>> =>
    /\ r.total_signatures = Cardinality(Counted)
    /\ \A e \in r.endpoints :
         /\ e.valid = Cardinality(Counted)
         /\ e.firsts \in Cardinality(SoleWins(e.name))..Cardinality(Wins(e.name))
         /\ \A d \in Range(e.delays) : \A p \in DOMAIN d :
              IsPercentile([s \in Counted |-> Behind(s, e.name)], p, d[p])

\* The sum of the counts f[e], as the size of their disjoint union.
Credits(f) == UNION {{e} \X (1..f[e]) : e \in DOMAIN f}

\* Each counted transaction has one winner, however many saw it at the same
\* time, so the first detection rates of the metrics report add up to 1; and
\* all that was seen by every endpoint is either counted or backfill.
FirstsAddUp ==
  \A r \in Range(summary) : endpoint_names # <<>> =>
    LET report == MetricsReport(r)
    IN /\ Cardinality(Credits([e \in DOMAIN report.per_endpoint |->
                                 report.per_endpoint[e].firsts])) = report.total_signatures
       /\ report.total_signatures + report.backfill_signatures
            = Cardinality({s \in Signatures : SeenByAll(s)})

\* What the turns so far have counted, of the transactions they have visited.
StatsSoFar(e) ==
  LET stats == endpoint_stats[e]
  IN /\ stats.total_observations = Cardinality(Counted \ todo)
     /\ stats.first_detections
          \in Cardinality(SoleWins(e) \ todo)..Cardinality(Wins(e) \ todo)
     /\ \E order \in Orders(Counted \ todo) :
          stats.delays_ms = [i \in DOMAIN order |-> Behind(order[i], e)]
CountedSoFar ==
  endpoint_names # <<>> =>
    /\ total_signatures = Cardinality(Counted \ todo)
    /\ backfill_signatures = Cardinality(Old \ todo)
    /\ Cardinality(Credits([e \in Endpoints |-> endpoint_stats[e].first_detections]))
         = total_signatures
    /\ \A e \in Endpoints : StatsSoFar(e)

\* The summary is of the statistics as they are, after the last turn.
SummaryIsOfTheEnd == summary # <<>> => todo = {} /\ summary = <<Results>>

\* The types, what the loop has counted so far, and what it adds up to.
SummaryInv == TypeOK /\ CountedSoFar /\ SummaryIsOfTheEnd /\ FirstsAddUp

\* There is one fastest endpoint whenever there are data, and it heads the
\* table, which is sorted apart from it: the rows are ordered by median.
FastestHeadsTheTable ==
  \A r \in Range(summary) : r.has_data /\ endpoint_names # <<>> =>
    LET rows == Rows(r)
    IN /\ {i \in DOMAIN rows : Marked(r, rows[i])} = {1}
       /\ \A i \in 2..Len(rows) :
            rows[i - 1].delays[1][50] <= rows[i].delays[1][50]
=============================================================================

---------------------------- MODULE LandingSummary ----------------------------
(***************************************************************************)
(* The report on a LandingBook: LandingBook::finalize, the summaries it is *)
(* made of, and the numbers render_summary prints of them.  finalize reads *)
(* the book under its lock and changes nothing, so the report is a         *)
(* function of the book's state, but for the order in which a HashMap      *)
(* yields its entries: Order, any permutation of the providers.            *)
(***************************************************************************)
EXTENDS LandingBook, Percentiles

\* ProviderSummary::from_metrics
FromMetrics(name) ==
  [name         |-> name,
   landed       |-> metrics[name].landed,
   latencies_ms |-> Sorted(metrics[name].latencies_ms)]

\* iter().sum(), and what it has come to after each element.
Sums(data) ==
  LET sum[i \in 0..Len(data)] == IF i = 0 THEN 0 ELSE sum[i - 1] + data[i]
  IN sum
Total(data) == Sums(data)[Len(data)]

\* compute_overall, of data that are not empty.  The average stays a
\* fraction: a sum and a count.
AlreadySorted(latencies) ==
  [min_ms |-> Head(latencies),
   max_ms |-> latencies[Len(latencies)],
   sum_ms |-> Total(latencies),
   count  |-> Len(latencies),
   ranked |-> [p \in {50, 90, 95, 99} |-> Percentile(latencies, p)]]
Overall(latencies) == AlreadySorted(Sorted(latencies))

\* The orders in which guard.metrics.iter() may yield its keys.
Orders == Bijection(1..Cardinality(DOMAIN metrics), DOMAIN metrics)

\* overall_latencies after each turn of the loop, which extends it by the
\* sorted latencies of one provider.
Collected(order) ==
  LET overall[i \in 0..Len(order)] ==
        IF i = 0 THEN <<>> ELSE overall[i - 1] \o FromMetrics(order[i]).latencies_ms
  IN overall
Concatenated(order) == Collected(order)[Len(order)]

\* LandingBook::finalize.  OverallLatency::default() is <<>>.
Finalize(order) ==
  [providers    |-> {FromMetrics(name) : name \in DOMAIN metrics},
   total_landed |-> Cardinality(landed_rounds),
   overall      |-> IF Concatenated(order) = <<>> THEN <<>>
                    ELSE <<Overall(Concatenated(order))>>,
   rounds       |-> rounds_attempted]

\* The percentages of render_summary, each 0 when its divisor is.
Share(part, whole) == IF whole > 0 THEN (100 * part) \div whole ELSE 0
LandedShare(summary)        == Share(summary.total_landed, summary.rounds)
WinShare(summary, provider) == Share(provider.landed, summary.total_landed)
-----------------------------------------------------------------------------
\* The order in which the map yields the providers does not show, and the
\* statistics are in order although the latencies are put together list by
\* list: min, median, the percentiles, max, with the average between.
StatisticsAreOrdered ==
  \A order \in Orders : \A o \in Range(Finalize(order).overall) :
    /\ \A other \in Orders : Finalize(other).overall = <<o>>
    /\ o.min_ms <= o.ranked[50] /\ o.ranked[50] <= o.ranked[90]
    /\ o.ranked[90] <= o.ranked[95] /\ o.ranked[95] <= o.ranked[99]
    /\ o.ranked[99] <= o.max_ms
    /\ o.count * o.min_ms <= o.sum_ms /\ o.sum_ms <= o.count * o.max_ms

\* The report agrees with itself: the wins of all endpoints are the samples
\* of the overall statistics, there are none exactly when no round landed,
\* no share of landed rounds exceeds 100%, and the win shares add up to no
\* less than all of them, within the rounding of each.
ReportAddsUp ==
  \A order \in Orders :
    LET summary == Finalize(order)
        wins    == Total([i \in DOMAIN order |-> FromMetrics(order[i]).landed])
        shares  == Total([i \in DOMAIN order |->
                            WinShare(summary, FromMetrics(order[i])) + 1])
    IN  /\ \A o \in Range(summary.overall) : o.count = wins
        /\ summary.overall = <<>> <=> summary.total_landed = 0
        /\ LandedShare(summary) \in 0..100
        /\ summary.total_landed > 0 => shares >= 100
=============================================================================

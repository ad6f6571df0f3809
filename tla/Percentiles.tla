----------------------------- MODULE Percentiles -----------------------------
(***************************************************************************)
(* percentile of src/src/utils.rs and the sort that every caller does      *)
(* first.  Data are milliseconds as integers and p is a percentage: for    *)
(* the percentages the program asks for, the rounded product of p/100 and  *)
(* n-1 is the rounded quotient below (a half is rounded up, as             *)
(* f64::round does).                                                       *)
(***************************************************************************)
EXTENDS Integers, Sequences, FiniteSets

\* data.sort_by(partial_cmp), which is stable: what is smaller, or equal and
\* came before, goes before.
Before(data, i) ==
  {j \in DOMAIN data : data[j] < data[i] \/ (data[j] = data[i] /\ j < i)}
Sorted(data) ==
  [k \in DOMAIN data |->
     data[CHOOSE i \in DOMAIN data : Cardinality(Before(data, i)) = k - 1]]

\* (p * (len - 1) as f64).round() as usize, from 0.
Rank(p, len) == (2 * p * (len - 1) + 100) \div 200

Percentile(sorted, p) == IF sorted = <<>> THEN 0 ELSE sorted[Rank(p, Len(sorted)) + 1]

\* What a percentile is, without sorting or indexing, of data given as any
\* function: the data below it are at most p of the steps between the data,
\* to the nearest step, and the data up to it are more.
Below(data, value)  == Cardinality({i \in DOMAIN data : data[i] < value})
AtMost(data, value) == Cardinality({i \in DOMAIN data : data[i] <= value})
Steps(data)         == Cardinality(DOMAIN data) - 1

IsPercentile(data, p, value) ==
  /\ value \in {data[i] : i \in DOMAIN data}
  /\ 100 * Below(data, value) <= p * Steps(data) + 50
  /\ p * Steps(data) + 50 < 100 * AtMost(data, value)
=============================================================================

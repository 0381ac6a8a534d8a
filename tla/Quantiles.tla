----------------------------- MODULE Quantiles -----------------------------
(***************************************************************************)
(* How percentiles are read (sockets/hist.go: Hist; latency/latency.go:    *)
(* pick; fleet/metrics.go: Quantile; probe/probe.go: pctl;                 *)
(* cmd/zoubench/attach.go: quantile).  Each worker counts durations in a   *)
(* histogram of its own, the histograms are merged when the run is over,   *)
(* and a percentile is read off the counts.  The other readers, over all   *)
(* the samples and over a node's cumulative buckets, are read from the     *)
(* same durations here.                                                    *)
(*                                                                         *)
(* Quantiles are in thousandths and durations are whole microseconds; the  *)
(* scaling to milliseconds, and the rounding of a share in floating point, *)
(* are left out.                                                           *)
(***************************************************************************)
EXTENDS Integers, Bags, FiniteSets, FiniteSetsExt, Functions

CONSTANTS
  HistWorkers,  \* the workers
  Micros,       \* the durations that may be measured
  Decades,      \* decades, 9 in the code
  Asked,        \* the quantiles asked for
  Finite,       \* the finite bounds of a node's cumulative histogram
  MaxTimed      \* bound on the durations measured

ASSUME QuantilesAssumption ==
  /\ IsFiniteSet(HistWorkers) /\ Micros \subseteq Int /\ Decades \in Nat \ {0}
  /\ Asked \subseteq 1..1000 /\ IsFiniteSet(Finite) /\ Finite \subseteq Nat /\ Finite # {}
  /\ MaxTimed \in Nat

VARIABLES
  histPc,  \* "off", "measure", "merge" or "done"
  hist,    \* the histogram of each worker
  merged,  \* the workers whose histogram is in
  all,     \* the run's histogram
  timed    \* history: the durations measured

histVars == <<histPc, hist, merged, all, timed>>

PerDecade == 900
NoMin == -1   \* math.MaxUint64
NewHist == [buckets |-> EmptyBag, count |-> 0, max |-> 0, min |-> NoMin, past |-> 0]

HistInit ==
  /\ histPc = "off" /\ hist = [w \in HistWorkers |-> NewHist] /\ merged = {}
  /\ all = NewHist /\ timed = EmptyBag

\* How many elements a bag has.
Size(b) == SumFunction(b)

HistStart == histPc = "off" /\ histPc' = "measure" /\ UNCHANGED <<hist, merged, all, timed>>

\* scale: ten to a decade.
Scale[d \in Nat] == IF d = 0 THEN 1 ELSE 10 * Scale[d - 1]

\* index: the bucket of a duration, a hundred to the decade's own scale.
Decade(v) == CHOOSE d \in 0..Decades : Scale[d] <= v /\ (d = Decades \/ v < Scale[d + 1])
Beyond(v) == v >= Scale[Decades]
Index(v) ==
  IF v < 1 THEN 0
  ELSE LET scale  == Scale[Decade(v)]
           within == ((v - scale) * 100) \div scale
       IN  Decade(v) * PerDecade + IF within >= PerDecade THEN PerDecade - 1 ELSE within

\* Mutant of UpperOf: the lower bound.
LowerOf(i) == LET scale == Scale[i \div PerDecade] IN (scale * 100 + (i % PerDecade) * scale) \div 100

\* upper: the bound of a bucket, the division last.
UpperOf(i) ==
  LET scale == Scale[i \div PerDecade]
  IN  (scale * 100 + ((i % PerDecade) + 1) * scale) \div 100

Lesser(a, b) == IF a = NoMin \/ (b # NoMin /\ b < a) THEN b ELSE a

\* Hist.Add: a duration past the last decade is only counted.
AddTo(h, us) ==
  LET v == Max({us, 0})
  IN  [buckets |-> IF Beyond(v) THEN h.buckets ELSE h.buckets (+) SetToBag({Index(v)}),
       count   |-> h.count + 1,
       max     |-> Max({h.max, v}),
       min     |-> Lesser(h.min, v),
       past    |-> IF Beyond(v) THEN h.past + 1 ELSE h.past]

Measure(w, us) ==
  /\ histPc = "measure" /\ Size(timed) < MaxTimed
  /\ hist' = [hist EXCEPT ![w] = AddTo(@, us)]
  /\ timed' = timed (+) SetToBag({Max({us, 0})})
  /\ UNCHANGED <<histPc, merged, all>>

StopMeasuring == histPc = "measure" /\ histPc' = "merge" /\ UNCHANGED <<hist, merged, all, timed>>

\* Hist.Merge: an empty histogram is skipped, minimum and all.
MergeHist(h, other) ==
  IF other.count = 0 THEN h
  ELSE [buckets |-> h.buckets (+) other.buckets,
        count   |-> h.count + other.count,
        max     |-> Max({h.max, other.max}),
        min     |-> Lesser(h.min, other.min),
        past    |-> h.past + other.past]

MergeIn(w) ==
  /\ histPc = "merge" /\ w \notin merged
  /\ all' = MergeHist(all, hist[w]) /\ merged' = merged \cup {w}
  /\ histPc' = IF merged' = HistWorkers THEN "done" ELSE "merge"
  /\ UNCHANGED <<hist, timed>>

HistNext ==
  \/ HistStart \/ StopMeasuring
  \/ \E w \in HistWorkers : MergeIn(w) \/ \E us \in Micros : Measure(w, us)

-----------------------------------------------------------------------------
(* Reading a percentile.                                                   *)

\* How many elements of a bag of numbers are at most v.
AtMost(b, v) == SumFunctionOnSet(b, {y \in DOMAIN b : y <= v})

\* The elements of a bag that at least n elements are not above.
Reach(b, n) == {x \in DOMAIN b : AtMost(b, x) >= n}

CeilShare(n, q) == (n * q + 999) \div 1000

\* Hist.Quantile: the bound of the bucket the rank falls into, or the largest
\* duration when the rank is past the last bucket.
HistQuantile(h, q) ==
  LET reach == Reach(h.buckets, Max({1, CeilShare(h.count, q)}))
  IN  IF reach = {} THEN h.max ELSE UpperOf(Min(reach))

\* latency.Percentiles, pick: the sample at the floor of the share, from zero.
Pick(b, q) ==
  LET n == Size(b)
  IN  Min(Reach(b, Min({(n * q) \div 1000, n - 1}) + 1))

\* attach's quantile: the floor of the share of the last index.
QuantileOfCycles(b, q) == Min(Reach(b, ((Size(b) - 1) * q) \div 1000 + 1))

\* probe's pctl: the ceiling of the share, kept inside the samples.
Pctl(b, q) == Min(Reach(b, Min({Size(b), Max({1, CeilShare(Size(b), q)})})))

\* fleet.Quantile over cumulative buckets: the total is the count of the last
\* finite bound.
NodeQuantile(b, q) ==
  LET total == AtMost(b, Max(Finite))
  IN  IF total = 0 THEN {} ELSE {Min({le \in Finite : AtMost(b, le) * 1000 >= total * q})}

-----------------------------------------------------------------------------
(* Properties.                                                             *)

\* Nearest rank: the smallest duration that a share q of them is not above.
NearestRank(q) == Min(Reach(timed, CeilShare(Size(timed), q)))

\* However the durations were spread over the workers and merged, every reader
\* of a percentile answers within one rank of the nearest, and all but attach's
\* at it or above: the histogram is at most one percent above it, or the
\* largest duration when it is past the last decade; the sample that pick takes
\* is at most one rank further, the one that attach takes at most one rank
\* short, and pctl's is the one; a node's bucket is the first whose bound
\* reaches it, provided no duration is above the last finite bound.  Counts and
\* extremes are exact (Hist, Percentiles, Quantile, quantile, pctl).
PercentilesNearRank ==
  LET n == Size(timed)
      values == DOMAIN timed
  IN  histPc = "done" /\ n > 0 =>
        /\ all.count = n /\ all.max = Max(values) /\ all.min = Min(values)
        /\ all.past = n - AtMost(timed, Scale[Decades] - 1)
        /\ \A q \in Asked :
             LET r == NearestRank(q)
                 k == CeilShare(n, q)
             IN  /\ HistQuantile(all, q) >= r
                 /\ IF Beyond(r) THEN HistQuantile(all, q) = all.max
                    ELSE HistQuantile(all, q) * 100 <= Max({r, 1}) * 101
                 /\ Pick(timed, q) \in {r, Min(Reach(timed, Min({n, k + 1})))}
                 /\ QuantileOfCycles(timed, q) \in {r, Min(Reach(timed, Max({1, k - 1})))}
                 /\ Pctl(timed, q) = r
                 /\ Max(values) <= Max(Finite) =>
                      NodeQuantile(timed, q) = {Min({le \in Finite : le >= r})}
=============================================================================

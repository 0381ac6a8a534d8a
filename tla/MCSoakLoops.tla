---------------------------- MODULE MCSoakLoops ----------------------------
(***************************************************************************)
(* The loops of a soak on a small instance, and a claim of the comments    *)
(* that the code does not keep.                                            *)
(***************************************************************************)
EXTENDS SoakLoops

\* Overlapping compaction loops want samples on both sides of a segment's end,
\* the gc and fold loops also one of the load phase.
SomeScenarios ==
  { [loops |-> {}, maxTicks |-> 3],
    [loops |-> {"gc"}, maxTicks |-> 2], [loops |-> {"fold"}, maxTicks |-> 2] }

\* A store inside its bounds, and one whose second shard is over its own bound
\* and below that of the first.
SomeStatuses ==
  { <<[amp |-> 3, bound |-> 4], [amp |-> 2, bound |-> 2]>>,
    <<[amp |-> 3, bound |-> 4], [amp |-> 3, bound |-> 2]>> }

\* A fold that was allowed to cut nowhere, and one of two shards.
SomeReports ==
  { <<>>, <<[retired |-> 1, after |-> 2], [retired |-> 2, after |-> 1]>> }

\* sustain/sustain.go, BoundHeld: "two consecutive samples over means the
\* sweep ran and the shard was still over"; compactLoop: "A failed sweep or
\* unreadable status drops the sample".
LosingMeansSwept ==
  result.held = "no" =>
    \E i \in 2..Len(judged) : judged[i].over /\ judged[i - 1].over /\ judged[i].swept
=============================================================================

----------------------------- MODULE MCCommands -----------------------------
(***************************************************************************)
(* The commands on small instances, and claims of their comments that the  *)
(* code does not keep.                                                     *)
(***************************************************************************)
EXTENDS Commands

\* Durations at the edges of buckets and decades, below zero and past the top.
SomeMicros == {-1, 0, 1, 9, 10, 199, 1000, 1009, 9999, 10000}

\* Claims of both directions and of none, for one label and for all of them.
SomeTargets == {
  [id |-> "tps", scenario |-> "tpcb", label |-> "", path |-> "tps", divideBy |-> 2,
   compare |-> ">=", line |-> 3],
  [id |-> "p99", scenario |-> "tpcb", label |-> "zou", path |-> "p99", divideBy |-> 0,
   compare |-> "<=", line |-> 5],
  [id |-> "rss", scenario |-> "fleet", label |-> "", path |-> "rss", divideBy |-> 0,
   compare |-> "", line |-> 0] }

Result(s, l, d, sim, v) ==
  [scenario |-> s, label |-> l, date |-> d, simulated |-> sim, values |-> v]

\* Older and newer ones, two of the same date, a simulated one and one that
\* answers nothing.
SomeResults == {
  Result("tpcb", "zou", 1, FALSE, [tps |-> 6, p99 |-> 7]),
  Result("tpcb", "zou", 2, TRUE, [tps |-> 8, p99 |-> 4]),
  Result("tpcb", "pg18", 3, FALSE, [tps |-> 4]),
  Result("tpcb", "zou", 3, FALSE, [tps |-> 6, p99 |-> 5]),
  Result("fleet", "zou", 2, FALSE, [other |-> 1]) }

\* probe/probe.go, Run: "Every key the probe writes is deleted before it
\* returns, the deletes being the delete measurement."
KeysDeleted == probePc \in {"done", "failed"} => keys = {}

\* cmd/zoubench/run.go, the load block: "What loading the data cost, on its
\* own.", "this says what putting a scale 100 database into the store cost
\* once."  Of what was done between the two marks of the block, the warmup is
\* not the load's.
LoadOnItsOwn ==
  runPc = "done" /\ init => published.load <= did["init"] + did["mark"]

\* cmd/zoubench/sustain.go: "the harness snapshots per segment and drops the
\* segments a kill landed in".
\* A segment that publishes less than the store did between its two
\* snapshots, because a kill landed in it, was not dropped.
KilledSegmentsDropped ==
  segmentOps # Absent =>
    ~(rebooted /\ \E s \in SlotIds : segmentOps[s] < late[s] - shut[s])

\* dashboard/dashboard.go, Render: "a simulated number only holds a place until
\* a real bucket replaces it."
RealIsKept ==
  ~torn => \A t \in Targets :
    (\E r \in taken : Answers(r, t) /\ ~r.simulated) => ~bookFile[t.id].simulated

\* dashboard/dashboard.go, Merge: "the page should not depend on which came
\* first on the command line".
OrderIsNothing ==
  ~torn => \A t \in Targets : t.id \in DOMAIN bookFile =>
    bookFile[t.id] = Take(CHOOSE r \in Newest(t, taken) : TRUE)[t.id]

\* fleet/idle.go: "Work arriving in that stretch belongs to the projects that
\* just left, so the drain after the last detach is left out too".
DrainIsLeftOut ==
  LET s    == After(samples, settle)
      gone == {i \in DOMAIN samples : samples[i].attached = 0}
      last == LastAttached(samples)
  IN  /\ holdPc = "done" /\ last # Never
      /\ \A i \in gone : (\A j \in gone : i <= j) =>
           samples[i].elapsed + FlushSecs <= last + drain
      => \A k \in OpKinds : Done(s, drain, "dormant", k, {"flush"}) = 0
=============================================================================

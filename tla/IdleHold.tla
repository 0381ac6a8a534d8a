------------------------------ MODULE IdleHold ------------------------------
(***************************************************************************)
(* The hold phase of the fleet command (hold in cmd/zoubench/fleet.go;     *)
(* After and Rates in fleet/idle.go): the node is asked for nothing, its   *)
(* gauge of attached projects and its store counters are read now and      *)
(* then, and the intervals between the readings go to one of two piles,    *)
(* the node's own housekeeping or the projects', or to neither.            *)
(*                                                                         *)
(* External: the node, which lets projects go, which flush for a while     *)
(* after the gauge has dropped, does housekeeping of its own, and may      *)
(* restart, from counters at zero and with nothing attached.  Dividing the *)
(* piles by hours is left out.                                             *)
(***************************************************************************)
EXTENDS Integers, Sequences, FiniteSets, FiniteSetsExt, Functions

CONSTANTS
  HoldSecs, Every,   \* scenario.hold and sample_secs
  Settles, Drains,   \* the values of settle_secs and drain_secs
  Held,              \* the projects attached when the hold begins: a set of numbers
  OpKinds,           \* puts, gets, lists and deletes
  FlushSecs,         \* external: how long a project flushes once it is let go
  MaxOps, MaxRestarts \* bounds on store operations and restarts

ASSUME IdleHoldAssumption ==
  /\ HoldSecs \in Nat /\ Every \in Nat \ {0} /\ Settles \subseteq Nat /\ Drains \subseteq Nat
  /\ Held \subseteq Nat /\ FlushSecs \in Nat /\ MaxOps \in Nat /\ MaxRestarts \in Nat

VARIABLES
  holdPc,        \* "off", "gauge", "counters", "sleep" or "done"
  settle, drain,
  now, due,      \* seconds since started, and when the sleep is over
  attached,      \* external: the projects the node holds
  storeOps,      \* external: its counters
  letGo,         \* external: when a project was last let go
  restarts,
  gauge,         \* what the scrape of this sample said
  samples,
  idle,          \* the piles published
  work           \* history: the store operations, by what they were for

holdVars == <<holdPc, settle, drain, now, due, attached, storeOps, letGo, restarts, gauge,
              samples, idle, work>>
nodeVars == <<attached, storeOps, letGo, restarts, work>>

Never == -1
NoOps == [k \in OpKinds |-> 0]
NoIdle == [dormant |-> 0, attached |-> 0, project |-> 0, dormantOps |-> NoOps,
           attachedOps |-> NoOps, saw |-> FALSE]

HoldInit ==
  /\ holdPc = "off" /\ settle = 0 /\ drain = 0 /\ now = 0 /\ due = 0
  /\ attached = 0 /\ storeOps = NoOps /\ letGo = Never /\ restarts = 0
  /\ gauge = Never /\ samples = <<>> /\ idle = NoIdle /\ work = <<>>

HoldStart ==
  /\ holdPc = "off" /\ holdPc' = "gauge"
  /\ settle' \in Settles /\ drain' \in Drains /\ attached' \in Held
  /\ UNCHANGED <<now, due, storeOps, letGo, restarts, gauge, samples, idle, work>>

Holding == holdPc \in {"gauge", "counters", "sleep"}

-----------------------------------------------------------------------------
(* The node.                                                               *)

\* External: a project is stopped, and the gauge drops at once.
LetGo ==
  /\ Holding /\ attached > 0 /\ attached' = attached - 1 /\ letGo' = now
  /\ UNCHANGED <<holdPc, settle, drain, now, due, storeOps, restarts, gauge, samples, idle, work>>

\* External: a store operation, for a project, for one that flushes, or of the
\* node's own.
StoreOp ==
  /\ Holding /\ Len(work) < MaxOps
  /\ \E k \in OpKinds, for \in {"own", "project", "flush"} :
       /\ for = "project" => attached > 0
       /\ for = "flush" => letGo # Never /\ now < letGo + FlushSecs
       /\ storeOps' = [storeOps EXCEPT ![k] = @ + 1]
       /\ work' = Append(work, [kind |-> k, for |-> for])
  /\ UNCHANGED <<holdPc, settle, drain, now, due, attached, letGo, restarts, gauge, samples, idle>>

\* External: the node restarts.
NodeRestarts ==
  /\ Holding /\ restarts < MaxRestarts /\ restarts' = restarts + 1
  /\ attached' = 0 /\ storeOps' = NoOps
  /\ UNCHANGED <<holdPc, settle, drain, now, due, letGo, gauge, samples, idle, work>>

-----------------------------------------------------------------------------
(* What is published.                                                      *)

\* After: the settle time is dropped.  The samples are in the order of their
\* times, so the ones to keep are the last ones (AfterIsSuffix), and the sort in
\* Rates changes nothing.
After(s, seconds) ==
  LET kept == {i \in DOMAIN s : s[i].elapsed >= seconds}
  IN  IF kept = {} THEN <<>> ELSE SubSeq(s, Min(kept), Len(s))

\* When a sample last saw something attached.
LastAttached(s) ==
  LET held == {i \in DOMAIN s : s[i].attached > 0}
  IN  IF held = {} THEN Never ELSE s[Max(held)].elapsed

\* Mutant of Pile: an interval is classified by what was attached at its end.
PileOfEnd(s, i, d) ==
  IF s[i].elapsed <= s[i - 1].elapsed THEN "none"
  ELSE IF \E k \in OpKinds : s[i].ops[k] < s[i - 1].ops[k] THEN "restart"
  ELSE IF s[i].attached > 0 THEN "attached"
  ELSE IF LastAttached(s) >= 0 /\ s[i].elapsed < LastAttached(s) + d THEN "drain"
  ELSE "dormant"

\* Where the interval that ends with sample i goes: by what was attached at
\* its start, unless a counter went backwards.
Pile(s, i, d) ==
  LET prev == s[i - 1]
  IN  IF s[i].elapsed <= prev.elapsed THEN "none"
      ELSE IF \E k \in OpKinds : s[i].ops[k] < prev.ops[k] THEN "restart"
      ELSE IF prev.attached > 0 THEN "attached"
      ELSE IF LastAttached(s) >= 0 /\ prev.elapsed < LastAttached(s) + d THEN "drain"
      ELSE "dormant"

\* The intervals, by the sample each of them ends with, and their figures.
Intervals(s) == 2..Len(s)
Seconds(s) == [i \in Intervals(s) |-> s[i].elapsed - s[i - 1].elapsed]
ProjectSeconds(s) == [i \in Intervals(s) |-> Seconds(s)[i] * s[i - 1].attached]
Grown(s, k) == [i \in Intervals(s) |-> s[i].ops[k] - s[i - 1].ops[k]]

\* The sum of a figure over the intervals of a pile.
Over(s, d, pile, figure) ==
  SumFunctionOnSet(figure, {i \in Intervals(s) : Pile(s, i, d) = pile})

\* Rates.
Rates(s, d) ==
  [dormant     |-> Over(s, d, "dormant", Seconds(s)),
   attached    |-> Over(s, d, "attached", Seconds(s)),
   project     |-> Over(s, d, "attached", ProjectSeconds(s)),
   dormantOps  |-> [k \in OpKinds |-> Over(s, d, "dormant", Grown(s, k))],
   attachedOps |-> [k \in OpKinds |-> Over(s, d, "attached", Grown(s, k))],
   saw         |-> Over(s, d, "dormant", Seconds(s)) > 0]

-----------------------------------------------------------------------------
(* hold.                                                                   *)

\* take: the scrape of the gauge, then the counters; a failure of either
\* leaves the sample out.
Scrape ==
  /\ holdPc = "gauge" /\ holdPc' = "counters"
  /\ gauge' \in {attached, Never}
  /\ UNCHANGED <<settle, drain, now, due, nodeVars, samples, idle>>

\* The sample, and what follows it: another sleep or the end.
ReadCounters ==
  /\ holdPc = "counters" /\ gauge' = Never
  /\ LET sample == [elapsed |-> now, attached |-> gauge, ops |-> storeOps, seen |-> Len(work)]
         taken  == IF gauge = Never THEN {samples} ELSE {samples, Append(samples, sample)}
     IN  samples' \in taken
  /\ IF now < HoldSecs
     THEN holdPc' = "sleep" /\ due' = now + Every /\ UNCHANGED idle
     ELSE /\ holdPc' = "done" /\ UNCHANGED due
          /\ idle' = LET kept == After(samples', settle)
                     IN  IF Len(kept) < 2 THEN NoIdle ELSE Rates(kept, drain)
  /\ UNCHANGED <<settle, drain, now, nodeVars>>

\* A second of the sleep passes.
Sleep ==
  /\ holdPc = "sleep" /\ now' = now + 1
  /\ holdPc' = IF now' = due THEN "gauge" ELSE "sleep"
  /\ UNCHANGED <<settle, drain, due, nodeVars, gauge, samples, idle>>

HoldNext == HoldStart \/ LetGo \/ StoreOp \/ NodeRestarts \/ Scrape \/ ReadCounters \/ Sleep

-----------------------------------------------------------------------------
(* Properties.                                                             *)

\* The work done in an interval, and in the intervals of a pile, for one of
\* these reasons.
WorkIn(s, k, reasons) ==
  [i \in Intervals(s) |->
     Cardinality({j \in (s[i - 1].seen + 1)..s[i].seen :
                    work[j].kind = k /\ work[j].for \in reasons})]
Done(s, d, pile, k, reasons) == Over(s, d, pile, WorkIn(s, k, reasons))

\* All projects were let go, and have flushed, before the intervals that count
\* as dormant: the last sample that saw one attached is kept and the next one
\* came soon enough after it, or the settle time covers the whole of it.
Drained ==
  LET gone == {i \in DOMAIN samples : samples[i].attached = 0}
      last == LastAttached(samples)
  IN  \A i \in gone : (\A j \in gone : i <= j) =>
        \/ last >= settle /\ samples[i].elapsed + FlushSecs <= last + drain
        \/ samples[i].elapsed + FlushSecs <= settle

\* The two piles and what is left out make up the window, neither pile claims
\* more than was done in its intervals, and exactly that much when the node
\* did not restart; and what is called the node's own rate has nothing of a
\* project in it when the drain and the settle were long enough for the
\* cadence of the samples (Rates, After).
PilesAreHonest ==
  LET s == After(samples, settle)
      all == {"own", "project", "flush"}
  IN  holdPc = "done" /\ Len(s) >= 2 =>
        /\ idle.dormant + idle.attached + Over(s, drain, "drain", Seconds(s))
             + Over(s, drain, "restart", Seconds(s)) = s[Len(s)].elapsed - s[1].elapsed
        /\ \A k \in OpKinds :
             /\ 0 <= idle.dormantOps[k] /\ 0 <= idle.attachedOps[k]
             /\ idle.dormantOps[k] <= Done(s, drain, "dormant", k, all)
             /\ idle.attachedOps[k] <= Done(s, drain, "attached", k, all)
             /\ restarts = 0 => /\ idle.dormantOps[k] = Done(s, drain, "dormant", k, all)
                                /\ idle.attachedOps[k] = Done(s, drain, "attached", k, all)
             /\ Drained => Done(s, drain, "dormant", k, {"project", "flush"}) = 0
=============================================================================

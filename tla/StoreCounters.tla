--------------------------- MODULE StoreCounters ---------------------------
(***************************************************************************)
(* The store's operation counters as the harness reads them                *)
(* (zoustats/zoustats.go: Read, Diff; cmd/zoubench/sustain.go: the two     *)
(* snapshots around a segment).  The counter file belongs to the store,    *)
(* which goes on counting while the harness reads it and starts again from *)
(* zero with every boot; the harness subtracts two snapshots and drops the *)
(* pair when a counter shrank.                                             *)
(*                                                                         *)
(* The file is read in one call that copies it while it changes, so a      *)
(* snapshot is taken slot by slot.                                         *)
(***************************************************************************)
EXTENDS Integers, FiniteSets

CONSTANTS
  Slots,      \* how many counters the file holds
  Segments,   \* how many segments are measured
  MaxCounted, \* bound on the operations counted in one slot
  MaxStoreBoots \* bound on the restarts of the store

ASSUME CountersAssumption ==
  /\ Slots \in Nat \ {0} /\ Segments \in Nat \ {0}
  /\ MaxCounted \in Nat /\ MaxStoreBoots \in Nat

VARIABLES
  valid,      \* the file is there with the magic number and the format
  file,       \* the counters in the file
  storeBoots, \* how often the store has booted
  segPc,      \* where the harness is in its segment
  slot,       \* the next slot to read
  seg,        \* the segment
  opsErr,     \* the first snapshot failed
  before, after,  \* the snapshots
  segmentOps, \* the segment's store_ops: a delta or none
  counted,    \* history: operations counted in each slot, over all boots
  open, shut, \* history: counted when the first snapshot began and was complete
  late,       \* history: counted when the second snapshot began
  rebooted    \* history: the store booted between the two snapshots, or under one

storeVars   == <<valid, file, storeBoots, counted>>
readVars    == <<segPc, slot, seg, opsErr, before, after, segmentOps>>
segHistVars == <<open, shut, late, rebooted>>
counterVars == <<storeVars, readVars, segHistVars>>

SlotIds == 1..Slots
Zero == [s \in SlotIds |-> 0]
Absent == [s \in SlotIds |-> -1]

CountersInit ==
  /\ valid = FALSE /\ file = Zero /\ storeBoots = 0 /\ counted = Zero
  /\ segPc = "idle" /\ slot = 1 /\ seg = 0 /\ opsErr = FALSE
  /\ before = Zero /\ after = Zero /\ segmentOps = Absent
  /\ open = Zero /\ shut = Zero /\ late = Zero /\ rebooted = FALSE

\* External: the store counts an operation.
Count(s) ==
  /\ valid /\ counted[s] < MaxCounted
  /\ file' = [file EXCEPT ![s] = @ + 1]
  /\ counted' = [counted EXCEPT ![s] = @ + 1]
  /\ UNCHANGED <<valid, storeBoots, readVars, segHistVars>>

\* External: a boot writes the file anew, and until it has there may be no
\* counter file to read.
Lose ==
  /\ valid /\ storeBoots < MaxStoreBoots
  /\ valid' = FALSE
  /\ UNCHANGED <<file, storeBoots, counted, readVars, segHistVars>>

Boot ==
  /\ storeBoots < MaxStoreBoots
  /\ storeBoots' = storeBoots + 1 /\ valid' = TRUE /\ file' = Zero
  /\ rebooted' = (rebooted \/ segPc # "idle")
  /\ UNCHANGED <<counted, readVars, open, shut, late>>

\* Read: a file that is short or has the wrong header is an error, and the
\* segment goes without.
StartBefore ==
  /\ segPc = "idle" /\ seg < Segments
  /\ IF valid THEN segPc' = "before" ELSE segPc' = "run"
  /\ opsErr' = ~valid
  /\ slot' = 1 /\ segmentOps' = Absent
  /\ open' = counted /\ shut' = counted /\ rebooted' = FALSE
  /\ UNCHANGED <<seg, before, after, late, storeVars>>

ReadBefore ==
  /\ segPc = "before"
  /\ before' = [before EXCEPT ![slot] = file[slot]]
  /\ IF slot = Slots THEN segPc' = "run" /\ slot' = 1 ELSE slot' = slot + 1 /\ UNCHANGED segPc
  /\ shut' = counted
  /\ UNCHANGED <<seg, opsErr, after, segmentOps, open, late, rebooted, storeVars>>

\* The segment is over: a second snapshot if there was a first.
StartAfter ==
  /\ segPc = "run"
  /\ IF ~opsErr /\ valid THEN segPc' = "after" ELSE segPc' = "idle"
  /\ seg' = seg + 1
  /\ late' = counted
  /\ UNCHANGED <<slot, opsErr, before, after, segmentOps, open, shut, rebooted, storeVars>>

ReadAfter ==
  /\ segPc = "after"
  /\ after' = [after EXCEPT ![slot] = file[slot]]
  /\ IF slot = Slots THEN segPc' = "diff" /\ slot' = 1 ELSE slot' = slot + 1 /\ UNCHANGED segPc
  /\ UNCHANGED <<seg, opsErr, before, segmentOps, segHistVars, storeVars>>

Shrank == \E s \in SlotIds : after[s] < before[s]

\* Mutant of Delta: the second snapshot is taken for the difference.
DeltaWhole == after

\* Mutant of Delta: the loop starts one slot behind the header.
DeltaSkipsFirst == [s \in SlotIds |-> IF s = 1 THEN 0 ELSE after[s] - before[s]]

Delta == [s \in SlotIds |-> after[s] - before[s]]

\* Diff: a counter that shrank is an error, and the segment goes without.
Diff ==
  /\ segPc = "diff" /\ segPc' = "idle"
  /\ segmentOps' = IF Shrank THEN Absent ELSE Delta
  /\ UNCHANGED <<slot, seg, opsErr, before, after, segHistVars, storeVars>>

CountersNext ==
  \/ \E s \in SlotIds : Count(s)
  \/ Lose \/ Boot
  \/ StartBefore \/ ReadBefore \/ StartAfter \/ ReadAfter \/ Diff

-----------------------------------------------------------------------------

Counts == [SlotIds -> Nat]

CountersTypeOK ==
  /\ valid \in BOOLEAN /\ file \in Counts /\ storeBoots \in Nat /\ counted \in Counts
  /\ segPc \in {"idle", "before", "run", "after", "diff"} /\ slot \in SlotIds /\ seg \in Nat
  /\ opsErr \in BOOLEAN /\ before \in Counts /\ after \in Counts
  /\ segmentOps \in Counts \union {Absent}
  /\ open \in Counts /\ shut \in Counts /\ late \in Counts /\ rebooted \in BOOLEAN

\* What a segment publishes never exceeds what the store did between the
\* beginning of its first snapshot and now, in any slot, though the store
\* counts while it is read and may restart under either snapshot.
NeverOverstates ==
  segmentOps # Absent => \A s \in SlotIds : segmentOps[s] <= counted[s] - open[s]

\* Without a restart the delta is exact up to what happened while the two
\* snapshots were being taken: nothing between them is left out.
ExactWithinBoot ==
  (segmentOps # Absent /\ ~rebooted) =>
    \A s \in SlotIds : segmentOps[s] >= late[s] - shut[s]

-----------------------------------------------------------------------------
(* The strengthening that is inductive.                                    *)

\* The slots the two snapshots have read so far.
InBefore(s) == (segPc = "before" /\ s < slot) \/ (segPc \in {"run", "after", "diff"} /\ ~opsErr)
InAfter(s) == (segPc = "after" /\ s < slot) \/ segPc = "diff"

SlotInv(s) ==
  /\ open[s] <= counted[s] /\ shut[s] <= counted[s] /\ late[s] <= counted[s]
  /\ InBefore(s) => file[s] - before[s] <= counted[s] - open[s]
  /\ InBefore(s) /\ ~rebooted => file[s] - before[s] >= counted[s] - shut[s]
  /\ InAfter(s) => after[s] - before[s] <= counted[s] - open[s]
  /\ InAfter(s) /\ ~rebooted => after[s] - before[s] >= late[s] - shut[s]

SnapshotInv ==
  /\ segPc \in {"before", "after", "diff"} => ~opsErr
  /\ segPc # "idle" => segmentOps = Absent
  /\ segPc = "run" => slot = 1
  /\ \A s \in SlotIds : SlotInv(s)
=============================================================================

----------------------------- MODULE SoakLoops -----------------------------
(***************************************************************************)
(* The loops beside a soak and the result they end up in                   *)
(* (cmd/zoubench/sustain.go: the load phase, the loops of a segment,       *)
(* compactLoop, gcLoop, foldLoop, the assembly of the result;              *)
(* sustain/sustain.go: MaxAmp, BoundHeld, FoldTotals and what the parsers  *)
(* accept).                                                                *)
(*                                                                         *)
(* A segment closes its stop channel and does not wait: its loops may be   *)
(* in the middle of a command, and still record, while the next segment's  *)
(* run and while the result is put together.  select takes either case     *)
(* when a tick and the stop are both there.                                *)
(*                                                                         *)
(* External: zou's compact, gc and fold commands, which may do their work  *)
(* and still fail or print what cannot be parsed.  checkpointLoop is left  *)
(* out: it records nothing.  Drills and the ledger are in Soak, the        *)
(* parsing of a gc summary is not modelled.                                *)
(***************************************************************************)
EXTENDS Integers, Sequences, FiniteSets, SequencesExt, ResultFile

CONSTANTS
  Segments,   \* nSeg
  Scenarios,  \* the scenarios: which of the gc and the fold loop each asks for,
              \* and the bound on the ticks taken in it
  Statuses,   \* the arrays compact --status may print: shards [amp, bound]
  Reports,    \* the shards of the reports a fold may print: [retired, after]
  Counts      \* what a gc sweep may delete

ASSUME SoakLoopsAssumption ==
  /\ Segments \in Nat \ {0}
  /\ Scenarios \subseteq [loops : SUBSET {"gc", "fold"}, maxTicks : Nat]
  /\ \A s \in Statuses : s \in Seq([amp : Nat, bound : Nat])
  /\ \A r \in Reports : r \in Seq([retired : Nat, after : Nat])
  /\ Counts \subseteq Nat

VARIABLES
  sc,        \* the scenario: GCSecs > 0, FoldSecs > 0
  pc,        \* where cmdSustain is
  seq,       \* the segment, 0 for the load phase
  stop,      \* the phases whose stop channel is closed
  loop,      \* each loop: where it is, and the sample it holds
  amps,      \* ampTimeline, one for each segment
  segments,  \* the timelines recorded
  overs, folds, sweeps,
  result,    \* the figures published
  ticks,     \* ticks taken
  cut,       \* history: layers retired and objects deleted in the store,
             \* and how much of each no report told
  kept,      \* history: what folds and sweeps said when the last segment was recorded
  judged     \* history: overs as BoundHeld saw them

mainVars == <<sc, pc, seq, stop, segments, result, judged, kept>>
dataVars == <<amps, overs, folds, sweeps>>
workVars == <<loop, ticks, cut>>
vars     == <<mainVars, dataVars, workVars, saveVars>>

Phases == 0..Segments
Kinds == {"compact", "gc", "fold"}
Loops == [kind : Kinds, phase : Phases]
None == -1
NoSample == <<>>
NoCut == [retired |-> 0, deleted |-> 0, untoldRetired |-> 0, untoldDeleted |-> 0]
NoneKept == [retired |-> 0, deleted |-> 0]
Off == [pc |-> "off", got |-> NoSample]
Waiting == [pc |-> "wait", got |-> NoSample]

\* The load phase has the gc and the fold loop only.
LoopsOf(p) ==
  {l \in Loops : l.phase = p /\ l.kind \in sc.loops \cup (IF p = 0 THEN {} ELSE {"compact"})}

StartLoops(p) == [l \in Loops |-> IF l \in LoopsOf(p) THEN Waiting ELSE loop[l]]

Init ==
  /\ sc \in Scenarios
  /\ pc = "load" /\ seq = 0 /\ stop = {}
  /\ loop = [l \in Loops |-> IF l \in LoopsOf(0) THEN Waiting ELSE Off]
  /\ amps = [p \in 1..Segments |-> <<>>] /\ segments = <<>>
  /\ overs = <<>> /\ folds = <<>> /\ sweeps = <<>>
  /\ result = [held |-> "absent", retired |-> None, failures |-> 0, after |-> None,
               deleted |-> None]
  /\ ticks = 0 /\ judged = <<>>
  /\ cut = NoCut /\ kept = NoneKept
  /\ SaveInit

Running == exit = "running"

-----------------------------------------------------------------------------
(* What a sample is reduced to.                                            *)

\* MaxAmp: the worst shard, and whether any is over its own bound.
Worst(shards) == FoldLeft(LAMBDA m, s : IF s.amp > m THEN s.amp ELSE m, 0, shards)
IsOver(shards) == \E i \in DOMAIN shards : shards[i].bound > 0 /\ shards[i].amp > shards[i].bound

\* BoundHeld: two samples in a row over the bound fail it.
BoundHeld(s) == \A i \in 2..Len(s) : ~(s[i].over /\ s[i - 1].over)

Total(s, Figure(_)) == SumFunction([i \in DOMAIN s |-> Figure(s[i])])

\* FoldTotals: the layers retired and the bytes left, over the shards that
\* moved.
Retired(shards) == Total(shards, LAMBDA s : s.retired)
BytesAfter(shards) == Total(shards, LAMBDA s : s.after)

-----------------------------------------------------------------------------
(* The loops.                                                              *)

Becomes(l, p, s) == loop' = [loop EXCEPT ![l] = [pc |-> p, got |-> s]]
At(l, p) == Running /\ loop[l].pc = p

\* case <-stop
Stopped(l) ==
  /\ At(l, "wait") /\ l.phase \in stop
  /\ loop' = [loop EXCEPT ![l] = Off]
  /\ UNCHANGED <<mainVars, dataVars, ticks, cut, saveVars>>

\* case <-t.C, which the closed channel does not rule out
Tick(l) ==
  /\ At(l, "wait") /\ ticks < sc.maxTicks
  /\ ticks' = ticks + 1
  /\ Becomes(l, "run", NoSample)
  /\ UNCHANGED <<mainVars, dataVars, cut, saveVars>>

\* compactLoop, the sweep, whose failure is not looked at.
Sweep(l) ==
  /\ l.kind = "compact" /\ At(l, "run")
  /\ \E ok \in BOOLEAN : Becomes(l, "status", [swept |-> ok])
  /\ UNCHANGED <<mainVars, dataVars, ticks, cut, saveVars>>

\* The status is read: an error, noise and an empty array drop the sample.
Status(l) ==
  /\ l.kind = "compact" /\ At(l, "status")
  /\ \/ Becomes(l, "wait", NoSample)
     \/ \E s \in Statuses :
          IF s = <<>> THEN Becomes(l, "wait", NoSample)
          ELSE Becomes(l, "amp", [phase |-> l.phase, swept |-> loop[l].got.swept,
                                  amp |-> Worst(s), over |-> IsOver(s)])
  /\ UNCHANGED <<mainVars, dataVars, ticks, cut, saveVars>>

\* record: the segment's own timeline under ampMu, then overs under overMu.
NoteAmp(l) ==
  /\ At(l, "amp") /\ Becomes(l, "over", loop[l].got)
  /\ amps' = [amps EXCEPT ![l.phase] = Append(@, loop[l].got)]
  /\ UNCHANGED <<mainVars, overs, folds, sweeps, ticks, cut, saveVars>>

NoteOver(l) ==
  /\ At(l, "over") /\ Becomes(l, "wait", NoSample)
  /\ overs' = Append(overs, loop[l].got)
  /\ UNCHANGED <<mainVars, amps, folds, sweeps, ticks, cut, saveVars>>

\* gcLoop: the sweep deletes n objects; its summary arrives, or the command
\* fails or prints something else and the sample is dropped.
Collect(l) ==
  /\ l.kind = "gc" /\ At(l, "run")
  /\ \E n \in Counts, clear \in BOOLEAN :
       /\ cut' = [cut EXCEPT !.deleted = @ + n,
                             !.untoldDeleted = IF clear THEN @ ELSE @ + n]
       /\ IF clear THEN Becomes(l, "note", [deleted |-> n])
                   ELSE Becomes(l, "wait", NoSample)
  /\ UNCHANGED <<mainVars, dataVars, ticks, saveVars>>

\* Mutant of NoteSweep: recordSweep without gcMu, and two appends take one slot.
NoteSweepUnlocked(l) ==
  /\ l.kind = "gc" /\ At(l, "note") /\ Becomes(l, "wait", NoSample)
  /\ \/ sweeps' = Append(sweeps, loop[l].got)
     \/ sweeps # <<>> /\ sweeps' = [sweeps EXCEPT ![Len(sweeps)] = loop[l].got]
  /\ UNCHANGED <<mainVars, amps, overs, folds, ticks, cut, saveVars>>

NoteSweep(l) ==
  /\ l.kind = "gc" /\ At(l, "note") /\ Becomes(l, "wait", NoSample)
  /\ sweeps' = Append(sweeps, loop[l].got)
  /\ UNCHANGED <<mainVars, amps, overs, folds, ticks, cut, saveVars>>

\* foldLoop: a fold that failed, or whose report is noise or has no horizon,
\* leaves a sample with its error.
FoldRuns(l) ==
  /\ l.kind = "fold" /\ At(l, "run")
  /\ \E r \in Reports, clear \in BOOLEAN :
       /\ cut' = [cut EXCEPT !.retired = @ + Retired(r),
                             !.untoldRetired = IF clear THEN @ ELSE @ + Retired(r)]
       /\ Becomes(l, "note",
            IF clear THEN [error |-> FALSE, retired |-> Retired(r),
                           after |-> BytesAfter(r)]
                     ELSE [error |-> TRUE])
  /\ UNCHANGED <<mainVars, dataVars, ticks, saveVars>>

NoteFold(l) ==
  /\ l.kind = "fold" /\ At(l, "note") /\ Becomes(l, "wait", NoSample)
  /\ folds' = Append(folds, loop[l].got)
  /\ UNCHANGED <<mainVars, amps, overs, sweeps, ticks, cut, saveVars>>

LoopStep(l) ==
  \/ Stopped(l) \/ Tick(l)
  \/ Sweep(l) \/ Status(l) \/ NoteAmp(l) \/ NoteOver(l)
  \/ Collect(l) \/ NoteSweep(l) \/ FoldRuns(l) \/ NoteFold(l)

-----------------------------------------------------------------------------
(* cmdSustain.                                                             *)

MainAt(p) == Running /\ pc = p

\* Once the document is marshalled, or the process is gone, nothing reads the
\* lists any more and what the loops still do reaches nothing: both are left
\* behind here.
Forget ==
  /\ amps' = [p \in 1..Segments |-> <<>>] /\ segments' = <<>> /\ judged' = <<>>
  /\ overs' = <<>> /\ folds' = <<>> /\ sweeps' = <<>>
  /\ loop' = [l \in Loops |-> Off] /\ cut' = NoCut /\ kept' = NoneKept /\ ticks' = 0

ProcessGone == Forget /\ UNCHANGED <<sc, pc, seq, stop, result>>

\* The load is in, or failed and the soak dies with it.
LoadDone ==
  /\ MainAt("load") /\ pc' = "start" /\ seq' = 1
  /\ stop' = stop \cup {0}
  /\ UNCHANGED <<sc, segments, result, judged, kept, dataVars, workVars, saveVars>>

LoadFails ==
  /\ MainAt("load") /\ DieEarly /\ ProcessGone

\* Mutant of StartSegment: the over flags are kept per segment.
StartSegmentResets ==
  /\ MainAt("start") /\ pc' = "segment"
  /\ loop' = StartLoops(seq) /\ overs' = <<>>
  /\ UNCHANGED <<sc, seq, stop, segments, result, judged, kept, amps, folds, sweeps, ticks, cut,
                 saveVars>>

StartSegment ==
  /\ MainAt("start") /\ pc' = "segment"
  /\ loop' = StartLoops(seq)
  /\ UNCHANGED <<sc, seq, stop, segments, result, judged, kept, dataVars, ticks, cut, saveVars>>

\* pgbench is done: close(stopTick).
StopTick ==
  /\ MainAt("segment") /\ pc' = "record"
  /\ stop' = stop \cup {seq}
  /\ UNCHANGED <<sc, seq, segments, result, judged, kept, dataVars, workVars, saveVars>>

\* What a fold that ran retired, and the folds that failed.
Told(f) == IF f.error THEN 0 ELSE f.retired
Failed(s) == {i \in DOMAIN s : s[i].error}
Deleted(s) == s.deleted

\* The segment takes the timeline as it is; a node that is gone ends the soak.
RecordSegment ==
  /\ MainAt("record")
  /\ segments' = Append(segments, amps[seq])
  /\ \/ seq < Segments /\ seq' = seq + 1 /\ pc' = "start" /\ UNCHANGED kept
     \/ /\ UNCHANGED seq /\ pc' = "overs"
        /\ kept' = [retired |-> Total(folds, Told), deleted |-> Total(sweeps, Deleted)]
  /\ UNCHANGED <<sc, stop, result, judged, dataVars, workVars, saveVars>>

\* amp_bound_held, under overMu.
ReadOvers ==
  /\ MainAt("overs") /\ pc' = "folds"
  /\ judged' = overs
  /\ result' = [result EXCEPT !.held =
                  IF overs = <<>> THEN "absent" ELSE IF BoundHeld(overs) THEN "yes" ELSE "no"]
  /\ UNCHANGED <<sc, seq, stop, segments, kept, dataVars, workVars, saveVars>>

\* The fold figures, under foldMu: failures counted, the rest added up, and
\* the last of the rest as the headline.
ReadFolds ==
  /\ MainAt("folds") /\ pc' = "sweeps"
  /\ LET good == DOMAIN folds \ Failed(folds)
     IN  result' =
           IF folds = <<>> THEN result
           ELSE [result EXCEPT !.retired = Total(folds, Told),
                               !.failures = Cardinality(Failed(folds)),
                               !.after = IF good = {} THEN None ELSE folds[Max(good)].after]
  /\ UNCHANGED <<sc, seq, stop, segments, judged, kept, dataVars, workVars, saveVars>>

\* gc_deleted, under gcMu.
ReadSweeps ==
  /\ MainAt("sweeps") /\ pc' = "marshal"
  /\ result' = IF sweeps = <<>> THEN result
               ELSE [result EXCEPT !.deleted = Total(sweeps, Deleted)]
  /\ UNCHANGED <<sc, seq, stop, segments, judged, kept, dataVars, workVars, saveVars>>

\* The document is marshalled.
Marshal ==
  /\ MainAt("marshal") /\ pc' = "save"
  /\ BeginSave /\ Forget
  /\ UNCHANGED <<sc, seq, stop, result>>

Save == pc = "save" /\ SaveStep /\ UNCHANGED <<mainVars, dataVars, workVars>>
Kill == Killed /\ ProcessGone

Main ==
  \/ LoadDone \/ LoadFails \/ StartSegment \/ StopTick \/ RecordSegment
  \/ ReadOvers \/ ReadFolds \/ ReadSweeps \/ Marshal \/ Save

Next == Main \/ Kill \/ \E l \in Loops : LoopStep(l)

Spec == Init /\ [][Next]_vars

-----------------------------------------------------------------------------
(* Properties.                                                             *)

\* The samples, the loops and the figures have the shapes the code gives them.
TypeOK ==
  /\ SaveTypeOK
  /\ pc \in {"load", "start", "segment", "record", "overs", "folds", "sweeps", "marshal", "save"}
  /\ seq \in Phases /\ stop \subseteq Phases
  /\ \A l \in Loops : loop[l].pc \in
       {"off", "wait", "run", "status", "amp", "over", "note"}
  /\ \A i \in DOMAIN sweeps : sweeps[i].deleted \in Nat
  /\ \A i \in DOMAIN folds : folds[i].error \in BOOLEAN
  /\ \A i \in DOMAIN overs : overs[i].over \in BOOLEAN
  /\ ticks \in 0..sc.maxTicks
  /\ result.retired \in Nat \cup {None} /\ result.deleted \in Nat \cup {None}
  /\ result.after \in Nat \cup {None} /\ result.failures \in Nat
  /\ result.held \in {"absent", "yes", "no"}

\* The places of a segment's samples among the first n of a list.
Of(s, g, n) == {i \in 1..n : s[i].phase = g}

\* Loops outlive their segment, and record appends to two lists under two
\* locks.  Still the gate judges what the timelines show: the flags of a
\* segment are its timeline in the same order, each once, and of a published
\* timeline at most the last sample is not among those amp_bound_held was
\* computed from (compactLoop and its record function, BoundHeld).
PublishedIsJudged ==
  /\ \A i \in DOMAIN overs :
       LET own == amps[overs[i].phase]
           k   == Cardinality(Of(overs, overs[i].phase, i))
       IN  k <= Len(own) /\ overs[i] = own[k]
  /\ \A g \in 1..Segments : g <= Len(segments) =>
       /\ IsPrefix(segments[g], amps[g])
       /\ pc \in {"folds", "sweeps", "marshal"} =>
            Len(segments[g]) <= Cardinality(Of(judged, g, Len(judged))) + 1

\* What the loops of a kind have in hand and not yet recorded.
Held(k, Figure(_)) ==
  SumFunction([l \in Loops |-> IF l.kind = k /\ loop[l].pc = "note" THEN Figure(loop[l].got) ELSE 0])

\* A figure the document does not have stands for nothing done.
Claimed(x) == IF x = None THEN 0 ELSE x

\* Nothing the folds and sweeps report is lost between a loop and the lists,
\* or added twice: what the store lost is what the samples say, plus what the
\* loops still hold, plus what no report told.  While loops that outlived their
\* segment go on recording under the reader's feet, fold_layers_retired and
\* gc_deleted hold all that was on the lists when the last segment ended and
\* never more than was reported (foldLoop, gcLoop, the assembly of the result).
CutIsCounted ==
  pc # "save" /\ Running =>
  /\ Total(folds, Told) + Held("fold", Told) + cut.untoldRetired = cut.retired
  /\ Total(sweeps, Deleted) + Held("gc", Deleted) + cut.untoldDeleted = cut.deleted
  /\ pc \in {"sweeps", "marshal"} =>
       /\ kept.retired <= Claimed(result.retired)
       /\ Claimed(result.retired) <= cut.retired - cut.untoldRetired
       /\ result.failures <= Cardinality(Failed(folds))
  /\ pc = "marshal" =>
       /\ kept.deleted <= Claimed(result.deleted)
       /\ Claimed(result.deleted) <= cut.deleted - cut.untoldDeleted
=============================================================================

----------------------------- MODULE RunCommand -----------------------------
(***************************************************************************)
(* The run command (cmd/zoubench/run.go: cmdRun, keepLogs): it may load    *)
(* the database, may warm it up, drives it for a timed window, and         *)
(* publishes differences of counters that somebody else keeps.  The store  *)
(* counters are read three times, the server's own around the window.      *)
(*                                                                         *)
(* External: the store and the server.  Work moves their counters whatever *)
(* the command is doing, and a store that boots again starts from zero,    *)
(* which zoustats.Diff refuses when it can tell.                           *)
(***************************************************************************)
EXTENDS Integers

CONSTANTS
  Inits, Warmups,  \* whether the scenario loads and warms up: sets of booleans
  MaxWork,         \* bound on the work done
  MaxBoots         \* bound on the times the store boots again

ASSUME RunCommandAssumption ==
  /\ Inits \subseteq BOOLEAN /\ Warmups \subseteq BOOLEAN
  /\ MaxWork \in Nat /\ MaxBoots \in Nat

VARIABLES
  runPc,      \* where cmdRun is
  init, warm, \* the scenario
  ops,        \* external: the store counters
  commits,    \* external: the server's own counter
  opsStart, opsBefore, pgBefore, pgAfter,   \* what was read
  logdir,     \* the temporary directory: "none", "kept" or "removed"
  archive,    \* external: the archive: "none", "partial", "short" or "whole"
  published,  \* the result
  boots,      \* how often the store booted again
  did         \* history: the work done while the command was in each stage

runVars == <<runPc, init, warm, ops, commits, opsStart, opsBefore, pgBefore, pgAfter, logdir,
             archive, published, boots, did>>

Stages == {"off", "start", "init", "warmup", "mark", "snapshot", "drive", "after", "diff",
           "load", "archive", "write", "done", "died"}
None == -1
Nothing == [timed |-> None, load |-> None, pg |-> None, log |-> FALSE]

RunInit ==
  /\ runPc = "off" /\ init = FALSE /\ warm = FALSE
  /\ ops = 0 /\ commits = 0
  /\ opsStart = None /\ opsBefore = None /\ pgBefore = None /\ pgAfter = None
  /\ logdir = "none" /\ archive = "none" /\ published = Nothing /\ boots = 0
  /\ did = [s \in Stages |-> 0]

Busy == runPc \notin {"off", "done", "died"}

\* External: traffic reaches the store and the server, from the command's
\* own load and from what the node does by itself.
Traffic ==
  /\ Busy /\ commits < MaxWork
  /\ ops' = ops + 1 /\ commits' = commits + 1
  /\ did' = [did EXCEPT ![runPc] = @ + 1]
  /\ UNCHANGED <<runPc, init, warm, opsStart, opsBefore, pgBefore, pgAfter, logdir, archive,
                 published, boots>>

\* External: the store boots again.
Boots ==
  /\ Busy /\ boots < MaxBoots /\ ops' = 0 /\ boots' = boots + 1
  /\ UNCHANGED <<runPc, init, warm, commits, opsStart, opsBefore, pgBefore, pgAfter, logdir,
                 archive, published, did>>

extVars == <<ops, commits, archive, boots, did>>

RunStart ==
  /\ runPc = "off" /\ runPc' = "start"
  /\ init' \in Inits /\ warm' \in Warmups
  /\ UNCHANGED <<extVars, opsStart, opsBefore, pgBefore, pgAfter, logdir, published>>

\* The first mark, before anything is loaded.
FirstMark ==
  /\ runPc = "start" /\ opsStart' = ops
  /\ runPc' = IF init THEN "init" ELSE IF warm THEN "warmup" ELSE "mark"
  /\ UNCHANGED <<extVars, init, warm, opsBefore, pgBefore, pgAfter, logdir, published>>

InitDone ==
  /\ runPc = "init" /\ runPc' = IF warm THEN "warmup" ELSE "mark"
  /\ UNCHANGED <<extVars, init, warm, opsStart, opsBefore, pgBefore, pgAfter, logdir, published>>

WarmupDone ==
  /\ runPc = "warmup" /\ runPc' = "mark"
  /\ UNCHANGED <<extVars, init, warm, opsStart, opsBefore, pgBefore, pgAfter, logdir, published>>

\* The second mark, where the timed window starts, then the server's snapshot
\* and the directory for the logs.
SecondMark ==
  /\ runPc = "mark" /\ opsBefore' = ops /\ runPc' = "snapshot"
  /\ UNCHANGED <<extVars, init, warm, opsStart, pgBefore, pgAfter, logdir, published>>

Snapshot ==
  /\ runPc = "snapshot" /\ pgBefore' = commits /\ logdir' = "kept" /\ runPc' = "drive"
  /\ UNCHANGED <<extVars, init, warm, opsStart, opsBefore, pgAfter, published>>

DriverDone ==
  /\ runPc = "drive" /\ runPc' = "after"
  /\ UNCHANGED <<extVars, init, warm, opsStart, opsBefore, pgBefore, pgAfter, logdir, published>>

SnapshotAfter ==
  /\ runPc = "after" /\ pgAfter' = commits /\ runPc' = "diff"
  /\ published' = [published EXCEPT !.pg = commits - pgBefore]
  /\ UNCHANGED <<extVars, init, warm, opsStart, opsBefore, pgBefore, logdir>>

\* die: os.Exit runs no deferred function, the log directory stays.
DiesWith(v) == runPc' = "died" /\ UNCHANGED v

\* Mutant of WindowStart: the window is measured from the first mark.
WindowFromStart == opsStart

\* The mark the timed window is measured from.
WindowStart == opsBefore

\* The third mark; a counter that shrank is fatal.
ThirdMark ==
  /\ runPc = "diff"
  /\ IF ops < WindowStart THEN DiesWith(published)
     ELSE published' = [published EXCEPT !.timed = ops - WindowStart] /\ runPc' = "load"
  /\ UNCHANGED <<extVars, init, warm, opsStart, opsBefore, pgBefore, pgAfter, logdir>>

\* The load block, of the first two marks; here a counter that shrank leaves
\* the line out.
LoadBlock ==
  /\ runPc = "load" /\ runPc' = "archive"
  /\ published' = IF init /\ opsBefore >= opsStart
                  THEN [published EXCEPT !.load = opsBefore - opsStart] ELSE published
  /\ UNCHANGED <<extVars, init, warm, opsStart, opsBefore, pgBefore, pgAfter, logdir>>

\* keepLogs: nothing to keep; an archive that broke off, which stays as it is
\* and is not named; and two ways to come back without an error: with every
\* entry, or short of those it could not look at and of what closing the file
\* lost, both of which it passes over.
KeepLogs ==
  /\ runPc = "archive" /\ runPc' = "write"
  /\ archive' \in {"none", "partial", "short", "whole"}
  /\ published' = [published EXCEPT !.log = archive' \in {"short", "whole"}]
  /\ UNCHANGED <<init, warm, ops, commits, boots, did, opsStart, opsBefore, pgBefore, pgAfter,
                 logdir>>

\* The result is written and the deferred removal runs.
RunReturns ==
  /\ runPc = "write" /\ runPc' = "done" /\ logdir' = "removed"
  /\ UNCHANGED <<extVars, init, warm, opsStart, opsBefore, pgBefore, pgAfter, published>>

\* Any step that is checked with die: the marks, the load, the warmup, the
\* driver, the price card, the file.
RunDies ==
  /\ Busy /\ runPc \notin {"after", "load"} /\ DiesWith(logdir)
  /\ UNCHANGED <<extVars, init, warm, opsStart, opsBefore, pgBefore, pgAfter, published>>

RunNext ==
  \/ Traffic \/ Boots \/ RunStart \/ FirstMark \/ InitDone \/ WarmupDone \/ SecondMark
  \/ Snapshot \/ DriverDone \/ SnapshotAfter \/ ThirdMark \/ LoadBlock \/ KeepLogs
  \/ RunReturns \/ RunDies

-----------------------------------------------------------------------------
(* Properties.                                                             *)

\* What a result publishes is its own phase's: nothing of the load or of the
\* warmup is in the store's line or the server's, and nothing of the window in
\* the load's.  No line claims more than was done between its marks; without
\* another boot of the store its line has the whole window, which reaches a
\* little further than the server's at both ends, and the load's line has all
\* of the load.  Whether that one has only the load is LoadOnItsOwn's question
\* (the three marks of cmdRun).
LinesAreOwn ==
  runPc = "done" =>
    LET ofServer == did["drive"] + did["after"]
        ofStore  == did["snapshot"] + ofServer + did["diff"]
    IN  /\ published.pg = ofServer
        /\ published.timed <= ofStore
        /\ published.load <= did["init"] + did["warmup"] + did["mark"]
        /\ boots = 0 => /\ published.timed = ofStore
                        /\ init => published.load >= did["init"]
=============================================================================

--------------------------- MODULE CommandsProofs ---------------------------
(***************************************************************************)
(* Proofs about the commands that go through their steps alone, for every  *)
(* value of the constants: run, attach, probe and dashboard; about the     *)
(* store counters whose snapshots the run command and the soak subtract;   *)
(* and about the hold phase of fleet and the percentiles.                  *)
(***************************************************************************)
EXTENDS Commands, SumsProofs, SequenceTheorems

-----------------------------------------------------------------------------
(* run.                                                                    *)

RunType ==
  /\ runPc \in Stages /\ init \in BOOLEAN /\ boots \in Nat
  /\ ops \in Nat /\ commits \in Nat /\ did \in [Stages -> Nat]
  /\ opsStart \in Int /\ opsBefore \in Int /\ pgBefore \in Int
  /\ published \in [timed : Int, load : Int, pg : Int, log : BOOLEAN]

Load   == did["init"] + did["warmup"] + did["mark"]
Window == did["snapshot"] + did["drive"] + did["after"] + did["diff"]

\* What was counted between two marks is what was done between them, or less
\* once the store has booted again.
Tells(n, w) == n <= w /\ (boots = 0 => n = w)

Loading == {"init", "warmup", "mark"}
Timing  == {"snapshot", "drive", "after", "diff"}
Closing == {"load", "archive", "write", "done"}

\* No work is booked for a stage that is still to come.
NotYet ==
  /\ runPc \in {"off", "start"} => Load = 0
  /\ runPc \in {"off", "start"} \cup Loading => Window = 0
  /\ runPc \in {"off", "start"} \cup Loading \cup {"snapshot"} => did["drive"] = 0 /\ did["after"] = 0

\* The marks, while their work is being done and when it is over.
MarksInv ==
  /\ runPc \in Loading => Tells(ops - opsStart, Load)
  /\ runPc \in Timing \cup Closing => Tells(opsBefore - opsStart, Load)
  /\ runPc \in Timing => Tells(ops - opsBefore, Window)
  /\ runPc \in {"drive", "after"} => commits - pgBefore = did["drive"] + did["after"]

\* What the result already has.
LinesInv ==
  /\ runPc \in {"diff"} \cup Closing => published.pg = did["drive"] + did["after"]
  /\ runPc \in Closing => Tells(published.timed, Window)
  /\ runPc \notin {"archive", "write", "done", "died"} => published.load = None
  /\ runPc \in {"archive", "write", "done"} =>
       published.load <= Load /\ (boots = 0 /\ init => published.load = Load)

RunInv == RunType /\ NotYet /\ MarksInv /\ LinesInv

\* A step of the process is one of the run command's or leaves it alone.
LEMMA RunFrame == [Next]_vars => RunNext \/ UNCHANGED runVars
BY Zenon DEF Next, vars

LEMMA RunInitInv == Init => RunInv
<1> SUFFICES ASSUME Init PROVE RunInv
  OBVIOUS
<1>1. RunInit
  BY DEF Init
<1>2. did \in [Stages -> Nat] /\ \A s \in Stages : did[s] = 0
  BY <1>1 DEF RunInit
<1>3. Load = 0 /\ Window = 0 /\ did["drive"] = 0 /\ did["after"] = 0
  BY <1>2 DEF Load, Window, Stages
<1>4. init \in BOOLEAN
  BY <1>1, Zenon DEF RunInit
<1>5. published = Nothing /\ Nothing \in [timed : Int, load : Int, pg : Int, log : BOOLEAN]
      /\ Nothing.load = None
  BY <1>1 DEF RunInit, Nothing, None
<1>6. RunType
  BY <1>1, <1>2, <1>4, <1>5 DEF RunInit, RunType, Stages, None
<1>7. NotYet
  BY <1>3 DEF NotYet
<1>8. MarksInv /\ LinesInv
  BY <1>1, <1>5 DEF RunInit, MarksInv, LinesInv, Loading, Timing, Closing
<1> QED
  BY <1>6, <1>7, <1>8 DEF RunInv

LEMMA RunNextType ==
  ASSUME RunType, RunNext
  PROVE  RunType'
<1> USE DEF RunType
<1>1. init' \in BOOLEAN
  <2>1. init' = init \/ init' \in Inits
    BY Zenon DEF RunNext, Traffic, Boots, RunStart, FirstMark, InitDone, WarmupDone, SecondMark,
       Snapshot, DriverDone, SnapshotAfter, ThirdMark, LoadBlock, KeepLogs, RunReturns, RunDies
  <2> QED
    BY <2>1, RunCommandAssumption
<1>2. runPc' \in Stages
  BY DEF Stages, RunNext, Traffic, Boots, RunStart, FirstMark, InitDone, WarmupDone, SecondMark,
     Snapshot, DriverDone, SnapshotAfter, ThirdMark, LoadBlock, KeepLogs, RunReturns, RunDies,
     DiesWith
<1>3. boots' \in Nat /\ ops' \in Nat /\ commits' \in Nat
  BY DEF RunNext, Traffic, Boots, RunStart, FirstMark, InitDone, WarmupDone, SecondMark,
     Snapshot, DriverDone, SnapshotAfter, ThirdMark, LoadBlock, KeepLogs, RunReturns, RunDies,
     extVars
<1>4. did' \in [Stages -> Nat]
  <2>1. CASE Traffic
    BY <2>1 DEF Traffic
  <2>2. CASE ~Traffic
    <3>1. did' = did
      BY <2>2, Zenon DEF RunNext, Boots, RunStart, FirstMark, InitDone, WarmupDone, SecondMark,
         Snapshot, DriverDone, SnapshotAfter, ThirdMark, LoadBlock, KeepLogs, RunReturns, RunDies,
         extVars
    <3> QED
      BY <3>1
  <2> QED
    BY <2>1, <2>2
<1>5. opsStart' \in Int /\ opsBefore' \in Int /\ pgBefore' \in Int
  BY DEF RunNext, Traffic, Boots, RunStart, FirstMark, InitDone, WarmupDone, SecondMark,
     Snapshot, DriverDone, SnapshotAfter, ThirdMark, LoadBlock, KeepLogs, RunReturns, RunDies
<1>6. published' \in [timed : Int, load : Int, pg : Int, log : BOOLEAN]
  <2>1. CASE SnapshotAfter
    BY <2>1 DEF SnapshotAfter
  <2>2. CASE ThirdMark
    BY <2>2 DEF ThirdMark, DiesWith, WindowStart
  <2>3. CASE LoadBlock
    BY <2>3 DEF LoadBlock
  <2>4. CASE KeepLogs
    <3> DEFINE named == archive' \in {"short", "whole"}
    <3>1. named \in BOOLEAN
      OBVIOUS
    <3>2. published' = [published EXCEPT !.log = named]
      BY <2>4 DEF KeepLogs
    <3> HIDE DEF named
    <3> QED
      BY <3>1, <3>2
  <2>5. CASE ~(SnapshotAfter \/ ThirdMark \/ LoadBlock \/ KeepLogs)
    <3>1. published' = published
      BY <2>5, Zenon DEF RunNext, Traffic, Boots, RunStart, FirstMark, InitDone, WarmupDone,
         SecondMark, Snapshot, DriverDone, RunReturns, RunDies
    <3> QED
      BY <3>1
  <2> QED
    BY <2>1, <2>2, <2>3, <2>4, <2>5
<1> QED
  BY <1>1, <1>2, <1>3, <1>4, <1>5, <1>6


\* The work of each stage is a number.
LEMMA Work ==
  ASSUME RunType
  PROVE  /\ did["init"] \in Nat /\ did["warmup"] \in Nat /\ did["mark"] \in Nat
         /\ did["snapshot"] \in Nat /\ did["drive"] \in Nat /\ did["after"] \in Nat
         /\ did["diff"] \in Nat /\ Load \in Nat /\ Window \in Nat
         /\ published.timed \in Int /\ published.load \in Int /\ published.pg \in Int
<1>1. \A s \in Stages : did[s] \in Nat
  BY DEF RunType
<1>2. /\ did["init"] \in Nat /\ did["warmup"] \in Nat /\ did["mark"] \in Nat
      /\ did["snapshot"] \in Nat /\ did["drive"] \in Nat /\ did["after"] \in Nat
      /\ did["diff"] \in Nat
  BY <1>1 DEF Stages
<1>3. published.timed \in Int /\ published.load \in Int /\ published.pg \in Int
  BY DEF RunType
<1> QED
  BY <1>2, <1>3 DEF Load, Window

\* Work between two marks is counted by both, once.
LEMMA TrafficInv ==
  ASSUME RunInv, Traffic
  PROVE  NotYet' /\ MarksInv' /\ LinesInv'
<1>1. RunType /\ NotYet /\ MarksInv /\ LinesInv
  BY DEF RunInv
<1>2. /\ ops' = ops + 1 /\ commits' = commits + 1
      /\ UNCHANGED <<runPc, init, opsStart, opsBefore, pgBefore, archive, published, boots>>
      /\ Busy
  BY DEF Traffic
<1>3. ops \in Nat /\ commits \in Nat /\ opsStart \in Int /\ opsBefore \in Int /\ pgBefore \in Int
      /\ boots \in Nat
  BY <1>1 DEF RunType
<1>4. \A s \in Stages : did'[s] = IF s = runPc THEN did[s] + 1 ELSE did[s]
  BY <1>1 DEF Traffic, RunType
<1>5. /\ did'["init"] = IF runPc = "init" THEN did["init"] + 1 ELSE did["init"]
      /\ did'["warmup"] = IF runPc = "warmup" THEN did["warmup"] + 1 ELSE did["warmup"]
      /\ did'["mark"] = IF runPc = "mark" THEN did["mark"] + 1 ELSE did["mark"]
      /\ did'["snapshot"] = IF runPc = "snapshot" THEN did["snapshot"] + 1 ELSE did["snapshot"]
      /\ did'["drive"] = IF runPc = "drive" THEN did["drive"] + 1 ELSE did["drive"]
      /\ did'["after"] = IF runPc = "after" THEN did["after"] + 1 ELSE did["after"]
      /\ did'["diff"] = IF runPc = "diff" THEN did["diff"] + 1 ELSE did["diff"]
  BY <1>4 DEF Stages
<1>6. /\ Load' = IF runPc \in Loading THEN Load + 1 ELSE Load
      /\ Window' = IF runPc \in Timing THEN Window + 1 ELSE Window
      /\ Load \in Nat /\ Window \in Nat /\ did["drive"] \in Nat /\ did["after"] \in Nat
      /\ published.timed \in Int /\ published.load \in Int /\ published.pg \in Int
  BY <1>1, <1>5, Work DEF Load, Window, Loading, Timing
<1>7. NotYet'
  BY <1>1, <1>2, <1>5, <1>6 DEF NotYet, Loading, Timing
<1>8. MarksInv'
  BY <1>1, <1>2, <1>3, <1>5, <1>6 DEF MarksInv, Tells, Loading, Timing, Closing
<1>9. LinesInv'
  BY <1>1, <1>2, <1>3, <1>5, <1>6 DEF LinesInv, Tells, Loading, Timing, Closing, Busy
<1> QED
  BY <1>7, <1>8, <1>9

\* A store that boots again counts less, never more.
LEMMA BootsInv ==
  ASSUME RunInv, Boots
  PROVE  NotYet' /\ MarksInv' /\ LinesInv'
<1>1. RunType /\ NotYet /\ MarksInv /\ LinesInv
  BY DEF RunInv
<1>2. /\ ops' = 0 /\ boots' = boots + 1
      /\ UNCHANGED <<runPc, init, did, commits, opsStart, opsBefore, pgBefore, archive, published>>
  BY DEF Boots
<1>3. ops \in Nat /\ commits \in Nat /\ opsStart \in Int /\ opsBefore \in Int /\ pgBefore \in Int
      /\ boots \in Nat /\ boots' # 0
  BY <1>1, <1>2 DEF RunType
<1>4. UNCHANGED <<Load, Window>> /\ Load \in Nat /\ Window \in Nat
  BY <1>1, <1>2, Work DEF Load, Window
<1>5. NotYet'
  BY <1>1, <1>2, <1>4 DEF NotYet
<1>6. MarksInv'
  BY <1>1, <1>2, <1>3, <1>4 DEF MarksInv, Tells
<1>7. LinesInv'
  BY <1>1, <1>2, <1>3, <1>4 DEF LinesInv, Tells
<1> QED
  BY <1>5, <1>6, <1>7

\* The command's own steps: each mark starts what the next one ends.
LEMMA StepInv ==
  ASSUME RunInv, RunNext, ~Traffic, ~Boots
  PROVE  NotYet' /\ MarksInv' /\ LinesInv'
<1>1. RunType /\ NotYet /\ MarksInv /\ LinesInv
  BY DEF RunInv
<1>2. UNCHANGED <<did, boots, ops, commits>>
  BY Zenon DEF RunNext, RunStart, FirstMark, InitDone, WarmupDone, SecondMark, Snapshot,
     DriverDone, SnapshotAfter, ThirdMark, LoadBlock, KeepLogs, RunReturns, RunDies, extVars
<1>3. UNCHANGED <<Load, Window>>
  BY <1>2 DEF Load, Window
<1>4. /\ ops \in Nat /\ commits \in Nat /\ opsStart \in Int /\ opsBefore \in Int
      /\ pgBefore \in Int /\ boots \in Nat
      /\ published \in [timed : Int, load : Int, pg : Int, log : BOOLEAN]
  BY <1>1 DEF RunType
<1>5. /\ Load \in Nat /\ Window \in Nat /\ did["drive"] \in Nat /\ did["after"] \in Nat
      /\ did["diff"] \in Nat /\ did["snapshot"] \in Nat
      /\ published.timed \in Int /\ published.load \in Int /\ published.pg \in Int
  BY <1>1, Work
<1> USE <1>1, <1>2, <1>3, <1>4, <1>5 DEF Tells, Loading, Timing, Closing
<1>6. CASE RunStart \/ FirstMark \/ InitDone \/ WarmupDone
  <2>1. UNCHANGED published
    BY <1>6, Zenon DEF RunStart, FirstMark, InitDone, WarmupDone
  <2>2. NotYet'
    BY <1>6 DEF RunStart, FirstMark, InitDone, WarmupDone, NotYet
  <2>3. MarksInv'
    BY <1>6 DEF RunStart, FirstMark, InitDone, WarmupDone, NotYet, MarksInv
  <2>4. LinesInv'
    BY <1>6, <2>1 DEF RunStart, FirstMark, InitDone, WarmupDone, LinesInv
  <2> QED
    BY <2>2, <2>3, <2>4
<1>7. CASE SecondMark \/ Snapshot \/ DriverDone
  <2>1. UNCHANGED published
    BY <1>7, Zenon DEF SecondMark, Snapshot, DriverDone
  <2>2. NotYet'
    BY <1>7 DEF SecondMark, Snapshot, DriverDone, NotYet
  <2>3. MarksInv'
    <3>1. CASE SecondMark
      BY <3>1 DEF SecondMark, NotYet, MarksInv
    <3>2. CASE Snapshot
      BY <3>2 DEF Snapshot, NotYet, MarksInv
    <3>3. CASE DriverDone
      BY <3>3 DEF DriverDone, MarksInv
    <3> QED
      BY <1>7, <3>1, <3>2, <3>3
  <2>4. LinesInv'
    BY <1>7, <2>1 DEF SecondMark, Snapshot, DriverDone, LinesInv
  <2> QED
    BY <2>2, <2>3, <2>4
<1>8. CASE SnapshotAfter
  <2>1. /\ published'.pg = commits - pgBefore /\ published'.load = published.load
        /\ runPc = "after" /\ runPc' = "diff" /\ UNCHANGED <<opsStart, opsBefore, pgBefore, init>>
    BY <1>8 DEF SnapshotAfter
  <2> QED
    BY <2>1 DEF NotYet, MarksInv, LinesInv
<1>9. CASE ThirdMark
  <2>1. CASE ops < opsBefore
    <3>1. runPc' = "died"
      BY <1>9, <2>1 DEF ThirdMark, WindowStart, DiesWith
    <3> QED
      BY <3>1 DEF NotYet, MarksInv, LinesInv
  <2>2. CASE ~(ops < opsBefore)
    <3>1. /\ published'.timed = ops - opsBefore /\ published'.load = published.load
          /\ published'.pg = published.pg
          /\ runPc = "diff" /\ runPc' = "load" /\ UNCHANGED <<opsStart, opsBefore, init>>
      BY <1>9, <2>2 DEF ThirdMark, WindowStart
    <3> QED
      BY <3>1 DEF NotYet, MarksInv, LinesInv
  <2> QED
    BY <2>1, <2>2
<1>10. CASE LoadBlock
  <2>1. /\ published'.timed = published.timed /\ published'.pg = published.pg
        /\ published'.load = IF init /\ opsBefore >= opsStart THEN opsBefore - opsStart ELSE published.load
        /\ runPc = "load" /\ runPc' = "archive" /\ UNCHANGED <<opsStart, opsBefore, init>>
    BY <1>10 DEF LoadBlock
  <2> QED
    BY <2>1 DEF NotYet, MarksInv, LinesInv, None
<1>11. CASE KeepLogs
  <2> DEFINE named == archive' \in {"short", "whole"}
  <2>1. published' = [published EXCEPT !.log = named]
    BY <1>11 DEF KeepLogs
  <2> HIDE DEF named
  <2>2. /\ published'.timed = published.timed /\ published'.pg = published.pg
        /\ published'.load = published.load
    BY <2>1
  <2>3. runPc = "archive" /\ runPc' = "write" /\ UNCHANGED <<opsStart, opsBefore, init>>
    BY <1>11 DEF KeepLogs
  <2> QED
    BY <2>2, <2>3 DEF NotYet, MarksInv, LinesInv
<1>12. CASE RunReturns
  BY <1>12 DEF RunReturns, extVars, NotYet, MarksInv, LinesInv
<1>13. CASE RunDies
  <2>1. runPc' = "died"
    BY <1>13 DEF RunDies, DiesWith
  <2> QED
    BY <2>1 DEF NotYet, MarksInv, LinesInv
<1> QED
  BY <1>6, <1>7, <1>8, <1>9, <1>10, <1>11, <1>12, <1>13 DEF RunNext

LEMMA RunNextInv == RunInv /\ [Next]_vars => RunInv'
<1> SUFFICES ASSUME RunInv, [Next]_vars PROVE RunInv'
  OBVIOUS
<1>1. CASE RunNext
  BY <1>1, RunNextType, TrafficInv, BootsInv, StepInv DEF RunInv
<1>2. CASE UNCHANGED runVars
  BY <1>2 DEF RunInv, RunType, NotYet, MarksInv, LinesInv, Tells, Load, Window, runVars
<1> QED
  BY <1>1, <1>2, RunFrame

\* A result has nothing of the load or the warmup in its timed lines and
\* nothing of the window in its load line, none of them claims more than was
\* done, and without another boot none leaves out any of its own phase, for
\* any amount of work and any number of boots.
THEOREM LinesCorrect == Spec => []LinesAreOwn
<1>1. RunInv => LinesAreOwn
  <2> SUFFICES ASSUME RunInv, runPc = "done" PROVE LinesAreOwn
    BY DEF LinesAreOwn
  <2>1. /\ did["init"] \in Nat /\ did["warmup"] \in Nat /\ did["mark"] \in Nat
        /\ did["snapshot"] \in Nat /\ did["drive"] \in Nat /\ did["after"] \in Nat
        /\ did["diff"] \in Nat
    BY Work DEF RunInv
  <2> QED
    BY <2>1 DEF RunInv, LinesInv, Tells, Closing, Load, Window, LinesAreOwn
<1> QED
  BY <1>1, RunInitInv, RunNextInv, PTL DEF Spec

-----------------------------------------------------------------------------
(* attach.                                                                 *)

\* A server exists only inside a cycle, a connection only under the query.
AttachInv ==
  /\ attachPc \in {"off", "start", "done", "died"} => server = "none"
  /\ attachPc # "query" => ~conn
  /\ attachPc = "done" => cycle = Cycles

LEMMA AttachFrame == [Next]_vars => AttachNext \/ UNCHANGED attachVars
BY Zenon DEF Next, vars

LEMMA AttachNextInv == AttachInv /\ [Next]_vars => AttachInv'
<1> SUFFICES ASSUME AttachInv, [Next]_vars PROVE AttachInv'
  OBVIOUS
<1>1. CASE AttachNext
  <2>1. attachPc' \in {"off", "start", "done", "died"} => server' = "none"
    BY <1>1 DEF AttachInv, AttachNext, AttachStart, ServerStarts, ServerDies, PollAgain,
       Ready, NotReady, QueryFails, KillAndDie, QueryDone, Interrupt, Waited, AttachReturns
  <2>2. attachPc' # "query" => ~conn'
    BY <1>1, Zenon DEF AttachInv, AttachNext, AttachStart, ServerStarts, ServerDies,
       PollAgain, Ready, NotReady, QueryFails, KillAndDie, QueryDone, Interrupt, Waited,
       AttachReturns
  <2>3. attachPc' = "done" => cycle' = Cycles
    BY <1>1 DEF AttachInv, AttachNext, AttachStart, ServerStarts, ServerDies, PollAgain,
       Ready, NotReady, QueryFails, KillAndDie, QueryDone, Interrupt, Waited, AttachReturns
  <2> QED
    BY <2>1, <2>2, <2>3 DEF AttachInv
<1>2. CASE UNCHANGED attachVars
  BY <1>2, Zenon DEF AttachInv, attachVars
<1> QED
  BY <1>1, <1>2, AttachFrame

\* Through whichever of its exits the attach command leaves, and between its
\* cycles, there is no server and no connection of it, for any number of
\* cycles and tries.
THEOREM AttachCorrect == Spec => []AttachStops
<1>1. Init => AttachInv
  BY Zenon DEF Init, AttachInit, AttachInv
<1>2. AttachInv => AttachStops
  BY Zenon DEF AttachInv, AttachStops
<1> QED
  BY <1>1, <1>2, AttachNextInv, PTL DEF Spec

-----------------------------------------------------------------------------
(* dashboard.                                                              *)

\* A book that has the reading of a newest one of these results for every
\* target one of them answers, and nothing else.
BookOf(b, results) ==
  /\ DOMAIN b = {t.id : t \in {u \in Targets : \E r \in results : Answers(r, u)}}
  /\ \A t \in Targets : t.id \in DOMAIN b =>
       \E r \in Newest(t, results) : b[t.id] = Take(r)[t.id]

BoardInv ==
  /\ files \in Seq(Results)
  /\ handed \subseteq Results /\ taken \subseteq Results /\ shown \subseteq Results
  /\ BookOf(bookFile, taken)
  /\ boardPc \in {"merge", "page"} => BookOf(book, handed)
  /\ page.whole => \E b : BookOf(b, shown) /\ page.rows = Render(b)

LEMMA BoardFrame == [Next]_vars => BoardNext \/ UNCHANGED boardVars
BY Zenon DEF Next, vars

\* A target is found by its id.
LEMMA TargetOf ==
  ASSUME NEW t \in Targets
  PROVE  Target(t.id) = t
<1>1. \E u \in Targets : u.id = t.id
  OBVIOUS
<1>2. Target(t.id) \in Targets /\ Target(t.id).id = t.id
  BY <1>1 DEF Target
<1> QED
  BY <1>2, BoardAssumption DEF LoadTargets

\* What Take makes of a result, for one target.
LEMMA TakeAt ==
  ASSUME NEW r, NEW t \in Targets
  PROVE  /\ (t.id \in DOMAIN Take(r)) <=> Answers(r, t)
         /\ Answers(r, t) => /\ Take(r)[t.id].value = Value(r, t)
                             /\ Take(r)[t.id].date = r.date
                             /\ Take(r)[t.id].simulated = r.simulated
<1>1. DOMAIN Take(r) = {u.id : u \in {v \in Targets : Answers(r, v)}}
  BY DEF Take
<1>2. ASSUME t.id \in DOMAIN Take(r) PROVE Answers(r, t)
  <2>1. PICK u \in Targets : Answers(r, u) /\ u.id = t.id
    BY <1>1, <1>2
  <2>2. u = t
    BY <2>1, BoardAssumption DEF LoadTargets
  <2> QED
    BY <2>1, <2>2
<1>3. Answers(r, t) => t.id \in DOMAIN Take(r)
  BY <1>1
<1>4. ASSUME Answers(r, t)
      PROVE  /\ Take(r)[t.id].value = Value(r, t)
             /\ Take(r)[t.id].date = r.date
             /\ Take(r)[t.id].simulated = r.simulated
  <2>1. t.id \in {u.id : u \in {v \in Targets : Answers(r, v)}}
    BY <1>4
  <2>2. Take(r)[t.id] = [value |-> Value(r, Target(t.id)), date |-> r.date,
                         simulated |-> r.simulated]
    BY <2>1, Zenon DEF Take
  <2> QED
    BY <2>2, TargetOf
<1> QED
  BY <1>2, <1>3, <1>4

\* The reading of a book for a target is of a result that answers it.
LEMMA BookAt ==
  ASSUME NEW b, NEW results, results \subseteq Results, BookOf(b, results), NEW t \in Targets
  PROVE  /\ (t.id \in DOMAIN b) <=> \E r \in results : Answers(r, t)
         /\ t.id \in DOMAIN b =>
              \E r \in Newest(t, results) : /\ b[t.id] = Take(r)[t.id] /\ r \in results
                                            /\ Answers(r, t) /\ b[t.id].date = r.date
<1>1. ASSUME t.id \in DOMAIN b PROVE \E r \in results : Answers(r, t)
  <2>1. PICK u \in Targets : u.id = t.id /\ \E r \in results : Answers(r, u)
    BY <1>1 DEF BookOf
  <2>2. u = t
    BY <2>1, BoardAssumption DEF LoadTargets
  <2> QED
    BY <2>1, <2>2
<1>2. (\E r \in results : Answers(r, t)) => t.id \in DOMAIN b
  BY DEF BookOf
<1>3. ASSUME t.id \in DOMAIN b
      PROVE  \E r \in Newest(t, results) : /\ b[t.id] = Take(r)[t.id] /\ r \in results
                                           /\ Answers(r, t) /\ b[t.id].date = r.date
  <2>1. PICK r \in Newest(t, results) : b[t.id] = Take(r)[t.id]
    BY <1>3, Zenon DEF BookOf
  <2>2. r \in results /\ Answers(r, t)
    BY DEF Newest
  <2>3. Take(r)[t.id].date = r.date
    BY <2>2, TakeAt
  <2> QED
    BY <2>1, <2>2, <2>3
<1> QED
  BY <1>1, <1>2, <1>3

\* Merging one more result: a reading stays when it is newer, and either way
\* the book has a newest one.
LEMMA MergeKeeps ==
  ASSUME NEW b, NEW results, results \subseteq Results, BookOf(b, results), NEW f \in Results
  PROVE  BookOf(IF DOMAIN Take(f) = {} THEN b ELSE Merge(b, Take(f)), results \cup {f})
<1> DEFINE c   == IF DOMAIN Take(f) = {} THEN b ELSE Merge(b, Take(f))
           all2 == results \cup {f}
<1>1. \A r \in all2 : r.date \in Int
  BY BoardAssumption
<1>2. DOMAIN c = DOMAIN b \cup DOMAIN Take(f)
  BY DEF Merge
<1>3. \A id \in DOMAIN c :
        c[id] = IF id \notin DOMAIN Take(f) \/ (id \in DOMAIN b /\ b[id].date > Take(f)[id].date)
                THEN b[id] ELSE Take(f)[id]
  <2>1. CASE DOMAIN Take(f) = {}
    BY <2>1
  <2>2. CASE DOMAIN Take(f) # {}
    BY <2>2, Zenon DEF Merge
  <2> QED
    BY <2>1, <2>2
<1> HIDE DEF c
<1>4. DOMAIN c = {t.id : t \in {u \in Targets : \E r \in all2 : Answers(r, u)}}
  <2>1. DOMAIN b = {t.id : t \in {u \in Targets : \E r \in results : Answers(r, u)}}
    BY DEF BookOf
  <2>2. DOMAIN Take(f) = {t.id : t \in {u \in Targets : Answers(f, u)}}
    BY DEF Take
  <2> QED
    BY <1>2, <2>1, <2>2
<1>5. ASSUME NEW t \in Targets, t.id \in DOMAIN c
      PROVE  \E r \in Newest(t, all2) : c[t.id] = Take(r)[t.id]
  <2>1. CASE ~Answers(f, t)
    <3>1. t.id \in DOMAIN b /\ c[t.id] = b[t.id]
      BY <1>2, <1>3, <1>5, <2>1, TakeAt
    <3>2. PICK r \in Newest(t, results) : b[t.id] = Take(r)[t.id]
      BY <3>1, BookAt
    <3>3. r \in Newest(t, all2)
      BY <2>1, <3>2 DEF Newest
    <3> QED
      BY <3>1, <3>2, <3>3
  <2>2. CASE Answers(f, t) /\ t.id \notin DOMAIN b
    <3>1. c[t.id] = Take(f)[t.id]
      BY <1>3, <1>5, <2>2, TakeAt
    <3>2. \A u \in results : ~Answers(u, t)
      BY <2>2, BookAt
    <3>3. f \in Newest(t, all2)
      BY <1>1, <2>2, <3>2 DEF Newest
    <3> QED
      BY <3>1, <3>3
  <2>3. CASE Answers(f, t) /\ t.id \in DOMAIN b
    <3>1. PICK r \in Newest(t, results) : /\ b[t.id] = Take(r)[t.id] /\ r \in results
                                          /\ Answers(r, t) /\ b[t.id].date = r.date
      BY <2>3, BookAt
    <3>2. Take(f)[t.id].date = f.date /\ t.id \in DOMAIN Take(f)
      BY <2>3, TakeAt
    <3>3. r.date \in Int /\ f.date \in Int
      BY <1>1, <3>1
    <3>4. \A u \in results : Answers(u, t) => u.date <= r.date
      BY <3>1 DEF Newest
    <3>5. CASE r.date > f.date
      <4>1. r \in Newest(t, all2)
        BY <3>1, <3>3, <3>4, <3>5 DEF Newest
      <4>2. c[t.id] = b[t.id]
        BY <1>3, <1>5, <3>1, <3>2, <3>5, <2>3
      <4> QED
        BY <4>1, <4>2, <3>1
    <3>6. CASE ~(r.date > f.date)
      <4>1. \A u \in results : Answers(u, t) => u.date <= f.date
        BY <1>1, <3>3, <3>4, <3>6
      <4>2. f \in Newest(t, all2)
        BY <2>3, <3>3, <4>1 DEF Newest
      <4>3. c[t.id] = Take(f)[t.id]
        BY <1>3, <1>5, <3>1, <3>2, <3>6
      <4> QED
        BY <4>2, <4>3
    <3> QED
      BY <3>5, <3>6
  <2> QED
    BY <2>1, <2>2, <2>3
<1>6. BookOf(c, all2)
  BY <1>4, <1>5 DEF BookOf
<1> QED
  BY <1>6 DEF c

LEMMA BoardInitInv == Init => BoardInv
<1> SUFFICES ASSUME BoardInit PROVE BoardInv
  BY DEF Init
<1>1. DOMAIN EmptyBook = {}
  BY DEF EmptyBook
<1>2. BookOf(EmptyBook, {})
  BY <1>1 DEF BookOf
<1>3. ~NoPage.whole
  BY DEF NoPage
<1>4. files = <<>> /\ boardPc = "off" /\ bookFile = EmptyBook /\ page = NoPage
      /\ handed = {} /\ taken = {} /\ shown = {}
  BY DEF BoardInit
<1> QED
  BY <1>2, <1>3, <1>4 DEF BoardInv

LEMMA BoardNextInv == BoardInv /\ [Next]_vars => BoardInv'
<1> SUFFICES ASSUME BoardInv, [Next]_vars PROVE BoardInv'
  OBVIOUS
<1>1. CASE BoardStart
  <2>1. PICK n \in 0..MaxFiles : files' \in [1..n -> Results]
    BY <1>1 DEF BoardStart
  <2>2. files' \in Seq(Results)
    BY <2>1, BoardAssumption
  <2>3. boardPc' = "load" /\ UNCHANGED <<book, bookFile, page, handed, taken, shown>>
    BY <1>1 DEF BoardStart
  <2> QED
    BY <2>2, <2>3 DEF BoardInv
<1>2. CASE LoadBook
  BY <1>2 DEF LoadBook, BoardInv
<1>3. CASE TakeFile
  <2> DEFINE f == Head(files)
  <2>1. f \in Results /\ Tail(files) \in Seq(Results)
    BY <1>3 DEF TakeFile, BoardInv
  <2>2. boardPc = "merge" /\ handed \subseteq Results /\ BookOf(book, handed)
    BY <1>3 DEF TakeFile, BoardInv
  <2>3. book' = IF DOMAIN Take(f) = {} THEN book ELSE Merge(book, Take(f))
    BY <1>3 DEF TakeFile
  <2>4. /\ files' = Tail(files) /\ handed' = handed \cup {f}
        /\ UNCHANGED <<boardPc, bookFile, page, taken, shown>>
    BY <1>3 DEF TakeFile
  <2> HIDE DEF f
  <2>5. BookOf(book', handed')
    BY <2>1, <2>2, <2>3, <2>4, MergeKeeps
  <2> QED
    BY <2>1, <2>2, <2>4, <2>5 DEF BoardInv
<1>4. CASE WritePage
  <2>1. page'.whole /\ page'.rows = Render(book)
    BY <1>4 DEF WritePage
  <2>2. /\ boardPc = "merge" /\ boardPc' = "page" /\ shown' = handed
        /\ UNCHANGED <<files, book, bookFile, handed, taken>>
    BY <1>4 DEF WritePage
  <2> QED
    BY <2>1, <2>2 DEF BoardInv
<1>5. CASE SaveBook
  BY <1>5 DEF SaveBook, BoardInv
<1>6. CASE BoardDies
  <2>1. page' = page \/ ~page'.whole
    BY <1>6 DEF BoardDies, NoPage
  <2>2. files' = <<>> /\ boardPc' = "off" /\ UNCHANGED <<book, bookFile, handed, taken, shown>>
    BY <1>6 DEF BoardDies
  <2>3. <<>> \in Seq(Results)
    OBVIOUS
  <2> QED
    BY <2>1, <2>2, <2>3 DEF BoardInv
<1>7. CASE UNCHANGED boardVars
  BY <1>7 DEF BoardInv, boardVars
<1> QED
  BY <1>1, <1>2, <1>3, <1>4, <1>5, <1>6, <1>7, BoardFrame DEF BoardNext

\* A finite set and its two disjoint parts.
TwoParts(S, A, B) == S = A \cup B /\ A \cap B = {}

LEMMA PartsAdd ==
  ASSUME NEW S, IsFiniteSet(S), NEW A, NEW B, TwoParts(S, A, B)
  PROVE  /\ Cardinality(S) = Cardinality(A) + Cardinality(B)
         /\ IsFiniteSet(B) /\ Cardinality(A) \in Nat /\ Cardinality(B) \in Nat
<1> USE DEF TwoParts
<1>1. IsFiniteSet(A) /\ IsFiniteSet(B)
  BY FS_Subset
<1>2. Cardinality(A) \in Nat /\ Cardinality(B) \in Nat
  BY <1>1, FS_CardinalityType
<1>3. Cardinality(A \cap B) = 0
  BY FS_EmptySet, Zenon
<1>4. Cardinality(A \cup B) = Cardinality(A) + Cardinality(B) - Cardinality(A \cap B)
  BY <1>1, FS_Union
<1> QED
  BY <1>1, <1>2, <1>3, <1>4

\* Every target has a row, and its row has one verdict.
LEMMA EveryRowCounted ==
  ASSUME NEW b, NEW rows, rows = Render(b)
  PROVE  Cardinality(Targets) =
           Tally(rows, "met") + Tally(rows, "missed") + Tally(rows, "simulated")
             + Tally(rows, "reported") + Tally(rows, "not measured")
<1> DEFINE Ids == {t.id : t \in Targets}
           f   == [t \in Targets |-> t.id]
           M == {id \in DOMAIN rows : rows[id] = "met"}
           X == {id \in DOMAIN rows : rows[id] = "missed"}
           S == {id \in DOMAIN rows : rows[id] = "simulated"}
           R == {id \in DOMAIN rows : rows[id] = "reported"}
           N == {id \in DOMAIN rows : rows[id] = "not measured"}
           RN == R \cup N
           SRN == S \cup RN
           XSRN == X \cup SRN
<1>1. DOMAIN rows = Ids
  BY DEF Render
<1>2. \A id \in Ids : rows[id] \in {"met", "missed", "simulated", "reported", "not measured"}
  <2>1. \A id \in Ids : rows[id] = Judge(Target(id), b)
    BY Zenon DEF Render
  <2> QED
    BY <2>1 DEF Judge
<1>3. IsFiniteSet(Targets)
  BY BoardAssumption
<1>4. IsFiniteSet(Ids) /\ Cardinality(Ids) = Cardinality(Targets)
  <2>1. f \in [Targets -> Ids]
    OBVIOUS
  <2>2. \A t, u \in Targets : f[t] = f[u] => t = u
    BY BoardAssumption DEF LoadTargets
  <2>3. \A id \in Ids : \E t \in Targets : f[t] = id
    OBVIOUS
  <2> HIDE DEF f, Ids
  <2>4. f \in Bijection(Targets, Ids)
    BY <2>1, <2>2, <2>3 DEF Bijection, Injection, Surjection, IsInjective
  <2> QED
    BY <1>3, <2>4, FS_Bijection DEF ExistsBijection
<1>5. TwoParts(Ids, M, XSRN)
  BY <1>1, <1>2 DEF TwoParts
<1>6. TwoParts(XSRN, X, SRN) /\ TwoParts(SRN, S, RN) /\ TwoParts(RN, R, N)
  BY DEF TwoParts
<1>7. /\ Tally(rows, "met") = Cardinality(M) /\ Tally(rows, "missed") = Cardinality(X)
      /\ Tally(rows, "simulated") = Cardinality(S) /\ Tally(rows, "reported") = Cardinality(R)
      /\ Tally(rows, "not measured") = Cardinality(N)
  BY DEF Tally
<1> HIDE DEF Ids, f, M, X, S, R, N, RN, SRN, XSRN
<1>8. /\ Cardinality(Ids) = Cardinality(M) + Cardinality(XSRN)
      /\ IsFiniteSet(XSRN) /\ Cardinality(M) \in Nat /\ Cardinality(XSRN) \in Nat
  BY <1>4, <1>5, PartsAdd
<1>9. /\ Cardinality(XSRN) = Cardinality(X) + Cardinality(SRN)
      /\ IsFiniteSet(SRN) /\ Cardinality(X) \in Nat /\ Cardinality(SRN) \in Nat
  <2>1. IsFiniteSet(XSRN) /\ TwoParts(XSRN, X, SRN)
    BY <1>6, <1>8
  <2> QED
    BY <2>1, PartsAdd
<1>10. /\ Cardinality(SRN) = Cardinality(S) + Cardinality(RN)
       /\ IsFiniteSet(RN) /\ Cardinality(S) \in Nat /\ Cardinality(RN) \in Nat
  <2>1. IsFiniteSet(SRN) /\ TwoParts(SRN, S, RN)
    BY <1>6, <1>9
  <2> QED
    BY <2>1, PartsAdd
<1>11. /\ Cardinality(RN) = Cardinality(R) + Cardinality(N)
       /\ Cardinality(R) \in Nat /\ Cardinality(N) \in Nat
  <2>1. IsFiniteSet(RN) /\ TwoParts(RN, R, N)
    BY <1>6, <1>10
  <2> QED
    BY <2>1, PartsAdd
<1>12. Cardinality(Ids) = Cardinality(M) + Cardinality(X) + Cardinality(S) + Cardinality(R) + Cardinality(N)
  BY <1>8, <1>9, <1>10, <1>11
<1> QED
  BY <1>4, <1>7, <1>12, Zenon

\* Over any number of invocations, files and targets, and wherever one of
\* them dies: the book has the newest readings, the page calls a claim met only
\* for a newest real result on the right side of its line, and its counts add
\* up to the claims.
THEOREM BoardCorrect == Spec => []BoardIsNewest
<1>1. BoardInv => BoardIsNewest
  <2> SUFFICES ASSUME BoardInv PROVE BoardIsNewest
    OBVIOUS
  <2>1. ASSUME NEW t \in Targets
        PROVE  IF Newest(t, taken) = {} THEN t.id \notin DOMAIN bookFile
               ELSE \E r \in Newest(t, taken) : bookFile[t.id] = Take(r)[t.id]
    <3>1. taken \subseteq Results /\ BookOf(bookFile, taken)
      BY DEF BoardInv
    <3>2. CASE t.id \in DOMAIN bookFile
      BY <3>1, <3>2, BookAt
    <3>3. CASE t.id \notin DOMAIN bookFile
      BY <3>1, <3>3, BookAt DEF Newest
    <3> QED
      BY <3>2, <3>3
  <2>2. ASSUME page.whole
        PROVE  /\ \A t \in Targets : page.rows[t.id] = "met" =>
                    \E r \in Newest(t, shown) : ~r.simulated /\ OnTheLine(t, Value(r, t))
               /\ Cardinality(Targets) =
                    Tally(page.rows, "met") + Tally(page.rows, "missed")
                      + Tally(page.rows, "simulated") + Tally(page.rows, "reported")
                      + Tally(page.rows, "not measured")
    <3>1. PICK b : BookOf(b, shown) /\ page.rows = Render(b)
      BY <2>2 DEF BoardInv
    <3>2. ASSUME NEW t \in Targets, page.rows[t.id] = "met"
          PROVE  \E r \in Newest(t, shown) : ~r.simulated /\ OnTheLine(t, Value(r, t))
      <4>1. t.id \in {u.id : u \in Targets}
        OBVIOUS
      <4>2. Render(b)[t.id] = Judge(Target(t.id), b)
        BY <4>1, Zenon DEF Render
      <4>3. Judge(t, b) = "met"
        BY <3>1, <3>2, <4>2, TargetOf
      <4>4. t.id \in DOMAIN b /\ ~b[t.id].simulated /\ OnTheLine(t, b[t.id].value)
        BY <4>3 DEF Judge
      <4>5. shown \subseteq Results
        BY DEF BoardInv
      <4>6. PICK r \in Newest(t, shown) : b[t.id] = Take(r)[t.id] /\ Answers(r, t)
        BY <3>1, <4>4, <4>5, BookAt
      <4>7. Take(r)[t.id].value = Value(r, t) /\ Take(r)[t.id].simulated = r.simulated
        BY <4>6, TakeAt
      <4> QED
        BY <4>4, <4>6, <4>7
    <3> QED
      BY <3>1, <3>2, EveryRowCounted
  <2> QED
    BY <2>1, <2>2 DEF BoardIsNewest
<1> QED
  BY <1>1, BoardInitInv, BoardNextInv, PTL DEF Spec

-----------------------------------------------------------------------------
(* probe.                                                                  *)

Requests ==
  [op : {"put", "get", "list", "delete"}, key : {<<>>} \cup ({"warmup", "key", "large"} \X Nat)]

KeysOf(s, o) == {s[i].key : i \in {j \in DOMAIN s : s[j].op = o}}

\* No key is deleted before it is put.
InOrder(s) ==
  \A i, j \in DOMAIN s :
    s[i].op = "put" /\ s[j].op = "delete" /\ s[i].key = s[j].key => i < j

Named(name) == {name} \X Nat

\* A script over these keys that takes down what it puts.
Tidy(s, ks) ==
  /\ s \in Seq(Requests) /\ InOrder(s)
  /\ KeysOf(s, "put") \subseteq KeysOf(s, "delete") /\ KeysOf(s, "delete") \subseteq ks

ProbeInv ==
  /\ at \in 1..(Len(Script) + 1) /\ attempts \in Nat /\ slowdowns \in Nat
  /\ probePc \in {"off", "run", "done", "failed"}
  /\ probePc = "done" => at = Len(Script) + 1
  /\ probePc # "failed" /\ at > Len(Warmup) => attempts = at - 1 - Len(Warmup) + slowdowns
  /\ \A k \in keys : Undone(k)

LEMMA ProbeFrame == [Next]_vars => ProbeNext \/ UNCHANGED probeVars
BY Zenon DEF Next, vars

\* One script after another.
LEMMA Joined ==
  ASSUME NEW s \in Seq(Requests), NEW t \in Seq(Requests)
  PROVE  /\ s \o t \in Seq(Requests) /\ Len(s \o t) = Len(s) + Len(t)
         /\ \A o : KeysOf(s \o t, o) = KeysOf(s, o) \cup KeysOf(t, o)
         /\ InOrder(s) /\ InOrder(t) /\ KeysOf(s, "delete") \cap KeysOf(t, "put") = {}
              => InOrder(s \o t)
<1> DEFINE u == s \o t
<1>1. u \in Seq(Requests) /\ Len(u) = Len(s) + Len(t) /\ Len(s) \in Nat /\ Len(t) \in Nat
  OBVIOUS
<1>2. DOMAIN u = 1..(Len(s) + Len(t)) /\ DOMAIN s = 1..Len(s) /\ DOMAIN t = 1..Len(t)
  BY <1>1
<1>3. \A i \in DOMAIN s : i \in DOMAIN u /\ u[i] = s[i]
  BY <1>1, <1>2
<1>4. \A i \in DOMAIN t : i + Len(s) \in DOMAIN u /\ u[i + Len(s)] = t[i]
  BY <1>1, <1>2
<1>5. \A i \in DOMAIN u : \/ i \in DOMAIN s /\ u[i] = s[i]
                          \/ i - Len(s) \in DOMAIN t /\ u[i] = t[i - Len(s)] /\ i > Len(s)
  BY <1>1, <1>2
<1> HIDE DEF u
<1>6. ASSUME NEW o PROVE KeysOf(u, o) = KeysOf(s, o) \cup KeysOf(t, o)
  <2>1. ASSUME NEW k \in KeysOf(u, o) PROVE k \in KeysOf(s, o) \cup KeysOf(t, o)
    <3>1. PICK i \in DOMAIN u : u[i].op = o /\ u[i].key = k
      BY <2>1 DEF KeysOf
    <3> QED
      BY <3>1, <1>5 DEF KeysOf
  <2>2. ASSUME NEW k \in KeysOf(s, o) PROVE k \in KeysOf(u, o)
    BY <2>2, <1>3 DEF KeysOf
  <2>3. ASSUME NEW k \in KeysOf(t, o) PROVE k \in KeysOf(u, o)
    <3>1. PICK i \in DOMAIN t : t[i].op = o /\ t[i].key = k
      BY <2>3 DEF KeysOf
    <3>2. i + Len(s) \in DOMAIN u /\ u[i + Len(s)] = t[i]
      BY <1>4
    <3> QED
      BY <3>1, <3>2 DEF KeysOf
  <2> QED
    BY <2>1, <2>2, <2>3
<1>7. ASSUME InOrder(s), InOrder(t), KeysOf(s, "delete") \cap KeysOf(t, "put") = {},
             NEW i \in DOMAIN u, NEW j \in DOMAIN u,
             u[i].op = "put", u[j].op = "delete", u[i].key = u[j].key
      PROVE  i < j
  <2>1. CASE i \in DOMAIN s /\ u[i] = s[i]
    <3>1. CASE j \in DOMAIN s /\ u[j] = s[j]
      BY <1>7, <2>1, <3>1 DEF InOrder
    <3>2. CASE j > Len(s)
      BY <1>1, <1>2, <2>1, <3>2
    <3> QED
      BY <1>5, <3>1, <3>2
  <2>2. CASE i - Len(s) \in DOMAIN t /\ u[i] = t[i - Len(s)] /\ i > Len(s)
    <3>1. u[i].key \in KeysOf(t, "put")
      BY <1>7, <2>2 DEF KeysOf
    <3>2. CASE j \in DOMAIN s /\ u[j] = s[j]
      <4>1. u[j].key \in KeysOf(s, "delete")
        BY <1>7, <3>2 DEF KeysOf
      <4> QED
        BY <1>7, <3>1, <4>1
    <3>3. CASE j - Len(s) \in DOMAIN t /\ u[j] = t[j - Len(s)]
      <4>1. i - Len(s) < j - Len(s)
        BY <1>7, <2>2, <3>3 DEF InOrder
      <4> QED
        BY <4>1, <1>1, <1>2
    <3> QED
      BY <1>5, <3>2, <3>3
  <2> QED
    BY <1>5, <2>1, <2>2
<1>8. InOrder(s) /\ InOrder(t) /\ KeysOf(s, "delete") \cap KeysOf(t, "put") = {} => InOrder(u)
  BY <1>7 DEF InOrder
<1> QED
  BY <1>1, <1>6, <1>8 DEF u

\* A round trip puts, gets and deletes its key before the next one starts.
LEMMA RoundTripsTidy ==
  ASSUME NEW name \in {"warmup", "large"}, NEW n \in Nat
  PROVE  Tidy(RoundTrips(name, n), Named(name))
<1> DEFINE s == RoundTrips(name, n)
           Op(i) == <<"put", "get", "delete">>[((i - 1) % 3) + 1]
           No(i) == ((i - 1) \div 3) + 1
<1>1. s = [i \in 1..3 * n |-> [op |-> Op(i), key |-> <<name, No(i)>>]]
  BY Zenon DEF RoundTrips, Req
<1>2. ASSUME NEW i \in 1..3 * n
      PROVE  /\ No(i) \in 1..n
             /\ (Op(i) = "put" /\ i = 3 * No(i) - 2)
                  \/ (Op(i) = "get" /\ i = 3 * No(i) - 1)
                  \/ (Op(i) = "delete" /\ i = 3 * No(i))
  <2>1. i - 1 = 3 * ((i - 1) \div 3) + ((i - 1) % 3) /\ (i - 1) % 3 \in 0..2 /\ (i - 1) \div 3 \in Nat
    BY SMT
  <2>2. (i - 1) % 3 = 0 \/ (i - 1) % 3 = 1 \/ (i - 1) % 3 = 2
    BY <2>1
  <2>3. <<"put", "get", "delete">>[0 + 1] = "put" /\ <<"put", "get", "delete">>[1 + 1] = "get"
        /\ <<"put", "get", "delete">>[2 + 1] = "delete"
    OBVIOUS
  <2>4. No(i) \in 1..n
    BY <2>1
  <2>5. CASE (i - 1) % 3 = 0
    BY <2>1, <2>3, <2>4, <2>5
  <2>6. CASE (i - 1) % 3 = 1
    BY <2>1, <2>3, <2>4, <2>6
  <2>7. CASE (i - 1) % 3 = 2
    BY <2>1, <2>3, <2>4, <2>7
  <2> QED
    BY <2>2, <2>5, <2>6, <2>7
<1> HIDE DEF s, Op, No
<1>3. DOMAIN s = 1..3 * n /\ \A i \in 1..3 * n : s[i] = [op |-> Op(i), key |-> <<name, No(i)>>]
  BY <1>1
<1>4. \A i \in 1..3 * n : s[i].op = Op(i) /\ s[i].key = <<name, No(i)>> /\ s[i] \in Requests
  BY <1>2, <1>3 DEF Requests
<1>5. s \in Seq(Requests)
  <2>1. s \in [1..3 * n -> Requests]
    BY <1>1, <1>3, <1>4
  <2> QED
    BY <2>1
<1>6. InOrder(s)
  <2> SUFFICES ASSUME NEW i \in 1..3 * n, NEW j \in 1..3 * n,
                      Op(i) = "put", Op(j) = "delete", <<name, No(i)>> = <<name, No(j)>>
               PROVE  i < j
    BY <1>3, <1>4 DEF InOrder
  <2>1. No(i) = No(j) /\ No(i) \in Nat
    BY <1>2
  <2>2. i = 3 * No(i) - 2 /\ j = 3 * No(j)
    BY <1>2
  <2> QED
    BY <2>1, <2>2
<1>7. KeysOf(s, "put") \subseteq KeysOf(s, "delete")
  <2> SUFFICES ASSUME NEW k \in KeysOf(s, "put") PROVE k \in KeysOf(s, "delete")
    OBVIOUS
  <2>1. PICK i \in 1..3 * n : s[i].op = "put" /\ s[i].key = k
    BY <1>3 DEF KeysOf
  <2>2. i = 3 * No(i) - 2 /\ k = <<name, No(i)>> /\ No(i) \in 1..n
    BY <1>2, <1>4, <2>1
  <2> DEFINE j == i + 2
  <2>3. j \in 1..3 * n /\ j = 3 * No(i)
    BY <2>2
  <2>4. Op(j) = "delete" /\ No(j) = No(i)
    <3>1. No(j) \in 1..n /\ (j = 3 * No(j) - 2 \/ j = 3 * No(j) - 1 \/ (Op(j) = "delete" /\ j = 3 * No(j)))
      BY <1>2, <2>3
    <3> QED
      BY <3>1, <2>2, <2>3
  <2>5. s[j].op = "delete" /\ s[j].key = k
    BY <1>4, <2>2, <2>3, <2>4
  <2> QED
    BY <1>3, <2>3, <2>5 DEF KeysOf
<1>8. KeysOf(s, "delete") \subseteq Named(name)
  <2> SUFFICES ASSUME NEW k \in KeysOf(s, "delete") PROVE k \in Named(name)
    OBVIOUS
  <2>1. PICK i \in 1..3 * n : s[i].key = k
    BY <1>3 DEF KeysOf
  <2>2. k = <<name, No(i)>>
    BY <1>4, <2>1
  <2>3. No(i) \in 1..n
    BY <1>2
  <2> QED
    BY <2>2, <2>3 DEF Named
<1> QED
  BY <1>5, <1>6, <1>7, <1>8 DEF Tidy, s

\* One pass over the keys, with one kind of request.
LEMMA EachKeys ==
  ASSUME NEW o \in {"put", "get", "delete"}
  PROVE  /\ Each(o) \in Seq(Requests)
         /\ KeysOf(Each(o), o) = {"key"} \X (1..Samples)
         /\ \A p : p # o => KeysOf(Each(o), p) = {}
<1> DEFINE s == Each(o)
<1>1. s = [i \in 1..Samples |-> [op |-> o, key |-> <<"key", i>>]]
  BY Zenon DEF Each, Req
<1>2. DOMAIN s = 1..Samples /\ \A i \in 1..Samples : s[i].op = o /\ s[i].key = <<"key", i>> /\ s[i] \in Requests
  BY <1>1, ProbeAssumption DEF Requests
<1>3. s \in [1..Samples -> Requests]
  BY <1>1, <1>2
<1>4. s \in Seq(Requests)
  BY <1>3, ProbeAssumption
<1> HIDE DEF s
<1>5. KeysOf(s, o) = {"key"} \X (1..Samples)
  <2>1. KeysOf(s, o) = {<<"key", i>> : i \in 1..Samples}
    BY <1>2 DEF KeysOf
  <2> QED
    BY <2>1
<1>6. \A p : p # o => KeysOf(s, p) = {}
  BY <1>2 DEF KeysOf
<1> QED
  BY <1>4, <1>5, <1>6 DEF s

LEMMA ListsKeys ==
  /\ Lists \in Seq(Requests)
  /\ \A p : p # "list" => KeysOf(Lists, p) = {}
<1>1. Lists = [i \in 1..ListN |-> [op |-> "list", key |-> <<>>]]
  BY Zenon DEF Lists, Req
<1>2. DOMAIN Lists = 1..ListN /\ \A i \in 1..ListN : Lists[i].op = "list" /\ Lists[i] \in Requests
  BY <1>1 DEF Requests
<1>3. Lists \in [1..ListN -> Requests]
  BY <1>1, <1>2
<1>4. Lists \in Seq(Requests)
  BY <1>3, ProbeAssumption
<1>5. \A p : p # "list" => KeysOf(Lists, p) = {}
  BY <1>2 DEF KeysOf
<1> QED
  BY <1>4, <1>5

\* A part without puts, or without deletes, is in order.
LEMMA HalfInOrder ==
  ASSUME NEW s \in Seq(Requests), KeysOf(s, "put") = {} \/ KeysOf(s, "delete") = {}
  PROVE  InOrder(s)
<1> SUFFICES ASSUME NEW i \in DOMAIN s, NEW j \in DOMAIN s, s[i].op = "put", s[j].op = "delete"
             PROVE  FALSE
  BY DEF InOrder
<1>1. s[i].key \in KeysOf(s, "put") /\ s[j].key \in KeysOf(s, "delete")
  BY DEF KeysOf
<1> QED
  BY <1>1

\* The whole script takes down what it puts, and nothing before it is put.
LEMMA ScriptTidy ==
  /\ Script \in Seq(Requests) /\ Warmup \in Seq(Requests)
  /\ Len(Script) \in Nat /\ Len(Warmup) \in Nat /\ Len(Warmup) <= Len(Script)
  /\ InOrder(Script) /\ KeysOf(Script, "put") \subseteq KeysOf(Script, "delete")
<1> DEFINE L  == RoundTrips("large", LargeN)
           K  == {"key"} \X (1..Samples)
           S1 == Warmup \o Each("put")
           S2 == S1 \o Each("get")
           S3 == S2 \o Lists
           S4 == S3 \o L
           S5 == S4 \o Each("delete")
<1>1. /\ Warmup \in Seq(Requests) /\ InOrder(Warmup)
      /\ KeysOf(Warmup, "put") \subseteq KeysOf(Warmup, "delete")
      /\ KeysOf(Warmup, "delete") \subseteq Named("warmup")
  BY RoundTripsTidy, ProbeAssumption DEF Warmup, Tidy
<1>2. /\ L \in Seq(Requests) /\ InOrder(L)
      /\ KeysOf(L, "put") \subseteq KeysOf(L, "delete") /\ KeysOf(L, "delete") \subseteq Named("large")
  BY RoundTripsTidy, ProbeAssumption DEF Tidy
<1>3. /\ Each("put") \in Seq(Requests) /\ KeysOf(Each("put"), "put") = K
      /\ KeysOf(Each("put"), "delete") = {} /\ InOrder(Each("put"))
  BY EachKeys, HalfInOrder
<1>4. /\ Each("get") \in Seq(Requests) /\ KeysOf(Each("get"), "put") = {}
      /\ KeysOf(Each("get"), "delete") = {} /\ InOrder(Each("get"))
  BY EachKeys, HalfInOrder
<1>5. /\ Each("delete") \in Seq(Requests) /\ KeysOf(Each("delete"), "put") = {}
      /\ KeysOf(Each("delete"), "delete") = K /\ InOrder(Each("delete"))
  BY EachKeys, HalfInOrder
<1>6. /\ Lists \in Seq(Requests) /\ KeysOf(Lists, "put") = {}
      /\ KeysOf(Lists, "delete") = {} /\ InOrder(Lists)
  BY ListsKeys, HalfInOrder
<1>7. /\ Named("warmup") \cap K = {} /\ Named("large") \cap K = {}
      /\ Named("warmup") \cap Named("large") = {}
  BY DEF Named
<1>8. Script = S5
  BY Zenon DEF Script
<1>9. /\ S1 \in Seq(Requests) /\ InOrder(S1) /\ Len(S1) = Len(Warmup) + Len(Each("put"))
      /\ KeysOf(S1, "put") = KeysOf(Warmup, "put") \cup K
      /\ KeysOf(S1, "delete") = KeysOf(Warmup, "delete")
  <2> HIDE DEF K
  <2>1. KeysOf(Warmup, "delete") \cap KeysOf(Each("put"), "put") = {}
    BY <1>1, <1>3, <1>7
  <2>2. /\ S1 \in Seq(Requests) /\ InOrder(S1) /\ Len(S1) = Len(Warmup) + Len(Each("put"))
        /\ KeysOf(S1, "put") = KeysOf(Warmup, "put") \cup KeysOf(Each("put"), "put")
        /\ KeysOf(S1, "delete") = KeysOf(Warmup, "delete") \cup KeysOf(Each("put"), "delete")
    BY <1>1, <1>3, <2>1, Joined
  <2> QED
    BY <1>3, <2>2
<1> HIDE DEF S1, K, L
<1>10. /\ S2 \in Seq(Requests) /\ InOrder(S2) /\ Len(S2) = Len(S1) + Len(Each("get"))
       /\ KeysOf(S2, "put") = KeysOf(S1, "put") /\ KeysOf(S2, "delete") = KeysOf(S1, "delete")
  <2>1. KeysOf(S1, "delete") \cap KeysOf(Each("get"), "put") = {}
    BY <1>4
  <2>2. /\ S2 \in Seq(Requests) /\ InOrder(S2) /\ Len(S2) = Len(S1) + Len(Each("get"))
        /\ KeysOf(S2, "put") = KeysOf(S1, "put") \cup KeysOf(Each("get"), "put")
        /\ KeysOf(S2, "delete") = KeysOf(S1, "delete") \cup KeysOf(Each("get"), "delete")
    BY <1>4, <1>9, <2>1, Joined
  <2> QED
    BY <1>4, <2>2
<1> HIDE DEF S2
<1>11. /\ S3 \in Seq(Requests) /\ InOrder(S3) /\ Len(S3) = Len(S2) + Len(Lists)
       /\ KeysOf(S3, "put") = KeysOf(S2, "put") /\ KeysOf(S3, "delete") = KeysOf(S2, "delete")
  <2>1. KeysOf(S2, "delete") \cap KeysOf(Lists, "put") = {}
    BY <1>6
  <2>2. /\ S3 \in Seq(Requests) /\ InOrder(S3) /\ Len(S3) = Len(S2) + Len(Lists)
        /\ KeysOf(S3, "put") = KeysOf(S2, "put") \cup KeysOf(Lists, "put")
        /\ KeysOf(S3, "delete") = KeysOf(S2, "delete") \cup KeysOf(Lists, "delete")
    BY <1>6, <1>10, <2>1, Joined
  <2> QED
    BY <1>6, <2>2
<1> HIDE DEF S3
<1>12. /\ S4 \in Seq(Requests) /\ InOrder(S4) /\ Len(S4) = Len(S3) + Len(L)
       /\ KeysOf(S4, "put") = KeysOf(S3, "put") \cup KeysOf(L, "put")
       /\ KeysOf(S4, "delete") = KeysOf(S3, "delete") \cup KeysOf(L, "delete")
  <2>1. KeysOf(S3, "delete") \cap KeysOf(L, "put") = {}
    BY <1>1, <1>2, <1>7, <1>9, <1>10, <1>11
  <2> QED
    BY <1>2, <1>11, <2>1, Joined
<1> HIDE DEF S4
<1>13. /\ S5 \in Seq(Requests) /\ InOrder(S5) /\ Len(S5) = Len(S4) + Len(Each("delete"))
       /\ KeysOf(S5, "put") = KeysOf(S4, "put")
       /\ KeysOf(S5, "delete") = KeysOf(S4, "delete") \cup K
  <2>1. KeysOf(S4, "delete") \cap KeysOf(Each("delete"), "put") = {}
    BY <1>5
  <2>2. /\ S5 \in Seq(Requests) /\ InOrder(S5) /\ Len(S5) = Len(S4) + Len(Each("delete"))
        /\ KeysOf(S5, "put") = KeysOf(S4, "put") \cup KeysOf(Each("delete"), "put")
        /\ KeysOf(S5, "delete") = KeysOf(S4, "delete") \cup KeysOf(Each("delete"), "delete")
    BY <1>5, <1>12, <2>1, Joined
  <2> QED
    BY <1>5, <2>2
<1>14. KeysOf(S5, "put") \subseteq KeysOf(S5, "delete")
  BY <1>1, <1>2, <1>9, <1>10, <1>11, <1>12, <1>13
<1> HIDE DEF S5
<1>15. Len(Warmup) <= Len(S5) /\ Len(S5) \in Nat /\ Len(Warmup) \in Nat
  <2>1. /\ Len(Warmup) \in Nat /\ Len(Each("put")) \in Nat /\ Len(Each("get")) \in Nat
        /\ Len(Lists) \in Nat /\ Len(L) \in Nat /\ Len(Each("delete")) \in Nat
    BY <1>1, <1>2, <1>3, <1>4, <1>5, <1>6
  <2> QED
    BY <2>1, <1>9, <1>10, <1>11, <1>12, <1>13
<1> QED
  BY <1>1, <1>8, <1>13, <1>14, <1>15

LEMMA RequestAt ==
  ASSUME NEW i \in 1..Len(Script)
  PROVE  /\ i \in DOMAIN Script
         /\ \A o, k : Script[i] = Req(o, k) <=> Script[i].op = o /\ Script[i].key = k
<1>1. Script[i] \in Requests /\ i \in DOMAIN Script
  BY ScriptTidy
<1> DEFINE r == Script[i]
<1>2. r = [op |-> r.op, key |-> r.key]
  BY <1>1 DEF Requests
<1> HIDE DEF r
<1>3. ASSUME NEW o, NEW k PROVE r = Req(o, k) <=> r.op = o /\ r.key = k
  <2>1. r = Req(o, k) => r.op = o /\ r.key = k
    BY DEF Req
  <2>2. r.op = o /\ r.key = k => r = Req(o, k)
    BY <1>2, Zenon DEF Req
  <2> QED
    BY <2>1, <2>2
<1> QED
  BY <1>1, <1>3 DEF r

\* What the request at hand leaves, whether the probe goes on from it or not:
\* keys that were there and are not deleted by it, and its own if it puts one.
LEMMA EffectUndone ==
  ASSUME at \in 1..Len(Script), \A k \in keys : Undone(k), NEW k \in Effect(Script[at])
  PROVE  \E i \in 1..at : /\ Script[i] = Req("put", k)
                          /\ \A j \in 1..at : Script[j] # Req("delete", k)
<1>1. Len(Script) \in Nat /\ at \in Nat
  BY ScriptTidy
<1>2. CASE k \in keys /\ Script[at] # Req("delete", k)
  <2>1. PICK i \in 1..at : /\ i <= Len(Script) /\ Script[i] = Req("put", k)
                           /\ \A j \in 1..at - 1 : Script[j] # Req("delete", k)
    BY <1>2 DEF Undone
  <2>2. \A j \in 1..at : Script[j] # Req("delete", k)
    BY <1>1, <1>2, <2>1
  <2> QED
    BY <2>1, <2>2
<1>3. CASE Script[at] = Req("put", k)
  <2>1. Script[at].op = "put" /\ Script[at].key = k /\ at \in DOMAIN Script
    BY <1>3, RequestAt
  <2>2. ASSUME NEW j \in 1..at, Script[j] = Req("delete", k) PROVE FALSE
    <3>1. j \in 1..Len(Script)
      BY <1>1
    <3>2. Script[j].op = "delete" /\ Script[j].key = k /\ j \in DOMAIN Script
      BY <2>2, <3>1, RequestAt
    <3>3. at < j
      BY <2>1, <3>2, ScriptTidy DEF InOrder
    <3> QED
      BY <1>1, <3>3
  <2> QED
    BY <1>1, <1>3, <2>2
<1>4. \/ k \in keys /\ Script[at] # Req("delete", k)
      \/ Script[at] = Req("put", k)
  <2>1. CASE Script[at].op = "put"
    <3>1. k \in keys \cup {Script[at].key}
      BY <2>1 DEF Effect
    <3>2. Script[at] # Req("delete", k)
      BY <2>1, RequestAt
    <3>3. k = Script[at].key => Script[at] = Req("put", k)
      BY <2>1, RequestAt
    <3> QED
      BY <3>1, <3>2, <3>3
  <2>2. CASE Script[at].op = "delete"
    <3>1. k \in keys \ {Script[at].key}
      BY <2>2 DEF Effect
    <3> QED
      BY <3>1, RequestAt
  <2>3. CASE Script[at].op \notin {"put", "delete"}
    <3>1. k \in keys
      BY <2>3 DEF Effect
    <3> QED
      BY <2>3, <3>1, RequestAt
  <2> QED
    BY <2>1, <2>2, <2>3
<1> QED
  BY <1>2, <1>3, <1>4

\* A request that may or may not have been done leaves only keys still to be
\* deleted.
LEMMA MaybeUndone ==
  ASSUME ProbeInv, at \in 1..Len(Script), UNCHANGED at, keys' \in {keys, Effect(Script[at])}
  PROVE  (\A k \in keys : Undone(k))'
<1>1. Len(Script) \in Nat
  BY ScriptTidy
<1>2. \A k \in keys : Undone(k)
  BY DEF ProbeInv
<1> SUFFICES ASSUME NEW k \in keys' PROVE Undone(k)'
  OBVIOUS
<1>3. CASE k \in keys
  BY <1>2, <1>3 DEF Undone
<1>4. CASE k \in Effect(Script[at])
  <2>1. PICK i \in 1..at : /\ Script[i] = Req("put", k)
                           /\ \A j \in 1..at : Script[j] # Req("delete", k)
    BY <1>2, <1>4, EffectUndone
  <2>2. i \in 1..at' /\ i <= Len(Script) /\ \A j \in 1..at' - 1 : j \in 1..at
    BY <1>1
  <2> QED
    BY <2>1, <2>2 DEF Undone
<1> QED
  BY <1>3, <1>4

LEMMA ProbeNextInv == ProbeInv /\ [Next]_vars => ProbeInv'
<1> SUFFICES ASSUME ProbeInv, [Next]_vars PROVE ProbeInv'
  OBVIOUS
<1>1. /\ Len(Script) \in Nat /\ Len(Warmup) \in Nat /\ at \in 1..(Len(Script) + 1)
      /\ attempts \in Nat /\ slowdowns \in Nat
  BY ScriptTidy DEF ProbeInv
<1>2. \A k \in keys : Undone(k)
  BY DEF ProbeInv
<1>3. CASE ProbeStart \/ ProbeReturns
  <2>1. (\A k \in keys : Undone(k))'
    BY <1>2, <1>3 DEF ProbeStart, ProbeReturns, Undone
  <2> QED
    BY <1>1, <1>3, <2>1 DEF ProbeStart, ProbeReturns, ProbeInv
<1>4. CASE Succeeds
  <2>1. at \in 1..Len(Script) /\ at' = at + 1 /\ keys' = Effect(Script[at]) /\ UNCHANGED probePc
        /\ probePc = "run"
    BY <1>1, <1>4 DEF Succeeds, InScript
  <2>2. (\A k \in keys : Undone(k))'
    <3> SUFFICES ASSUME NEW k \in keys' PROVE Undone(k)'
      OBVIOUS
    <3>1. PICK i \in 1..at : /\ Script[i] = Req("put", k)
                             /\ \A j \in 1..at : Script[j] # Req("delete", k)
      BY <1>2, <2>1, EffectUndone
    <3>2. i \in 1..at' /\ i <= Len(Script) /\ 1..at' - 1 = 1..at
      BY <1>1, <2>1
    <3> QED
      BY <3>1, <3>2 DEF Undone
  <2>3. /\ attempts' \in Nat /\ slowdowns' \in Nat
        /\ at' > Len(Warmup) => attempts' = at' - 1 - Len(Warmup) + slowdowns'
    <3>1. CASE at = Len(Warmup)
      BY <1>1, <1>4, <2>1, <3>1 DEF Succeeds
    <3>2. CASE at # Len(Warmup)
      <4>1. attempts' = attempts + 1 /\ slowdowns' = slowdowns
        BY <1>4, <3>2 DEF Succeeds
      <4>2. at > Len(Warmup) => attempts = at - 1 - Len(Warmup) + slowdowns
        BY <2>1 DEF ProbeInv
      <4> QED
        BY <1>1, <2>1, <3>2, <4>1, <4>2
    <3> QED
      BY <3>1, <3>2
  <2> QED
    BY <1>1, <2>1, <2>2, <2>3 DEF ProbeInv
<1>5. CASE Throttled
  <2>1. at \in 1..Len(Script) /\ at' = at /\ keys' \in {keys, Effect(Script[at])}
    BY <1>1, <1>5 DEF Throttled, InScript
  <2>2. (\A k \in keys : Undone(k))'
    BY <2>1, MaybeUndone
  <2> QED
    BY <1>1, <1>5, <2>1, <2>2 DEF Throttled, InScript, ProbeInv
<1>6. CASE Errs
  <2>1. /\ at \in 1..Len(Script) /\ at' = at /\ probePc' = "failed"
        /\ keys' \in {keys, Effect(Script[at])}
    BY <1>1, <1>6 DEF Errs, InScript
  <2>2. (\A k \in keys : Undone(k))'
    BY <2>1, MaybeUndone
  <2> QED
    BY <1>1, <1>6, <2>1, <2>2 DEF Errs, ProbeInv
<1>7. CASE UNCHANGED probeVars
  BY <1>7 DEF ProbeInv, Undone, probeVars
<1> QED
  BY <1>3, <1>4, <1>5, <1>6, <1>7, ProbeFrame DEF ProbeNext

\* A probe that returns has taken down every key, one that fails leaves only
\* keys it had put and not yet deleted, and the rate of throttling is over the
\* measured requests, for scripts of every length.
THEOREM ProbeCorrect == Spec => []ProbeCleans
<1>1. Init => ProbeInv
  <2>1. Len(Script) \in Nat /\ Len(Warmup) \in Nat
    BY ScriptTidy
  <2> QED
    BY <2>1 DEF Init, ProbeInit, ProbeInv
<1>2. ProbeInv => ProbeCleans
  <2> SUFFICES ASSUME ProbeInv PROVE ProbeCleans
    OBVIOUS
  <2>1. \A k \in keys : Undone(k)
    BY DEF ProbeInv
  <2>2. ASSUME probePc = "done" PROVE keys = {} /\ attempts = Len(Script) - Len(Warmup) + slowdowns
    <3>1. at = Len(Script) + 1 /\ Len(Script) \in Nat /\ Len(Warmup) \in Nat /\ Len(Warmup) <= Len(Script)
      BY <2>2, ScriptTidy DEF ProbeInv
    <3>2. ASSUME NEW k \in keys PROVE FALSE
      <4>1. PICK i \in 1..at : /\ i <= Len(Script) /\ Script[i] = Req("put", k)
                               /\ \A j \in 1..at - 1 : Script[j] # Req("delete", k)
        BY <2>1, <3>2 DEF Undone
      <4>2. i \in 1..Len(Script)
        BY <3>1, <4>1
      <4>3. k \in KeysOf(Script, "put")
        BY <4>1, <4>2, RequestAt DEF KeysOf
      <4>4. PICK j \in DOMAIN Script : Script[j].op = "delete" /\ Script[j].key = k
        BY <4>3, ScriptTidy DEF KeysOf
      <4>5. j \in 1..Len(Script)
        BY ScriptTidy
      <4>6. Script[j] = Req("delete", k) /\ j \in 1..at - 1
        BY <3>1, <4>4, <4>5, RequestAt
      <4> QED
        BY <4>1, <4>6
    <3> QED
      BY <2>2, <3>1, <3>2 DEF ProbeInv
  <2> QED
    BY <2>1, <2>2 DEF ProbeCleans
<1> QED
  BY <1>1, <1>2, ProbeNextInv, PTL DEF Spec

-----------------------------------------------------------------------------
(* The store counters, for every number of slots, segments and restarts.   *)

USE CountersAssumption

CountersInv == CountersTypeOK /\ SnapshotInv /\ NeverOverstates /\ ExactWithinBoot

LEMMA CountersInitInv == CountersInit => CountersInv
<1> SUFFICES ASSUME CountersInit PROVE CountersInv
  OBVIOUS
<1>1. Zero \in Counts
  BY DEF Zero, Counts
<1>2. CountersTypeOK
  <2>1. valid \in BOOLEAN /\ opsErr \in BOOLEAN /\ rebooted \in BOOLEAN
    BY Zenon DEF CountersInit
  <2>2. QED
    BY <1>1, <2>1 DEF CountersInit, CountersTypeOK, SlotIds
<1>3. SnapshotInv
  BY DEF CountersInit, SnapshotInv, SlotInv, InBefore, InAfter, Zero
<1>4. QED
  BY <1>2, <1>3 DEF CountersInit, CountersInv, NeverOverstates, ExactWithinBoot

LEMMA CountersNextType == CountersTypeOK /\ [CountersNext]_counterVars => CountersTypeOK'
<1> SUFFICES ASSUME CountersTypeOK, [CountersNext]_counterVars PROVE CountersTypeOK'
  OBVIOUS
<1> USE DEF CountersTypeOK, storeVars, readVars, segHistVars
<1>1. valid' \in BOOLEAN /\ opsErr' \in BOOLEAN /\ rebooted' \in BOOLEAN
  BY Zenon DEF CountersNext, counterVars, Count, Lose, Boot, StartBefore, ReadBefore, StartAfter,
     ReadAfter, Diff
<1>2. Zero \in Counts
  BY DEF Zero, Counts
<1>3. ASSUME NEW s \in SlotIds, Count(s) PROVE CountersTypeOK'
  BY <1>1, <1>3 DEF Count, Counts
<1>4. CASE Lose \/ Boot
  BY <1>1, <1>2, <1>4 DEF Lose, Boot
<1>5. CASE StartBefore \/ StartAfter
  BY <1>1, <1>5 DEF StartBefore, StartAfter, SlotIds
<1>6. CASE ReadBefore \/ ReadAfter
  <2>1. before' \in Counts /\ after' \in Counts /\ slot' \in SlotIds
    <3>1. file[slot] \in Nat
      BY DEF Counts
    <3>2. before' \in Counts /\ after' \in Counts
      BY <1>6, <3>1 DEF ReadBefore, ReadAfter, Counts
    <3>3. slot' \in SlotIds
      BY <1>6 DEF ReadBefore, ReadAfter, SlotIds
    <3>4. QED
      BY <3>2, <3>3
  <2>2. QED
    BY <1>1, <1>6, <2>1 DEF ReadBefore, ReadAfter
<1>7. CASE Diff
  <2>1. ~Shrank => Delta \in Counts
    BY DEF Shrank, Delta, Counts
  <2>2. QED
    BY <1>1, <1>7, <2>1 DEF Diff
<1>8. CASE UNCHANGED counterVars
  BY <1>1, <1>8 DEF counterVars
<1>9. QED
  BY <1>3, <1>4, <1>5, <1>6, <1>7, <1>8 DEF CountersNext

\* Reading a slot, counting in it and resetting it each keep the distance
\* between the file and a snapshot within what the store has done.
LEMMA NextSlot ==
  ASSUME CountersTypeOK, SnapshotInv, [CountersNext]_counterVars, NEW t \in SlotIds
  PROVE  SlotInv(t)'
<1>1. /\ file[t] \in Nat /\ counted[t] \in Nat /\ before[t] \in Nat /\ after[t] \in Nat
      /\ open[t] \in Nat /\ shut[t] \in Nat /\ late[t] \in Nat /\ t \in Nat /\ slot \in Nat
  BY DEF CountersTypeOK, Counts, SlotIds
<1>2. SlotInv(t)
  BY DEF SnapshotInv
<1> USE DEF SlotInv, InBefore, InAfter, storeVars, readVars, segHistVars
<1>3. ASSUME NEW s \in SlotIds, Count(s) PROVE SlotInv(t)'
  <2>1. \/ UNCHANGED <<file[t], counted[t]>>
        \/ file'[t] = file[t] + 1 /\ counted'[t] = counted[t] + 1
    BY <1>3 DEF Count, CountersTypeOK, Counts
  <2>2. QED
    BY <1>1, <1>2, <1>3, <2>1 DEF Count
<1>4. CASE Lose
  BY <1>2, <1>4 DEF Lose
<1>5. CASE Boot
  <2>1. file'[t] = 0 /\ UNCHANGED <<counted, segPc, slot, opsErr, before, after, open, shut, late>>
    BY <1>5 DEF Boot, Zero
  <2>2. segPc # "idle" => rebooted'
    BY <1>5 DEF Boot
  <2>3. InBefore(t) \/ InAfter(t) => segPc # "idle"
    OBVIOUS
  <2>4. QED
    BY <1>1, <1>2, <2>1, <2>2, <2>3
<1>6. CASE StartBefore
  <2>1. open'[t] = counted[t] /\ shut'[t] = counted[t] /\ UNCHANGED <<counted, late>>
    BY <1>6 DEF StartBefore
  <2>2. ~InBefore(t)' /\ ~InAfter(t)'
    <3>1. slot' = 1 /\ (segPc' = "before" \/ (segPc' = "run" /\ opsErr'))
      BY <1>6 DEF StartBefore
    <3>2. ~(t < 1)
      BY DEF SlotIds
    <3>3. QED
      BY <3>1, <3>2
  <2>3. QED
    BY <1>1, <1>2, <2>1, <2>2
<1>7. CASE ReadBefore
  <2>1. /\ shut'[t] = counted[t] /\ UNCHANGED <<counted, open, late, file, rebooted, after, opsErr>>
        /\ segPc = "before" /\ ~InAfter(t)'
    BY <1>7 DEF ReadBefore
  <2>2. CASE t = slot
    <3>1. before'[t] = file[t]
      BY <1>7, <2>2 DEF ReadBefore, CountersTypeOK, Counts
    <3>2. QED
      BY <1>1, <1>2, <2>1, <3>1
  <2>3. CASE t # slot
    <3>1. before'[t] = before[t]
      BY <1>7, <2>3 DEF ReadBefore, CountersTypeOK, Counts
    <3>2. InBefore(t)' => InBefore(t)
      BY <1>1, <1>7, <2>3 DEF ReadBefore, SlotIds
    <3>3. QED
      BY <1>1, <1>2, <2>1, <3>1, <3>2
  <2>4. QED
    BY <2>2, <2>3
<1>8. CASE StartAfter
  <2>1. /\ late'[t] = counted[t] /\ UNCHANGED <<counted, open, shut, file, rebooted, before, after, opsErr>>
        /\ InBefore(t)' => InBefore(t)
    BY <1>8 DEF StartAfter
  <2>2. ~InAfter(t)'
    <3>1. slot = 1 => ~(t < slot)
      BY DEF SlotIds
    <3>2. QED
      BY <1>8, <3>1 DEF StartAfter, SnapshotInv
  <2>3. QED
    BY <1>1, <1>2, <2>1, <2>2
<1>9. CASE ReadAfter
  <2>1. /\ UNCHANGED <<counted, open, shut, late, file, rebooted, before, opsErr>>
        /\ segPc = "after" /\ (InBefore(t)' => InBefore(t)) /\ InBefore(t)
    BY <1>9 DEF ReadAfter, SnapshotInv
  <2>2. CASE t = slot
    <3>1. after'[t] = file[t]
      BY <1>9, <2>2 DEF ReadAfter, CountersTypeOK, Counts
    <3>2. QED
      BY <1>1, <1>2, <2>1, <3>1
  <2>3. CASE t # slot
    <3>1. after'[t] = after[t]
      BY <1>9, <2>3 DEF ReadAfter, CountersTypeOK, Counts
    <3>2. InAfter(t)' => InAfter(t)
      BY <1>1, <1>9, <2>3 DEF ReadAfter, SlotIds
    <3>3. QED
      BY <1>1, <1>2, <2>1, <3>1, <3>2
  <2>4. QED
    BY <2>2, <2>3
<1>10. CASE Diff
  BY <1>2, <1>10 DEF Diff
<1>11. CASE UNCHANGED counterVars
  BY <1>2, <1>11 DEF counterVars
<1>12. QED
  BY <1>3, <1>4, <1>5, <1>6, <1>7, <1>8, <1>9, <1>10, <1>11 DEF CountersNext

LEMMA NextSnapshots == CountersTypeOK /\ SnapshotInv /\ [CountersNext]_counterVars => SnapshotInv'
<1> SUFFICES ASSUME CountersTypeOK, SnapshotInv, [CountersNext]_counterVars PROVE SnapshotInv'
  OBVIOUS
<1> USE DEF storeVars, readVars, segHistVars
<1>1. segPc' \in {"before", "after", "diff"} => ~opsErr'
  BY Zenon DEF SnapshotInv, CountersNext, counterVars, Count, Lose, Boot, StartBefore, ReadBefore,
     StartAfter, ReadAfter, Diff
<1>2. segPc' # "idle" => segmentOps' = Absent
  BY DEF SnapshotInv, CountersNext, counterVars, Count, Lose, Boot, StartBefore, ReadBefore,
     StartAfter, ReadAfter, Diff
<1>3. segPc' = "run" => slot' = 1
  BY DEF SnapshotInv, CountersNext, counterVars, Count, Lose, Boot, StartBefore, ReadBefore,
     StartAfter, ReadAfter, Diff
<1>4. QED
  BY <1>1, <1>2, <1>3, NextSlot DEF SnapshotInv

LEMMA CountersNextInv == CountersInv /\ [CountersNext]_counterVars => CountersInv'
<1> SUFFICES ASSUME CountersInv, [CountersNext]_counterVars PROVE NeverOverstates' /\ ExactWithinBoot'
  BY CountersNextType, NextSnapshots DEF CountersInv
<1> USE DEF CountersInv, CountersTypeOK, NeverOverstates, ExactWithinBoot, storeVars, readVars, segHistVars
<1>1. ASSUME NEW s \in SlotIds, Count(s) PROVE NeverOverstates' /\ ExactWithinBoot'
  <2>1. \A t \in SlotIds : counted'[t] >= counted[t] /\ counted'[t] \in Nat
    BY <1>1 DEF Count, Counts
  <2>2. \A t \in SlotIds : segmentOps # Absent => segmentOps[t] \in Nat
    BY DEF Counts
  <2>3. UNCHANGED <<segmentOps, open, shut, late, rebooted>>
    BY <1>1 DEF Count
  <2>4. QED
    BY <2>1, <2>2, <2>3 DEF Counts
<1>2. CASE Boot
  <2>1. UNCHANGED <<segmentOps, open, shut, late, counted>> /\ (~rebooted' => ~rebooted)
    BY <1>2 DEF Boot
  <2>2. QED
    BY <2>1
<1>3. CASE Lose \/ ReadBefore \/ StartAfter \/ ReadAfter \/ UNCHANGED counterVars
  <2>1. CASE Lose \/ UNCHANGED counterVars
    BY <2>1 DEF Lose, counterVars
  <2>2. CASE ReadBefore \/ StartAfter \/ ReadAfter
    <3>1. segmentOps' = Absent
      BY <2>2 DEF ReadBefore, StartAfter, ReadAfter, SnapshotInv
    <3>2. QED
      BY <3>1
  <2>3. QED
    BY <1>3, <2>1, <2>2
<1>4. CASE StartBefore
  <2>1. segmentOps' = Absent
    BY <1>4 DEF StartBefore
  <2>2. QED
    BY <2>1
<1>5. CASE Diff
  <2>1. segmentOps' # Absent => segmentOps' = Delta
    BY <1>5 DEF Diff
  <2>2. UNCHANGED <<open, shut, late, counted, rebooted>>
    BY <1>5 DEF Diff
  <2>3. \A s \in SlotIds : Delta[s] <= counted[s] - open[s]
                           /\ (~rebooted => Delta[s] >= late[s] - shut[s])
    BY <1>5 DEF Diff, SnapshotInv, SlotInv, InAfter, Delta
  <2>4. QED
    BY <2>1, <2>2, <2>3
<1>6. QED
  BY <1>1, <1>2, <1>3, <1>4, <1>5 DEF CountersNext

LEMMA CountersFrame == [Next]_vars => [CountersNext]_counterVars
BY Zenon DEF Next, vars

LEMMA CountersInductive == Spec => []CountersInv
<1>1. Init => CountersInv
  BY CountersInitInv DEF Init
<1>2. CountersInv /\ [Next]_vars => CountersInv'
  BY CountersFrame, CountersNextInv
<1>3. QED
  BY <1>1, <1>2, PTL DEF Spec

\* zoustats.Diff never publishes more operations than the store did, though
\* snapshots are torn by counting and by restarts.
THEOREM DeltaBounded == Spec => []NeverOverstates
<1>1. CountersInv => NeverOverstates
  BY DEF CountersInv
<1>2. QED
  BY <1>1, CountersInductive, PTL

\* A delta taken within one boot leaves out nothing between its snapshots.
THEOREM DeltaExact == Spec => []ExactWithinBoot
<1>1. CountersInv => ExactWithinBoot
  BY DEF CountersInv
<1>2. QED
  BY <1>1, CountersInductive, PTL

-----------------------------------------------------------------------------
(* hold.                                                                   *)

Readings == [elapsed : Nat, attached : Nat, ops : [OpKinds -> Nat], seen : Nat]
Reasons == {"own", "project", "flush"}
Works == [kind : OpKinds, for : Reasons]

\* The work of one kind between two places in its history.
Worked(w, lo, hi, k) == {j \in (lo + 1)..hi : w[j].kind = k}

\* What the counters say between two readings of them, and what was done.
Explained(w, lo, hi, was, is, r) ==
  \A k \in OpKinds :
    /\ is[k] - was[k] <= Cardinality(Worked(w, lo, hi, k))
    /\ r = 0 => is[k] - was[k] = Cardinality(Worked(w, lo, hi, k))

HoldType ==
  /\ holdPc \in {"off", "gauge", "counters", "sleep", "done"}
  /\ settle \in Nat /\ drain \in Nat /\ now \in Nat /\ due \in Nat
  /\ attached \in Nat /\ storeOps \in [OpKinds -> Nat] /\ restarts \in Nat
  /\ letGo \in Nat \cup {Never} /\ letGo <= now
  /\ gauge \in Nat \cup {Never} /\ samples \in Seq(Readings) /\ work \in Seq(Works)

\* A sample is of the past, and the counters since then are explained.
SampleOk(x) ==
  /\ x.elapsed <= now /\ x.seen <= Len(work)
  /\ holdPc \in {"gauge", "counters"} => x.elapsed < now
  /\ holdPc = "sleep" => x.elapsed < due
  /\ Explained(work, x.seen, Len(work), x.ops, storeOps, restarts)

\* From a sample that saw nothing attached on, nothing is.
GoneOk(x) ==
  x.attached = 0 =>
    /\ attached = 0 /\ letGo <= x.elapsed
    /\ \A j \in (x.seen + 1)..Len(work) : work[j].for # "project"

\* Nothing flushes any more once the flush after such a sample is over.
FlushOk(x, y) ==
  x.attached = 0 /\ y.elapsed >= x.elapsed + FlushSecs =>
    \A j \in (y.seen + 1)..Len(work) : work[j].for # "flush"

InOrderOk(s) == \A i, j \in DOMAIN s : i < j => s[i].elapsed < s[j].elapsed

BetweenOk(s) ==
  \A i \in 2..Len(s) :
    /\ s[i - 1].seen <= s[i].seen /\ s[i].seen <= Len(work)
    /\ Explained(work, s[i - 1].seen, s[i].seen, s[i - 1].ops, s[i].ops, restarts)

SamplesKept ==
  /\ \A i \in DOMAIN samples : SampleOk(samples[i]) /\ GoneOk(samples[i])
  /\ \A i, j \in DOMAIN samples : FlushOk(samples[i], samples[j])
  /\ InOrderOk(samples) /\ BetweenOk(samples)

HoldInv ==
  /\ HoldType
  /\ holdPc = "off" => samples = <<>>
  /\ holdPc = "counters" /\ gauge = 0 => attached = 0
  /\ SamplesKept
  /\ holdPc = "done" =>
       idle = LET kept == After(samples, settle)
              IN  IF Len(kept) < 2 THEN NoIdle ELSE Rates(kept, drain)

LEMMA HoldFrame == [Next]_vars => HoldNext \/ UNCHANGED holdVars
BY Zenon DEF Next, vars

LEMMA HoldInitInv == Init => HoldInv
<1> SUFFICES ASSUME HoldInit PROVE HoldInv
  BY DEF Init
<1>1. NoOps \in [OpKinds -> Nat]
  BY DEF NoOps
<1>2. samples = <<>> /\ DOMAIN samples = {} /\ Len(samples) = 0 /\ <<>> \in Seq(Readings) /\ <<>> \in Seq(Works)
  BY DEF HoldInit
<1>3. HoldType
  BY <1>1, <1>2 DEF HoldInit, HoldType, Never
<1> QED
  BY <1>2, <1>3 DEF HoldInit, HoldInv, SamplesKept, InOrderOk, BetweenOk

\* The history of work, one longer.
LEMMA WorkedFinite ==
  ASSUME NEW w, NEW lo \in Nat, NEW hi \in Nat, NEW k
  PROVE  IsFiniteSet(Worked(w, lo, hi, k)) /\ Cardinality(Worked(w, lo, hi, k)) \in Nat
<1>1. IsFiniteSet((lo + 1)..hi)
  BY FS_Interval
<1>2. Worked(w, lo, hi, k) \subseteq (lo + 1)..hi
  BY DEF Worked
<1>3. IsFiniteSet(Worked(w, lo, hi, k))
  BY <1>1, <1>2, FS_Subset
<1> QED
  BY <1>3, FS_CardinalityType

LEMMA WorkedKept ==
  ASSUME NEW w \in Seq(Works), NEW e \in Works, NEW lo \in Nat, NEW hi \in Nat, hi <= Len(w), NEW k
  PROVE  Worked(Append(w, e), lo, hi, k) = Worked(w, lo, hi, k)
BY DEF Worked

LEMMA WorkedGrows ==
  ASSUME NEW w \in Seq(Works), NEW e \in Works, NEW lo \in Nat, lo <= Len(w), NEW k
  PROVE  Cardinality(Worked(Append(w, e), lo, Len(w) + 1, k)) =
           Cardinality(Worked(w, lo, Len(w), k)) + (IF e.kind = k THEN 1 ELSE 0)
<1> DEFINE v == Append(w, e)
           n == Len(w)
           A == Worked(w, lo, n, k)
           B == Worked(v, lo, n + 1, k)
<1>1. n \in Nat /\ v[n + 1] = e /\ \A j \in 1..n : v[j] = w[j]
  OBVIOUS
<1>2. IsFiniteSet(A) /\ Cardinality(A) \in Nat
  BY WorkedFinite
<1> HIDE DEF v, n
<1>3. n + 1 \notin A
  BY <1>1 DEF Worked
<1>4. CASE e.kind = k
  <2>1. B = A \cup {n + 1}
    BY <1>1, <1>4 DEF Worked, n
  <2> HIDE DEF A, B
  <2>2. Cardinality(A \cup {n + 1}) = Cardinality(A) + 1
    BY <1>2, <1>3, FS_AddElement
  <2> QED
    BY <1>4, <2>1, <2>2 DEF A, B, n, v
<1>5. CASE e.kind # k
  <2>1. B = A
    BY <1>1, <1>5 DEF Worked, n
  <2> HIDE DEF A, B
  <2>2. Cardinality(B) = Cardinality(A) + 0
    BY <1>2, <2>1
  <2> QED
    BY <1>5, <2>2 DEF A, B, n, v
<1> QED
  BY <1>4, <1>5

LEMMA ExplainedKept ==
  ASSUME NEW w \in Seq(Works), NEW e \in Works, NEW lo \in Nat, NEW hi \in Nat, hi <= Len(w),
         NEW was, NEW is, NEW r, Explained(w, lo, hi, was, is, r)
  PROVE  Explained(Append(w, e), lo, hi, was, is, r)
<1>1. \A k : Worked(Append(w, e), lo, hi, k) = Worked(w, lo, hi, k)
  BY WorkedKept
<1> QED
  BY <1>1 DEF Explained

LEMMA LetGoInv == ASSUME HoldInv, LetGo PROVE HoldInv'
<1>1. /\ holdPc \in {"gauge", "counters", "sleep"} /\ attached > 0
      /\ attached' = attached - 1 /\ letGo' = now
      /\ UNCHANGED <<holdPc, settle, drain, now, due, storeOps, restarts, gauge, samples, idle, work>>
  BY DEF LetGo, Holding
<1>2. HoldType'
  BY <1>1 DEF HoldInv, HoldType
<1>3. \A i \in DOMAIN samples : samples[i].attached # 0
  BY <1>1 DEF HoldInv, SamplesKept, GoneOk
<1>4. SamplesKept'
  BY <1>1, <1>3 DEF HoldInv, SamplesKept, SampleOk, GoneOk, FlushOk, InOrderOk, BetweenOk
<1> QED
  BY <1>1, <1>2, <1>4 DEF HoldInv, HoldType

LEMMA StoreOpInv == ASSUME HoldInv, StoreOp PROVE HoldInv'
<1> USE IdleHoldAssumption
<1>1. /\ holdPc \in {"gauge", "counters", "sleep"}
      /\ UNCHANGED <<holdPc, settle, drain, now, due, attached, letGo, restarts, gauge, samples, idle>>
  BY DEF StoreOp, Holding
<1>2. PICK k \in OpKinds, for \in Reasons :
        /\ for = "project" => attached > 0
        /\ for = "flush" => letGo # Never /\ now < letGo + FlushSecs
        /\ storeOps' = [storeOps EXCEPT ![k] = @ + 1]
        /\ work' = Append(work, [kind |-> k, for |-> for])
  BY DEF StoreOp, Reasons
<1> DEFINE e == [kind |-> k, for |-> for]
           n == Len(work)
<1>3. /\ e \in Works /\ work \in Seq(Works) /\ n \in Nat /\ work' = Append(work, e)
      /\ Len(work') = n + 1 /\ work' \in Seq(Works)
      /\ work'[n + 1] = e /\ \A j \in 1..n : work'[j] = work[j]
  BY <1>2 DEF HoldInv, HoldType, Works
<1>4. e.kind = k /\ e.for = for
  OBVIOUS
<1>5. /\ samples \in Seq(Readings) /\ storeOps \in [OpKinds -> Nat] /\ storeOps' \in [OpKinds -> Nat]
      /\ \A i \in DOMAIN samples : samples[i] \in Readings
  BY <1>2 DEF HoldInv, HoldType
<1>6. HoldType'
  BY <1>1, <1>3, <1>5 DEF HoldInv, HoldType
<1> HIDE DEF e
<1>7. ASSUME NEW i \in DOMAIN samples PROVE SampleOk(samples[i])' /\ GoneOk(samples[i])'
  <2> DEFINE x == samples[i]
  <2>1. x \in Readings /\ x.seen \in Nat /\ x.seen <= n /\ SampleOk(x) /\ GoneOk(x)
    BY <1>5 DEF HoldInv, SamplesKept, SampleOk, Readings
  <2>2. x.ops \in [OpKinds -> Nat]
    BY <2>1 DEF Readings
  <2> HIDE DEF x
  <2>3. Explained(work', x.seen, n + 1, x.ops, storeOps', restarts)
    <3> SUFFICES ASSUME NEW q \in OpKinds
                 PROVE  /\ storeOps'[q] - x.ops[q] <= Cardinality(Worked(work', x.seen, n + 1, q))
                        /\ restarts = 0 =>
                             storeOps'[q] - x.ops[q] = Cardinality(Worked(work', x.seen, n + 1, q))
      BY DEF Explained
    <3>1. /\ storeOps[q] - x.ops[q] <= Cardinality(Worked(work, x.seen, n, q))
          /\ restarts = 0 => storeOps[q] - x.ops[q] = Cardinality(Worked(work, x.seen, n, q))
      BY <2>1 DEF SampleOk, Explained
    <3>2. Cardinality(Worked(work', x.seen, n + 1, q)) =
            Cardinality(Worked(work, x.seen, n, q)) + (IF k = q THEN 1 ELSE 0)
      BY <1>3, <1>4, <2>1, WorkedGrows
    <3>3. Cardinality(Worked(work, x.seen, n, q)) \in Nat
      BY <1>3, <2>1, WorkedFinite
    <3>4. storeOps'[q] = storeOps[q] + (IF k = q THEN 1 ELSE 0) /\ storeOps[q] \in Nat /\ x.ops[q] \in Nat
      BY <1>2, <1>5, <2>2
    <3> HIDE DEF n
    <3> QED
      BY <3>1, <3>2, <3>3, <3>4
  <2>4. SampleOk(x)'
    BY <1>1, <1>3, <2>1, <2>3 DEF SampleOk, x
  <2>5. x.attached = 0 => \A j \in (x.seen + 1)..(n + 1) : work'[j].for # "project"
    BY <1>2, <1>3, <1>4, <2>1 DEF GoneOk
  <2>6. GoneOk(x)'
    BY <1>1, <1>3, <2>1, <2>5 DEF GoneOk, x
  <2> QED
    BY <2>4, <2>6 DEF x
<1>8. ASSUME NEW i \in DOMAIN samples, NEW j \in DOMAIN samples
      PROVE  FlushOk(samples[i], samples[j])'
  <2> DEFINE x == samples[i]
             y == samples[j]
  <2>1. /\ x.elapsed \in Nat /\ y.elapsed \in Nat /\ y.seen \in Nat /\ y.seen <= n
        /\ FlushOk(x, y) /\ y.elapsed <= now /\ GoneOk(x)
    BY <1>5 DEF HoldInv, SamplesKept, SampleOk, Readings
  <2>2. now \in Nat /\ letGo \in Nat \cup {Never}
    BY DEF HoldInv, HoldType
  <2> HIDE DEF x, y
  <2>3. ASSUME x.attached = 0, y.elapsed >= x.elapsed + FlushSecs, NEW l \in (y.seen + 1)..(n + 1)
        PROVE  work'[l].for # "flush"
    <3>1. CASE l \in 1..n
      BY <1>3, <2>1, <2>3, <3>1 DEF FlushOk
    <3>2. CASE l = n + 1
      BY <1>2, <1>3, <1>4, <2>1, <2>2, <2>3, <3>2 DEF GoneOk, Never
    <3> QED
      BY <1>3, <2>1, <3>1, <3>2
  <2> QED
    BY <1>1, <1>3, <2>3 DEF FlushOk, x, y
<1>9. BetweenOk(samples)'
  <2> SUFFICES ASSUME NEW i \in 2..Len(samples)
               PROVE  /\ samples[i - 1].seen <= samples[i].seen /\ samples[i].seen <= n + 1
                      /\ Explained(work', samples[i - 1].seen, samples[i].seen,
                                   samples[i - 1].ops, samples[i].ops, restarts)
    BY <1>1, <1>3 DEF BetweenOk
  <2>1. /\ samples[i - 1].seen <= samples[i].seen /\ samples[i].seen <= n
        /\ Explained(work, samples[i - 1].seen, samples[i].seen,
                     samples[i - 1].ops, samples[i].ops, restarts)
    BY DEF HoldInv, SamplesKept, BetweenOk
  <2>2. samples[i - 1].seen \in Nat /\ samples[i].seen \in Nat
    <3>1. i \in DOMAIN samples /\ i - 1 \in DOMAIN samples
      BY <1>5
    <3> QED
      BY <1>5, <3>1 DEF Readings
  <2> QED
    BY <1>3, <2>1, <2>2, ExplainedKept
<1> QED
  BY <1>1, <1>6, <1>7, <1>8, <1>9 DEF HoldInv, SamplesKept, InOrderOk

LEMMA NodeRestartsInv == ASSUME HoldInv, NodeRestarts PROVE HoldInv'
<1>1. /\ holdPc \in {"gauge", "counters", "sleep"} /\ restarts' = restarts + 1
      /\ attached' = 0 /\ storeOps' = NoOps
      /\ UNCHANGED <<holdPc, settle, drain, now, due, letGo, gauge, samples, idle, work>>
  BY DEF NodeRestarts, Holding
<1>2. restarts \in Nat /\ restarts' # 0 /\ NoOps \in [OpKinds -> Nat]
  BY <1>1 DEF HoldInv, HoldType, NoOps
<1>3. HoldType'
  BY <1>1, <1>2 DEF HoldInv, HoldType
<1>4. ASSUME NEW i \in DOMAIN samples PROVE SampleOk(samples[i])' /\ GoneOk(samples[i])'
  <2> DEFINE x == samples[i]
  <2>1. x.seen \in Nat /\ x.ops \in [OpKinds -> Nat] /\ Len(work) \in Nat /\ SampleOk(x) /\ GoneOk(x)
    <3>1. x \in Readings /\ Len(work) \in Nat
      BY DEF HoldInv, HoldType
    <3> QED
      BY <3>1 DEF HoldInv, SamplesKept, Readings
  <2> HIDE DEF x
  <2>2. Explained(work, x.seen, Len(work), x.ops, NoOps, restarts')
    <3> SUFFICES ASSUME NEW q \in OpKinds
                 PROVE  NoOps[q] - x.ops[q] <= Cardinality(Worked(work, x.seen, Len(work), q))
      BY <1>2 DEF Explained
    <3>1. Cardinality(Worked(work, x.seen, Len(work), q)) \in Nat
      BY <2>1, WorkedFinite
    <3> QED
      BY <2>1, <3>1 DEF NoOps
  <2> QED
    BY <1>1, <2>1, <2>2 DEF SampleOk, GoneOk, x
<1>5. BetweenOk(samples)'
  BY <1>1, <1>2 DEF HoldInv, SamplesKept, BetweenOk, Explained
<1> QED
  BY <1>1, <1>3, <1>4, <1>5 DEF HoldInv, SamplesKept, FlushOk, InOrderOk


LEMMA ScrapeInv == ASSUME HoldInv, Scrape PROVE HoldInv'
<1>1. /\ holdPc = "gauge" /\ holdPc' = "counters" /\ gauge' \in {attached, Never}
      /\ UNCHANGED <<settle, drain, now, due, attached, storeOps, letGo, restarts, work, samples, idle>>
  BY DEF Scrape, nodeVars
<1>2. HoldType'
  BY <1>1 DEF HoldInv, HoldType
<1>3. SamplesKept'
  BY <1>1 DEF HoldInv, SamplesKept, SampleOk, GoneOk, FlushOk, InOrderOk, BetweenOk
<1> QED
  BY <1>1, <1>2, <1>3 DEF HoldInv, Never

LEMMA SleepInv == ASSUME HoldInv, Sleep PROVE HoldInv'
<1>1. /\ holdPc = "sleep" /\ now' = now + 1
      /\ holdPc' = IF now' = due THEN "gauge" ELSE "sleep"
      /\ UNCHANGED <<settle, drain, due, attached, storeOps, letGo, restarts, work, gauge, samples, idle>>
  BY DEF Sleep, nodeVars
<1>2. HoldType'
  BY <1>1 DEF HoldInv, HoldType, Never
<1>3. ASSUME NEW i \in DOMAIN samples PROVE SampleOk(samples[i])' /\ GoneOk(samples[i])'
  <2>1. samples[i].elapsed \in Nat /\ now \in Nat
    <3>1. samples[i] \in Readings /\ now \in Nat
      BY DEF HoldInv, HoldType
    <3> QED
      BY <3>1 DEF Readings
  <2> QED
    BY <1>1, <2>1 DEF HoldInv, SamplesKept, SampleOk, GoneOk
<1> QED
  BY <1>1, <1>2, <1>3 DEF HoldInv, SamplesKept, FlushOk, InOrderOk, BetweenOk

\* The sample that is taken closes an interval.
LEMMA ReadCountersInv == ASSUME HoldInv, ReadCounters PROVE HoldInv'
<1> DEFINE n == Len(samples)
<1>0. PICK x : x = [elapsed |-> now, attached |-> gauge, ops |-> storeOps, seen |-> Len(work)]
  OBVIOUS
<1> USE IdleHoldAssumption
<1>1. /\ holdPc = "counters" /\ gauge' = Never
      /\ samples' \in IF gauge = Never THEN {samples} ELSE {samples, Append(samples, x)}
      /\ UNCHANGED <<settle, drain, now, attached, storeOps, letGo, restarts, work>>
  BY <1>0 DEF ReadCounters, nodeVars
<1>2. \/ holdPc' = "sleep" /\ due' = now + Every
      \/ /\ holdPc' = "done" /\ due' = due
         /\ idle' = LET kept == After(samples', settle)
                    IN  IF Len(kept) < 2 THEN NoIdle ELSE Rates(kept, drain)
  BY DEF ReadCounters
<1>3. HoldType
  BY DEF HoldInv
<1>4. now \in Nat /\ now + Every \in Nat /\ now < now + Every
  BY <1>3 DEF HoldType
<1>5. ASSUME NEW i \in DOMAIN samples
      PROVE  /\ samples[i] \in Readings /\ samples[i].elapsed < now
             /\ SampleOk(samples[i])' /\ GoneOk(samples[i])'
  <2>1. samples[i] \in Readings
    BY <1>3 DEF HoldType
  <2>2. samples[i].elapsed \in Nat /\ samples[i].elapsed < now
    BY <1>1, <2>1 DEF HoldInv, SamplesKept, SampleOk, Readings
  <2> QED
    BY <1>1, <1>2, <1>4, <2>1, <2>2 DEF HoldInv, SamplesKept, SampleOk, GoneOk
<1>6. CASE samples' = samples
  <2>1. HoldType'
    BY <1>1, <1>2, <1>4, <1>6 DEF HoldInv, HoldType
  <2>2. SamplesKept'
    BY <1>1, <1>5, <1>6 DEF HoldInv, SamplesKept, FlushOk, InOrderOk, BetweenOk
  <2> QED
    BY <1>1, <1>2, <1>6, <2>1, <2>2 DEF HoldInv
<1>7. CASE gauge # Never /\ samples' = Append(samples, x)
  <2>1. /\ x \in Readings /\ x.elapsed = now /\ x.attached = gauge /\ x.ops = storeOps
        /\ x.seen = Len(work) /\ Len(work) \in Nat
    BY <1>0, <1>3, <1>7 DEF HoldType, Readings
  <2>2. /\ n \in Nat /\ samples \in Seq(Readings) /\ samples' \in Seq(Readings)
        /\ Len(samples') = n + 1 /\ samples'[n + 1] = x /\ DOMAIN samples' = 1..(n + 1)
        /\ DOMAIN samples = 1..n /\ \A i \in 1..n : samples'[i] = samples[i]
    BY <1>3, <1>7, <2>1 DEF HoldType
  <2>3. HoldType'
    BY <1>1, <1>2, <1>3, <1>4, <2>2 DEF HoldType
  <2>4. (Len(work) + 1)..Len(work) = {}
    BY <2>1
  <2>5. Explained(work, Len(work), Len(work), storeOps, storeOps, restarts)
    <3>1. \A q : Worked(work, Len(work), Len(work), q) = {}
      BY <2>1 DEF Worked
    <3>2. Cardinality({}) = 0
      BY FS_EmptySet
    <3>3. \A q : Cardinality(Worked(work, Len(work), Len(work), q)) = 0
      BY <3>1, <3>2
    <3>4. \A q \in OpKinds : storeOps[q] \in Nat
      BY <1>3 DEF HoldType
    <3> QED
      BY <3>3, <3>4 DEF Explained
  <2>6. SampleOk(x)'
    <3>1. /\ now <= now /\ Len(work) <= Len(work)
          /\ holdPc' \notin {"gauge", "counters"} /\ (holdPc' = "sleep" => now < due')
      BY <1>2, <1>4, <2>1
    <3> QED
      BY <1>1, <2>1, <2>5, <3>1 DEF SampleOk
  <2>7. GoneOk(x)'
    BY <1>1, <1>3, <2>1, <2>4 DEF GoneOk, HoldInv, HoldType
  <2>8. ASSUME NEW i \in DOMAIN samples'
        PROVE  SampleOk(samples[i])' /\ GoneOk(samples[i])'
    <3>1. CASE i \in 1..n
      <4>1. samples[i]' = samples[i]
        BY <2>2, <3>1
      <4> QED
        BY <1>5, <2>2, <3>1, <4>1 DEF SampleOk, GoneOk
    <3>2. CASE i = n + 1
      <4>1. samples[i]' = x
        BY <2>2, <3>2
      <4> QED
        BY <2>6, <2>7, <4>1 DEF SampleOk, GoneOk
    <3> QED
      BY <2>2, <3>1, <3>2
  <2>9. ASSUME NEW i \in DOMAIN samples', NEW j \in DOMAIN samples'
        PROVE  FlushOk(samples[i], samples[j])'
    <3>1. CASE i \in 1..n /\ j \in 1..n
      <4>1. samples[i]' = samples[i] /\ samples[j]' = samples[j]
        BY <2>2, <3>1
      <4>2. FlushOk(samples[i], samples[j])
        BY <2>2, <3>1 DEF HoldInv, SamplesKept
      <4> QED
        BY <1>1, <4>1, <4>2 DEF FlushOk
    <3>2. CASE j = n + 1
      <4>1. samples[j]' = x
        BY <2>2, <3>2
      <4> QED
        BY <1>1, <2>1, <2>4, <4>1 DEF FlushOk
    <3>3. CASE i = n + 1 /\ j \in 1..n
      <4>1. samples[i]' = x /\ samples[j]' = samples[j]
        BY <2>2, <3>3
      <4>2. samples[j].elapsed < now /\ samples[j].elapsed \in Nat
        BY <1>5, <2>2, <3>3 DEF Readings
      <4>3. ~(samples[j].elapsed >= x.elapsed + FlushSecs)
        BY <1>4, <2>1, <4>2
      <4> QED
        BY <4>1, <4>3 DEF FlushOk
    <3> QED
      BY <2>2, <3>1, <3>2, <3>3
  <2>10. InOrderOk(samples)'
    <3> SUFFICES ASSUME NEW i \in DOMAIN samples', NEW j \in DOMAIN samples', i < j
                 PROVE  samples'[i].elapsed < samples'[j].elapsed
      BY DEF InOrderOk
    <3>1. i \in 1..n /\ samples'[i] = samples[i] /\ i \in DOMAIN samples
      BY <2>2
    <3>2. CASE j \in 1..n
      BY <2>2, <3>1, <3>2 DEF HoldInv, SamplesKept, InOrderOk
    <3>3. CASE j = n + 1
      BY <1>5, <2>1, <2>2, <3>1, <3>3
    <3> QED
      BY <2>2, <3>2, <3>3
  <2>11. BetweenOk(samples)'
    <3> SUFFICES ASSUME NEW i \in 2..(n + 1)
                 PROVE  /\ samples'[i - 1].seen <= samples'[i].seen /\ samples'[i].seen <= Len(work)
                        /\ Explained(work, samples'[i - 1].seen, samples'[i].seen,
                                     samples'[i - 1].ops, samples'[i].ops, restarts)
      BY <1>1, <2>2 DEF BetweenOk
    <3>1. CASE i \in 2..n
      <4>1. samples'[i] = samples[i] /\ samples'[i - 1] = samples[i - 1]
        BY <2>2, <3>1
      <4> QED
        BY <3>1, <4>1 DEF HoldInv, SamplesKept, BetweenOk
    <3>2. CASE i = n + 1
      <4>1. i - 1 \in DOMAIN samples /\ samples'[i] = x /\ samples'[i - 1] = samples[i - 1]
        BY <2>2, <3>2
      <4>2. SampleOk(samples[i - 1])
        BY <4>1 DEF HoldInv, SamplesKept
      <4> QED
        BY <2>1, <4>1, <4>2 DEF SampleOk
    <3> QED
      BY <2>2, <3>1, <3>2
  <2> QED
    BY <1>1, <1>2, <2>3, <2>8, <2>9, <2>10, <2>11 DEF HoldInv, SamplesKept
<1> QED
  BY <1>1, <1>6, <1>7

LEMMA HoldNextInv == ASSUME HoldInv, [Next]_vars PROVE HoldInv'
<1>1. CASE HoldStart
  <2>1. /\ holdPc = "off" /\ holdPc' = "gauge" /\ settle' \in Nat /\ drain' \in Nat /\ attached' \in Nat
        /\ UNCHANGED <<now, due, storeOps, letGo, restarts, gauge, samples, idle, work>>
    BY <1>1, IdleHoldAssumption DEF HoldStart
  <2>2. HoldType'
    BY <2>1 DEF HoldInv, HoldType
  <2>3. samples' = <<>> /\ DOMAIN samples' = {} /\ Len(samples') = 0
    BY <2>1 DEF HoldInv
  <2> QED
    BY <2>1, <2>2, <2>3 DEF HoldInv, SamplesKept, InOrderOk, BetweenOk
<1>2. CASE UNCHANGED holdVars
  BY <1>2 DEF holdVars, HoldInv, HoldType, SamplesKept, SampleOk, GoneOk, FlushOk, InOrderOk,
              BetweenOk
<1> QED
  BY <1>1, <1>2, LetGoInv, StoreOpInv, NodeRestartsInv, ScrapeInv, ReadCountersInv, SleepInv,
     HoldFrame DEF HoldNext

\* After: the samples from a place on, which are those past the settle time.
Suffix(u, s, m) ==
  /\ m \in 1..Len(s) /\ u \in Seq(Readings) /\ Len(u) = Len(s) - m + 1
  /\ \A i \in 1..Len(u) : u[i] = s[i + m - 1]

LEMMA AfterIsSuffix ==
  ASSUME NEW s \in Seq(Readings), NEW t \in Nat, InOrderOk(s), After(s, t) # <<>>
  PROVE  \E m : /\ Suffix(After(s, t), s, m)
                /\ \A i \in DOMAIN s : i >= m <=> s[i].elapsed >= t
<1> DEFINE kept == {i \in DOMAIN s : s[i].elapsed >= t}
           m == Min(kept)
<1>1. kept # {} /\ After(s, t) = SubSeq(s, m, Len(s))
  <2>1. After(s, t) = IF kept = {} THEN <<>> ELSE SubSeq(s, m, Len(s))
    BY DEF After
  <2> QED
    BY <2>1, Zenon
<1>2. kept \subseteq 1..Len(s) /\ Len(s) \in Nat
  OBVIOUS
<1>3. m \in kept /\ \A i \in kept : m <= i
  <2>1. IsFiniteSet(1..Len(s)) /\ kept \subseteq Int
    BY <1>2, FS_Interval
  <2>2. IsFiniteSet(kept)
    BY <1>2, <2>1, FS_Subset
  <2> HIDE DEF kept
  <2> QED
    BY <1>1, <2>1, <2>2, Extremes
<1>4. m \in 1..Len(s) /\ s[m].elapsed >= t
  BY <1>3
<1>5. \A i \in DOMAIN s : i >= m <=> s[i].elapsed >= t
  <2> SUFFICES ASSUME NEW i \in DOMAIN s PROVE i >= m <=> s[i].elapsed >= t
    OBVIOUS
  <2>1. s[i] \in Readings /\ s[m] \in Readings
    BY <1>4
  <2>2. s[i].elapsed \in Nat /\ s[m].elapsed \in Nat
    BY <2>1 DEF Readings
  <2>3. s[i].elapsed >= t => i \in kept
    OBVIOUS
  <2>4. m < i => s[m].elapsed < s[i].elapsed
    BY <1>4 DEF InOrderOk
  <2> HIDE DEF kept, m
  <2> QED
    BY <1>2, <1>3, <1>4, <2>2, <2>3, <2>4
<1> HIDE DEF m, kept
<1>6. Suffix(SubSeq(s, m, Len(s)), s, m)
  BY <1>2, <1>4 DEF Suffix
<1> QED
  BY <1>1, <1>5, <1>6

\* The last sample that saw something attached.
LEMMA LastAttachedIs ==
  ASSUME NEW s \in Seq(Readings)
  PROVE  /\ LastAttached(s) \in Int
         /\ LastAttached(s) # Never =>
              \E i \in DOMAIN s : /\ s[i].attached > 0 /\ LastAttached(s) = s[i].elapsed
                                  /\ \A j \in DOMAIN s : s[j].attached > 0 => j <= i
         /\ LastAttached(s) = Never => \A i \in DOMAIN s : ~(s[i].attached > 0)
<1> DEFINE held == {i \in DOMAIN s : s[i].attached > 0}
<1>1. LastAttached(s) = IF held = {} THEN Never ELSE s[Max(held)].elapsed
  BY DEF LastAttached
<1>2. CASE held = {}
  <2>1. LastAttached(s) = Never
    BY <1>1, <1>2, Zenon
  <2> QED
    BY <1>2, <2>1 DEF Never
<1>3. CASE held # {}
  <2>1. held \subseteq 1..Len(s) /\ Len(s) \in Nat /\ held \subseteq Int
    OBVIOUS
  <2>2. IsFiniteSet(held)
    BY <2>1, FS_Interval, FS_Subset
  <2>3. Max(held) \in held /\ \A j \in held : j <= Max(held)
    BY <1>3, <2>1, <2>2, Extremes
  <2>4. LastAttached(s) = s[Max(held)].elapsed
    BY <1>1, <1>3, Zenon
  <2>5. s[Max(held)] \in Readings
    BY <2>3
  <2>6. LastAttached(s) \in Nat
    BY <2>4, <2>5 DEF Readings
  <2>7. LastAttached(s) # Never
    BY <2>6 DEF Never
  <2>8. \A j \in DOMAIN s : s[j].attached > 0 => j <= Max(held)
    BY <2>3
  <2>9. Max(held) \in DOMAIN s /\ s[Max(held)].attached > 0
    BY <2>3
  <2> HIDE DEF held
  <2> QED
    BY <2>4, <2>6, <2>7, <2>8, <2>9
<1> QED
  BY <1>2, <1>3

\* Every interval goes to one pile.
LEMMA Piled ==
  ASSUME NEW s \in Seq(Readings), InOrderOk(s), NEW d \in Nat, NEW i \in Intervals(s)
  PROVE  /\ Pile(s, i, d) \in {"restart", "attached", "drain", "dormant"}
         /\ Pile(s, i, d) \in {"attached", "dormant"} => \A k \in OpKinds : s[i - 1].ops[k] <= s[i].ops[k]
         /\ Pile(s, i, d) = "dormant" =>
              s[i - 1].attached = 0 /\ (LastAttached(s) >= 0 => s[i - 1].elapsed >= LastAttached(s) + d)
<1>1. i \in DOMAIN s /\ i - 1 \in DOMAIN s /\ i - 1 < i
  BY DEF Intervals
<1>2. s[i] \in Readings /\ s[i - 1] \in Readings /\ s[i - 1].elapsed < s[i].elapsed
  BY <1>1 DEF InOrderOk
<1> DEFINE x == s[i]
           prev == s[i - 1]
           back == \E k \in OpKinds : x.ops[k] < prev.ops[k]
           recent == LastAttached(s) >= 0 /\ prev.elapsed < LastAttached(s) + d
<1>3. /\ x.elapsed \in Nat /\ prev.elapsed \in Nat /\ prev.attached \in Nat
      /\ x.ops \in [OpKinds -> Nat] /\ prev.ops \in [OpKinds -> Nat]
  BY <1>2 DEF Readings
<1>4. LastAttached(s) \in Int
  BY LastAttachedIs
<1>5. ~(x.elapsed <= prev.elapsed)
  BY <1>2, <1>3
<1>6. Pile(s, i, d) = IF x.elapsed <= prev.elapsed THEN "none"
                      ELSE IF back THEN "restart"
                      ELSE IF prev.attached > 0 THEN "attached"
                      ELSE IF recent THEN "drain" ELSE "dormant"
  BY DEF Pile
<1>7. ~back => \A k \in OpKinds : prev.ops[k] <= x.ops[k]
  BY <1>3
<1>8. ~recent => (LastAttached(s) >= 0 => prev.elapsed >= LastAttached(s) + d)
  BY <1>3, <1>4
<1>9. ~(prev.attached > 0) => prev.attached = 0
  BY <1>3
<1> HIDE DEF back, recent, x, prev
<1>10. /\ back => Pile(s, i, d) = "restart"
       /\ ~back /\ prev.attached > 0 => Pile(s, i, d) = "attached"
       /\ ~back /\ ~(prev.attached > 0) /\ recent => Pile(s, i, d) = "drain"
       /\ ~back /\ ~(prev.attached > 0) /\ ~recent => Pile(s, i, d) = "dormant"
  BY <1>5, <1>6
<1> QED
  BY <1>7, <1>8, <1>9, <1>10 DEF x, prev

\* What is known of the samples that are kept.
LEMMA KeptOk ==
  ASSUME HoldInv, NEW u, NEW m, Suffix(u, samples, m)
  PROVE  u \in Seq(Readings) /\ Len(u) \in Nat /\ InOrderOk(u) /\ BetweenOk(u)
<1>1. samples \in Seq(Readings) /\ m \in Nat /\ Len(u) \in Nat /\ Len(samples) \in Nat
  BY DEF HoldInv, HoldType, Suffix
<1>2. InOrderOk(u)
  <2> SUFFICES ASSUME NEW i \in DOMAIN u, NEW j \in DOMAIN u, i < j PROVE u[i].elapsed < u[j].elapsed
    BY DEF InOrderOk
  <2>1. /\ u[i] = samples[i + m - 1] /\ u[j] = samples[j + m - 1] /\ i + m - 1 < j + m - 1
        /\ i + m - 1 \in DOMAIN samples /\ j + m - 1 \in DOMAIN samples
    <3>1. u \in Seq(Readings) /\ m \in 1..Len(samples) /\ Len(u) = Len(samples) - m + 1
      BY DEF Suffix
    <3>2. i \in 1..Len(u) /\ j \in 1..Len(u)
      BY <3>1
    <3>3. u[i] = samples[i + m - 1] /\ u[j] = samples[j + m - 1]
      BY <3>2 DEF Suffix
    <3>4. i + m - 1 < j + m - 1 /\ i + m - 1 \in 1..Len(samples) /\ j + m - 1 \in 1..Len(samples)
      BY <1>1, <3>1, <3>2
    <3> QED
      BY <1>1, <3>3, <3>4
  <2> QED
    BY <2>1 DEF HoldInv, SamplesKept, InOrderOk
<1>3. BetweenOk(u)
  <2> SUFFICES ASSUME NEW i \in 2..Len(u)
               PROVE  /\ u[i - 1].seen <= u[i].seen /\ u[i].seen <= Len(work)
                      /\ Explained(work, u[i - 1].seen, u[i].seen, u[i - 1].ops, u[i].ops, restarts)
    BY DEF BetweenOk
  <2> DEFINE j == i + m - 1
  <2>1. u[i] = samples[j] /\ u[i - 1] = samples[j - 1] /\ j \in 2..Len(samples)
    <3>1. i \in 1..Len(u) /\ i - 1 \in 1..Len(u) /\ (i - 1) + m - 1 = j - 1
      BY <1>1
    <3>2. u[i] = samples[j] /\ u[i - 1] = samples[(i - 1) + m - 1]
      BY <3>1 DEF Suffix
    <3> QED
      BY <1>1, <3>1, <3>2 DEF Suffix
  <2> HIDE DEF j
  <2> QED
    BY <2>1 DEF HoldInv, SamplesKept, BetweenOk
<1> QED
  BY <1>1, <1>2, <1>3 DEF Suffix

\* The piles make up the window.
LEMMA WindowAddsUp ==
  ASSUME NEW u \in Seq(Readings), InOrderOk(u), Len(u) >= 1, NEW d \in Nat
  PROVE  Over(u, d, "dormant", Seconds(u)) + Over(u, d, "attached", Seconds(u))
           + Over(u, d, "drain", Seconds(u)) + Over(u, d, "restart", Seconds(u))
         = u[Len(u)].elapsed - u[1].elapsed
<1> DEFINE I == Intervals(u)
           f == Seconds(u)
           P(p) == {i \in I : Pile(u, i, d) = p}
           F(S) == SumFunctionOnSet(f, S)
           n == Len(u)
           e == [i \in 1..n |-> u[i].elapsed]
           D == P("dormant")
           A == P("attached")
           R == P("drain")
           B == P("restart")
<1>1. n \in Nat /\ I = 2..n /\ IsFiniteSet(I)
  BY FS_Interval DEF Intervals
<1>2. \A i \in 1..n : e[i] \in Nat /\ e[i] = u[i].elapsed
  <2>1. \A i \in 1..n : u[i] \in Readings
    OBVIOUS
  <2> QED
    BY <2>1 DEF Readings
<1>3. \A i \in 2..n : f[i] = e[i] - e[i - 1]
  BY <1>1, <1>2 DEF Seconds
<1>4. \A i \in 2..n : f[i] \in Int
  <2>1. \A i \in 2..n : i \in 1..n /\ i - 1 \in 1..n
    BY <1>1
  <2> HIDE DEF f, e
  <2> QED
    BY <1>2, <1>3, <2>1
<1>5. \A i \in I : Pile(u, i, d) \in {"restart", "attached", "drain", "dormant"}
  BY Piled
<1>6. /\ I = ((D \cup A) \cup R) \cup B
      /\ D \cap A = {} /\ (D \cup A) \cap R = {} /\ ((D \cup A) \cup R) \cap B = {}
  BY <1>5
<1>7. D \subseteq I /\ A \subseteq I /\ R \subseteq I /\ B \subseteq I
  OBVIOUS
<1> HIDE DEF e, f, I, n, D, A, R, B
<1>8. IsFiniteSet(D) /\ IsFiniteSet(A) /\ IsFiniteSet(R) /\ IsFiniteSet(B)
  BY <1>1, <1>7, FS_Subset
<1>9. IsFiniteSet(D \cup A) /\ IsFiniteSet((D \cup A) \cup R)
  BY <1>8, FS_Union
<1>10. \A i \in I : f[i] \in Int
  BY <1>1, <1>4
<1>11. F(((D \cup A) \cup R) \cup B) = F((D \cup A) \cup R) + F(B)
  BY <1>6, <1>8, <1>9, <1>10, SumUnion
<1>12. F((D \cup A) \cup R) = F(D \cup A) + F(R)
  BY <1>6, <1>8, <1>9, <1>10, SumUnion
<1>13. F(D \cup A) = F(D) + F(A)
  BY <1>6, <1>8, <1>10, SumUnion
<1>14. F(D) \in Int /\ F(A) \in Int /\ F(R) \in Int /\ F(B) \in Int
  BY <1>7, <1>8, <1>10, SumInt
<1>15. F(2..n) = e[n] - e[1]
  <2>1. n >= 1
    BY DEF n
  <2> QED
    <3>1. \A i \in 1..n : e[i] \in Int
      BY <1>2
    <3> QED
      BY <1>1, <1>3, <2>1, <3>1, Telescope
<1>16. F(I) = F(D) + F(A) + F(R) + F(B)
  <2>1. F(I) = F(((D \cup A) \cup R) \cup B)
    BY <1>6, Zenon
  <2> HIDE DEF F
  <2> QED
    BY <1>11, <1>12, <1>13, <1>14, <2>1
<1>17. F(I) = u[n].elapsed - u[1].elapsed
  <2>1. e[n] = u[n].elapsed /\ e[1] = u[1].elapsed
    BY <1>1, <1>2 DEF n
  <2> QED
    BY <1>1, <1>15, <2>1, Zenon
<1>18. /\ Over(u, d, "dormant", f) = F(D) /\ Over(u, d, "attached", f) = F(A)
       /\ Over(u, d, "drain", f) = F(R) /\ Over(u, d, "restart", f) = F(B)
  BY Zenon DEF Over, I, D, A, R, B
<1> HIDE DEF F
<1>19. Over(u, d, "dormant", f) + Over(u, d, "attached", f) + Over(u, d, "drain", f)
         + Over(u, d, "restart", f) = u[n].elapsed - u[1].elapsed
  BY <1>16, <1>17, <1>18
<1> QED
  BY <1>19 DEF f, n

\* What a pile claims of one kind is what was done in its intervals, or less.
LEMMA PileOps ==
  ASSUME HoldInv, NEW u \in Seq(Readings), InOrderOk(u), BetweenOk(u), NEW d \in Nat,
         NEW k \in OpKinds, NEW pile \in {"dormant", "attached"}
  PROVE  /\ 0 <= Over(u, d, pile, Grown(u, k))
         /\ Over(u, d, pile, Grown(u, k)) <= Done(u, d, pile, k, Reasons)
         /\ restarts = 0 => Over(u, d, pile, Grown(u, k)) = Done(u, d, pile, k, Reasons)
<1> DEFINE I == Intervals(u)
           S == {i \in I : Pile(u, i, d) = pile}
           g == Grown(u, k)
           h == WorkIn(u, k, Reasons)
<1>1. I = 2..Len(u) /\ Len(u) \in Nat /\ IsFiniteSet(I)
  BY FS_Interval DEF Intervals
<1>2. S \subseteq I
  OBVIOUS
<1>3. work \in Seq(Works)
  BY DEF HoldInv, HoldType
<1>4. ASSUME NEW i \in S
      PROVE  /\ g[i] \in Nat /\ h[i] \in Nat /\ g[i] <= h[i]
             /\ restarts = 0 => g[i] = h[i]
  <2> DEFINE x == u[i]
             y == u[i - 1]
             W == {j \in (y.seen + 1)..x.seen : work[j].kind = k /\ work[j].for \in Reasons}
  <2>1. i \in 2..Len(u) /\ i \in DOMAIN u /\ i - 1 \in DOMAIN u /\ i \in I
    BY <1>1
  <2>2. x \in Readings /\ y \in Readings
    BY <2>1
  <2>3. /\ x.seen \in Nat /\ y.seen \in Nat /\ x.ops[k] \in Nat /\ y.ops[k] \in Nat
    BY <2>2 DEF Readings
  <2>4. /\ y.seen <= x.seen /\ x.seen <= Len(work)
        /\ x.ops[k] - y.ops[k] <= Cardinality(Worked(work, y.seen, x.seen, k))
        /\ restarts = 0 => x.ops[k] - y.ops[k] = Cardinality(Worked(work, y.seen, x.seen, k))
    BY <2>1 DEF BetweenOk, Explained
  <2>5. y.ops[k] <= x.ops[k]
    BY <2>1, Piled
  <2>6. g[i] = x.ops[k] - y.ops[k] /\ h[i] = Cardinality(W)
    BY <2>1 DEF Grown, WorkIn
  <2>7. W = Worked(work, y.seen, x.seen, k)
    <3>1. ASSUME NEW j \in (y.seen + 1)..x.seen PROVE work[j].for \in Reasons
      <4>1. j \in 1..Len(work)
        BY <1>3, <2>3, <2>4
      <4>2. work[j] \in Works
        BY <1>3, <4>1
      <4> QED
        BY <4>2 DEF Works
    <3> QED
      BY <3>1 DEF Worked
  <2>8. Cardinality(Worked(work, y.seen, x.seen, k)) \in Nat
    BY <2>3, WorkedFinite
  <2> HIDE DEF W, x, y, g, h
  <2> QED
    BY <2>3, <2>4, <2>5, <2>6, <2>7, <2>8
<1>5. /\ Over(u, d, pile, Grown(u, k)) = SumFunctionOnSet(g, S)
      /\ Done(u, d, pile, k, Reasons) = SumFunctionOnSet(h, S)
  BY Zenon DEF Over, Done
<1> HIDE DEF I, S, g, h
<1>6. IsFiniteSet(S)
  BY <1>1, <1>2, FS_Subset
<1>7. SumFunctionOnSet(g, S) \in Nat
  BY <1>4, <1>6, SumNat
<1>8. SumFunctionOnSet(g, S) <= SumFunctionOnSet(h, S)
  <2>1. \A i \in S : g[i] \in Int /\ h[i] \in Int /\ g[i] <= h[i]
    BY <1>4
  <2> QED
    BY <1>6, <2>1, SumAtMost
<1>9. restarts = 0 => SumFunctionOnSet(g, S) = SumFunctionOnSet(h, S)
  BY <1>4, <1>6, SumSame
<1> QED
  BY <1>5, <1>7, <1>8, <1>9

\* The last sample with something attached is kept if the settle time was over.
LEMMA LastAttachedKept ==
  ASSUME NEW s \in Seq(Readings), NEW t \in Nat, NEW u, NEW m, Suffix(u, s, m),
         \A i \in DOMAIN s : i >= m <=> s[i].elapsed >= t,
         LastAttached(s) >= t
  PROVE  LastAttached(u) = LastAttached(s) /\ LastAttached(s) >= 0
<1>1. LastAttached(s) \in Int
  BY LastAttachedIs
<1>2. LastAttached(s) # Never /\ LastAttached(s) >= 0
  BY <1>1 DEF Never
<1>3. PICK i \in DOMAIN s : /\ s[i].attached > 0 /\ LastAttached(s) = s[i].elapsed
                            /\ \A j \in DOMAIN s : s[j].attached > 0 => j <= i
  BY <1>2, LastAttachedIs
<1>4. i >= m
  BY <1>3
<1>5. m \in 1..Len(s) /\ u \in Seq(Readings) /\ Len(u) = Len(s) - m + 1 /\ Len(s) \in Nat
  BY DEF Suffix
<1>6. \A j \in 1..Len(u) : u[j] = s[j + m - 1] /\ j + m - 1 \in DOMAIN s
  BY <1>5 DEF Suffix
<1> DEFINE h == i - m + 1
<1>7. h \in 1..Len(u) /\ h + m - 1 = i /\ DOMAIN u = 1..Len(u)
  BY <1>3, <1>4, <1>5
<1>8. u[h] = s[i] /\ h \in DOMAIN u
  BY <1>6, <1>7
<1> HIDE DEF h
<1>9. LastAttached(u) # Never
  BY <1>3, <1>5, <1>8, LastAttachedIs
<1>10. PICK l \in DOMAIN u : /\ u[l].attached > 0 /\ LastAttached(u) = u[l].elapsed
                             /\ \A j \in DOMAIN u : u[j].attached > 0 => j <= l
  BY <1>5, <1>9, LastAttachedIs
<1>11. h <= l
  BY <1>3, <1>8, <1>10
<1>12. l + m - 1 <= i
  BY <1>3, <1>5, <1>6, <1>7, <1>10
<1>13. l = h
  BY <1>5, <1>7, <1>10, <1>11, <1>12
<1> QED
  BY <1>2, <1>3, <1>8, <1>10, <1>13

\* When the drain and the settle were long enough, nothing of a project is in
\* the intervals that count as dormant.
LEMMA DormantIsOwn ==
  ASSUME HoldInv, Drained, NEW m, NEW u, Suffix(u, samples, m),
         \A i \in DOMAIN samples : i >= m <=> samples[i].elapsed >= settle,
         NEW k \in OpKinds
  PROVE  Done(u, drain, "dormant", k, {"project", "flush"}) = 0
<1> USE IdleHoldAssumption
<1> DEFINE I == Intervals(u)
           S == {i \in I : Pile(u, i, drain) = "dormant"}
           h == WorkIn(u, k, {"project", "flush"})
           gone == {i \in DOMAIN samples : samples[i].attached = 0}
<1>1. u \in Seq(Readings) /\ Len(u) \in Nat /\ InOrderOk(u) /\ BetweenOk(u)
  BY KeptOk
<1>2. I = 2..Len(u) /\ IsFiniteSet(I) /\ S \subseteq I
  BY <1>1, FS_Interval DEF Intervals
<1>3. /\ samples \in Seq(Readings) /\ settle \in Nat /\ drain \in Nat /\ work \in Seq(Works)
      /\ Len(samples) \in Nat /\ DOMAIN samples = 1..Len(samples)
  BY DEF HoldInv, HoldType
<1>4. m \in 1..Len(samples) /\ Len(u) = Len(samples) - m + 1
  BY DEF Suffix
<1>5. ASSUME NEW i \in S PROVE h[i] = 0
  <2> DEFINE x == u[i]
             y == u[i - 1]
             W == {j \in (y.seen + 1)..x.seen : work[j].kind = k /\ work[j].for \in {"project", "flush"}}
             p == i + m - 2
  <2>1. i \in 2..Len(u) /\ i - 1 \in 1..Len(u) /\ i \in I
    BY <1>1, <1>2
  <2>2. p \in DOMAIN samples /\ y = samples[p] /\ p >= m
    <3>1. (i - 1) + m - 1 = p
      BY <1>3, <1>4, <2>1
    <3>2. y = samples[(i - 1) + m - 1]
      BY <2>1 DEF Suffix
    <3> QED
      BY <1>1, <1>3, <1>4, <2>1, <3>1, <3>2
  <2>3. /\ y.attached = 0
        /\ LastAttached(u) >= 0 => y.elapsed >= LastAttached(u) + drain
    BY <1>1, <1>3, <2>1, Piled
  <2> HIDE DEF p
  <2>4. y.elapsed >= settle
    BY <2>2
  <2>5. p \in gone
    BY <2>2, <2>3
  <2>6. PICK g \in gone : \A j \in gone : g <= j
    <3>1. gone \in SUBSET Nat
      BY <1>3
    <3> HIDE DEF gone
    <3> QED
      BY <2>5, <3>1, LeastNumber
  <2>7. g \in DOMAIN samples /\ samples[g].attached = 0
    BY <2>6
  <2>8. samples[g] \in Readings /\ y \in Readings
    BY <1>3, <2>2, <2>7
  <2>9. samples[g].elapsed \in Nat /\ y.elapsed \in Nat /\ y.seen \in Nat
    BY <2>8 DEF Readings
  <2>10. \/ LastAttached(samples) >= settle /\ samples[g].elapsed + FlushSecs <= LastAttached(samples) + drain
         \/ samples[g].elapsed + FlushSecs <= settle
    BY <2>6 DEF Drained
  <2>11. y.elapsed >= samples[g].elapsed + FlushSecs
    <3>1. CASE /\ LastAttached(samples) >= settle
               /\ samples[g].elapsed + FlushSecs <= LastAttached(samples) + drain
      <4>1. LastAttached(u) = LastAttached(samples) /\ LastAttached(samples) >= 0
        BY <1>3, <3>1, LastAttachedKept
      <4>2. LastAttached(samples) \in Int
        BY <1>3, LastAttachedIs
      <4> HIDE DEF y
      <4> QED
        BY <1>3, <2>3, <2>9, <3>1, <4>1, <4>2
    <3>2. CASE samples[g].elapsed + FlushSecs <= settle
      BY <1>3, <2>4, <2>9, <3>2
    <3> QED
      BY <2>10, <3>1, <3>2
  <2>12. /\ GoneOk(samples[p]) /\ FlushOk(samples[g], samples[p])
    BY <2>2, <2>7 DEF HoldInv, SamplesKept
  <2>13. \A j \in (y.seen + 1)..Len(work) : work[j].for # "project" /\ work[j].for # "flush"
    BY <2>2, <2>3, <2>7, <2>11, <2>12 DEF GoneOk, FlushOk
  <2>14. x.seen <= Len(work) /\ x.seen \in Nat
    <3>1. x \in Readings
      BY <1>1, <2>1
    <3> QED
      BY <1>1, <2>1, <3>1 DEF BetweenOk, Readings
  <2>15. W = {}
    <3>1. Len(work) \in Nat
      BY <1>3
    <3> HIDE DEF x, y
    <3>2. \A j \in (y.seen + 1)..x.seen : j \in (y.seen + 1)..Len(work)
      BY <2>9, <2>14, <3>1
    <3> QED
      BY <2>13, <3>2
  <2>16. h[i] = Cardinality(W)
    BY <2>1 DEF WorkIn
  <2>17. Cardinality({}) = 0
    BY FS_EmptySet
  <2> HIDE DEF W, h
  <2> QED
    BY <2>15, <2>16, <2>17
<1>6. Done(u, drain, "dormant", k, {"project", "flush"}) = SumFunctionOnSet(h, S)
  BY Zenon DEF Over, Done
<1> HIDE DEF I, S, h
<1>7. IsFiniteSet(S)
  BY <1>2, FS_Subset
<1>8. SumFunctionOnSet(h, S) = 0
  BY <1>5, <1>7, SumZero
<1> QED
  BY <1>6, <1>8

\* Over any hold, cadence of samples and node, whatever scrapes fail and however
\* often the node restarts: the two piles and what is left out make up the
\* window, no pile claims more than was done in it, and what counts as the
\* node's own rate is free of the projects' work when drain and settle were long
\* enough.
THEOREM HoldCorrect == Spec => []PilesAreHonest
<1>1. HoldInv => PilesAreHonest
  <2> SUFFICES ASSUME HoldInv, holdPc = "done", Len(After(samples, settle)) >= 2
               PROVE  LET s == After(samples, settle)
                      IN  /\ idle.dormant + idle.attached + Over(s, drain, "drain", Seconds(s))
                               + Over(s, drain, "restart", Seconds(s)) = s[Len(s)].elapsed - s[1].elapsed
                          /\ \A k \in OpKinds :
                               /\ 0 <= idle.dormantOps[k] /\ 0 <= idle.attachedOps[k]
                               /\ idle.dormantOps[k] <= Done(s, drain, "dormant", k, Reasons)
                               /\ idle.attachedOps[k] <= Done(s, drain, "attached", k, Reasons)
                               /\ restarts = 0 =>
                                    /\ idle.dormantOps[k] = Done(s, drain, "dormant", k, Reasons)
                                    /\ idle.attachedOps[k] = Done(s, drain, "attached", k, Reasons)
                               /\ Drained => Done(s, drain, "dormant", k, {"project", "flush"}) = 0
    BY DEF PilesAreHonest, Reasons
  <2> DEFINE s == After(samples, settle)
  <2>1. samples \in Seq(Readings) /\ settle \in Nat /\ drain \in Nat /\ InOrderOk(samples)
    BY DEF HoldInv, HoldType, SamplesKept
  <2>2. s # <<>>
    <3>1. Len(<<>>) = 0
      OBVIOUS
    <3> HIDE DEF s
    <3> QED
      BY <3>1 DEF s
  <2>3. PICK m : /\ Suffix(s, samples, m)
                 /\ \A i \in DOMAIN samples : i >= m <=> samples[i].elapsed >= settle
    BY <2>1, <2>2, AfterIsSuffix
  <2>4. s \in Seq(Readings) /\ Len(s) \in Nat /\ InOrderOk(s) /\ BetweenOk(s)
    BY <2>3, KeptOk
  <2>5. idle = Rates(s, drain)
    BY <2>4 DEF HoldInv
  <2> HIDE DEF s
  <2>6. /\ idle.dormant = Over(s, drain, "dormant", Seconds(s))
        /\ idle.attached = Over(s, drain, "attached", Seconds(s))
        /\ \A k \in OpKinds : /\ idle.dormantOps[k] = Over(s, drain, "dormant", Grown(s, k))
                              /\ idle.attachedOps[k] = Over(s, drain, "attached", Grown(s, k))
    BY <2>5 DEF Rates
  <2>7. idle.dormant + idle.attached + Over(s, drain, "drain", Seconds(s))
          + Over(s, drain, "restart", Seconds(s)) = s[Len(s)].elapsed - s[1].elapsed
    <3>1. Len(s) >= 1
      BY <2>4 DEF s
    <3> QED
      BY <2>1, <2>4, <2>6, <3>1, WindowAddsUp
  <2>8. ASSUME NEW k \in OpKinds
        PROVE  /\ 0 <= idle.dormantOps[k] /\ 0 <= idle.attachedOps[k]
               /\ idle.dormantOps[k] <= Done(s, drain, "dormant", k, Reasons)
               /\ idle.attachedOps[k] <= Done(s, drain, "attached", k, Reasons)
               /\ restarts = 0 => /\ idle.dormantOps[k] = Done(s, drain, "dormant", k, Reasons)
                                  /\ idle.attachedOps[k] = Done(s, drain, "attached", k, Reasons)
               /\ Drained => Done(s, drain, "dormant", k, {"project", "flush"}) = 0
    <3>1. "dormant" \in {"dormant", "attached"} /\ "attached" \in {"dormant", "attached"}
      OBVIOUS
    <3>2. /\ 0 <= Over(s, drain, "dormant", Grown(s, k))
          /\ Over(s, drain, "dormant", Grown(s, k)) <= Done(s, drain, "dormant", k, Reasons)
          /\ restarts = 0 => Over(s, drain, "dormant", Grown(s, k)) = Done(s, drain, "dormant", k, Reasons)
      BY <2>1, <2>4, <3>1, PileOps
    <3>3. /\ 0 <= Over(s, drain, "attached", Grown(s, k))
          /\ Over(s, drain, "attached", Grown(s, k)) <= Done(s, drain, "attached", k, Reasons)
          /\ restarts = 0 => Over(s, drain, "attached", Grown(s, k)) = Done(s, drain, "attached", k, Reasons)
      BY <2>1, <2>4, <3>1, PileOps
    <3>4. Drained => Done(s, drain, "dormant", k, {"project", "flush"}) = 0
      BY <2>3, DormantIsOwn
    <3> QED
      BY <2>6, <3>2, <3>3, <3>4
  <2> QED
    BY <2>7, <2>8 DEF s
<1> QED
  BY <1>1, HoldInitInv, HoldNextInv, PTL DEF Spec

-----------------------------------------------------------------------------
(* The scales, and what a bucket holds.                                    *)

\* The powers of ten up to n.
Powers(n) == {g \in [0..n -> Nat] : g[0] = 1 /\ \A i \in 1..n : g[i] = 10 * g[i - 1]}

LEMMA PowersAgree ==
  ASSUME NEW n \in Nat, NEW m \in Nat, NEW g \in Powers(n), NEW h \in Powers(m)
  PROVE  \A i \in Nat : i <= n /\ i <= m => g[i] = h[i]
<1> DEFINE Bad == {i \in Nat : i <= n /\ i <= m /\ g[i] # h[i]}
<1> SUFFICES ASSUME Bad # {} PROVE FALSE
  OBVIOUS
<1>1. PICK i \in Bad : \A j \in Bad : i <= j
  <2>1. Bad \in SUBSET Nat
    OBVIOUS
  <2> HIDE DEF Bad
  <2> QED
    BY <2>1, LeastNumber
<1>2. CASE i = 0
  BY <1>1, <1>2 DEF Powers
<1>3. CASE i # 0
  <2>1. i - 1 \in Nat /\ i - 1 <= n /\ i - 1 <= m /\ i - 1 \notin Bad
    BY <1>1, <1>3
  <2>2. g[i - 1] = h[i - 1]
    BY <2>1
  <2>3. i \in 1..n /\ i \in 1..m
    BY <1>1, <1>3
  <2>4. g[i] = 10 * g[i - 1] /\ h[i] = 10 * h[i - 1]
    BY <2>3 DEF Powers
  <2> QED
    BY <1>1, <2>2, <2>4
<1> QED
  BY <1>2, <1>3

LEMMA PowersExist == \A n \in Nat : Powers(n) # {}
<1> DEFINE Bad == {n \in Nat : Powers(n) = {}}
<1> SUFFICES ASSUME Bad # {} PROVE FALSE
  OBVIOUS
<1>1. PICK n \in Bad : \A j \in Bad : n <= j
  <2>1. Bad \in SUBSET Nat
    OBVIOUS
  <2> HIDE DEF Bad
  <2> QED
    BY <2>1, LeastNumber
<1>2. CASE n = 0
  <2>1. [i \in 0..0 |-> 1] \in Powers(0)
    BY DEF Powers
  <2> QED
    BY <1>1, <1>2, <2>1
<1>3. CASE n # 0
  <2>1. n - 1 \in Nat /\ n - 1 \notin Bad
    BY <1>1, <1>3
  <2>2. PICK g : g \in Powers(n - 1)
    BY <2>1
  <2> DEFINE h == [i \in 0..n |-> IF i = n THEN 10 * g[n - 1] ELSE g[i]]
  <2>3. g \in [0..(n - 1) -> Nat] /\ g[0] = 1 /\ \A i \in 1..(n - 1) : g[i] = 10 * g[i - 1]
    BY <2>2 DEF Powers
  <2>4. n \in Nat /\ n >= 1
    BY <1>1, <1>3
  <2>5. h \in [0..n -> Nat] /\ h[0] = 1
    BY <2>3, <2>4
  <2>6. ASSUME NEW i \in 1..n PROVE h[i] = 10 * h[i - 1]
    <3>1. CASE i = n
      BY <2>4, <3>1
    <3>2. CASE i # n
      <4>1. i \in 1..(n - 1) /\ i - 1 \in 0..n /\ i - 1 # n /\ i \in 0..n
        BY <2>4, <3>2
      <4> QED
        BY <2>3, <3>2, <4>1
    <3> QED
      BY <3>1, <3>2
  <2> HIDE DEF h
  <2>7. h \in Powers(n)
    BY <2>5, <2>6 DEF Powers
  <2> QED
    BY <1>1, <2>7
<1> QED
  BY <1>2, <1>3

\* The recursion of Scale has a solution, which Scale is.
LEMMA ScaleIs ==
  /\ Scale[0] = 1
  /\ \A d \in Nat : Scale[d] \in Nat \ {0} /\ Scale[d + 1] = 10 * Scale[d]
<1> DEFINE P(n) == CHOOSE g : g \in Powers(n)
           f == [n \in Nat |-> P(n)[n]]
<1>1. \A n \in Nat : P(n) \in Powers(n)
  BY PowersExist
<1> HIDE DEF P
<1>2. f[0] = 1
  BY <1>1 DEF Powers
<1>3. ASSUME NEW n \in Nat PROVE f[n] \in Nat /\ f[n + 1] = 10 * f[n]
  <2>1. n + 1 \in Nat /\ n + 1 \in 1..(n + 1) /\ n \in 0..n /\ (n + 1) - 1 = n
    OBVIOUS
  <2>2. P(n + 1)[n + 1] = 10 * P(n + 1)[(n + 1) - 1]
    BY <1>1, <2>1 DEF Powers
  <2>3. P(n + 1)[n] = P(n)[n]
    BY <1>1, <2>1, PowersAgree
  <2>4. P(n)[n] \in Nat
    BY <1>1, <2>1 DEF Powers
  <2> QED
    BY <2>1, <2>2, <2>3, <2>4
<1>4. f = [d \in Nat |-> IF d = 0 THEN 1 ELSE 10 * f[d - 1]]
  <2>1. ASSUME NEW d \in Nat PROVE f[d] = IF d = 0 THEN 1 ELSE 10 * f[d - 1]
    <3>1. CASE d = 0
      BY <1>2, <3>1
    <3>2. CASE d # 0
      <4>1. d - 1 \in Nat /\ (d - 1) + 1 = d
        BY <3>2
      <4>2. f[(d - 1) + 1] = 10 * f[d - 1]
        BY <1>3, <4>1
      <4> QED
        BY <3>2, <4>1, <4>2
    <3> QED
      BY <3>1, <3>2
  <2> QED
    BY <2>1
<1> HIDE DEF f
<1>5. Scale = [d \in Nat |-> IF d = 0 THEN 1 ELSE 10 * Scale[d - 1]]
  BY <1>4, Zenon DEF Scale
<1>6. Scale[0] = 1 /\ \A d \in Nat : Scale[d + 1] = 10 * Scale[d]
  <2>1. \A d \in Nat : Scale[d] = IF d = 0 THEN 1 ELSE 10 * Scale[d - 1]
    BY <1>5, Zenon
  <2> HIDE DEF Scale
  <2>2. \A d \in Nat : d + 1 \in Nat /\ d + 1 # 0 /\ (d + 1) - 1 = d
    OBVIOUS
  <2> QED
    BY <2>1, <2>2
<1> DEFINE Bad == {d \in Nat : Scale[d] \notin Nat \ {0}}
<1>7. Bad = {}
  <2> SUFFICES ASSUME Bad # {} PROVE FALSE
    OBVIOUS
  <2>1. PICK d \in Bad : \A j \in Bad : d <= j
    <3>1. Bad \in SUBSET Nat
      OBVIOUS
    <3> HIDE DEF Bad
    <3> QED
      BY <3>1, LeastNumber
  <2>2. d # 0
    BY <1>6, <2>1
  <2>3. d - 1 \in Nat /\ d - 1 \notin Bad /\ (d - 1) + 1 = d
    BY <2>1, <2>2
  <2>4. Scale[(d - 1) + 1] = 10 * Scale[d - 1] /\ Scale[d - 1] \in Nat \ {0}
    BY <1>6, <2>3
  <2> QED
    BY <2>1, <2>3, <2>4
<1> QED
  BY <1>6, <1>7

LEMMA ScaleGrows ==
  ASSUME NEW i \in Nat, NEW j \in Nat, i <= j
  PROVE  Scale[i] <= Scale[j]
<1> DEFINE Bad == {k \in Nat : i <= k /\ ~(Scale[i] <= Scale[k])}
<1> SUFFICES ASSUME Bad # {} PROVE FALSE
  OBVIOUS
<1> HIDE DEF Scale
<1>1. PICK k \in Bad : \A l \in Bad : k <= l
  <2>1. Bad \in SUBSET Nat
    OBVIOUS
  <2> HIDE DEF Bad
  <2> QED
    BY <2>1, LeastNumber
<1>2. k # i
  BY <1>1, ScaleIs
<1>3. k - 1 \in Nat /\ i <= k - 1 /\ k - 1 \notin Bad /\ (k - 1) + 1 = k
  BY <1>1, <1>2
<1>4. Scale[i] <= Scale[k - 1] /\ Scale[(k - 1) + 1] = 10 * Scale[k - 1]
      /\ Scale[k - 1] \in Nat /\ Scale[i] \in Nat
  BY <1>3, ScaleIs
<1> QED
  BY <1>1, <1>3, <1>4

\* index: a duration below the top is in one decade.
LEMMA DecadeIs ==
  ASSUME NEW v \in Nat, v >= 1, ~Beyond(v)
  PROVE  /\ Decade(v) \in Nat /\ Decade(v) < Decades
         /\ Scale[Decade(v)] <= v /\ v < 10 * Scale[Decade(v)]
<1> USE QuantilesAssumption
<1> DEFINE Above == {d \in Nat : v < Scale[d + 1]}
           Is(d) == Scale[d] <= v /\ (d = Decades \/ v < Scale[d + 1])
<1>1. v < Scale[Decades] /\ Decades \in Nat /\ Decades - 1 \in Nat /\ (Decades - 1) + 1 = Decades
  BY ScaleIs DEF Beyond
<1>2. Decades - 1 \in Above
  BY <1>1
<1>3. PICK d \in Above : \A k \in Above : d <= k
  <2>1. Above \in SUBSET Nat
    OBVIOUS
  <2> HIDE DEF Above
  <2> QED
    BY <1>2, <2>1, LeastNumber
<1>4. d \in 0..Decades /\ v < Scale[d + 1]
  BY <1>1, <1>2, <1>3
<1>5. Scale[d] <= v
  <2>1. CASE d = 0
    BY <2>1, ScaleIs
  <2>2. CASE d # 0
    <3>1. d - 1 \in Nat /\ d - 1 \notin Above /\ (d - 1) + 1 = d
      BY <1>3, <2>2
    <3>2. ~(v < Scale[d])
      BY <3>1
    <3> QED
      BY <1>3, <3>2, ScaleIs
  <2> QED
    BY <2>1, <2>2
<1>6. \E k \in 0..Decades : Is(k)
  BY <1>4, <1>5
<1>7. Decade(v) \in 0..Decades /\ Is(Decade(v))
  BY <1>6, Zenon DEF Decade
<1>8. Decade(v) # Decades
  BY <1>1, <1>7, ScaleIs
<1>9. Decade(v) \in Nat /\ Scale[Decade(v) + 1] = 10 * Scale[Decade(v)]
  BY <1>1, <1>7, ScaleIs
<1> QED
  BY <1>1, <1>7, <1>8, <1>9

\* The place of a duration within its decade, which is below PerDecade: the
\* cap on it in index never acts.
Within(v) == ((v - Scale[Decade(v)]) * 100) \div Scale[Decade(v)]

LEMMA IndexIs ==
  ASSUME NEW v \in Nat, v >= 1, ~Beyond(v)
  PROVE  /\ Index(v) = Decade(v) * 900 + Within(v) /\ Within(v) \in 0..899
         /\ Scale[Decade(v)] * Within(v) <= (v - Scale[Decade(v)]) * 100
         /\ (v - Scale[Decade(v)]) * 100 < Scale[Decade(v)] * Within(v) + Scale[Decade(v)]
<1> DEFINE d == Decade(v)
           s == Scale[d]
           x == Within(v)
           a == (v - s) * 100
<1>1. d \in Nat /\ s \in Nat \ {0} /\ s <= v /\ v < 10 * s
  BY DecadeIs, ScaleIs
<1>2. Index(v) = d * 900 + IF x >= 900 THEN 900 - 1 ELSE x
  BY DEF Index, Within, PerDecade
<1>3. x = a \div s
  BY DEF Within
<1> HIDE DEF d, s, x
<1>4. a \in Nat /\ a < 900 * s
  BY <1>1
<1> HIDE DEF a
<1>5. x \in Nat /\ s * x <= a /\ a < s * x + s
  <2>1. /\ a \div s \in Nat /\ a % s \in 0..(s - 1) /\ a = s * (a \div s) + (a % s)
    BY <1>1, <1>4, Euclid
  <2>2. x \in Nat /\ a = s * x + (a % s)
    BY <1>3, <2>1
  <2>3. s * x \in Int
    BY <1>1, <2>2
  <2>4. PICK p \in Int, r \in 0..(s - 1) : p = s * x /\ a = p + r
    BY <2>1, <2>2, <2>3
  <2>5. p <= a /\ a < p + s
    BY <1>1, <2>4
  <2> QED
    BY <2>2, <2>4, <2>5
<1>6. x <= 899
  <2> SUFFICES ASSUME x >= 900 PROVE FALSE
    BY <1>5
  <2>1. PICK e \in Nat : x = 900 + e
    <3>1. x - 900 \in Nat /\ x = 900 + (x - 900)
      BY <1>5
    <3> QED
      BY <3>1
  <2>2. s * x = 900 * s + s * e /\ s * e \in Nat
    BY <1>1, <2>1
  <2> QED
    BY <1>1, <1>4, <1>5, <2>2
<1>7. ~(x >= 900)
  BY <1>5, <1>6
<1> QED
  BY <1>2, <1>5, <1>6, <1>7 DEF d, s, x, a

\* upper: no duration of a bucket is above its bound, and the bound is at most
\* a hundredth above it.
LEMMA UpperIs ==
  ASSUME NEW v \in Nat, ~Beyond(v)
  PROVE  /\ UpperOf(Index(v)) \in Nat
         /\ v <= UpperOf(Index(v))
         /\ UpperOf(Index(v)) * 100 <= (IF v >= 1 THEN v ELSE 1) * 101
<1>1. CASE v >= 1
  <2> DEFINE d == Decade(v)
             s == Scale[d]
             x == Within(v)
             i == Index(v)
  <2>1. d \in Nat /\ s \in Nat \ {0} /\ s <= v /\ v < 10 * s
    BY <1>1, DecadeIs, ScaleIs
  <2>2. i = d * 900 + x /\ x \in 0..899 /\ s * x <= (v - s) * 100 /\ (v - s) * 100 < s * x + s
    BY <1>1, IndexIs
  <2> HIDE DEF d, x, i
  <2>3. i \in Nat /\ i = 900 * d + x /\ 900 \in Nat \ {0} /\ x \in 0..(900 - 1)
    BY <2>1, <2>2
  <2>4. i \div 900 = d /\ i % 900 = x
    BY <2>1, <2>3, EuclidUnique
  <2>5. UpperOf(i) = (s * 100 + (x + 1) * s) \div 100
    BY <2>4 DEF UpperOf, PerDecade
  <2> HIDE DEF s
  <2>6. (x + 1) * s = s * x + s /\ s * x \in Nat
    BY <2>1, <2>2
  <2> DEFINE y == s * 100 + s * x + s
  <2>7. y \in Nat /\ 100 * v <= y /\ y <= 100 * v + s /\ UpperOf(i) = y \div 100
    BY <2>1, <2>2, <2>5, <2>6
  <2> HIDE DEF y
  <2>8. y \div 100 \in Nat /\ v <= y \div 100 /\ (y \div 100) * 100 <= y
    BY <2>7
  <2> QED
    BY <1>1, <2>1, <2>7, <2>8 DEF i
<1>2. CASE v = 0
  <2>1. Index(v) = 0
    BY <1>2 DEF Index
  <2>2. 0 \div 900 = 0 /\ 0 % 900 = 0
    OBVIOUS
  <2>3. UpperOf(0) = (Scale[0] * 100 + (0 + 1) * Scale[0]) \div 100
    BY <2>2 DEF UpperOf, PerDecade
  <2>4. UpperOf(0) = 1
    BY <2>3, ScaleIs
  <2> QED
    BY <1>2, <2>1, <2>4
<1> QED
  BY <1>1, <1>2

\* The buckets are in the order of the durations.
LEMMA IndexGrows ==
  ASSUME NEW v \in Nat, NEW w \in Nat, v <= w, ~Beyond(v), ~Beyond(w)
  PROVE  Index(v) \in Nat /\ Index(w) \in Nat /\ Index(v) <= Index(w)
<1>1. CASE w = 0
  BY <1>1 DEF Index
<1>2. CASE w >= 1
  <2> DEFINE e == Decade(w)
             t == Scale[e]
             y == Within(w)
  <2>1. e \in Nat /\ t \in Nat \ {0} /\ t <= w /\ w < 10 * t
    BY <1>2, DecadeIs, ScaleIs
  <2>2. Index(w) = e * 900 + y /\ y \in 0..899 /\ t * y <= (w - t) * 100 /\ (w - t) * 100 < t * y + t
    BY <1>2, IndexIs
  <2>3. Index(w) \in Nat
    BY <2>1, <2>2
  <2>4. CASE v = 0
    BY <2>3, <2>4 DEF Index
  <2>5. CASE v >= 1
    <3> DEFINE d == Decade(v)
               s == Scale[d]
               x == Within(v)
    <3>1. d \in Nat /\ s \in Nat \ {0} /\ s <= v /\ v < 10 * s
      BY <2>5, DecadeIs, ScaleIs
    <3>2. Index(v) = d * 900 + x /\ x \in 0..899 /\ s * x <= (v - s) * 100 /\ (v - s) * 100 < s * x + s
      BY <2>5, IndexIs
    <3>3. d <= e
      <4> SUFFICES ASSUME e + 1 <= d PROVE FALSE
        BY <2>1, <3>1
      <4>1. Scale[e + 1] <= Scale[d] /\ Scale[e + 1] = 10 * t
        BY <2>1, <3>1, ScaleGrows, ScaleIs
      <4> QED
        BY <2>1, <3>1, <4>1
    <3>4. CASE d < e
      <4> HIDE DEF d, e, x, y
      <4> QED
        BY <2>1, <2>2, <3>1, <3>2, <3>4
    <3>5. CASE d = e
      <4>1. s = t
        BY <3>5
      <4> HIDE DEF d, e, x, y, s, t
      <4>2. s * x < s * y + s
        <5>1. s * x \in Int /\ s * y \in Int
          BY <2>2, <3>1, <3>2
        <5>2. (v - s) * 100 <= (w - s) * 100 /\ (v - s) * 100 \in Int /\ (w - s) * 100 \in Int
          BY <3>1
        <5>3. s * x <= (v - s) * 100 /\ (w - s) * 100 < s * y + s
          BY <2>2, <3>2, <4>1
        <5>4. PICK p \in Int, q \in Int : p = s * x /\ q = s * y
          BY <5>1
        <5>5. p < q + s
          BY <3>1, <5>2, <5>3, <5>4
        <5> QED
          BY <5>4, <5>5
      <4>3. x <= y
        <5> SUFFICES ASSUME x >= y + 1 PROVE FALSE
          BY <2>2, <3>2
        <5>1. PICK k \in Nat : x = y + 1 + k
          <6>1. x - y - 1 \in Nat /\ x = y + 1 + (x - y - 1)
            BY <2>2, <3>2
          <6> QED
            BY <6>1
        <5>2. s * x = s * y + s + s * k /\ s * k \in Nat /\ s * y \in Nat
          BY <2>2, <3>1, <5>1
        <5> QED
          BY <3>1, <4>2, <5>2
      <4> QED
        BY <2>1, <2>2, <3>1, <3>2, <3>5, <4>3
    <3> QED
      BY <2>1, <3>1, <3>3, <3>4, <3>5
  <2> QED
    BY <2>4, <2>5
<1> QED
  BY <1>1, <1>2

-----------------------------------------------------------------------------
(* Bags of numbers.                                                        *)

BagOk(b) == DOMAIN b \subseteq Nat /\ IsFiniteSet(DOMAIN b) /\ \A x \in DOMAIN b : b[x] \in Nat \ {0}

At(b, x) == IF x \in DOMAIN b THEN b[x] ELSE 0

LEMMA BagPlus ==
  ASSUME NEW b, BagOk(b), NEW c, BagOk(c)
  PROVE  BagOk(b (+) c) /\ DOMAIN (b (+) c) = DOMAIN b \cup DOMAIN c
         /\ \A x : At(b (+) c, x) = At(b, x) + At(c, x)
<1>1. DOMAIN (b (+) c) = DOMAIN b \cup DOMAIN c
  BY DEF (+)
<1>2. \A x \in DOMAIN b \cup DOMAIN c : (b (+) c)[x] = At(b, x) + At(c, x)
  BY DEF (+), At
<1>3. \A x : At(b, x) \in Nat /\ At(c, x) \in Nat
  BY DEF At, BagOk
<1>4. IsFiniteSet(DOMAIN b \cup DOMAIN c)
  BY FS_Union DEF BagOk
<1>5. \A x \in DOMAIN b \cup DOMAIN c : (b (+) c)[x] \in Nat \ {0}
  BY <1>2, <1>3 DEF At, BagOk
<1>6. BagOk(b (+) c)
  BY <1>1, <1>4, <1>5 DEF BagOk
<1>7. \A x : At(b (+) c, x) = At(b, x) + At(c, x)
  BY <1>1, <1>2, <1>3 DEF At
<1> QED
  BY <1>1, <1>6, <1>7

LEMMA BagOne ==
  ASSUME NEW v \in Nat
  PROVE  BagOk(SetToBag({v})) /\ DOMAIN SetToBag({v}) = {v}
         /\ \A x : At(SetToBag({v}), x) = IF x = v THEN 1 ELSE 0
<1>1. IsFiniteSet({v})
  BY FS_Singleton
<1> QED
  BY <1>1 DEF SetToBag, BagOk, At

LEMMA BagNone == BagOk(EmptyBag) /\ DOMAIN EmptyBag = {} /\ \A x : At(EmptyBag, x) = 0
<1>1. IsFiniteSet({})
  BY FS_EmptySet
<1> QED
  BY <1>1 DEF EmptyBag, SetToBag, BagOk, At

\* How many elements of a bag are in a set.
In(b, G) == SumFunctionOnSet(b, DOMAIN b \cap G)

LEMMA InNat ==
  ASSUME NEW b, BagOk(b), NEW G
  PROVE  In(b, G) \in Nat /\ IsFiniteSet(DOMAIN b \cap G) /\ \A x \in DOMAIN b \cap G : b[x] \in Nat
<1>1. IsFiniteSet(DOMAIN b \cap G)
  BY FS_Subset DEF BagOk
<1>2. \A x \in DOMAIN b \cap G : b[x] \in Nat
  BY DEF BagOk
<1> QED
  BY <1>1, <1>2, SumNat DEF In

LEMMA InTake ==
  ASSUME NEW b, BagOk(b), NEW G, NEW v \in DOMAIN b \cap G
  PROVE  In(b, G) = b[v] + SumFunctionOnSet(b, (DOMAIN b \cap G) \ {v})
<1> DEFINE D == DOMAIN b \cap G
<1>1. IsFiniteSet(D) /\ \A x \in D : b[x] \in Int
  BY InNat
<1> HIDE DEF D
<1>2. v \in D
  BY DEF D
<1>3. SumFunctionOnSet(b, D) = b[v] + SumFunctionOnSet(b, D \ {v})
  BY <1>1, <1>2, SumTake
<1> QED
  BY <1>3 DEF In, D

\* One element more.
LEMMA InGrows ==
  ASSUME NEW b, BagOk(b), NEW v \in Nat, NEW G
  PROVE  In(b (+) SetToBag({v}), G) = In(b, G) + (IF v \in G THEN 1 ELSE 0)
<1> DEFINE o == SetToBag({v})
           c == b (+) o
           D == DOMAIN b \cap G
           E == DOMAIN c \cap G
<1>1. BagOk(o) /\ DOMAIN o = {v} /\ \A x : At(o, x) = IF x = v THEN 1 ELSE 0
  BY BagOne
<1> HIDE DEF o
<1>2. BagOk(c) /\ DOMAIN c = DOMAIN b \cup {v} /\ \A x : At(c, x) = At(b, x) + (IF x = v THEN 1 ELSE 0)
  <2>1. BagOk(c) /\ DOMAIN c = DOMAIN b \cup DOMAIN o /\ \A x : At(c, x) = At(b, x) + At(o, x)
    BY <1>1, BagPlus
  <2> HIDE DEF c
  <2>2. DOMAIN c = DOMAIN b \cup {v}
    BY <1>1, <2>1
  <2>3. ASSUME NEW x PROVE At(c, x) = At(b, x) + (IF x = v THEN 1 ELSE 0)
    BY <1>1, <2>1
  <2> QED
    BY <2>1, <2>2, <2>3
<1> HIDE DEF c
<1>3. /\ IsFiniteSet(D) /\ IsFiniteSet(E)
      /\ \A x \in D : b[x] \in Nat
      /\ \A x \in E : c[x] \in Nat
  BY <1>2, InNat
<1>4. \A x \in DOMAIN b : x # v => c[x] = b[x]
  BY <1>2 DEF At, BagOk
<1>5. CASE v \notin G
  <2>1. E = D /\ \A x \in D : c[x] = b[x]
    BY <1>2, <1>4, <1>5
  <2> HIDE DEF D, E
  <2>2. SumFunctionOnSet(c, D) = SumFunctionOnSet(b, D)
    BY <1>3, <2>1, SumSame
  <2>3. SumFunctionOnSet(c, E) = SumFunctionOnSet(b, D) /\ SumFunctionOnSet(b, D) \in Nat
    BY <1>3, <2>1, <2>2, SumNat
  <2>4. SumFunctionOnSet(c, E) = SumFunctionOnSet(b, D) + 0
    BY <2>3
  <2> QED
    BY <1>5, <2>4 DEF In, c, o, D, E
<1>6. CASE v \in G
  <2> DEFINE R == D \ {v}
  <2>1. v \in E /\ E \ {v} = R /\ \A x \in R : c[x] = b[x]
    BY <1>2, <1>4, <1>6
  <2>2. IsFiniteSet(R) /\ \A x \in R : b[x] \in Nat
    BY <1>3, FS_RemoveElement
  <2> HIDE DEF E
  <2>3. SumFunctionOnSet(c, E) = c[v] + SumFunctionOnSet(c, E \ {v})
    <3>1. \A x \in E : c[x] \in Int
      BY <1>3
    <3> QED
      BY <1>3, <2>1, <3>1, SumTake
  <2>4. SumFunctionOnSet(c, R) = SumFunctionOnSet(b, R) /\ SumFunctionOnSet(b, R) \in Nat
    <3> HIDE DEF R
    <3> QED
      BY <2>1, <2>2, SumSame, SumNat
  <2>5. SumFunctionOnSet(c, E) = c[v] + SumFunctionOnSet(b, R)
    BY <2>1, <2>3, <2>4, Zenon
  <2>6. CASE v \in DOMAIN b
    <3>1. c[v] = b[v] + 1 /\ v \in D /\ b[v] \in Nat
      BY <1>2, <1>6, <2>6 DEF At, BagOk
    <3>2. SumFunctionOnSet(b, D) = b[v] + SumFunctionOnSet(b, R)
      BY <3>1, InTake DEF In
    <3>3. SumFunctionOnSet(c, E) = SumFunctionOnSet(b, D) + 1
      <4> HIDE DEF D, R
      <4> QED
        BY <2>4, <2>5, <3>1, <3>2
    <3> QED
      BY <1>6, <3>3 DEF In, c, o, D, E
  <2>7. CASE v \notin DOMAIN b
    <3>1. c[v] = 1 /\ R = D
      BY <1>2, <2>7 DEF At
    <3>2. SumFunctionOnSet(c, E) = SumFunctionOnSet(b, D) + 1
      <4> HIDE DEF D, R
      <4> QED
        BY <2>4, <2>5, <3>1
    <3> QED
      BY <1>6, <3>2 DEF In, c, o, D, E
  <2> QED
    BY <2>6, <2>7
<1> QED
  BY <1>5, <1>6

LEMMA TwoExtremes ==
  ASSUME NEW a \in Int, NEW b \in Int
  PROVE  /\ Max({a, b}) = IF a >= b THEN a ELSE b
         /\ Min({a, b}) = IF a <= b THEN a ELSE b
<1>1. IsFiniteSet({a, b}) /\ {a, b} \subseteq Int /\ {a, b} # {}
  <2>1. IsFiniteSet({a} \cup {b})
    BY FS_Singleton, FS_Union
  <2>2. {a} \cup {b} = {a, b}
    OBVIOUS
  <2> QED
    BY <2>1, <2>2
<1>2. /\ Max({a, b}) \in {a, b} /\ \A y \in {a, b} : y <= Max({a, b})
      /\ Min({a, b}) \in {a, b} /\ \A y \in {a, b} : Min({a, b}) <= y
  BY <1>1, Extremes
<1> QED
  BY <1>2

-----------------------------------------------------------------------------
(* What a histogram holds.  The buckets, the total and what is past the    *)
(* last decade are read alike, as figures numbered by an integer.          *)

Fig(h, c) == IF c = -1 THEN h.count ELSE IF c = -2 THEN h.past ELSE At(h.buckets, c)

\* The durations that a figure counts.
Goes(c) == {v \in Nat : IF c = -1 THEN TRUE ELSE IF c = -2 THEN Beyond(v) ELSE ~Beyond(v) /\ Index(v) = c}

\* A histogram of durations of D.
HistOk(h, D) ==
  /\ h.count \in Nat /\ h.past \in Nat /\ h.max \in Nat /\ BagOk(h.buckets)
  /\ h.count = 0 => h = NewHist
  /\ h.count > 0 => h.min \in D /\ h.max \in D

LEMMA FigNat == ASSUME NEW h, NEW D, HistOk(h, D), NEW c PROVE Fig(h, c) \in Nat
BY DEF HistOk, Fig, At, BagOk

LEMMA NewIsOk == ASSUME NEW D PROVE HistOk(NewHist, D) /\ \A c : Fig(NewHist, c) = 0
BY BagNone DEF HistOk, Fig, NewHist

\* Hist.Add: a duration below zero counts as none.
Whole(us) == Max({us, 0})

\* Hist.Add: the duration goes into the figures that count it.
Added(h, D, v, m) ==
  /\ HistOk(m, D \cup {v}) /\ m.count > 0 /\ m.min <= v /\ v <= m.max
  /\ h.count > 0 => m.min <= h.min /\ h.max <= m.max
  /\ \A c \in Int : Fig(m, c) = Fig(h, c) + (IF v \in Goes(c) THEN 1 ELSE 0)

LEMMA AddIs ==
  ASSUME NEW h, NEW D, D \subseteq Nat, HistOk(h, D), NEW v \in Nat,
         NEW us, v = Whole(us), NEW m, m = AddTo(h, us)
  PROVE  Added(h, D, v, m)
<1>0. h.count \in Nat /\ h.past \in Nat /\ h.max \in Nat /\ BagOk(h.buckets)
      /\ (h.count = 0 => h.min = NoMin /\ h.max = 0)
      /\ (h.count > 0 => h.min \in D /\ h.max \in D)
  BY DEF HistOk, NewHist
<1>1. /\ m.buckets = IF Beyond(v) THEN h.buckets ELSE h.buckets (+) SetToBag({Index(v)})
      /\ m.count = h.count + 1 /\ m.max = Max({h.max, v}) /\ m.min = Lesser(h.min, v)
      /\ m.past = IF Beyond(v) THEN h.past + 1 ELSE h.past
  BY DEF AddTo, Whole
<1>2. m.max = IF h.max >= v THEN h.max ELSE v
  <2>1. h.max \in Int /\ v \in Int
    BY <1>0
  <2>2. Max({h.max, v}) = IF h.max >= v THEN h.max ELSE v
    BY <2>1, TwoExtremes
  <2> QED
    BY <1>1, <2>2
<1>3. m.min = IF h.count = 0 THEN v ELSE IF v < h.min THEN v ELSE h.min
  BY <1>0, <1>1 DEF Lesser, NoMin
<1>4. ASSUME ~Beyond(v)
      PROVE  /\ Index(v) \in Nat /\ BagOk(m.buckets)
             /\ \A x : At(m.buckets, x) = At(h.buckets, x) + (IF x = Index(v) THEN 1 ELSE 0)
  <2>1. Index(v) \in Nat
    BY <1>4, IndexGrows
  <2>2. BagOk(SetToBag({Index(v)}))
        /\ \A x : At(SetToBag({Index(v)}), x) = IF x = Index(v) THEN 1 ELSE 0
    BY <2>1, BagOne
  <2>3. m.buckets = h.buckets (+) SetToBag({Index(v)})
    BY <1>1, <1>4
  <2>4. PICK o : o = SetToBag({Index(v)})
    OBVIOUS
  <2>5. BagOk(o) /\ \A x : At(o, x) = IF x = Index(v) THEN 1 ELSE 0
    BY <2>2, <2>4
  <2>6. BagOk(h.buckets (+) o) /\ \A x : At(h.buckets (+) o, x) = At(h.buckets, x) + At(o, x)
    BY <1>0, <2>5, BagPlus
  <2>7. BagOk(m.buckets) /\ \A x : At(m.buckets, x) = At(h.buckets, x) + At(o, x)
    BY <2>3, <2>4, <2>6
  <2> QED
    BY <2>1, <2>5, <2>7
<1>5. BagOk(m.buckets)
  BY <1>0, <1>1, <1>4
<1>6. HistOk(m, D \cup {v})
  <2>1. m.count \in Nat /\ m.count > 0 /\ m.past \in Nat /\ m.max \in Nat
    BY <1>0, <1>1, <1>2
  <2>2. m.min \in D \cup {v} /\ m.max \in D \cup {v}
    BY <1>0, <1>2, <1>3
  <2> QED
    BY <1>5, <2>1, <2>2 DEF HistOk
<1>7. ASSUME NEW c \in Int PROVE Fig(m, c) = Fig(h, c) + (IF v \in Goes(c) THEN 1 ELSE 0)
  <2>1. CASE c = -1
    BY <1>1, <2>1 DEF Fig, Goes
  <2>2. CASE c = -2
    BY <1>0, <1>1, <2>2 DEF Fig, Goes
  <2>3. CASE c # -1 /\ c # -2
    <3>1. v \in Goes(c) <=> ~Beyond(v) /\ Index(v) = c
      BY <2>3 DEF Goes
    <3>2. Fig(m, c) = At(m.buckets, c) /\ Fig(h, c) = At(h.buckets, c) /\ Fig(h, c) \in Nat
      BY <2>3, FigNat DEF Fig
    <3>3. CASE Beyond(v)
      BY <1>1, <3>1, <3>2, <3>3
    <3>4. CASE ~Beyond(v)
      BY <1>4, <3>1, <3>2, <3>4
    <3> QED
      BY <3>3, <3>4
  <2> QED
    BY <2>1, <2>2, <2>3
<1>8. m.count > 0 /\ m.min <= v /\ v <= m.max /\ (h.count > 0 => m.min <= h.min /\ h.max <= m.max)
  <2>1. m.count > 0 /\ (h.count > 0 => h.min \in Nat)
    <3>1. m.count > 0
      BY <1>0, <1>1
    <3>2. h.count > 0 => h.min \in Nat
      BY <1>0
    <3> QED
      BY <3>1, <3>2
  <2>2. m.min <= v /\ (h.count > 0 => m.min <= h.min)
    BY <1>0, <1>3, <2>1
  <2>3. v <= m.max /\ h.max <= m.max
    BY <1>0, <1>2
  <2> QED
    BY <2>1, <2>2, <2>3
<1> QED
  BY <1>6, <1>7, <1>8 DEF Added

\* Hist.Merge: the figures add up, an empty histogram has none.
LEMMA MergeIs ==
  ASSUME NEW h, NEW o, NEW D, D \subseteq Nat, HistOk(h, D), HistOk(o, D)
  PROVE  LET m == MergeHist(h, o)
         IN  /\ HistOk(m, D)
             /\ o.count > 0 => m.count > 0 /\ m.min <= o.min /\ o.max <= m.max
             /\ h.count > 0 => m.count > 0 /\ m.min <= h.min /\ h.max <= m.max
             /\ \A c \in Int : Fig(m, c) = Fig(h, c) + Fig(o, c)
<1> DEFINE m == MergeHist(h, o)
<1>0. /\ h.count \in Nat /\ h.past \in Nat /\ h.max \in Nat /\ BagOk(h.buckets)
      /\ (h.count = 0 => h.min = NoMin /\ h.max = 0)
      /\ (h.count > 0 => h.min \in D /\ h.max \in D)
      /\ o.count \in Nat /\ o.past \in Nat /\ o.max \in Nat /\ BagOk(o.buckets)
      /\ (o.count = 0 => o = NewHist)
      /\ (o.count > 0 => o.min \in D /\ o.max \in D)
  BY DEF HistOk, NewHist
<1>1. CASE o.count = 0
  <2>1. m = h
    BY <1>1 DEF MergeHist
  <2>2. \A c : Fig(o, c) = 0
    BY <1>0, <1>1, NewIsOk
  <2>3. \A c : Fig(h, c) \in Nat
    BY FigNat
  <2>4. \A c \in Int : Fig(m, c) = Fig(h, c) + Fig(o, c)
    BY <2>1, <2>2, <2>3
  <2> HIDE DEF m
  <2>5. h.count > 0 => h.min \in Nat /\ h.max \in Nat
    BY <1>0
  <2>6. h.count > 0 => h.min <= h.min /\ h.max <= h.max
    BY <2>5
  <2> QED
    BY <1>0, <1>1, <2>1, <2>4, <2>6 DEF m
<1>2. CASE o.count > 0
  <2>1. /\ m.buckets = h.buckets (+) o.buckets
        /\ m.count = h.count + o.count /\ m.max = Max({h.max, o.max}) /\ m.min = Lesser(h.min, o.min)
        /\ m.past = h.past + o.past
    BY <1>2 DEF MergeHist
  <2> HIDE DEF m
  <2>2. m.max = IF h.max >= o.max THEN h.max ELSE o.max
    BY <1>0, <2>1, TwoExtremes
  <2>3. m.min = IF h.count = 0 THEN o.min ELSE IF o.min < h.min THEN o.min ELSE h.min
    BY <1>0, <1>2, <2>1 DEF Lesser, NoMin
  <2>4. BagOk(m.buckets) /\ \A x : At(m.buckets, x) = At(h.buckets, x) + At(o.buckets, x)
    <3>1. /\ BagOk(h.buckets (+) o.buckets)
          /\ \A x : At(h.buckets (+) o.buckets, x) = At(h.buckets, x) + At(o.buckets, x)
      BY <1>0, BagPlus
    <3> QED
      BY <2>1, <3>1
  <2>5. m.count \in Nat /\ m.count > 0 /\ m.past \in Nat /\ m.max \in Nat
    BY <1>0, <1>2, <2>1, <2>2
  <2>6. m.min \in D /\ m.max \in D
    BY <1>0, <1>2, <2>2, <2>3
  <2>7. HistOk(m, D)
    BY <2>4, <2>5, <2>6 DEF HistOk
  <2>8. \A c \in Int : Fig(m, c) = Fig(h, c) + Fig(o, c)
    BY <2>1, <2>4 DEF Fig
  <2>9. m.min <= o.min /\ o.max <= m.max /\ (h.count > 0 => m.min <= h.min /\ h.max <= m.max)
    <3>1. o.min \in Nat /\ (h.count > 0 => h.min \in Nat)
      BY <1>0, <1>2
    <3>2. m.min <= o.min /\ (h.count > 0 => m.min <= h.min)
      BY <1>0, <2>3, <3>1
    <3>3. o.max <= m.max /\ h.max <= m.max
      BY <1>0, <2>2
    <3> QED
      BY <3>2, <3>3
  <2> QED
    BY <2>5, <2>7, <2>8, <2>9 DEF m
<1> QED
  BY <1>0, <1>1, <1>2

-----------------------------------------------------------------------------
(* The histograms of a run.                                                *)

\* A figure of each worker.
Figs(h, c) == [w \in HistWorkers |-> Fig(h[w], c)]

HistTypes ==
  /\ hist = [w \in HistWorkers |-> hist[w]] /\ BagOk(timed) /\ merged \subseteq HistWorkers
  /\ histPc \in {"off", "measure"} => merged = {} /\ all = NewHist
  /\ histPc = "done" => merged = HistWorkers
  /\ HistOk(all, DOMAIN timed) /\ \A w \in HistWorkers : HistOk(hist[w], DOMAIN timed)

\* Every duration is counted by one worker and is between that worker's extremes.
HistCounts ==
  /\ \A c \in Int : SumFunctionOnSet(Figs(hist, c), HistWorkers) = In(timed, Goes(c))
  /\ \A v \in DOMAIN timed :
       \E w \in HistWorkers : hist[w].count > 0 /\ hist[w].min <= v /\ v <= hist[w].max

\* The run's histogram is the sum of those that are in.
MergeCounts ==
  /\ \A c \in Int : Fig(all, c) = SumFunctionOnSet(Figs(hist, c), merged)
  /\ \A w \in merged : hist[w].count > 0 =>
       all.count > 0 /\ all.min <= hist[w].min /\ hist[w].max <= all.max

HistInv == HistTypes /\ HistCounts /\ MergeCounts

LEMMA FigsAre ==
  ASSUME NEW h, NEW D, \A w \in HistWorkers : HistOk(h[w], D), NEW c
  PROVE  /\ \A w \in HistWorkers : Figs(h, c)[w] = Fig(h[w], c) /\ Figs(h, c)[w] \in Nat
         /\ IsFiniteSet(HistWorkers)
BY FigNat, QuantilesAssumption DEF Figs

LEMMA HistInitially == Init => HistInv
<1> SUFFICES ASSUME HistInit PROVE HistInv
  BY Zenon DEF Init
<1>1. /\ histPc = "off" /\ hist = [w \in HistWorkers |-> NewHist] /\ merged = {}
      /\ all = NewHist /\ timed = EmptyBag
  BY Zenon DEF HistInit
<1>2. BagOk(timed) /\ DOMAIN timed = {}
  BY <1>1, BagNone
<1>3. HistTypes
  BY <1>1, <1>2, NewIsOk DEF HistTypes
<1>4. IsFiniteSet(HistWorkers) /\ IsFiniteSet({})
  BY FS_EmptySet, QuantilesAssumption
<1>5. ASSUME NEW c \in Int
      PROVE  /\ SumFunctionOnSet(Figs(hist, c), HistWorkers) = In(timed, Goes(c))
             /\ Fig(all, c) = SumFunctionOnSet(Figs(hist, c), merged)
  <2>1. \A w \in HistWorkers : Figs(hist, c)[w] = 0
    BY <1>1, NewIsOk DEF Figs
  <2>2. SumFunctionOnSet(Figs(hist, c), HistWorkers) = 0
    BY <1>4, <2>1, SumZero
  <2>3. SumFunctionOnSet(Figs(hist, c), {}) = 0
    BY <1>4, SumZero
  <2>4. DOMAIN timed \cap Goes(c) = {}
    BY <1>2
  <2>5. In(timed, Goes(c)) = 0
    BY <1>4, <2>4, SumZero DEF In
  <2>6. Fig(all, c) = 0
    BY <1>1, NewIsOk
  <2> QED
    BY <1>1, <2>2, <2>3, <2>5, <2>6
<1> QED
  BY <1>1, <1>2, <1>3, <1>5 DEF HistInv, HistCounts, MergeCounts

LEMMA MeasureKeeps == ASSUME HistInv, NEW w \in HistWorkers, NEW us \in Micros, Measure(w, us) PROVE HistInv'
<1>1. PICK v \in Nat : v = Whole(us)
  <2>1. us \in Int
    BY QuantilesAssumption
  <2>2. Whole(us) \in Nat
    BY <2>1, TwoExtremes DEF Whole
  <2> QED
    BY <2>2
<1>2. PICK D : D = DOMAIN timed
  OBVIOUS
<1>3. PICK h : h = hist /\ h = [x \in HistWorkers |-> h[x]]
  BY Zenon DEF HistInv, HistTypes
<1>4. PICK m : m = AddTo(h[w], us)
  OBVIOUS
<1>5. /\ BagOk(timed) /\ D \subseteq Nat /\ HistOk(all, D)
      /\ \A x \in HistWorkers : HistOk(h[x], D)
  BY <1>2, <1>3 DEF HistInv, HistTypes, BagOk
<1>6. /\ HistOk(m, D \cup {v}) /\ m.count > 0 /\ m.min <= v /\ v <= m.max
      /\ h[w].count > 0 => m.min <= h[w].min /\ h[w].max <= m.max
      /\ \A c \in Int : Fig(m, c) = Fig(h[w], c) + (IF v \in Goes(c) THEN 1 ELSE 0)
  <2>1. HistOk(h[w], D) /\ D \subseteq Nat
    BY <1>5
  <2>2. Added(h[w], D, v, m)
    BY <1>1, <1>4, <2>1, AddIs
  <2> QED
    BY <2>2, Zenon DEF Added
<1>7. PICK g : g = hist' /\ g = [h EXCEPT ![w] = m]
  BY <1>3, <1>4, Zenon DEF Measure
<1>8. /\ g = [x \in HistWorkers |-> g[x]]
      /\ g[w] = m /\ \A x \in HistWorkers : x # w => g[x] = h[x]
  <2>1. \A x \in HistWorkers : g[x] = IF x = w THEN m ELSE h[x]
    BY <1>3, <1>7
  <2>2. g = [x \in HistWorkers |-> IF x = w THEN m ELSE h[x]]
    BY <1>3, <1>7
  <2> QED
    BY <2>1, <2>2
<1>9. /\ timed' = timed (+) SetToBag({v}) /\ histPc = "measure" /\ histPc' = histPc
      /\ merged' = merged /\ all' = all /\ merged = {} /\ all = NewHist
  BY <1>1 DEF Measure, HistInv, HistTypes, Whole
<1>10. /\ BagOk(timed') /\ DOMAIN timed' = D \cup {v}
       /\ \A G : In(timed', G) = In(timed, G) + (IF v \in G THEN 1 ELSE 0)
  <2>1. BagOk(SetToBag({v})) /\ DOMAIN SetToBag({v}) = {v}
    BY BagOne
  <2>2. /\ BagOk(timed (+) SetToBag({v}))
        /\ DOMAIN (timed (+) SetToBag({v})) = DOMAIN timed \cup DOMAIN SetToBag({v})
    BY <1>5, <2>1, BagPlus
  <2>3. \A G : In(timed (+) SetToBag({v}), G) = In(timed, G) + (IF v \in G THEN 1 ELSE 0)
    BY <1>5, InGrows
  <2> QED
    BY <1>2, <1>9, <2>1, <2>2, <2>3
<1>11. \A x \in HistWorkers : HistOk(g[x], D \cup {v})
  <2>1. ASSUME NEW x \in HistWorkers, x # w PROVE HistOk(g[x], D \cup {v})
    <3>1. HistOk(h[x], D \cup {v})
      BY <1>5 DEF HistOk
    <3> QED
      BY <1>8, <2>1, <3>1
  <2> QED
    BY <1>6, <1>8, <2>1
<1>12. HistTypes'
  <2>1. hist' = [x \in HistWorkers |-> hist'[x]]
    BY <1>7, <1>8
  <2>2. HistOk(all', DOMAIN timed') /\ \A x \in HistWorkers : HistOk(hist'[x], DOMAIN timed')
    BY <1>7, <1>9, <1>10, <1>11, NewIsOk
  <2> QED
    BY <1>9, <1>10, <2>1, <2>2 DEF HistTypes
<1>13. ASSUME NEW c \in Int
       PROVE  SumFunctionOnSet(Figs(g, c), HistWorkers) = In(timed', Goes(c))
  <2>1. PICK p, q : p = Figs(h, c) /\ q = Figs(g, c)
    OBVIOUS
  <2>2. /\ \A x \in HistWorkers : p[x] = Fig(h[x], c) /\ p[x] \in Nat
        /\ \A x \in HistWorkers : q[x] = Fig(g[x], c) /\ q[x] \in Nat
        /\ IsFiniteSet(HistWorkers)
    BY <1>5, <1>11, <2>1, FigsAre
  <2>3. \A x \in HistWorkers \ {w} : p[x] = q[x]
    BY <1>8, <2>2
  <2>4. SumFunctionOnSet(q, HistWorkers) = SumFunctionOnSet(p, HistWorkers) + (q[w] - p[w])
    <3>1. \A x \in HistWorkers : p[x] \in Int /\ q[x] \in Int
      BY <2>2
    <3> QED
      BY <2>2, <2>3, <3>1, SumChange
  <2>5. q[w] = p[w] + (IF v \in Goes(c) THEN 1 ELSE 0)
    BY <1>6, <1>8, <2>2
  <2>6. SumFunctionOnSet(p, HistWorkers) = In(timed, Goes(c)) /\ In(timed, Goes(c)) \in Nat
    BY <1>3, <1>5, <2>1, InNat DEF HistInv, HistCounts
  <2>7. In(timed', Goes(c)) = In(timed, Goes(c)) + (IF v \in Goes(c) THEN 1 ELSE 0)
    BY <1>10
  <2> QED
    BY <2>1, <2>2, <2>4, <2>5, <2>6, <2>7
<1>14. ASSUME NEW u \in D \cup {v}
       PROVE  \E x \in HistWorkers : g[x].count > 0 /\ g[x].min <= u /\ u <= g[x].max
  <2>1. CASE u = v
    BY <1>6, <1>8, <2>1
  <2>2. CASE u \in D
    <3>1. PICK x \in HistWorkers : h[x].count > 0 /\ h[x].min <= u /\ u <= h[x].max
      BY <1>2, <1>3, <2>2 DEF HistInv, HistCounts
    <3>2. CASE x # w
      BY <1>8, <3>1, <3>2
    <3>3. CASE x = w
      <4>1. m.min <= h[w].min /\ h[w].max <= m.max /\ h[w].min <= u /\ u <= h[w].max
        BY <1>6, <3>1, <3>3
      <4>2. h[w].min \in Nat /\ h[w].max \in Nat /\ u \in Nat /\ m.min \in Nat /\ m.max \in Nat
        BY <1>5, <1>6, <2>2, <3>1, <3>3 DEF HistOk
      <4>3. m.min <= u /\ u <= m.max
        BY <4>1, <4>2
      <4> QED
        BY <1>6, <1>8, <4>3
    <3> QED
      BY <3>2, <3>3
  <2> QED
    BY <2>1, <2>2
<1>15. HistCounts'
  BY <1>7, <1>10, <1>13, <1>14 DEF HistCounts
<1>16. MergeCounts'
  <2>1. \A c \in Int : SumFunctionOnSet(Figs(hist', c), {}) = 0 /\ Fig(NewHist, c) = 0
    BY FS_EmptySet, SumZero, NewIsOk
  <2> QED
    BY <1>9, <2>1 DEF MergeCounts
<1> QED
  BY <1>12, <1>15, <1>16 DEF HistInv

LEMMA MergeInKeeps == ASSUME HistInv, NEW w \in HistWorkers, MergeIn(w) PROVE HistInv'
<1>1. PICK D : D = DOMAIN timed
  OBVIOUS
<1>2. PICK M, h, a : M = merged /\ h = hist /\ a = all
  OBVIOUS
<1>3. /\ D \subseteq Nat /\ HistOk(a, D) /\ \A x \in HistWorkers : HistOk(h[x], D)
      /\ M \subseteq HistWorkers /\ w \notin M
  BY <1>1, <1>2 DEF HistInv, HistTypes, BagOk, MergeIn
<1>4. PICK m : m = MergeHist(a, h[w])
  OBVIOUS
<1>5. /\ HistOk(m, D)
      /\ h[w].count > 0 => m.count > 0 /\ m.min <= h[w].min /\ h[w].max <= m.max
      /\ a.count > 0 => m.count > 0 /\ m.min <= a.min /\ a.max <= m.max
      /\ \A c \in Int : Fig(m, c) = Fig(a, c) + Fig(h[w], c)
  BY <1>3, <1>4, MergeIs
<1>6. /\ all' = m /\ merged' = M \cup {w} /\ hist' = h /\ timed' = timed
      /\ histPc' = (IF M \cup {w} = HistWorkers THEN "done" ELSE "merge")
  BY <1>2, <1>4, Zenon DEF MergeIn
<1>7. HistTypes'
  <2>1. M \cup {w} \subseteq HistWorkers /\ (histPc' = "done" => M \cup {w} = HistWorkers)
        /\ histPc' \notin {"off", "measure"}
    BY <1>3, <1>6
  <2> QED
    BY <1>1, <1>2, <1>3, <1>5, <1>6, <2>1 DEF HistInv, HistTypes
<1>8. HistCounts'
  BY <1>2, <1>6 DEF HistInv, HistCounts
<1>9. ASSUME NEW c \in Int PROVE Fig(m, c) = SumFunctionOnSet(Figs(h, c), M \cup {w})
  <2>1. PICK p : p = Figs(h, c)
    OBVIOUS
  <2>2. (\A x \in HistWorkers : p[x] = Fig(h[x], c) /\ p[x] \in Nat) /\ IsFiniteSet(HistWorkers)
    BY <1>3, <2>1, FigsAre
  <2>3. PICK N : N = M \cup {w} /\ N \subseteq HistWorkers
    BY <1>3
  <2>4. IsFiniteSet(N) /\ w \in N /\ N \ {w} = M /\ \A x \in N : p[x] \in Int
    BY <1>3, <2>2, <2>3, FS_Subset
  <2>5. SumFunctionOnSet(p, N) = p[w] + SumFunctionOnSet(p, N \ {w})
    BY <2>4, SumTake
  <2>6. Fig(a, c) = SumFunctionOnSet(p, M)
    BY <1>2, <2>1 DEF HistInv, MergeCounts
  <2>7. Fig(a, c) \in Nat /\ Fig(m, c) = Fig(a, c) + p[w] /\ p[w] \in Nat
    BY <1>3, <1>5, <2>2, FigNat
  <2>8. SumFunctionOnSet(p, N) = p[w] + Fig(a, c)
    BY <2>4, <2>5, <2>6
  <2> QED
    BY <2>1, <2>3, <2>7, <2>8
<1>10. ASSUME NEW x \in M \cup {w}, h[x].count > 0
       PROVE  m.count > 0 /\ m.min <= h[x].min /\ h[x].max <= m.max
  <2>1. CASE x = w
    BY <1>5, <1>10, <2>1
  <2>2. CASE x \in M
    <3>1. a.count > 0 /\ a.min <= h[x].min /\ h[x].max <= a.max
      BY <1>2, <1>10, <2>2 DEF HistInv, MergeCounts
    <3>2. m.count > 0 /\ m.min <= a.min /\ a.max <= m.max
      BY <1>5, <3>1
    <3>3. a.min \in Nat /\ a.max \in Nat /\ m.min \in Nat /\ m.max \in Nat
      BY <1>3, <1>5, <3>1, <3>2 DEF HistOk
    <3>4. h[x].min \in Nat /\ h[x].max \in Nat
      BY <1>3, <1>10, <2>2 DEF HistOk
    <3> QED
      BY <3>1, <3>2, <3>3, <3>4
  <2> QED
    BY <2>1, <2>2
<1>11. MergeCounts'
  BY <1>6, <1>9, <1>10 DEF MergeCounts
<1> QED
  BY <1>7, <1>8, <1>11 DEF HistInv

LEMMA HistKept == HistInv /\ [Next]_vars => HistInv'
<1> SUFFICES ASSUME HistInv, [Next]_vars PROVE HistInv'
  OBVIOUS
<1>1. HistNext \/ UNCHANGED histVars
  BY Zenon DEF Next, vars
<1>2. CASE UNCHANGED histVars
  BY <1>2 DEF histVars, HistInv, HistTypes, HistCounts, MergeCounts
<1>3. CASE HistStart
  BY <1>3 DEF HistStart, HistInv, HistTypes, HistCounts, MergeCounts
<1>4. CASE StopMeasuring
  BY <1>4 DEF StopMeasuring, HistInv, HistTypes, HistCounts, MergeCounts
<1>5. CASE \E w \in HistWorkers : MergeIn(w) \/ \E us \in Micros : Measure(w, us)
  BY <1>5, MergeInKeeps, MeasureKeeps
<1> QED
  BY <1>1, <1>2, <1>3, <1>4, <1>5, Zenon DEF HistNext

\* Hist.Add and Hist.Merge: no duration is lost or counted twice, whichever
\* worker measured it and in whatever order the histograms are merged.
LEMMA HistSound == Spec => []HistInv
BY HistInitially, HistKept, PTL DEF Spec

-----------------------------------------------------------------------------
(* Reading a percentile.                                                   *)

LEMMA SizeIs == ASSUME NEW b PROVE Size(b) = SumFunctionOnSet(b, DOMAIN b)
BY DEF Size, SumFunction

LEMMA AtMostIs ==
  ASSUME NEW b, BagOk(b), NEW x \in Int
  PROVE  /\ AtMost(b, x) \in Nat /\ AtMost(b, x) <= Size(b) /\ Size(b) \in Nat
         /\ \A y \in Int : x <= y => AtMost(b, x) <= AtMost(b, y)
         /\ (\A y \in DOMAIN b : y <= x) => AtMost(b, x) = Size(b)
<1> DEFINE Below(z) == {y \in DOMAIN b : y <= z}
<1>1. DOMAIN b \subseteq Nat /\ IsFiniteSet(DOMAIN b) /\ \A y \in DOMAIN b : b[y] \in Nat
  BY DEF BagOk
<1>2. \A z \in Int : IsFiniteSet(Below(z)) /\ Below(z) \subseteq DOMAIN b
  BY <1>1, FS_Subset
<1>3. AtMost(b, x) \in Nat /\ Size(b) \in Nat /\ AtMost(b, x) <= Size(b)
  <2>1. Below(x) \subseteq DOMAIN b
    OBVIOUS
  <2> QED
    BY <1>1, <2>1, SumInside, SizeIs DEF AtMost
<1>4. ASSUME NEW y \in Int, x <= y PROVE AtMost(b, x) <= AtMost(b, y)
  <2>1. Below(x) \subseteq Below(y)
    BY <1>1, <1>4
  <2>2. \A z \in Below(y) : b[z] \in Nat
    BY <1>1
  <2> QED
    BY <1>2, <2>1, <2>2, SumInside DEF AtMost
<1>5. ASSUME \A y \in DOMAIN b : y <= x PROVE AtMost(b, x) = Size(b)
  <2>1. Below(x) = DOMAIN b
    BY <1>5
  <2> QED
    BY <2>1, SizeIs DEF AtMost
<1> QED
  BY <1>3, <1>4, <1>5

\* The element of rank k, and who is not below it.
LEMMA RankIs ==
  ASSUME NEW b, BagOk(b), NEW k \in Nat, 1 <= k, k <= Size(b)
  PROVE  /\ Min(Reach(b, k)) \in DOMAIN b /\ Min(Reach(b, k)) \in Nat
         /\ \A x \in Int : AtMost(b, x) >= k <=> Min(Reach(b, k)) <= x
<1>1. DOMAIN b \subseteq Nat /\ IsFiniteSet(DOMAIN b) /\ DOMAIN b \subseteq Int
      /\ \A y \in DOMAIN b : b[y] \in Nat
  BY DEF BagOk
<1>2. DOMAIN b # {}
  <2> SUFFICES ASSUME DOMAIN b = {} PROVE FALSE
    OBVIOUS
  <2>1. Size(b) = 0
    BY <1>1, SizeIs, SumZero
  <2> QED
    BY <2>1
<1>3. PICK R : R = Reach(b, k)
  OBVIOUS
<1>4. \A x : x \in R <=> x \in DOMAIN b /\ AtMost(b, x) >= k
  BY <1>3 DEF Reach
<1>5. IsFiniteSet(R) /\ R \subseteq Int /\ R \subseteq DOMAIN b
  BY <1>1, <1>4, FS_Subset
<1>6. R # {}
  <2>1. PICK M \in DOMAIN b : \A y \in DOMAIN b : y <= M
    BY <1>1, <1>2, Extremes
  <2>2. M \in Int
    BY <1>1
  <2>3. AtMost(b, M) = Size(b) /\ Size(b) \in Nat
    BY <2>1, <2>2, AtMostIs
  <2>4. M \in R
    BY <1>4, <2>3
  <2> QED
    BY <2>4
<1>7. PICK r : r = Min(R)
  OBVIOUS
<1>8. r \in R /\ \A y \in R : r <= y
  BY <1>5, <1>6, <1>7, Extremes
<1>9. r \in DOMAIN b /\ r \in Nat /\ AtMost(b, r) >= k
  BY <1>1, <1>4, <1>8
<1>10. ASSUME NEW x \in Int, r <= x PROVE AtMost(b, x) >= k
  <2>1. AtMost(b, r) <= AtMost(b, x) /\ AtMost(b, r) \in Nat /\ AtMost(b, x) \in Nat
    BY <1>9, <1>10, AtMostIs
  <2> QED
    BY <1>9, <2>1
<1>11. ASSUME NEW x \in Int, AtMost(b, x) >= k PROVE r <= x
  <2> SUFFICES ASSUME x < r PROVE FALSE
    BY <1>9
  <2>1. PICK B : B = {y \in DOMAIN b : y <= x}
    OBVIOUS
  <2>2. IsFiniteSet(B) /\ B \subseteq Int
    BY <1>1, <2>1, FS_Subset
  <2>3. B # {}
    <3> SUFFICES ASSUME B = {} PROVE FALSE
      OBVIOUS
    <3>1. SumFunctionOnSet(b, B) = 0
      BY <2>2, SumZero
    <3>2. AtMost(b, x) = 0
      BY <2>1, <3>1 DEF AtMost
    <3> QED
      BY <1>11, <3>2
  <2>4. PICK z \in B : \A y \in B : y <= z
    BY <2>2, <2>3, Extremes
  <2>5. z \in DOMAIN b /\ z <= x /\ z \in Nat
    BY <1>1, <2>1, <2>4
  <2>6. {y \in DOMAIN b : y <= z} = B
    <3>1. ASSUME NEW y \in DOMAIN b, y <= z PROVE y <= x
      BY <1>1, <2>5, <3>1
    <3> QED
      BY <2>1, <2>4, <3>1
  <2>7. AtMost(b, z) = AtMost(b, x)
    BY <2>1, <2>6 DEF AtMost
  <2>8. z \in R
    BY <1>4, <1>11, <2>5, <2>7
  <2> QED
    BY <1>8, <1>9, <2>5, <2>8
<1> QED
  BY <1>3, <1>7, <1>9, <1>10, <1>11

\* Ceilings and floors of a share in thousandths.
Share(n, q, k) ==
  /\ k \in Nat /\ 1 <= k /\ k <= n
  /\ \A a \in Nat : a * 1000 >= n * q <=> a >= k
  /\ (n * q) \div 1000 \in {k - 1, k}
  /\ ((n - 1) * q) \div 1000 \in {k - 2, k - 1} /\ ((n - 1) * q) \div 1000 \in Nat

LEMMA ShareIs == ASSUME NEW n \in Nat, n >= 1, NEW q \in 1..1000 PROVE Share(n, q, CeilShare(n, q))
<1>1. n * q \in Nat /\ n * q >= 1 /\ n * q <= 1000 * n
  <2>1. PICK p \in Nat : q = 1 + p
    <3>1. q - 1 \in Nat /\ q = 1 + (q - 1)
      OBVIOUS
    <3> QED
      BY <3>1
  <2>2. n * q = n + n * p /\ n * p \in Nat
    BY <2>1
  <2>3. PICK s \in Nat : 1000 = q + s
    <3>1. 1000 - q \in Nat /\ 1000 = q + (1000 - q)
      OBVIOUS
    <3> QED
      BY <3>1
  <2>4. n * (q + s) = n * q + n * s /\ n * s \in Nat
    BY <2>3
  <2>5. n * 1000 = n * q + n * s
    BY <2>3, <2>4
  <2> QED
    BY <2>2, <2>4, <2>5
<1>2. PICK N \in Nat : N = n * q /\ N >= 1 /\ N <= 1000 * n
  BY <1>1
<1>3. PICK k \in Int : k = (N + 999) \div 1000 /\ k = CeilShare(n, q)
  BY <1>2 DEF CeilShare
<1>4. k \in Nat /\ 1 <= k /\ k <= n /\ 1000 * k >= N /\ 1000 * (k - 1) < N
  BY <1>2, <1>3
<1>5. \A a \in Nat : a * 1000 >= N <=> a >= k
  BY <1>4
<1>6. N \div 1000 \in {k - 1, k}
  BY <1>4
<1>7. PICK M \in Nat : M = (n - 1) * q /\ M = N - q
  <2>1. PICK m \in Nat : n = m + 1 /\ m = n - 1
    OBVIOUS
  <2>2. (m + 1) * q = m * q + q /\ m * q \in Nat
    BY <2>1
  <2> QED
    BY <1>2, <2>1, <2>2
<1>8. M \div 1000 \in {k - 2, k - 1} /\ M \div 1000 \in Nat
  BY <1>2, <1>4, <1>7
<1> QED
  BY <1>2, <1>3, <1>4, <1>5, <1>6, <1>7, <1>8 DEF Share

\* What the run's histogram holds when every worker's is in.
LEMMA AllIs ==
  ASSUME HistInv, histPc = "done"
  PROVE  \A c \in Int : Fig(all, c) = In(timed, Goes(c))
BY Zenon DEF HistInv, HistTypes, HistCounts, MergeCounts

LEMMA TotalsAre ==
  ASSUME HistInv, histPc = "done"
  PROVE  /\ all.count = Size(timed)
         /\ all.past = Size(timed) - AtMost(timed, Scale[Decades] - 1)
<1>1. BagOk(timed) /\ DOMAIN timed \subseteq Nat /\ IsFiniteSet(DOMAIN timed)
      /\ \A v \in DOMAIN timed : timed[v] \in Int
  BY DEF HistInv, HistTypes, BagOk
<1>2. all.count = Size(timed)
  <2>1. Fig(all, -1) = In(timed, Goes(-1))
    BY AllIs
  <2>2. DOMAIN timed \cap Goes(-1) = DOMAIN timed
    BY <1>1 DEF Goes
  <2> QED
    BY <2>1, <2>2, SizeIs DEF Fig, In
<1>3. PICK s \in Nat : s = Scale[Decades]
  BY ScaleIs, QuantilesAssumption
<1>4. PICK A, B : A = {v \in DOMAIN timed : v <= s - 1} /\ B = DOMAIN timed \cap Goes(-2)
  OBVIOUS
<1>5. A \cup B = DOMAIN timed /\ A \cap B = {}
  <2>1. \A v \in DOMAIN timed : v \in B <=> v >= s
    BY <1>1, <1>3, <1>4 DEF Goes, Beyond
  <2>2. A \subseteq DOMAIN timed /\ B \subseteq DOMAIN timed
    BY <1>4
  <2>3. \A v \in DOMAIN timed : v \in A <=> ~(v >= s)
    BY <1>1, <1>4
  <2> QED
    BY <2>1, <2>2, <2>3
<1>6. SumFunctionOnSet(timed, A \cup B) = SumFunctionOnSet(timed, A) + SumFunctionOnSet(timed, B)
  <2>1. IsFiniteSet(A) /\ IsFiniteSet(B)
    BY <1>1, <1>4, FS_Subset
  <2> QED
    BY <1>1, <1>5, <2>1, SumUnion
<1>7. all.past = SumFunctionOnSet(timed, B)
  <2>1. Fig(all, -2) = In(timed, Goes(-2))
    BY AllIs
  <2> QED
    BY <1>4, <2>1 DEF Fig, In
<1>8. SumFunctionOnSet(timed, A) = AtMost(timed, s - 1) /\ SumFunctionOnSet(timed, A \cup B) = Size(timed)
  BY <1>4, <1>5, SizeIs DEF AtMost
<1>9. AtMost(timed, s - 1) \in Nat /\ Size(timed) \in Nat
  BY <1>1, AtMostIs
<1>10. all.past \in Nat
  BY DEF HistInv, HistTypes, HistOk
<1>11. Size(timed) = AtMost(timed, s - 1) + all.past
  BY <1>6, <1>7, <1>8
<1> QED
  BY <1>2, <1>3, <1>9, <1>10, <1>11

LEMMA ExtremesAre ==
  ASSUME HistInv, histPc = "done", Size(timed) > 0
  PROVE  /\ all.max = Max(DOMAIN timed) /\ all.min = Min(DOMAIN timed)
         /\ \A v \in DOMAIN timed : v <= all.max
<1>1. PICK D : D = DOMAIN timed /\ D \subseteq Nat /\ IsFiniteSet(D) /\ D \subseteq Int
  BY DEF HistInv, HistTypes, BagOk
<1>2. all.count > 0
  BY TotalsAre
<1>3. all.min \in D /\ all.max \in D
  BY <1>1, <1>2 DEF HistInv, HistTypes, HistOk
<1>4. ASSUME NEW v \in D PROVE all.min <= v /\ v <= all.max
  <2>1. PICK w \in HistWorkers : hist[w].count > 0 /\ hist[w].min <= v /\ v <= hist[w].max
    BY <1>1 DEF HistInv, HistCounts
  <2>2. all.min <= hist[w].min /\ hist[w].max <= all.max
    BY <2>1 DEF HistInv, HistTypes, MergeCounts
  <2>3. hist[w].min \in D /\ hist[w].max \in D
    BY <1>1, <2>1 DEF HistInv, HistTypes, HistOk
  <2> QED
    BY <1>1, <1>3, <2>1, <2>2, <2>3
<1>5. /\ Max(D) \in D /\ \A y \in D : y <= Max(D)
      /\ Min(D) \in D /\ \A y \in D : Min(D) <= y
  BY <1>1, <1>3, Extremes
<1>6. all.max <= Max(D) /\ Max(D) <= all.max /\ all.min <= Min(D) /\ Min(D) <= all.min
  BY <1>3, <1>4, <1>5
<1>7. all.max = Max(D) /\ all.min = Min(D)
  BY <1>1, <1>3, <1>5, <1>6
<1> QED
  BY <1>1, <1>4, <1>7

\* The buckets up to x hold the durations whose bucket is not above x.
LEMMA BucketsHold ==
  ASSUME HistInv, histPc = "done", NEW x \in Int
  PROVE  /\ AtMost(all.buckets, x)
              = SumFunctionOnSet(timed, {v \in DOMAIN timed : ~Beyond(v) /\ Index(v) <= x})
         /\ \A v \in DOMAIN timed : ~Beyond(v) => Index(v) \in DOMAIN all.buckets
<1>1. BagOk(timed) /\ DOMAIN timed \subseteq Nat /\ IsFiniteSet(DOMAIN timed)
      /\ \A v \in DOMAIN timed : timed[v] \in Nat \ {0}
  BY DEF HistInv, HistTypes, BagOk
<1>2. PICK B : B = all.buckets
  OBVIOUS
<1>3. BagOk(B) /\ DOMAIN B \subseteq Nat /\ IsFiniteSet(DOMAIN B)
  BY <1>2 DEF HistInv, HistTypes, HistOk, BagOk
<1>4. \A v \in DOMAIN timed : ~Beyond(v) => Index(v) \in Nat
  BY <1>1, IndexGrows
<1>5. \A c \in Nat : At(B, c) = In(timed, Goes(c))
  <2> SUFFICES ASSUME NEW c \in Nat PROVE At(B, c) = In(timed, Goes(c))
    OBVIOUS
  <2>1. c \in Int /\ c # -1 /\ c # -2
    OBVIOUS
  <2> QED
    BY <1>2, <2>1, AllIs DEF Fig
<1>6. ASSUME NEW v \in DOMAIN timed, ~Beyond(v) PROVE Index(v) \in DOMAIN B
  <2>1. PICK c \in Nat : c = Index(v)
    BY <1>4, <1>6
  <2>2. v \in DOMAIN timed \cap Goes(c)
    BY <1>1, <1>6, <2>1 DEF Goes
  <2>3. IsFiniteSet(DOMAIN timed \cap Goes(c)) /\ \A y \in DOMAIN timed \cap Goes(c) : timed[y] \in Nat
    BY <1>1, InNat
  <2>4. timed[v] <= In(timed, Goes(c)) /\ In(timed, Goes(c)) \in Nat
    BY <1>1, <2>2, <2>3, SumHas, InNat DEF In
  <2>5. At(B, c) # 0
    BY <1>1, <1>5, <2>4
  <2> QED
    BY <2>1, <2>5 DEF At
<1>7. PICK W, S : /\ W = {v \in DOMAIN timed : ~Beyond(v) /\ Index(v) <= x}
                  /\ S = {c \in DOMAIN B : c <= x}
  OBVIOUS
<1>8. IsFiniteSet(W) /\ IsFiniteSet(S) /\ S \subseteq Nat
  BY <1>1, <1>3, <1>7, FS_Subset
<1>9. PICK i : i = [v \in W |-> Index(v)]
  OBVIOUS
<1>10. \A v \in W : timed[v] \in Int /\ i[v] \in S /\ i[v] = Index(v)
  BY <1>1, <1>6, <1>7, <1>9
<1>11. ASSUME NEW s \in S PROVE B[s] = SumFunctionOnSet(timed, {v \in W : i[v] = s})
  <2>1. s \in Nat /\ s <= x /\ s \in DOMAIN B
    BY <1>7, <1>8
  <2>2. B[s] = In(timed, Goes(s))
    BY <1>5, <2>1 DEF At
  <2>3. DOMAIN timed \cap Goes(s) = {v \in W : i[v] = s}
    <3>1. \A v \in DOMAIN timed : v \in Goes(s) <=> ~Beyond(v) /\ Index(v) = s
      BY <1>1, <2>1 DEF Goes
    <3>2. \A v : v \in W <=> v \in DOMAIN timed /\ ~Beyond(v) /\ Index(v) <= x
      BY <1>7
    <3> QED
      BY <1>10, <2>1, <3>1, <3>2
  <2> QED
    BY <2>2, <2>3 DEF In
<1>12. SumFunctionOnSet(timed, W) = SumFunctionOnSet(B, S)
  <2>1. Groups(W, S, timed, i, B)
    BY <1>10, <1>11, Zenon DEF Groups
  <2> QED
    BY <1>8, <2>1, SumGroups
<1> QED
  BY <1>2, <1>6, <1>7, <1>12 DEF AtMost

\* Hist.Quantile: the rank falls into the bucket of the nearest rank, or past
\* every bucket.
LEMMA HistReads ==
  ASSUME HistInv, histPc = "done", NEW k \in Nat, 1 <= k, k <= Size(timed),
         NEW r, r = Min(Reach(timed, k))
  PROVE  /\ Beyond(r) => Reach(all.buckets, k) = {}
         /\ ~Beyond(r) => Reach(all.buckets, k) # {} /\ Min(Reach(all.buckets, k)) = Index(r)
<1>1. BagOk(timed) /\ DOMAIN timed \subseteq Nat /\ \A v \in DOMAIN timed : timed[v] \in Nat
  BY DEF HistInv, HistTypes, BagOk
<1>2. r \in DOMAIN timed /\ r \in Nat /\ \A x \in Int : AtMost(timed, x) >= k <=> r <= x
  BY <1>1, RankIs
<1>3. PICK B : B = all.buckets
  OBVIOUS
<1>4. BagOk(B) /\ DOMAIN B \subseteq Nat /\ IsFiniteSet(DOMAIN B)
  BY <1>3 DEF HistInv, HistTypes, HistOk, BagOk
<1>5. PICK R : R = Reach(B, k)
  OBVIOUS
<1>6. \A x : x \in R <=> x \in DOMAIN B /\ AtMost(B, x) >= k
  BY <1>5 DEF Reach
<1>7. \A x \in Int : IsFiniteSet({y \in DOMAIN timed : y <= x})
  BY <1>1, FS_Subset DEF BagOk
<1>8. PICK s \in Nat : s = Scale[Decades]
  BY ScaleIs, QuantilesAssumption
<1>9. ASSUME NEW x \in R PROVE ~Beyond(r) /\ Index(r) <= x
  <2> SUFFICES ASSUME ~(~Beyond(r) /\ Index(r) <= x) PROVE FALSE
    OBVIOUS
  <2>1. x \in Nat /\ x \in Int /\ AtMost(B, x) >= k
    BY <1>4, <1>6
  <2>2. PICK U, V : /\ U = {v \in DOMAIN timed : ~Beyond(v) /\ Index(v) <= x}
                    /\ V = {v \in DOMAIN timed : v <= r - 1}
    OBVIOUS
  <2>3. ASSUME NEW v \in U PROVE v <= r - 1
    <3>1. v \in Nat /\ ~Beyond(v) /\ Index(v) <= x
      BY <1>1, <2>2
    <3> SUFFICES ASSUME r <= v PROVE FALSE
      BY <1>2, <3>1
    <3>2. ~Beyond(r)
      BY <1>2, <1>8, <3>1 DEF Beyond
    <3>3. Index(r) <= Index(v) /\ Index(r) \in Nat /\ Index(v) \in Nat
      BY <1>2, <3>1, <3>2, IndexGrows
    <3> QED
      BY <2>1, <3>1, <3>2, <3>3
  <2>4. U \subseteq V
    BY <2>2, <2>3
  <2>5. r - 1 \in Int /\ IsFiniteSet(V) /\ \A v \in V : timed[v] \in Nat
    BY <1>1, <1>2, <1>7, <2>2
  <2>6. SumFunctionOnSet(timed, U) <= SumFunctionOnSet(timed, V)
        /\ SumFunctionOnSet(timed, U) \in Nat /\ SumFunctionOnSet(timed, V) \in Nat
    BY <2>4, <2>5, SumInside
  <2>7. AtMost(B, x) = SumFunctionOnSet(timed, U)
    BY <1>3, <2>1, <2>2, BucketsHold
  <2>8. AtMost(timed, r - 1) = SumFunctionOnSet(timed, V)
    BY <2>2 DEF AtMost
  <2>9. AtMost(timed, r - 1) >= k
    BY <2>1, <2>6, <2>7, <2>8
  <2> QED
    BY <1>2, <2>5, <2>9
<1>10. ASSUME ~Beyond(r) PROVE R # {} /\ Min(R) = Index(r)
  <2>1. PICK i \in Nat : i = Index(r)
    BY <1>2, <1>10, IndexGrows
  <2>2. PICK U, V : /\ U = {v \in DOMAIN timed : ~Beyond(v) /\ Index(v) <= i}
                    /\ V = {v \in DOMAIN timed : v <= r}
    OBVIOUS
  <2>3. ASSUME NEW v \in V PROVE v \in U
    <3>1. v \in Nat /\ v \in DOMAIN timed /\ v <= r
      BY <1>1, <2>2
    <3>2. ~Beyond(v)
      BY <1>2, <1>8, <1>10, <3>1 DEF Beyond
    <3>3. Index(v) <= Index(r)
      BY <1>2, <1>10, <3>1, <3>2, IndexGrows
    <3> QED
      BY <2>1, <2>2, <3>1, <3>2, <3>3
  <2>4. IsFiniteSet(U) /\ \A v \in U : timed[v] \in Nat
    BY <1>1, <2>2, FS_Subset DEF BagOk
  <2>5. SumFunctionOnSet(timed, V) <= SumFunctionOnSet(timed, U)
        /\ SumFunctionOnSet(timed, U) \in Nat /\ SumFunctionOnSet(timed, V) \in Nat
    BY <2>3, <2>4, SumInside
  <2>6. /\ AtMost(B, i) = SumFunctionOnSet(timed, U) /\ i \in DOMAIN B
    <3>1. i \in Int
      OBVIOUS
    <3>2. AtMost(all.buckets, i)
            = SumFunctionOnSet(timed, {v \in DOMAIN timed : ~Beyond(v) /\ Index(v) <= i})
      BY <3>1, BucketsHold, Zenon
    <3>3. Index(r) \in DOMAIN all.buckets
      BY <1>2, <1>10, <3>1, BucketsHold, Zenon
    <3> QED
      BY <1>3, <2>1, <2>2, <3>2, <3>3, Zenon
  <2>7. AtMost(timed, r) = SumFunctionOnSet(timed, V) /\ AtMost(timed, r) >= k
    BY <1>2, <2>2 DEF AtMost
  <2>8. i \in R
    BY <1>6, <2>5, <2>6, <2>7
  <2>9. IsFiniteSet(R) /\ R \subseteq Int /\ R # {}
    BY <1>4, <1>6, <2>8, FS_Subset
  <2>10. Min(R) \in R /\ Min(R) <= i
    BY <2>8, <2>9, Extremes
  <2>11. i <= Min(R)
    BY <1>9, <2>1, <2>10
  <2> QED
    <3>1. PICK m \in Int : m = Min(R) /\ m <= i /\ i <= m
      BY <2>9, <2>10, <2>11
    <3> QED
      BY <2>1, <2>9, <3>1
<1> QED
  BY <1>3, <1>5, <1>9, <1>10

\* Every reader of a percentile, from the counts to the answer.
LEMMA ReadersAgree == HistInv => PercentilesNearRank
<1> SUFFICES ASSUME HistInv, histPc = "done", Size(timed) > 0 PROVE PercentilesNearRank
  BY DEF PercentilesNearRank
<1>1. BagOk(timed) /\ DOMAIN timed \subseteq Nat
  BY DEF HistInv, HistTypes, BagOk
<1>2. PICK n \in Nat : n = Size(timed) /\ n >= 1
  <2>1. Size(timed) \in Nat
    BY <1>1, AtMostIs
  <2> QED
    BY <2>1
<1>3. PICK F : F = Max(Finite) /\ F \in Nat
  <2>1. IsFiniteSet(Finite) /\ Finite \subseteq Int /\ Finite # {} /\ Finite \subseteq Nat
    BY QuantilesAssumption
  <2> QED
    BY <2>1, Extremes
<1>4. ASSUME NEW q \in Asked
      PROVE  LET r == NearestRank(q)
                 k == CeilShare(n, q)
             IN  /\ HistQuantile(all, q) >= r
                 /\ IF Beyond(r) THEN HistQuantile(all, q) = all.max
                    ELSE HistQuantile(all, q) * 100 <= Max({r, 1}) * 101
                 /\ Pick(timed, q) \in {r, Min(Reach(timed, Min({n, k + 1})))}
                 /\ QuantileOfCycles(timed, q) \in {r, Min(Reach(timed, Max({1, k - 1})))}
                 /\ Pctl(timed, q) = r
                 /\ Max(DOMAIN timed) <= Max(Finite) =>
                      NodeQuantile(timed, q) = {Min({le \in Finite : le >= r})}
  <2>1. q \in 1..1000
    BY QuantilesAssumption
  <2>2. PICK k : k = CeilShare(n, q)
    OBVIOUS
  <2>3. /\ k \in Nat /\ 1 <= k /\ k <= n
        /\ \A a \in Nat : a * 1000 >= n * q <=> a >= k
        /\ (n * q) \div 1000 \in {k - 1, k}
        /\ ((n - 1) * q) \div 1000 \in {k - 2, k - 1} /\ ((n - 1) * q) \div 1000 \in Nat
    <3>1. Share(n, q, k)
      BY <1>2, <2>1, <2>2, ShareIs
    <3> QED
      BY <3>1, Zenon DEF Share
  <2>4. PICK r : r = NearestRank(q) /\ r = Min(Reach(timed, k))
    BY <1>2, <2>2 DEF NearestRank
  <2>5. r \in DOMAIN timed /\ r \in Nat /\ \A x \in Int : AtMost(timed, x) >= k <=> r <= x
    BY <1>1, <1>2, <2>3, <2>4, RankIs
  <2>6. /\ HistQuantile(all, q) >= r
        /\ IF Beyond(r) THEN HistQuantile(all, q) = all.max
           ELSE HistQuantile(all, q) * 100 <= Max({r, 1}) * 101
    <3>1. all.count = n /\ r <= all.max /\ all.max \in Nat
      BY <1>2, <2>5, TotalsAre, ExtremesAre DEF HistInv, HistTypes, HistOk
    <3>2. Max({1, k}) = k
      BY <2>3, TwoExtremes
    <3>3. PICK R : R = Reach(all.buckets, k)
      OBVIOUS
    <3>4. HistQuantile(all, q) = IF R = {} THEN all.max ELSE UpperOf(Min(R))
      BY <2>2, <3>1, <3>2, <3>3, Zenon DEF HistQuantile
    <3>5. (Beyond(r) => R = {}) /\ (~Beyond(r) => R # {} /\ Min(R) = Index(r))
      BY <1>2, <2>3, <2>4, <3>3, HistReads
    <3>6. CASE Beyond(r)
      BY <2>5, <3>1, <3>4, <3>5, <3>6
    <3>7. CASE ~Beyond(r)
      <4>1. HistQuantile(all, q) = UpperOf(Index(r))
        BY <3>4, <3>5, <3>7
      <4>2. PICK u \in Nat : u = UpperOf(Index(r)) /\ r <= u /\ u * 100 <= (IF r >= 1 THEN r ELSE 1) * 101
        BY <2>5, <3>7, UpperIs
      <4>3. Max({r, 1}) = IF r >= 1 THEN r ELSE 1
        BY <2>5, TwoExtremes
      <4> QED
        BY <2>5, <3>7, <4>1, <4>2, <4>3
    <3> QED
      BY <3>6, <3>7
  <2>7. Pick(timed, q) \in {r, Min(Reach(timed, Min({n, CeilShare(n, q) + 1})))}
    <3>1. PICK f \in Int : f = (n * q) \div 1000 /\ f \in {k - 1, k}
      BY <2>3
    <3>2. Min({f, n - 1}) = (IF f <= n - 1 THEN f ELSE n - 1) /\ Min({n, k + 1}) = IF n <= k + 1 THEN n ELSE k + 1
      <4>1. n \in Int /\ n - 1 \in Int /\ k + 1 \in Int
        BY <2>3
      <4>2. Min({f, n - 1}) = IF f <= n - 1 THEN f ELSE n - 1
        BY <4>1, TwoExtremes
      <4>3. Min({n, k + 1}) = IF n <= k + 1 THEN n ELSE k + 1
        BY <4>1, TwoExtremes
      <4> QED
        BY <4>2, <4>3
    <3>3. Min({f, n - 1}) + 1 \in {k, Min({n, k + 1})}
      BY <1>2, <2>3, <3>1, <3>2
    <3>4. Pick(timed, q) = Min(Reach(timed, Min({f, n - 1}) + 1))
      <4> DEFINE Ranked(x, y) == Min(Reach(timed, Min({x, y}) + 1))
      <4>1. Pick(timed, q) = Ranked((Size(timed) * q) \div 1000, Size(timed) - 1)
        BY Zenon DEF Pick
      <4> HIDE DEF Ranked
      <4>2. Pick(timed, q) = Ranked((n * q) \div 1000, n - 1)
        BY <1>2, <4>1, Zenon
      <4>3. Pick(timed, q) = Ranked(f, n - 1)
        BY <3>1, <4>2, Zenon
      <4> QED
        BY <4>3, Zenon DEF Ranked
    <3> QED
      BY <2>2, <2>4, <3>3, <3>4
  <2>8. ASSUME Max(DOMAIN timed) <= F
        PROVE  NodeQuantile(timed, q) = {Min({le \in Finite : le >= r})}
    <3>1. AtMost(timed, F) = n
      <4>1. \A v \in DOMAIN timed : v <= all.max /\ all.max = Max(DOMAIN timed) /\ all.max \in Nat
        BY ExtremesAre DEF HistInv, HistTypes, HistOk
      <4>2. \A v \in DOMAIN timed : v <= F
        BY <1>1, <1>3, <2>8, <4>1
      <4> QED
        BY <1>1, <1>2, <1>3, <4>2, AtMostIs
    <3>2. \A le \in Finite : AtMost(timed, le) * 1000 >= n * q <=> le >= r
      <4> SUFFICES ASSUME NEW le \in Finite PROVE AtMost(timed, le) * 1000 >= n * q <=> le >= r
        OBVIOUS
      <4>1. le \in Nat /\ le \in Int
        BY QuantilesAssumption
      <4>2. AtMost(timed, le) \in Nat
        BY <1>1, <4>1, AtMostIs
      <4>3. AtMost(timed, le) * 1000 >= n * q <=> AtMost(timed, le) >= k
        BY <2>3, <4>2
      <4> QED
        BY <2>5, <4>1, <4>3
    <3>3. {le \in Finite : AtMost(timed, le) * 1000 >= n * q} = {le \in Finite : le >= r}
      BY <3>2
    <3>4. n # 0
      BY <1>2
    <3>5. NodeQuantile(timed, q) = {Min({le \in Finite : AtMost(timed, le) * 1000 >= n * q})}
      BY <1>3, <3>1, <3>4, Zenon DEF NodeQuantile
    <3> QED
      BY <3>3, <3>5
  <2>9. QuantileOfCycles(timed, q) \in {r, Min(Reach(timed, Max({1, k - 1})))}
    <3>1. PICK f \in Nat : f = ((n - 1) * q) \div 1000 /\ f \in {k - 2, k - 1}
      BY <2>3
    <3>2. Max({1, k - 1}) = IF 1 >= k - 1 THEN 1 ELSE k - 1
      BY <2>3, TwoExtremes
    <3>3. f + 1 \in {k, Max({1, k - 1})}
      BY <2>3, <3>1, <3>2
    <3>4. QuantileOfCycles(timed, q) = Min(Reach(timed, f + 1))
      <4> DEFINE Ranked(x) == Min(Reach(timed, x + 1))
      <4>1. QuantileOfCycles(timed, q) = Ranked(((Size(timed) - 1) * q) \div 1000)
        BY Zenon DEF QuantileOfCycles
      <4> HIDE DEF Ranked
      <4>2. QuantileOfCycles(timed, q) = Ranked(f)
        BY <1>2, <3>1, <4>1, Zenon
      <4> QED
        BY <4>2, Zenon DEF Ranked
    <3> QED
      BY <2>4, <3>3, <3>4
  <2>10. Pctl(timed, q) = r
    <3>1. Max({1, k}) = k /\ Min({n, k}) = k
      <4>1. n \in Int /\ k \in Int
        BY <1>2, <2>3
      <4>2. Max({1, k}) = k
        BY <2>3, <4>1, TwoExtremes
      <4>3. Min({n, k}) = k
        BY <2>3, <4>1, TwoExtremes
      <4> QED
        BY <4>2, <4>3
    <3>2. Pctl(timed, q) = Min(Reach(timed, Min({n, Max({1, k})})))
      BY <1>2, <2>2, Zenon DEF Pctl
    <3> QED
      BY <2>4, <3>1, <3>2, Zenon
  <2> QED
    BY <1>3, <2>2, <2>4, <2>6, <2>7, <2>8, <2>9, <2>10
<1>5. all.count = n /\ all.max = Max(DOMAIN timed) /\ all.min = Min(DOMAIN timed)
      /\ all.past = n - AtMost(timed, Scale[Decades] - 1)
  BY <1>2, TotalsAre, ExtremesAre
<1> QED
  BY <1>2, <1>4, <1>5, Zenon DEF PercentilesNearRank

\* However the durations were spread over the workers and in whatever order
\* their histograms were merged, counts and extremes are exact, and every
\* reader of a percentile answers within one rank of the nearest, attach's
\* alone below it (PercentilesNearRank), for any number of workers, durations,
\* decades, quantiles and bounds (sockets/hist.go, latency/latency.go,
\* fleet/metrics.go, probe/probe.go, cmd/zoubench/attach.go).
THEOREM PercentilesCorrect == Spec => []PercentilesNearRank
BY HistSound, ReadersAgree, PTL
=============================================================================

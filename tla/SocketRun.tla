----------------------------- MODULE SocketRun -----------------------------
(***************************************************************************)
(* A whole socket run (sockets/sockets.go: Run, read, tally; writer.go:    *)
(* push, pump): the ramp of SocketRamp, a warmup and a measured window in  *)
(* which the writers commit rows, the frames the node sends for them, the  *)
(* drain, the tally of the collectors one after another, and what the      *)
(* command then does with the numbers (cmd/zoubench/sockets.go).           *)
(*                                                                         *)
(* External, modelled from how the code uses them: the database, which     *)
(* commits a statement and whose answer may be lost, and the node under    *)
(* test, which owes every connected socket of a shard one frame per row    *)
(* and may drop it or deliver it at any later time.                        *)
(*                                                                         *)
(* Time is a counter of clock readings.  It is allowed to advance while    *)
(* something waits for it and a little beyond, which is enough for stamps  *)
(* before, at both edges of, and after the window.                         *)
(***************************************************************************)
EXTENDS SocketRamp, Functions

CONSTANTS
  Writers,            \* Options.Writers
  Rows,               \* Options.Rows, rows a second over all writers
  Batch,              \* Options.Batch
  Cols,               \* the collectors (64 in the code)
  Warmup, Duration, Drain,  \* the three spans
  MaxStatements,      \* bound on the statements a run sends
  MaxRefused,         \* bound on the sockets refused
  MaxLost,            \* bound on the connections that fail
  InsertErrors,       \* whether statements may fail
  Interrupts          \* whether the run may be interrupted

ASSUME RunAssumption ==
  /\ Writers \in Nat \ {0} /\ Rows \in Nat /\ Batch \in Nat \ {0}
  /\ Cols \in Nat \ {0}
  /\ Warmup \in Nat /\ Duration \in Nat \ {0} /\ Drain \in Nat \ {0}
  /\ MaxStatements \in Nat /\ MaxRefused \in Nat /\ MaxLost \in Nat
  /\ InsertErrors \in BOOLEAN /\ Interrupts \in BOOLEAN

VARIABLES
  phase,      \* where Run is
  now,        \* the process's clock
  deadline,   \* when the current span ends
  from, to,   \* run.from, run.to; from = 0 is no window
  heldSeen,   \* result.Held
  shards,     \* how many shards are written to: shardsHeld is 0 .. shards-1
  lostSeen,   \* result.Lost
  failed,     \* Run returned an error
  writer,     \* each writer's goroutine, its cursor, stamp and connection
  sends,      \* statements sent so far
  perShard,   \* writer.shard: rows counted as committed, by shard
  col,        \* the collectors
  tally,      \* what tally has merged so far, and how many collectors that is
  rows,       \* external: the rows the database has committed
  frames,     \* external: frames the node still owes or has on the wire
  dropped,    \* history: frames the node dropped
  counted,    \* history: frames a collector has counted as deliveries
  merged,     \* history: the counted frames that tally has merged
  owed,       \* history: the rows perShard counts
  unacked     \* history: rows committed whose answer was lost

clockVars  == <<now, deadline>>
windowVars == <<from, to>>
resultVars == <<heldSeen, shards, lostSeen, failed>>
writerVars == <<writer, sends, perShard, owed, unacked>>
sheetVars  == <<col, tally, counted, merged>>
netVars    == <<rows, frames, dropped>>
runVars    == <<phase, clockVars, windowVars, resultVars>>
vars       == <<rampVars, runVars, writerVars, sheetVars, netVars>>

Ws == 0..(Writers - 1)
ShardIds == 0..(Shards - 1)
ColIds == 0..(Cols - 1)
ZeroShards == [s \in ShardIds |-> 0]
EmptySheet == [hist |-> 0, stray |-> 0, shards |-> ZeroShards]

Init ==
  /\ RampInit
  /\ phase = "ramp" /\ now = 1 /\ deadline = 0 /\ from = 0 /\ to = 0
  /\ heldSeen = 0 /\ shards = 0 /\ lostSeen = 0 /\ failed = FALSE
  /\ writer = [w \in Ws |-> [pc |-> "done", next |-> 0, stamp |-> 0, batch |-> {}, conn |-> "open"]]
  /\ sends = 0 /\ perShard = ZeroShards /\ owed = {} /\ unacked = {}
  /\ col = [c \in ColIds |-> EmptySheet]
  /\ tally = [sheet |-> EmptySheet, cols |-> 0]
  /\ counted = {} /\ merged = {}
  /\ rows = {} /\ frames = {} /\ dropped = {}

\* Mutant of SocketsOn: the remainder reaches one shard too far.
SocketsOnInclusive(s, n) == n \div Shards + (IF s <= n % Shards THEN 1 ELSE 0)

\* The quota of a shard: how many of n sockets are on it.
SocketsOn(s, n) == n \div Shards + (IF s < n % Shards THEN 1 ELSE 0)

\* Each writer's share of the rate, and the rows of one of its statements.
Share(w) == Rows \div Writers + (IF w < Rows % Writers THEN 1 ELSE 0)
BatchOf(w) == IF Batch > Share(w) THEN Share(w) ELSE Batch

\* Mutant of InWindow: no window is mistaken for an open one.
InWindowUnset(stamp) == from <= stamp /\ (to = 0 \/ stamp <= to)

InWindow(stamp) == from # 0 /\ from <= stamp /\ stamp <= to

-----------------------------------------------------------------------------
(* Run, from the ramp's return to the result.                              *)

Close == /\ stopped' = TRUE
         /\ UNCHANGED <<sock, nextId, offering, ramp, held, lost, noted, cancelled>>

\* close, and an error to the caller.
Fail ==
  /\ Close
  /\ failed' = TRUE /\ phase' = "returned"
  /\ UNCHANGED <<shards, lostSeen, clockVars, windowVars>>

\* An interrupted ramp is an error; otherwise the sockets up are counted,
\* and a run that holds none is an error too.
SeeHeld ==
  /\ phase = "ramp" /\ ramp = "returned"
  /\ IF cancelled
     THEN Fail /\ UNCHANGED heldSeen
     ELSE /\ heldSeen' = held
          /\ IF held = 0
             THEN Fail
             ELSE /\ phase' = "held"
                  /\ UNCHANGED <<rampVars, shards, lostSeen, failed, clockVars, windowVars>>
  /\ UNCHANGED <<writerVars, sheetVars, netVars>>

\* Mutant of ShardsHeld: the count of sockets is not capped by the shards.
ShardsHeldUncapped ==
  /\ phase = "held" /\ phase' = "open"
  /\ shards' = held
  /\ UNCHANGED <<rampVars, heldSeen, lostSeen, failed, clockVars, windowVars,
                 writerVars, sheetVars, netVars>>

\* shardsHeld reads run.held again, after the readers have had time to
\* lose more of it.
ShardsHeld ==
  /\ phase = "held" /\ phase' = "open"
  /\ shards' = IF held > Shards THEN Shards ELSE held
  /\ UNCHANGED <<rampVars, heldSeen, lostSeen, failed, clockVars, windowVars,
                 writerVars, sheetVars, netVars>>

\* The writers' connections are opened, or one cannot be.
OpenWriters ==
  /\ phase = "open"
  /\ \/ Rows > 0 /\ Fail /\ UNCHANGED heldSeen
     \/ phase' = "opened" /\ UNCHANGED <<rampVars, clockVars, windowVars, resultVars>>
  /\ UNCHANGED <<writerVars, sheetVars, netVars>>

\* push starts a pump on every connection; a writer with no share of the
\* rate returns at once.
Push(span) ==
  /\ deadline' = now + span
  /\ writer' = [w \in Ws |->
       [writer[w] EXCEPT !.pc = IF Share(w) = 0 THEN "done" ELSE "wait",
                         !.next = w * BatchOf(w)]]
  /\ UNCHANGED <<rampVars, now, resultVars, sends, perShard, owed, unacked, sheetVars, netVars>>

\* Mutant of PushDone: a statement in flight is cut rather than finished.
PushDoneCut ==
  IF Rows = 0 THEN cancelled \/ now >= deadline
              ELSE \A w \in Ws : writer[w].pc # "wait"

\* Mutant of PushDone: the push waits for connections that are gone.
PushDoneHealthy ==
  IF Rows = 0 THEN cancelled \/ now >= deadline
              ELSE \A w \in Ws : writer[w].pc = "done" /\ writer[w].conn = "open"

PushDone ==
  IF Rows = 0 THEN cancelled \/ now >= deadline
              ELSE \A w \in Ws : writer[w].pc = "done"

StartWarmup ==
  /\ phase = "opened" /\ Warmup > 0
  /\ from' = 0 /\ to' = 0
  /\ phase' = "warmup"
  /\ Push(Warmup)

\* The window's two edges are stored one after the other.
StoreFrom ==
  /\ \/ phase = "opened" /\ Warmup = 0
     \/ phase = "warmup" /\ PushDone
  /\ from' = now
  /\ phase' = "storing"
  /\ UNCHANGED <<rampVars, clockVars, to, resultVars, writerVars, sheetVars, netVars>>

StoreTo ==
  /\ phase = "storing" /\ phase' = "window"
  /\ to' = from + Duration
  /\ UNCHANGED <<rampVars, clockVars, from, resultVars, writerVars, sheetVars, netVars>>

\* The writers' deadline is taken after the window's end, so it lies at or
\* beyond it.
StartMeasure ==
  /\ phase = "window" /\ phase' = "measure"
  /\ UNCHANGED windowVars
  /\ Push(Duration)

StartDrain ==
  /\ phase = "measure" /\ PushDone
  /\ deadline' = now + Drain
  /\ phase' = "drain"
  /\ UNCHANGED <<rampVars, now, windowVars, resultVars, writerVars, sheetVars, netVars>>

\* close(run.stop): the readers are told, and not waited for.
StopRun ==
  /\ phase = "drain" /\ phase' = "tally"
  /\ cancelled \/ now >= deadline
  /\ Close
  /\ UNCHANGED <<clockVars, windowVars, resultVars, writerVars, sheetVars, netVars>>

Merge(a, b) == [hist |-> a.hist + b.hist, stray |-> a.stray + b.stray,
                shards |-> [s \in ShardIds |-> a.shards[s] + b.shards[s]]]

\* tally locks one collector at a time while readers go on filling the rest.
TallyOne ==
  /\ phase = "tally" /\ tally.cols < Cols
  /\ tally' = [sheet |-> Merge(tally.sheet, col[tally.cols]), cols |-> tally.cols + 1]
  /\ merged' = merged \union {f \in counted : f.id % Cols = tally.cols}
  /\ UNCHANGED <<rampVars, runVars, writerVars, col, counted, netVars>>

\* The rest of the result, and ctx.Err() for its error.
Return ==
  /\ phase = "tally" /\ phase' = "returned"
  /\ tally.cols = Cols
  /\ lostSeen' = lost
  /\ failed' = cancelled
  /\ UNCHANGED <<rampVars, clockVars, windowVars, heldSeen, shards, writerVars,
                 sheetVars, netVars>>

\* The command: an error exits before the result file is written.
Report ==
  /\ phase = "returned"
  /\ phase' = IF failed THEN "exited" ELSE "written"
  /\ UNCHANGED <<rampVars, clockVars, windowVars, resultVars, writerVars, sheetVars,
                 netVars>>

\* What the result says beside the tally.
Refused   == Sockets - heldSeen
Delivered == tally.sheet.hist
Expected  == SumFunction([s \in ShardIds |-> perShard[s] * SocketsOn(s, heldSeen)])
Missing   == Expected - Delivered

RunStep == \/ SeeHeld \/ ShardsHeld \/ OpenWriters \/ StartWarmup \/ StoreFrom
           \/ StoreTo \/ StartMeasure \/ StartDrain \/ StopRun \/ TallyOne
           \/ Return \/ Report

-----------------------------------------------------------------------------
(* The writers and the database.                                           *)

Pushing == phase \in {"warmup", "measure"}

\* The context or the deadline ends a pump; the select may also take the
\* tick while the context is done.
PumpStop(w) ==
  /\ Pushing /\ writer[w].pc = "wait"
  /\ cancelled \/ now > deadline
  /\ writer' = [writer EXCEPT ![w].pc = "done"]
  /\ UNCHANGED <<rampVars, runVars, sends, perShard, owed, unacked, sheetVars, netVars>>

\* The rows of a writer's next statement: its batch walks the written
\* shards from the cursor on, every row with the same stamp.
BatchRows(w) == {[stmt |-> sends, j |-> j, stamp |-> now,
                  shard |-> (writer[w].next + j) % shards] : j \in 0..(BatchOf(w) - 1)}

\* The rows are stamped before the statement is sent.  With no shard to
\* write to, the walk over them divides by zero.
PumpSend(w) ==
  /\ Pushing /\ writer[w].pc = "wait" /\ now <= deadline
  /\ sends < MaxStatements
  /\ IF shards = 0
     THEN phase' = "panicked" /\ UNCHANGED <<writer, sends>>
     ELSE /\ writer' = [writer EXCEPT ![w].pc = "sent", ![w].stamp = now,
                                      ![w].batch = BatchRows(w),
                                      ![w].next = @ + BatchOf(w)]
          /\ sends' = sends + 1
          /\ UNCHANGED phase
  /\ UNCHANGED <<rampVars, clockVars, windowVars, resultVars, perShard, owed, unacked,
                 sheetVars, netVars>>

\* External: the database commits the statement, and the node owes a frame
\* to every connected socket of each row's shard.
DbCommit(w) ==
  /\ writer[w].pc = "sent" /\ writer[w].conn = "open"
  /\ rows' = rows \union writer[w].batch
  /\ frames' = frames \union
       {f \in [row : writer[w].batch, id : InState({"up"})] : ShardOf(f.id) = f.row.shard}
  /\ writer' = [writer EXCEPT ![w].pc = "committed"]
  /\ UNCHANGED <<rampVars, runVars, sends, perShard, owed, unacked, sheetVars, dropped>>

\* The answer arrives, no sooner than one clock reading after the stamp,
\* and the rows are counted if the stamp is inside the window.
PumpAck(w) ==
  /\ writer[w].pc = "committed" /\ now > writer[w].stamp
  /\ IF InWindow(writer[w].stamp)
     THEN /\ perShard' = [s \in ShardIds |->
               perShard[s] + Cardinality({r \in writer[w].batch : r.shard = s})]
          /\ owed' = owed \union writer[w].batch
     ELSE UNCHANGED <<perShard, owed>>
  /\ writer' = [writer EXCEPT ![w].pc = "wait"]
  /\ UNCHANGED <<rampVars, runVars, sends, unacked, sheetVars, netVars>>

\* The statement fails, before or after the database committed it: it is
\* noted, the pump returns, and the next push finds the connection as the
\* failure left it.
PumpError(w) ==
  /\ writer[w].pc \in {"sent", "committed"} /\ now > writer[w].stamp
  /\ \E conn \in {"broken"} \union (IF writer[w].pc = "sent" THEN {writer[w].conn} ELSE {}) :
       writer' = [writer EXCEPT ![w].pc = "done", ![w].conn = conn]
  /\ unacked' = IF writer[w].pc = "committed" THEN unacked \union writer[w].batch ELSE unacked
  /\ noted' = noted + 1
  /\ UNCHANGED <<sock, nextId, offering, ramp, held, lost, stopped, cancelled>>
  /\ UNCHANGED <<runVars, sends, perShard, owed, sheetVars, netVars>>

PumpStep(w) ==
  \/ PumpStop(w) \/ PumpSend(w) \/ DbCommit(w) \/ PumpAck(w)
  \/ writer[w].conn = "broken" /\ PumpError(w)

-----------------------------------------------------------------------------
(* The node's frames and the readers.                                      *)

\* A reader on a live socket gets a frame and files it, under its
\* collector's lock, by the row's own stamp against the window of now.
Read(f) ==
  /\ f \in frames /\ sock[f.id] = "up"
  /\ frames' = frames \ {f}
  /\ LET c == f.id % Cols IN
     IF InWindow(f.row.stamp)
     THEN /\ col' = [col EXCEPT ![c].hist = @ + 1, ![c].shards[ShardOf(f.id)] = @ + 1]
          /\ counted' = counted \union {f}
     ELSE /\ col' = [col EXCEPT ![c].stray = @ + 1]
          /\ UNCHANGED counted
  /\ UNCHANGED <<rampVars, runVars, writerVars, tally, merged, rows, dropped>>

\* External: the node never sends the frame.
NodeDrops(f) ==
  /\ f \in frames
  /\ frames' = frames \ {f}
  /\ dropped' = dropped \union {f}
  /\ UNCHANGED <<rampVars, runVars, writerVars, sheetVars, rows>>

-----------------------------------------------------------------------------

\* The clock moves while a span is being waited for, one reading beyond its
\* end for a writer to see it pass, and one reading between the window's
\* edges being stored and the writers' deadline being taken.
Tick ==
  /\ now < CASE Pushing           -> deadline + 1
             [] phase = "drain"   -> deadline
             [] phase = "window"  -> from + 1
             [] OTHER             -> 0
  /\ now' = now + 1
  /\ UNCHANGED <<rampVars, phase, deadline, windowVars, resultVars, writerVars, sheetVars,
                 netVars>>

OnlyRamp == UNCHANGED <<runVars, writerVars, sheetVars, netVars>>

\* The faults of the environment, each within its bound.
Faults ==
  \/ /\ Cardinality(InState({"dropping", "losing", "lost", "closed"})) < MaxLost
     /\ \E id \in Ids : ReadFails(id)
     /\ OnlyRamp
  \/ /\ Cardinality(InState({"refused"})) < MaxRefused
     /\ \E id \in Ids : Refuse(id)
     /\ OnlyRamp
  \/ Interrupts /\ Interrupt /\ OnlyRamp
  \/ InsertErrors /\ \E w \in Ws : PumpError(w)
  \/ \E f \in frames : NodeDrops(f)

Ended == {"panicked", "exited", "written"}

Next ==
  /\ phase \notin Ended
  /\ \/ RampStep /\ OnlyRamp
     \/ \E id \in Ids : (CountLost(id) \/ UncountHeld(id)) /\ OnlyRamp
     \/ RunStep
     \/ \E w \in Ws : PumpStep(w)
     \/ \E f \in frames : Read(f)
     \/ Tick
     \/ Faults

\* What the code and the machine owe the run: every goroutine gets to run,
\* a dial is answered within its timeout, and the node and the database
\* answer a join and a statement, neither of which has a timeout.
Fairness ==
  /\ WF_vars(phase \notin Ended /\ RampStep /\ OnlyRamp)
  /\ WF_vars(phase \notin Ended /\ RunStep)
  /\ \A w \in Ws : WF_vars(phase \notin Ended /\ PumpStep(w))
  /\ WF_vars(phase \notin Ended /\ Tick)

Spec == Init /\ [][Next]_vars
FairSpec == Spec /\ Fairness

-----------------------------------------------------------------------------

Row == [stmt : Nat, j : Nat, stamp : Nat, shard : ShardIds]
Frame == [row : Row, id : Ids]
Sheet == [hist : Nat, stray : Nat, shards : [ShardIds -> Nat]]
WriterState == [pc : {"wait", "sent", "committed", "done"}, next : Nat, stamp : Nat,
                batch : SUBSET Row, conn : {"open", "broken"}]

RunTypeOK ==
  /\ phase \in {"ramp", "held", "open", "opened", "warmup", "storing", "window",
                "measure", "drain", "tally", "returned"} \union Ended
  /\ now \in Nat \ {0} /\ deadline \in Nat /\ from \in Nat /\ to \in Nat
  /\ heldSeen \in Nat /\ shards \in 0..Shards /\ lostSeen \in Nat /\ failed \in BOOLEAN

WriterTypeOK ==
  /\ writer \in [Ws -> WriterState]
  /\ sends \in Nat /\ perShard \in [ShardIds -> Nat]
  /\ owed \subseteq Row /\ unacked \subseteq Row

SheetTypeOK ==
  /\ col \in [ColIds -> Sheet]
  /\ tally \in [sheet : Sheet, cols : 0..Cols]
  /\ counted \subseteq Frame /\ merged \subseteq Frame

NetTypeOK == rows \subseteq Row /\ frames \subseteq Frame /\ dropped \subseteq Frame

\* Types of every variable, the widths the code relies on included: the
\* shards written to are never more than there are, and no counter goes
\* below zero.
TypeOK == RampTypeOK /\ RunTypeOK /\ WriterTypeOK /\ SheetTypeOK /\ NetTypeOK

\* The measured window as the documentation means it.
Measured(stamp) == from # 0 /\ stamp \in from..to

\* The frames of the measured window: every committed row stamped inside
\* it, to every socket that was to be on the row's shard.
WindowFrames ==
  {f \in [row : rows, id : Ids] : Measured(f.row.stamp) /\ ShardOf(f.id) = f.row.shard}

\* Every delivery a collector counts is a frame of the window counted once:
\* a row of the warmup, a row stamped after the window closed, and a second
\* copy never reach a percentile; the shard sheet and the histogram agree
\* frame by frame while readers and tally interleave, and the deliveries
\* published are the frames the tally found.
CountedOnce ==
  /\ counted \subseteq WindowFrames
  /\ \A c \in ColIds :
       /\ col[c].hist = Cardinality({f \in counted : f.id % Cols = c})
       /\ \A s \in ShardIds : col[c].shards[s] =
            Cardinality({f \in counted : f.id % Cols = c /\ f.row.shard = s})
  /\ merged \subseteq counted /\ Delivered = Cardinality(merged)

\* The result never expects a delivery of a row the database did not
\* commit, whatever happens to a statement's answer, and misses none whose
\* answer came back.
OwedIsCommitted ==
  /\ owed \subseteq {r \in rows \ unacked : Measured(r.stamp)}
  /\ \A s \in ShardIds : perShard[s] = Cardinality({r \in owed : r.shard = s})
  /\ phase \in {"drain", "tally", "returned", "written"} =>
       {r \in rows \ unacked : Measured(r.stamp)} \subseteq owed

\* The published figure of a run that was refused no socket and lost no
\* answer: deliveries_missing is exactly the frames of the window that had
\* not arrived when their collector was tallied, through drops, lost
\* sockets and late frames alike.
MissingIsExact ==
  /\ phase \in {"returned", "written"} /\ heldSeen = Sockets /\ unacked = {}
  => Missing = Cardinality(WindowFrames \ merged)

\* A run always comes to an end, whatever fails under it.
RunEnds == <>(phase \in Ended)

-----------------------------------------------------------------------------
(* The strengthening under which the accounting is inductive.              *)

BeforeWindow == {"ramp", "held", "open", "opened", "warmup"}

\* Until the window is stored nothing falls inside it.
WindowUnset ==
  /\ phase \in BeforeWindow => from = 0
  /\ phase \in BeforeWindow \union {"storing"} => to = 0
  /\ phase = "storing" => from # 0

\* Statements are numbered, so no two batches share a row, a batch is in
\* the database once it is committed and counted nowhere until it is
\* answered.
BatchesApart ==
  /\ \A w \in Ws :
       /\ IsFiniteSet(writer[w].batch)
       /\ \A r \in writer[w].batch : r.stmt < sends /\ r.stamp = writer[w].stamp
       /\ writer[w].pc = "sent" => writer[w].batch \intersect rows = {}
       /\ writer[w].pc = "committed" =>
            /\ writer[w].batch \subseteq rows
            /\ writer[w].batch \intersect (owed \union unacked) = {}
  /\ \A v, w \in Ws : v # w => writer[v].batch \intersect writer[w].batch = {}
  /\ \A r \in rows : r.stmt < sends
  /\ owed \subseteq rows \ unacked /\ unacked \subseteq rows /\ IsFiniteSet(owed)

\* Frames come from committed rows and are filed once.
FramesApart ==
  /\ \A f \in frames \union counted : f.row \in rows /\ ShardOf(f.id) = f.row.shard
  /\ frames \intersect counted = {}
  /\ IsFiniteSet(counted)
  /\ \A f \in merged : f.id % Cols < tally.cols

\* A statement is in flight only during a push, so the rows of the warmup
\* are stamped before the window opens, and every committed row stamped
\* inside it is owed unless its answer is still to come or was lost.
Answering(r) == \E w \in Ws : writer[w].pc = "committed" /\ r \in writer[w].batch

Answered ==
  /\ Rows = 0 => \A w \in Ws : writer[w].pc = "done"
  /\ \A w \in Ws : writer[w].pc # "done" => phase \in {"warmup", "measure", "panicked"}
  /\ phase \in BeforeWindow \ {"warmup"} => rows = {}
  /\ phase = "warmup" => \A r \in rows : r.stamp < now \/ Answering(r)
  /\ phase \in {"storing", "window"} => \A r \in rows : r.stamp < from
  /\ phase \in {"measure", "drain", "tally", "returned", "written"} =>
       \A r \in rows \ unacked : Measured(r.stamp) => r \in owed \/ Answering(r)
=============================================================================

-------------------------------- MODULE Soak --------------------------------
(***************************************************************************)
(* The soak (cmd/zoubench/sustain.go: cmdSustain with the helpers it       *)
(* calls, and the ledger of sustain/sustain.go): a node under load is      *)
(* killed once a segment, the harness waits for a write to commit again,   *)
(* and checks that every write it was acknowledged is still there.  Beside *)
(* the main loop runs the ledger writer, on a connection of its own.       *)
(*                                                                         *)
(* External, modelled from how the code uses it: the node, whose server    *)
(* answers or does not, recovers on its own while its supervisor lives,    *)
(* may die outside a drill, and may lose committed rows when it goes down, *)
(* which is what the soak is there to find.                                *)
(*                                                                         *)
(* The clock counts from the start of a drill, killT.  The store counters  *)
(* around a segment are in StoreCounters; the loops that compact, collect  *)
(* and fold beside a segment touch nothing that is here.                   *)
(***************************************************************************)
EXTENDS Integers, Sequences, FiniteSets, SequencesExt

CONSTANTS
  Drills,      \* the scenario's drill modes, in order
  Segments,    \* how many segments the soak runs
  ChunkSize,   \* ids a membership query asks for, 10000 in the code
  Attempts,    \* tries of soakQuery, 5 in the code
  Patience,    \* waitPusherPid's wait
  GiveUp,      \* waitWrite's deadline after the kill
  Tpcb,        \* whether the load has a balance identity
  MaxIds,      \* bound on the ledger's ids
  MaxLost,     \* bound on the rows the store loses
  MaxDeaths    \* bound on the times the server fails outside a drill

ASSUME SoakAssumption ==
  /\ Drills \in Seq({"pusher", "crash", "death"}) /\ Drills # <<>>
  /\ Segments \in Nat \ {0} /\ ChunkSize \in Nat \ {0} /\ Attempts \in Nat \ {0}
  /\ Patience \in Nat /\ GiveUp \in Nat
  /\ Tpcb \in BOOLEAN
  /\ MaxIds \in Nat /\ MaxLost \in Nat /\ MaxDeaths \in Nat

VARIABLES
  pc,          \* where cmdSustain is
  seq,         \* the segment
  drill,       \* the drill being run
  drills,      \* the drills recorded
  violations,  \* the count the result publishes
  stopped,     \* result["stopped_early"]
  clock,       \* time since killT
  chunks,      \* what is left of the ledger check
  tries,       \* attempts the current query has made
  bench,       \* pgbench is running
  node,        \* rtSeq, the node the harness believes in
  alive,       \* external: the supervisors that are running
  server,      \* external: "up" when statements are answered
  pusher,      \* external: the wal pusher is running
  epoch,       \* external: how often the server went down
  rows,        \* external: the ids in zoubench_ledger
  exact,       \* external: the balance identity holds
  lost,        \* external: how many rows were lost
  deaths,      \* external: how often the server failed outside a drill
  writer,      \* the ledger writer: where it is, its id, its connection
  next,        \* Ledger.next
  acked,       \* Ledger.acked
  promised     \* history: ids whose COMMIT returned to the writer

mainVars   == <<pc, seq, drill, drills, violations, stopped, clock, chunks, tries, bench>>
nodeVars   == <<node, alive, server, pusher, epoch>>
storeVars  == <<rows, exact, lost, deaths>>
ledgerVars == <<writer, next, acked, promised>>
vars       == <<mainVars, nodeVars, storeVars, ledgerVars>>

None == -1
NoConn == -1

\* A drill before anything of it has happened.  killed and missing are
\* history: when the kill landed, and which recorded acks were already
\* missing when the ledger check began.
NewDrill(n) == [seq |-> n, mode |-> Drills[(n % Len(Drills)) + 1], rto |-> None,
                ledger |-> FALSE, balance |-> "absent", killError |-> FALSE,
                checkError |-> "none", killed |-> None, missing |-> {}]

Init ==
  /\ pc = "boot" /\ seq = 0 /\ drill = NewDrill(0) /\ drills = <<>>
  /\ violations = 0 /\ stopped = FALSE /\ clock = 0 /\ chunks = <<>> /\ tries = 0
  /\ bench = FALSE
  /\ node = 0 /\ alive = {0} /\ server = "down" /\ pusher = FALSE /\ epoch = 0
  /\ rows = {} /\ exact = TRUE /\ lost = 0 /\ deaths = 0
  /\ writer = [pc |-> "off", id |-> 0, conn |-> NoConn]
  /\ next = 1 /\ acked = <<>> /\ promised = {}

-----------------------------------------------------------------------------
(* The server and what a kill does to it.                                  *)

\* Going down breaks every connection, and a store that does not keep its
\* promise loses rows by it.
GoDown ==
  /\ server' = "down" /\ pusher' = FALSE /\ epoch' = epoch + 1
  /\ \E gone \in SUBSET rows :
       /\ Cardinality(gone) + lost <= MaxLost
       /\ rows' = rows \ gone
       /\ lost' = lost + Cardinality(gone)
       /\ exact' = (exact /\ gone = {})

\* The node has been killed for good and its supervisor not yet reaped.
Doomed == pc \in {"reap", "fatal", "stop"}

\* Crash recovery under a living supervisor.
Recover ==
  /\ server = "down" /\ alive # {} /\ ~Doomed
  /\ server' = "up"
  /\ UNCHANGED <<mainVars, node, alive, pusher, epoch, storeVars, ledgerVars>>

\* Background workers start once recovery has ended.
PusherStarts ==
  /\ server = "up" /\ ~pusher
  /\ pusher' = TRUE
  /\ UNCHANGED <<mainVars, node, alive, server, epoch, storeVars, ledgerVars>>

\* The server fails outside a drill, its supervisor does, or both.
Dies ==
  /\ deaths < MaxDeaths /\ alive # {}
  /\ deaths' = deaths + 1
  /\ \/ GoDown /\ alive' \in {alive, {}}
     \/ alive' = {} /\ UNCHANGED <<server, pusher, epoch, rows, lost, exact>>
  /\ UNCHANGED <<mainVars, node, ledgerVars>>

\* killNode: the supervisor and everything under its runtime directory are
\* signalled; its reaper notices later.
Signal == GoDown /\ UNCHANGED <<node, alive>>

\* The reaper: a signalled supervisor is gone.
Reap ==
  /\ Doomed /\ node \in alive
  /\ alive' = alive \ {node}
  /\ UNCHANGED <<mainVars, node, server, pusher, epoch, storeVars, ledgerVars>>

-----------------------------------------------------------------------------
(* Setup, and the fatal exits during it.                                   *)

\* The server takes a write, the load is done and the ledger table is there:
\* the ledger writer is started.
BootOK ==
  /\ pc = "boot" /\ server = "up"
  /\ pc' = "segment"
  /\ writer' = [writer EXCEPT !.pc = "idle"]
  /\ UNCHANGED <<seq, drill, drills, violations, stopped, clock, chunks, tries, bench,
                 nodeVars, storeVars, next, acked, promised>>

\* dieDown: any step of the setup fails and the node is taken down first.
BootFails ==
  /\ pc = "boot" /\ pc' = "fatal"
  /\ Signal
  /\ UNCHANGED <<seq, drill, drills, violations, stopped, clock, chunks, tries, bench,
                 deaths, ledgerVars>>

Die ==
  /\ pc = "fatal" /\ node \notin alive
  /\ pc' = "died"
  /\ writer' = [writer EXCEPT !.pc = "off"]
  /\ UNCHANGED <<seq, drill, drills, violations, stopped, clock, chunks, tries, bench,
                 nodeVars, storeVars, next, acked, promised>>

-----------------------------------------------------------------------------
(* One segment.                                                            *)

\* pgbench is started, or could not be.
StartSegment ==
  /\ pc = "segment" /\ pc' = "drill"
  /\ bench' \in BOOLEAN
  /\ drill' = NewDrill(seq)
  /\ UNCHANGED <<seq, drills, violations, stopped, clock, chunks, tries, nodeVars,
                 storeVars, ledgerVars>>

\* External: pgbench ends, by itself or because its server is gone.
BenchExits ==
  /\ bench /\ bench' = FALSE
  /\ UNCHANGED <<pc, seq, drill, drills, violations, stopped, clock, chunks, tries,
                 nodeVars, storeVars, ledgerVars>>

\* killT is taken before anything is looked up.
StartDrill ==
  /\ pc = "drill"
  /\ clock' = 0
  /\ pc' = CASE drill.mode = "pusher" -> "lookup"
             [] drill.mode = "crash"  -> "postmaster"
             [] drill.mode = "death"  -> "kill"
  /\ UNCHANGED <<seq, drill, drills, violations, stopped, chunks, tries, bench, nodeVars,
                 storeVars, ledgerVars>>

\* The kill lands: from here on waitWrite polls.
Landed ==
  /\ drill' = [drill EXCEPT !.killed = clock]
  /\ pc' = "probe"
  /\ UNCHANGED <<seq, drills, violations, stopped, clock, chunks, tries, bench, ledgerVars>>

\* Mutant of CannotKill: a drill that could not kill is probed all the same.
CannotKillProbed ==
  /\ drill' = [drill EXCEPT !.killError = TRUE]
  /\ pc' = "probe"
  /\ UNCHANGED <<seq, drills, violations, stopped, clock, chunks, tries, bench, nodeVars,
                 storeVars, ledgerVars>>

\* A drill that could not kill goes straight to its checks.
CannotKill ==
  /\ drill' = [drill EXCEPT !.killError = TRUE]
  /\ pc' = "verify"
  /\ UNCHANGED <<seq, drills, violations, stopped, clock, chunks, tries, bench, nodeVars,
                 storeVars, ledgerVars>>

\* waitPusherPid: the lookup is repeated until the worker shows up or the
\* patience is over; the pid found may already be gone.
KillPusher ==
  /\ pc = "lookup"
  /\ \/ pusher /\ Signal /\ Landed /\ UNCHANGED deaths
     \/ (pusher \/ clock > Patience) /\ CannotKill

\* The postmaster's pid is read from its file and killed once; a server
\* that is down may still have a postmaster.
KillPostmaster ==
  /\ pc = "postmaster"
  /\ \/ (server = "up" \/ alive # {}) /\ Signal /\ Landed /\ UNCHANGED deaths
     \/ server = "down" /\ CannotKill

KillNode ==
  /\ pc = "kill" /\ pc' = "reap"
  /\ Signal
  /\ drill' = [drill EXCEPT !.killed = clock]
  /\ UNCHANGED <<seq, drills, violations, stopped, clock, chunks, tries, bench, deaths,
                 ledgerVars>>

\* Mutant of StartReplacement: the dying supervisor is not waited for.
StartReplacementEarly ==
  /\ pc = "reap"
  /\ \/ /\ node' = node + 1 /\ alive' = alive \union {node + 1} /\ pc' = "probe"
        /\ UNCHANGED writer
     \/ pc' = "died" /\ writer' = [writer EXCEPT !.pc = "off"] /\ UNCHANGED <<node, alive>>
  /\ UNCHANGED <<seq, drill, drills, violations, stopped, clock, chunks, tries, bench,
                 server, pusher, epoch, storeVars, next, acked, promised>>

\* The old supervisor is reaped and a new node started that may steal its
\* lease; a node that cannot be started ends the program.
StartReplacement ==
  /\ pc = "reap" /\ node \notin alive
  /\ \/ /\ node' = node + 1 /\ alive' = alive \union {node + 1} /\ pc' = "probe"
        /\ UNCHANGED writer
     \/ pc' = "died" /\ writer' = [writer EXCEPT !.pc = "off"] /\ UNCHANGED <<node, alive>>
  /\ UNCHANGED <<seq, drill, drills, violations, stopped, clock, chunks, tries, bench,
                 server, pusher, epoch, storeVars, next, acked, promised>>

\* Mutant of Probe: the wait has no deadline.
ProbeForever ==
  /\ pc = "probe" /\ pc' = "verify"
  /\ server = "up" /\ drill' = [drill EXCEPT !.rto = clock]
  /\ UNCHANGED <<seq, drills, violations, stopped, clock, chunks, tries, bench, nodeVars,
                 storeVars, ledgerVars>>

\* waitWrite: the first statement that commits ends the wait, and so does
\* the deadline, without a recovery time.
Probe ==
  /\ pc = "probe" /\ pc' = "verify"
  /\ \/ server = "up" /\ drill' = [drill EXCEPT !.rto = clock]
     \/ clock >= GiveUp /\ UNCHANGED drill
  /\ UNCHANGED <<seq, drills, violations, stopped, clock, chunks, tries, bench, nodeVars,
                 storeVars, ledgerVars>>

\* Time passes for a drill while it waits.
Tick ==
  /\ \/ pc = "lookup" /\ clock <= Patience
     \/ pc = "probe" /\ clock < GiveUp
  /\ clock' = clock + 1
  /\ UNCHANGED <<pc, seq, drill, drills, violations, stopped, chunks, tries, bench,
                 nodeVars, storeVars, ledgerVars>>

-----------------------------------------------------------------------------
(* The checks after a drill.                                               *)

\* Mutant of Pieces: the last piece is dropped when it is not full.
PiecesFull == Len(acked) \div ChunkSize

\* Ledger.Chunks: the acked ids in pieces of at most ChunkSize.
Pieces == (Len(acked) + ChunkSize - 1) \div ChunkSize
Chunks == [i \in 1..Pieces |->
  SubSeq(acked, (i - 1) * ChunkSize + 1,
         IF i * ChunkSize < Len(acked) THEN i * ChunkSize ELSE Len(acked))]

StartVerify ==
  /\ pc = "verify" /\ pc' = "ledger"
  /\ chunks' = Chunks
  /\ tries' = 0
  /\ drill' = [drill EXCEPT !.missing = Range(acked) \ rows]
  /\ UNCHANGED <<seq, drills, violations, stopped, clock, bench, nodeVars, storeVars,
                 ledgerVars>>

\* Mutant of AttemptFails: the attempts are counted down from zero.
AttemptFailsDown == tries + 1 < Attempts /\ tries' = tries - 1

\* An attempt of soakQuery fails; the last one is the query's error.
AttemptFails == tries + 1 < Attempts /\ tries' = tries + 1
OutOfAttempts == tries + 1 = Attempts /\ tries' = 0

\* Mutant of LedgerIs: a check that could not run is not counted.
LedgerIsLenient(ok, err) ==
  /\ drill' = [drill EXCEPT !.ledger = ok, !.checkError = IF err THEN "ledger" ELSE "none"]
  /\ violations' = IF ok \/ err THEN violations ELSE violations + 1
  /\ chunks' = <<>>
  /\ pc' = IF Tpcb THEN "balance" ELSE "record"

\* The ledger check is decided.
LedgerIs(ok, err) ==
  /\ drill' = [drill EXCEPT !.ledger = ok, !.checkError = IF err THEN "ledger" ELSE "none"]
  /\ violations' = IF ok THEN violations ELSE violations + 1
  /\ chunks' = <<>>
  /\ pc' = IF Tpcb THEN "balance" ELSE "record"

\* The query counts the rows whose id is in the list.
CountMatches(chunk) == Cardinality(Range(chunk) \intersect rows) = Len(chunk)

\* verifyLedger: one count query a chunk, the first wrong count decides.
VerifyLedger ==
  /\ pc = "ledger"
  /\ \/ /\ chunks = <<>>
        /\ LedgerIs(TRUE, FALSE) /\ UNCHANGED tries
     \/ /\ chunks # <<>> /\ server = "up" /\ tries' = 0
        /\ IF CountMatches(Head(chunks))
           THEN chunks' = Tail(chunks) /\ UNCHANGED <<pc, drill, violations>>
           ELSE LedgerIs(FALSE, FALSE)
     \/ /\ chunks # <<>> /\ AttemptFails
        /\ UNCHANGED <<pc, drill, violations, chunks>>
     \/ /\ chunks # <<>> /\ OutOfAttempts
        /\ LedgerIs(FALSE, TRUE)
  /\ UNCHANGED <<seq, drills, stopped, clock, bench, nodeVars, storeVars, ledgerVars>>

BalanceIs(ok, err) ==
  /\ drill' = [drill EXCEPT !.balance = IF ok THEN "ok" ELSE "broken",
                            !.checkError = IF @ = "none" /\ err THEN "balance" ELSE @]
  /\ violations' = IF ok THEN violations ELSE violations + 1
  /\ pc' = "record"

VerifyBalance ==
  /\ pc = "balance"
  /\ \/ server = "up" /\ BalanceIs(exact, FALSE) /\ tries' = 0
     \/ AttemptFails /\ UNCHANGED <<pc, drill, violations>>
     \/ OutOfAttempts /\ BalanceIs(FALSE, TRUE)
  /\ UNCHANGED <<seq, drills, stopped, clock, chunks, bench, nodeVars, storeVars, ledgerVars>>

\* The drill is appended, and the segment waits for pgbench.
RecordDrill ==
  /\ pc = "record" /\ pc' = "wait"
  /\ drills' = Append(drills, drill)
  /\ UNCHANGED <<seq, drill, violations, stopped, clock, chunks, tries, bench, nodeVars,
                 storeVars, ledgerVars>>

\* The segment is over; a supervisor that is gone by now ends the soak.
EndSegment ==
  /\ pc = "wait" /\ ~bench
  /\ seq' = seq + 1
  /\ stopped' = (node \notin alive)
  /\ IF stopped' \/ seq' = Segments
     THEN pc' = "finish" ELSE pc' = "segment"
  /\ UNCHANGED <<drill, drills, violations, clock, chunks, tries, bench, nodeVars,
                 storeVars, ledgerVars>>

\* The ledger writer is told to stop and the node is killed.
Finish ==
  /\ pc = "finish" /\ pc' = "stop"
  /\ Signal
  /\ writer' = [writer EXCEPT !.pc = IF @ = "idle" THEN "off" ELSE @]
  /\ UNCHANGED <<seq, drill, drills, violations, stopped, clock, chunks, tries, bench,
                 deaths, next, acked, promised>>

\* The result is written once the node is gone, and the process ends.
WriteResult ==
  /\ pc = "stop" /\ node \notin alive
  /\ pc' = "written"
  /\ writer' = [writer EXCEPT !.pc = "off"]
  /\ UNCHANGED <<seq, drill, drills, violations, stopped, clock, chunks, tries, bench,
                 nodeVars, storeVars, next, acked, promised>>

MainStep ==
  \/ BootOK \/ BootFails \/ Die \/ StartSegment \/ StartDrill \/ KillPusher
  \/ KillPostmaster \/ KillNode \/ StartReplacement \/ Probe \/ StartVerify
  \/ VerifyLedger \/ VerifyBalance \/ RecordDrill \/ EndSegment \/ Finish \/ WriteResult

-----------------------------------------------------------------------------
(* The ledger writer.                                                      *)

\* A connection is dialled when there is none and the server answers.
WriterDials ==
  /\ writer.pc = "idle" /\ writer.conn = NoConn /\ server = "up"
  /\ writer' = [writer EXCEPT !.conn = epoch]
  /\ UNCHANGED <<mainVars, nodeVars, storeVars, next, acked, promised>>

\* Ledger.Next, once an attempt.
WriterSends ==
  /\ writer.pc = "idle" /\ writer.conn # NoConn
  /\ next <= MaxIds
  /\ writer' = [writer EXCEPT !.pc = "sent", !.id = next]
  /\ next' = next + 1
  /\ UNCHANGED <<mainVars, nodeVars, storeVars, acked, promised>>

Connected == writer.conn = epoch /\ server = "up"

\* External: the insert commits; its id is the primary key.
DbInserts ==
  /\ writer.pc = "sent" /\ Connected
  /\ writer.id \notin rows
  /\ rows' = rows \union {writer.id}
  /\ writer' = [writer EXCEPT !.pc = "committed"]
  /\ UNCHANGED <<mainVars, nodeVars, exact, lost, deaths, next, acked, promised>>

\* Query returns without an error.
WriterAnswered ==
  /\ writer.pc = "committed" /\ Connected
  /\ promised' = promised \union {writer.id}
  /\ writer' = [writer EXCEPT !.pc = "answered"]
  /\ UNCHANGED <<mainVars, nodeVars, storeVars, next, acked>>

\* Back to the select, which finds the stop channel closed once the soak
\* is over.
Resumed == IF pc = "stop" THEN "off" ELSE "idle"

\* Ledger.Ack.
WriterAcks ==
  /\ writer.pc = "answered"
  /\ acked' = Append(acked, writer.id)
  /\ writer' = [writer EXCEPT !.pc = Resumed]
  /\ UNCHANGED <<mainVars, nodeVars, storeVars, next, promised>>

\* Mutant of WriterFails: an id is acked whether its statement failed or not.
WriterFailsAcked ==
  /\ writer.pc \in {"sent", "committed"}
  /\ acked' = Append(acked, writer.id)
  /\ writer' = [writer EXCEPT !.pc = Resumed, !.conn = NoConn]
  /\ UNCHANGED <<mainVars, nodeVars, storeVars, next, promised>>

\* The statement fails, whether it was committed or not: the connection is
\* dropped and the id skipped.
WriterFails ==
  /\ writer.pc \in {"sent", "committed"}
  /\ writer' = [writer EXCEPT !.pc = Resumed, !.conn = NoConn]
  /\ UNCHANGED <<mainVars, nodeVars, storeVars, next, acked, promised>>

WriterStep == WriterDials \/ WriterSends \/ DbInserts \/ WriterAnswered \/ WriterAcks
              \/ WriterFails

-----------------------------------------------------------------------------

Over == {"died", "written"}

Next ==
  /\ pc \notin Over
  /\ \/ MainStep \/ WriterStep \/ BenchExits \/ Tick
     \/ Reap \/ Recover \/ PusherStarts \/ Dies

Spec == Init /\ [][Next]_vars

\* The main goroutine runs, a span of time passes, pgbench ends and a killed
\* process is reaped.  Of the server it is asked only that a statement it
\* took comes back, answered or broken: the wire client has no timeout, so
\* waitWrite's deadline does not cut a statement short.
FairSpec ==
  /\ Spec
  /\ WF_vars(pc \notin Over /\ MainStep) /\ WF_vars(pc \notin Over /\ Tick)
  /\ WF_vars(pc \notin Over /\ BenchExits) /\ WF_vars(pc \notin Over /\ Reap)

-----------------------------------------------------------------------------

DrillState == [seq : Nat, mode : {"pusher", "crash", "death"}, rto : Nat \union {None},
               ledger : BOOLEAN, balance : {"absent", "ok", "broken"},
               killError : BOOLEAN, checkError : {"none", "ledger", "balance"},
               killed : Nat \union {None}, missing : SUBSET Nat]

TypeOK ==
  /\ pc \in {"boot", "segment", "drill", "lookup", "postmaster", "kill", "probe", "verify",
             "ledger", "balance", "record", "wait", "finish"}
             \union {"reap", "fatal", "stop"} \union Over
  /\ seq \in Nat /\ drill \in DrillState /\ drills \in Seq(DrillState)
  /\ violations \in Nat /\ stopped \in BOOLEAN /\ clock \in Nat
  /\ chunks \in Seq(Seq(Nat)) /\ tries \in Nat /\ bench \in BOOLEAN
  /\ node \in Nat /\ alive \in SUBSET Nat /\ server \in {"up", "down"}
  /\ pusher \in BOOLEAN /\ epoch \in Nat
  /\ rows \in SUBSET Nat /\ exact \in BOOLEAN /\ lost \in Nat /\ deaths \in Nat
  /\ writer \in [pc : {"off", "idle", "sent", "committed", "answered"}, id : Nat,
                 conn : Nat \union {NoConn}]
  /\ next \in Nat /\ acked \in Seq(Nat) /\ promised \in SUBSET Nat

Recorded == Range(drills)

\* A drill that says the ledger is broken, and not that it could not be
\* read, is about a write the server acknowledged and lost: the writer that
\* goes on inserting and acking between the chunk queries, the ids whose
\* answer a kill swallowed and the kills themselves never look like a loss.
\* Nor does a balance come back broken from a store that replayed exactly.
NoFalseAlarm ==
  \A d \in Recorded :
    /\ ~d.ledger /\ d.checkError # "ledger" => promised \ rows # {}
    /\ d.balance = "broken" /\ d.checkError = "none" => ~exact

\* A drill that says the ledger is intact has seen every ack recorded by
\* the time its check began, whatever the chunking: no recorded write was
\* missing then.
LossReported == \A d \in Recorded : d.ledger => d.missing = {}

\* A recovery time is published only for a kill that landed, and for a
\* write that committed after it.
RtoMeansRecovery ==
  \A d \in Recorded : d.rto # None => ~d.killError /\ d.killed # None /\ d.rto >= d.killed

\* The harness never runs two nodes over one store, so the lease the
\* replacement steals is never a living one, and no way out of the program
\* leaves a node behind.
OneNode == Cardinality(alive) <= 1 /\ (pc \in Over => alive = {})

\* A soak whose result says no violations ran every drill it planned or
\* says it stopped early, and no drill in it missed a write or could not
\* read.
CleanSoak ==
  pc = "written" /\ violations = 0 =>
    /\ Len(drills) = Segments \/ stopped
    /\ \A d \in Recorded : d.ledger /\ d.balance # "broken" /\ d.checkError = "none"

\* The soak comes to an end, with its result or as a fatal exit, though the
\* server may never answer again.
SoakEnds == <>(pc \in Over)
=============================================================================

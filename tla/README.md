# A verification of zou-bench

zou-bench measures a database (zou, over an object store) and the services around
it: it holds sockets and times what is delivered on them, soaks a node for hours
while killing it, provisions and drives a fleet of tenants, replays a transaction
over the wire, and turns the numbers into result files. Its own correctness is that
of its accounting: a number it publishes must be the number of the thing its name
says, through interrupts, kills, lost answers and goroutines that overlap. That is
what these modules are about. They model the Go code of the repository; line numbers
are in `PROJECT.json` ("map").

## 1. Inventory

| Component | State | Operations | What is hard | What makes it correct |
|---|---|---|---|---|
| socket run (`sockets/sockets.go`, `writer.go`, `cmd/zoubench/sockets.go`) | `held`, `lost`, the window `from`/`to`, 64 collectors, rows per shard, the sockets and the writers | `Run`, `ramp`, `join`, `read`, `push`, `pump`, `tally` | thousands of readers against a tally that does not wait for them, a window stored in two steps, losses in two steps, lost answers, interrupts | deliveries counted once and only for the window; expected = answered rows; missing = frames that did not come; the run ends |
| soak (`cmd/zoubench/sustain.go`, `sustain/`) | the node, the drill, the ledger of acked ids, violations | `cmdSustain`, `waitPusherPid`, `killNode`, `startDev`, `waitWrite`, `verifyLedger`, `verifyBalance`, `ledgerWriter` | kills between a commit and its answer, a writer that runs during the check, nodes that die outside a drill | a broken ledger is a lost write and the other way round; never two nodes on a store; it ends |
| soak loops and the result (same file) | `overs`, `ampTimeline`, `folds`, `sweeps`, the result and its `.part` | `compactLoop`, `gcLoop`, `foldLoop`, `checkpointLoop`, `BoundHeld`, `writeResult`, `writeFileAtomic` | loops of one segment outlive it; a full disk or a kill during the save | the bound is judged over the samples published; sums neither lose nor repeat a sample; a result is whole or not there |
| store counters (`zoustats/`) | a file of counters the store keeps writing | `Read`, `Diff` | the file changes while it is read; a restart starts from zero | a delta never overstates, and within a boot leaves nothing out |
| fleet provisioning (`cmd/zoubench/fleet.go`, `fleet/state.go`) | `fleet-state.json`, the workers, the failures | `provision`, `LoadState`, `Add`, `save` | a run is killed anywhere and resumed, perhaps against another store | what the file names is there; success means all were made; it returns |
| fleet and rest load generators (`fleet/fleet.go`, `resthttp/`) | counts and samples of each client, the window's context, the shared ticker | `Run`, `drive`, `once`, `Drive` | requests in flight when the window closes | every request of the window counted once, none of the warmup |
| fleet command (`cmd/zoubench/fleet.go`) | the node, the phases, the scrapes around them | `startServe`, `waitHealthy`, `stop`, `phase`, `hold` | every error on the way out, a node somebody else left | node and harness counts agree up to a known difference; no node is left by accident; it returns unless provisioning or its node never does |
| idle rates (`fleet/idle.go`) | samples of a node's gauge and counters | `After`, `Rates` | samples between two states, missing ones, restarts | each second charged to one pile at most, and to the right one |
| wire client and tpcb driver (`pgwire/`, `tpcb/`) | a connection's unread answer, the transactions timed and failed | `Dial`, `Query`, `Run`, `loop` | failures between the statements, connections that break inside an answer, answers that are not read to their end | an answer belongs to its query; what is timed was committed; no connection is left |
| run command (`cmd/zoubench/run.go`) | three marks of the store's counters, two of the server's, the log directory | `cmdRun`, `keepLogs` | restarts between marks, errors after the marks | the published lines are those of their own window |
| cold attach (`cmd/zoubench/attach.go`) | the server of a cycle, its connection | `cmdAttach`, `WaitReady` | a server that dies or never comes up | nothing is left running |
| store probe (`probe/`) | keys written, attempts | `Run`, `timed` | errors and throttling between the steps | a profile leaves nothing behind; what a failure leaves is known |
| dashboard (`dashboard/`) | the book of readings, the page | `Take`, `Merge`, `Value`, `Judge`, `Render` | any order of the files, several invocations, one that dies | the newest reading of each claim, and met only where it was measured |
| histogram and percentiles (`sockets/hist.go`, `latency/`, `fleet/metrics.go`, and the readers of `attach` and `probe`) | a histogram for each worker | `Add`, `Merge`, `Quantile`, `pick`, `quantile`, `pctl` | bucket edges, merging, durations past the top, ranks | within a rank of the nearest, and close to it |
| cost, scenarios, report, samplers, pgbench and pgstats parsing, environment | none that decides anything | parsing, arithmetic, printing | | |

How they interact: a command reads a scenario, starts the system under test or is
pointed at one, takes snapshots (store counters, metrics, process tree) around a
driver, and writes one result file. The interesting interactions are inside the
drivers, between goroutines over mutexes, atomics and channels, and with processes
that die: pgbench, postgres, the node, zoubench itself.

## 2. Modules

| Module | Models | Composes |
|---|---|---|
| `SocketRamp` | handing out socket ids, dialling, joining, losing a socket | |
| `SocketRun` | the whole socket run and what the command does with its result | extends `SocketRamp` |
| `SocketRunProofs` | proofs about `SocketRun` | extends `SumsProofs` |
| `Soak` | setup, segments, drills, the ledger writer and the checks | |
| `SoakProofs` | proofs about `Soak` | |
| `StoreCounters` | two snapshots of the counter file and their difference | |
| `Provision` | runs of the fleet's provisioning over one state file | |
| `ProvisionProofs` | proofs about `Provision` | |
| `WireTpcb` | the tpcb driver's clients on the wire client | |
| `WireTpcbProofs` | proofs about `WireTpcb` | extends `SumsProofs` |
| `ResultPublished` | abstract: what saving a result promises | |
| `ResultFile` | `writeResult`, `writeFileAtomic` and the end of the soak | implements `ResultPublished` |
| `SoakLoops` | the periodic loops of a soak and the assembly of the result | extends `ResultFile` |
| `SoakLoopsProofs` | proofs about `SoakLoops`, the refinement of `ResultPublished` among them | extends `SumsProofs` |
| `HttpLoad` | the http load generator of rest and fleet | |
| `FleetRun` | the fleet command and its node | extends `HttpLoad` |
| `FleetRunProofs` | proofs about `FleetRun` and `HttpLoad` | extends `SumsProofs` |
| `RunCommand`, `Attach`, `Probe`, `Board`, `IdleHold`, `Quantiles` | the run, attach, probe and dashboard commands, the hold of the fleet command, the readers of percentiles | |
| `Commands` | one process that is one of these | extends the six and `StoreCounters` |
| `CommandsProofs` | proofs about `Commands` | extends `SumsProofs` |
| `SumsProofs` | lemmas about sums over finite sets and sequences, extremes and quotients | |
| `MC*` | the instances TLC checks, and claims of the repository that the code does not keep | |

### SocketRamp, SocketRun

`sock` is the life of each socket id (new, queued in the channel, dialling, joining,
up, and then dropping, losing and lost, or closed); the workers are not processes,
an id being dialled or joined occupies one of the `Dialers`. `held`, `lost` and
`noted` are the code's counters, changed in the code's order: a reader adds to
`lost` in one step and subtracts from `held` in another. `phase` follows `Run`
line by line from the ramp's return to the result; `from` and `to` are stored in two
steps. Each writer has its cursor, stamp, batch and connection. The collectors are
merged one at a time, while readers go on. `Report` is what the command does:
it exits on an error and writes the file otherwise.

The database and the node are external: a statement is committed and answered,
committed and not answered, or fails; the node owes each joined socket of a shard
a frame per row and may drop it or deliver it at any later time. History variables
(`counted`, `merged`, `owed`, `unacked`, `dropped`) remember which frames and rows the
code's counters stand for; no action reads them.

Abstractions, with the reason they are sound:

- A reader loads `from` and `to` before it takes its collector's lock. Both are
  read in the step that files the frame: a frame stamped inside the window exists
  only after both edges are stored, and one stamped before it is a stray under
  either reading.
- The pacing ticker and the writers' tickers delay a step by an arbitrary time,
  which interleaving already allows.
- An answer arrives at least one clock reading after its stamp.
- The scrape of the node's metrics, heartbeats, per second timeline and the
  histogram's buckets are left out: `hist` is the number of samples in it.

### Soak

`pc` follows `cmdSustain`; `drill` is the record the result publishes, with two
history fields (when the kill landed, which acked ids were missing when the check
began). The clock counts from `killT`. The node is external: a set of supervisors, a
server that is up or down, a pusher, and rows that may be lost when the server goes
down, since that is what the soak is there to find. The ledger writer runs beside
the main loop on a connection that belongs to one life of the server (`epoch`).
A statement of a check is one attempt of `soakQuery`; the balance identity is one
bit, `exact`. The compact, gc and fold loops and the writing of the result are in
`SoakLoops` and `ResultFile`.

### StoreCounters

The file is read slot by slot, because the store counts while it is copied. `Boot`
starts from zero; `Lose` is the time in which there is no valid file. `open`, `shut`
and `late` are history: what had been counted when the first snapshot began and was
complete, and when the second began.

### Provision

One state file, any number of runs, each against one of two stores, each killed
anywhere. The producer hands a ref to a worker only when one receives (the channel
is unbuffered); a worker goes through register, touch and setup, notes the outcome
and adds the ref under the state's mutex; the save is a write beside the file and a
rename. A step that fails may have had its effect. A save that fails takes its
worker with it, as in the code. The secret is compared in the same place as the
store and in the same way, and is part of the store's identity here.

### WireTpcb

`Run` dials its clients in order, each dial being a connection and the messages of
its startup, and then starts the loops. Connections are closed in the three places where
the code closes them: `Dial` closes one whose startup failed (`StartupFails`), a failed dial
closes those before it one by one (`Undial`, the loop over `conns[:i]`), and the deferred loop
closes all of them (`Deferred`), broken ones included. A client is in its loop, about to write, or
reading; `stmt` is the statement of its query, or the rollback. A query is written
in one step and its answer is read message by message, so that a connection can break,
or an unknown kind arrive, at every point of it. A message is its kind, and the kinds
`Query` skips are one. The deadline is looked at once per round, as in the code.

External: the server behind each connection with the state of its transaction. It
answers a statement, fails it (which aborts the transaction), fails a commit, breaks
the connection with any prefix of what it sent still to be read, or precedes an answer
by a message of an unknown kind. `commits`, `rounds` and `stray` are history.

The text of the statements, the draws and the value of a row decide nothing here: the
driver drops what `Query` returns. That `Query` takes the value of a later row when the
first one is null or empty is therefore not visible in this module.

### ResultPublished, ResultFile, SoakLoops

`SoakLoops` has one loop for each kind and phase (the load, then the segments): waiting,
in the middle of its command, or holding a sample it has not recorded. A segment closes
its stop channel and goes on, so loops of several phases are alive together; `select`
may take a tick although the channel is closed. `record` appends to a segment's timeline
and to `overs` under two locks, in two steps. `cmdSustain` reads the lists one lock at a
time and then marshals (`Marshal`), while loops still append: the figures are compared with
the lists in between, and with what was on them when the last segment was recorded (`kept`,
history). What the loops do after that reaches nothing, and `Forget` leaves it behind. zou's commands are external: they may do their work and fail all the same. `cut`
is history, what folds and collections really took out of the store and how much of it no
report told.

`ResultFile` has a step for every call on the disk: each may fail, the write may stop in the
middle, the removal of the part may fail unnoticed, and the process may be killed between
any two. `ResultPublished` is the promise in the comments above `writeResult`, over what a
collector sees only: the file under its name, stdout and the exit code. Printed means given
to stdout: the error of `Println` is ignored by the code. `ResultFile`
implements it (`SavesAtomically`) with the identity mapping; `.part` and the progress of the
save are what the abstraction hides.

### HttpLoad, FleetRun

`window` goes from the warmup to the measured window; `over` is its context, `tick` the one
slot of the ticker all clients share. A client is in its loop, has sent a request, or holds
what came back. `truth` is history. A body that breaks off is a sample, since the error of
`io.Copy` is dropped.

The server's counter is the series of status 200, the one `phase` reads. A request the server
takes is first in `late` and comes into `served` whenever the server gets to it: within the
window, after the client gave up, in the next phase, or never, when it restarts (`CountLate`,
`Restart`). `taken` and the fields of `phase` are history.

`FleetRun` runs the command several times: a node that an earlier run left keeps the ports,
and the health check is answered by whoever listens. `stop` signals its node in one step and
waits for it in another. `scrape` and `PhaseDelta` are the node's counters around a phase,
which span the warmup; as `fleet.Delta` has it, the difference is negative after a restart,
and a series missing from the second scrape is read as zero.

### RunCommand, Attach, Probe, Board, IdleHold, Quantiles, Commands

Each of the six, and `StoreCounters`, has its own variables, initial predicate and next-state
relation; `Commands` lets one of them run, as `main` does (the counters as the soak reads them).

`RunCommand` follows `cmdRun` mark by mark; traffic may come at any point, counted by the
stage it fell into (`did`), and the store may boot again. The archive of the logs may be
missing, broken off, or short of entries that could not be looked at, and a short one is still
named. `Attach` is a cycle of start, poll, query, interrupt and wait over a server that may die
at any time; `WaitReady` is satisfied by whoever listens on the socket. `Probe` runs the
script of requests, of which each is done, put off with or without its effect (a 500, 502 or
504 is retried and may have been done), or failed with or without its effect.
`Board` keeps the book and the page over invocations that may die anywhere, in the middle of
a write included. `IdleHold` samples a node that lets projects go, flushes after the gauge
has dropped, does work of its own and restarts; the piles are sums over the intervals that
go into them. `Quantiles` counts durations in histograms,
merges them, and reads percentiles in the five ways the code has: the histogram's, `pick` of
`latency`, `quantile` of attach, `pctl` of the probe, and `fleet.Quantile` over a node's buckets.

Left out: in `Board` the walk along a dotted path (a document is the paths that have a
number) and the layout; in `IdleHold` the division by hours and the rounding of times; in
`Quantiles` the floating point of `count * q`, which rounds to the exact share for the
quantiles asked for; in `Attach` a kill of the command itself.

## 3. Runs

All runs end in states without a successor, because a run of the program ends; the
cfg files therefore switch the deadlock check off, and the liveness properties take
its place.

| Run | Checks | Instance |
|---|---|---|
| `SocketRun` | `TypeOK`, `CountedOnce`, `OwedIsCommitted`, `MissingIsExact`, `CountersMatch`, `RampSettles`, `RunEnds` | 3 sockets on 2 shards (so a shard has a remainder), 1 dialler, one statement of two rows in the warmup or the window, 2 collectors, one refused socket, one lost connection, an interrupt |
| `SocketShards` | `WrittenShardsHaveSockets`, violated | 2 sockets, one refused |
| `SocketInterrupt` | `InterruptedRunWrites`, violated | 2 sockets, an interrupt |
| `SoakLedger` | `TypeOK`, `NoFalseAlarm`, `LossReported`, `CleanSoak` | two crash drills, 3 ids in chunks of 2 (a full and a partial one), one lost row, two attempts |
| `SoakNodes` | `RtoMeansRecovery`, `OneNode`, `SoakEnds` | the three drills once each, one failure of the node outside them |
| `Provision` | `ReadyIsProvisioned`, `OkMeansMade`, `ReadyKept`, `ProvisionReturns` | 3 tenants, 2 workers, 2 stores, 2 runs, two failing steps, one failing save |
| `WireTpcb` | `TypeOK`, `AnswersAreOwn`, `RoundsStartClean`, `TimedIsCommitted`, `NoConnLeft`, `RunReturns` | 2 clients, transactions of 3 statements (BEGIN, one, END), two rounds, two failing statements, one broken connection, one unknown message; the second dial may fail behind a first connection that is up or broken |
| `SoakLoops` | `PublishedIsJudged`, `CutIsCounted`, `SavesAtomically` | 2 segments and the load phase; three ticks of the compact loops, or two shared with the gc or the fold loop; a store inside and outside its bounds |
| `FleetRun` | `TypeOK`, `OutcomeIsTruth`, `DeltaExplained`, `NodesAccounted`, `FleetReturns` | 2 clients, 2 requests a phase, at a pace or not, with a warmup or not, 2 tenants with a working set of 1, 2 runs of the command called in three ways, one of them with `-keep-node`; the node counts late and restarts under a phase |
| `Commands` | `LinesAreOwn`, `AttachStops`, `ProbeCleans`, `BoardIsNewest`, `PilesAreHonest`, `PercentilesNearRank`, `NeverOverstates`, `ExactWithinBoot` | run: 4 units of work and a restart; attach: 2 cycles of 3 polls; probe: every request of a script with 2 samples and 2 large bodies, 2 attempts; dashboard: 3 claims, 5 results, 2 invocations of 2 files; hold: 4 s sampled each second, settle 0 or 2, drain 2, a flush of a second, 2 operations, a restart; percentiles: 3 durations of 10 at the edges of buckets and decades, 2 workers, 4 decades; counters: 2 slots in 2 segments, restarts under and between snapshots |
| `RunLoad` | `LoadOnItsOwn`, violated | a load and a warmup, 2 units of work |
| `ProvisionStuck` | `ProvisionReturns`, violated | as many failing saves as workers |

Why the bounds are enough: what the properties tell apart is a row before, inside and
after the window, a frame read before, during and after the tally, and a socket that
never came up, was lost, or stayed; each occurs in the instance, and the theorems
remove the bounds for six of the seven properties. For the soak, one kill per
kind and per position of a ledger write (not sent, committed, answered, acked) is
what there is to distinguish, and two drills let a loss of the first be seen by the
second. Two segments are enough for loops that outlive one, and three ticks for two samples
of one segment around one of another. Two requests of two clients put one inside a window
and one across its end; two runs of the fleet command let one find the other's node. Three
durations with quantiles of a half and above separate ranks, buckets and decades; more of
them repeat the same cases. For the driver, a statement that is first, last or neither is all `loop` and the
server tell apart, and the theorems remove the bounds. For provisioning, two stores and two runs give every file a run can find.

Each property has a mutant of the code under which TLC finds it violated
(definitions next to the ones they change, named in `PROJECT.json`).

### Fairness

- `SocketRun`: the ramp's goroutines, `Run`, each writer and the clock make progress.
  A dial has a timeout in the code; a join and a statement have none, so that they
  are answered is an assumption on the node and the database, not a property of the
  code.
- `Soak`: the main goroutine makes progress, time passes, pgbench ends and a killed
  process is reaped. Of the server it is only asked that a statement it took comes
  back, answered or broken (the wire client has no timeout).
- `Provision`: some step of the run is taken as long as one can be; the http request
  has a timeout, the two commands a worker runs have none and are taken to return.
- `FleetRun`: a window's context ends, a request sent comes back (the http client has a
  timeout), clients that can go on do, and the command takes the steps that are its own or
  have a deadline (`Bounded`: the health check gives up after a minute, a scrape after ten
  seconds, hold is a loop over the clock). Leaving the loop is strongly fair, because
  `select` chooses at random between a tick and the end of the context and does not choose
  the tick for ever. No fairness is asked where the code has no deadline: of provisioning,
  whose commands have none and whose producer can block (`ProvisionStuck`), and of
  `node.Wait()` while the node has not gone. `FleetReturns` therefore says that the command
  returns or waits in one of those two places for good.
- `SoakLoops` and `Commands` state safety only.
- `WireTpcb`: the goroutines make progress, the deadline passes, and a server that was
  asked answers, unless the connection breaks; the client has no timeout.

## 4. Theorems

Every safety invariant that a passing run checks, the action property and the refinement
are also theorems, for every value of the constants. The proof modules contain no assumption of their own: they use the
named `ASSUME`s of the modules they are about, which say what the code enforces before
it starts (a shape that `Run` accepts, targets that `LoadTargets` accepts, at least one
client) or that a bound is a number.

**`SocketRunProofs`**: `TypeCorrect` (`TypeOK`), `CountersCorrect` (`CountersMatch`),
`RampCorrect` (`RampSettles`), `DeliveriesCorrect` (`CountedOnce`), `ExpectationCorrect`
(`OwedIsCommitted`) and `MissingCorrect` (`MissingIsExact`), for every number of sockets,
shards, diallers, writers, collectors, rows and every length of the spans. None of the
invariants is inductive alone. The inductive invariant adds:

- `HandedInOrder`: ids are handed out in order and the producer has not passed the
  last one, without which a returned ramp could still have new ids;
- `WindowUnset`: until the window is stored no stamp falls into it;
- `BatchesApart`: statements are numbered, so no two batches share a row and a batch
  in flight is counted nowhere yet, which is what makes the counters sums of
  disjoint sets;
- `FramesApart`: a frame comes from a committed row, goes to a socket of its shard and
  is filed once; what was merged belongs to collectors already tallied;
- `Answered`: a statement is in flight only during a push, rows of the warmup are
  stamped before the window opens, and every committed row of the window is owed
  unless its answer is still to come or was lost.

`MissingCorrect` follows from these and from arithmetic the code relies on silently: the
quota the tally multiplies by, a quotient and a remainder, is the number of sockets that
joined a shard (`Quota`), and the frames of the rows of a shard are rows times sockets
(`FramesOnShard`), so the sum over the shards is the number of frames (`FramesOfRows`).

**`SoakProofs`**: `TypeCorrect`, `AlarmsAreTrue` (`NoFalseAlarm`), `LossesAreReported`
(`LossReported`), `RtoIsRecovery` (`RtoMeansRecovery`), `AtMostOneNode` (`OneNode`) and
`CleanMeansClean` (`CleanSoak`). `LedgerInv` is what makes an alarm true: an id is given
out once and acked only after its commit was answered, so a promised id that is missing
stays missing while the writer goes on. `ChunksInv` says that the chunks still to be asked
for hold every id that was missing when the check began, so none slips between two
chunks. `DrillInv` follows the drill in hand and `RecordInv` those recorded.

**`SoakLoopsProofs`**: `SavesCorrect` (`SavesAtomically`) is the refinement: the initial
states of `SoakLoops` map to initial states of `ResultPublished`, and each step, be it of
`writeResult`, of a loop, of a failure or of a kill, maps to a step of it or to a stutter.
`SaveInv` is needed for it: the document is nowhere until the save is over, the part is
whole when it is renamed, and the process leaves only with a document in place or printed.
`JudgedCorrect` (`PublishedIsJudged`) needs `TimelineInv`: a timeline is one ahead of its
flags exactly between the two halves of record, and the loop then holds that sample.
`CutsCorrect` (`CutIsCounted`) is a conservation law over the lists and over what the loops
hold, together with bounds on the figures read from them: `ReadInv` says that lists only
grow, so a figure is at least what was on its list when the last segment was recorded and at
most what is on it now. `TypeCorrect` says what each loop may hold where.

**`FleetRunProofs`**: `TypeCorrect`, `OutcomeCorrect` (`OutcomeIsTruth`), `DeltaCorrect`
(`DeltaExplained`) and `NodesCorrect` (`NodesAccounted`). `CountsInv` says that what the
clients have counted together is what came back to them, `DroppedInv` that who drops an
answer leaves, `TakenInv` bounds what the server has taken since the measured window began by
the answers with 200 counted or on their way, the failures and the answers dropped, and
`LedgerInv` that what it has taken is in its count or owed to it, until it restarts: after
that a count can only fall short. `NodeInv` follows the node from start to `node.Wait()`.

**`ProvisionProofs`**: `TypeCorrect`, `ReadyAreProvisioned` (`ReadyIsProvisioned`), `OkIsMade`
(`OkMeansMade`) and the action property `ReadyIsKept` (`ReadyKept`). `WorkerInv` says what a
worker has behind it at each of its steps and that one that saves has its tenant in
`State.have`; `FileInv` that the file names nobody the run does not have, which is why a
save never forgets; `TallyInv` that every tenant is waiting, in a worker's hands, ready or
failed, and that a failure has been counted or is about to be.

**`WireTpcbProofs`**: `TypeCorrect`, `AnswersCorrect` (`AnswersAreOwn`), `CleanStartCorrect`
(`RoundsStartClean`), `TimingCorrect` (`TimedIsCommitted`) and `CloseCorrect` (`NoConnLeft`),
without a bound on rounds, failures, breaks and strays. The core, `UpInv`, says what a
query in progress looks like: it is with the server and the transaction is where the
statement expects it, or a good answer is being read and the transaction has moved on, or
an error is. `DownInv` says what is left of that when the connection broke: a commit may
be untimed, but if the whole good answer to END is there it still will be timed.
`MainInv` ties both to where `Run` is, and says how far each of the loops that close has come,
which is what `CloseCorrect` rests on; `ReadyLast` says that startup leaves nothing unread.

**`CommandsProofs`**: `LinesCorrect` (`LinesAreOwn`), `AttachCorrect` (`AttachStops`),
`BoardCorrect` (`BoardIsNewest`), `ProbeCorrect` (`ProbeCleans`), `HoldCorrect`
(`PilesAreHonest`), `PercentilesCorrect` (`PercentilesNearRank`), `DeltaBounded`
(`NeverOverstates`) and `DeltaExact` (`ExactWithinBoot`). For run, `MarksInv` says what the difference of two marks stands for at
each stage, and that no work is booked for a stage still to come. For the dashboard,
`BookOf` strengthens the property to any set of results and `MergeKeeps` proves it of one
more file; it also gives the book's domain, without which a reading nobody answered for
could stay. For the probe, `ScriptTidy` is about the script itself: joined from its parts, it
deletes every key it puts and none before it is put; the request in hand may already have
been done by an attempt that was put off. For the counters, `SnapshotInv` says
for each slot already read what the snapshot can have missed.

For the hold, `HoldInv` keeps for every sample that the counters since it grew by at most
the work done since it, and by exactly that much without a restart (`SampleOk`); that
after a sample which saw nothing attached no work is a project's (`GoneOk`) and none is a
flush once the flush is over (`FlushOk`); and the same between consecutive samples
(`BetweenOk`). From there the argument is about the published figures: each interval is in
one pile (`Piled`), so the piles make up the window (`WindowAddsUp`, a telescoping sum), the
operations of a pile are bounded interval by interval (`PileOps`), and an interval called
dormant starts after the drain, so what was done in it is the node's own
(`DormantIsOwn`). `AfterIsSuffix` shows that the suffix the model takes for `After` is what
the filter in the code keeps.

For the percentiles, `HistInv` says that every figure of the histograms together (a
bucket, the total, what is past the top) is the number of durations measured that belong
to it, whichever worker measured them (`HistCounts`), and that the run's histogram is the sum
of those merged so far, with extremes that enclose theirs (`MergeCounts`); one more duration
and one more merge keep it (`AddIs`, `MergeIs`). Reading rests on the arithmetic of buckets:
the scales are the powers of ten (`ScaleIs`: the recursion is shown to have a solution), a
bucket's bound is not below any duration in it and at most a hundredth above
(`UpperIs`), the cap of `index` on the place within a decade never acts (`IndexIs`), and
buckets are in the order of durations (`IndexGrows`). `RankIs` characterises the element
of a rank, `BucketsHold` counts the durations up to a bucket, so the rank falls into the
bucket of the nearest rank or past all of them (`HistReads`), and `ShareIs` relates the
ceiling of one reader to the floors of others.

**`SumsProofs`** is the library the others share: what `SumFunctionOnSet` of the community
modules returns over a finite set (`SumStep`, `SumTake`, `SumChange`, `SumPlus`, `SumAtMost`,
`SumOnes`, `SumParts`, `SumAppend`, `SumUnion`, `SumGroups`, `Telescope`), that `Max` and `Min`
of a finite set of numbers are in it (`Extremes`), and that quotient and remainder are
unique (`EuclidUnique`). An induction over finite sets cannot be stated to this
prover with an operator parameter, so each of these is proved by looking at a smallest
counterexample (`SmallestSubset`, from the well-foundedness of strict inclusion).

Only model-checked: all liveness (`RunEnds`, `SoakEnds`, `ProvisionReturns`, `RunReturns`,
`FleetReturns`), because fairness and `ENABLED` are out of the prover's reach.

## 5. Where the code and the repository disagree

Runs with the expected outcome "violation" and their findings in `PROJECT.json`:

- `WrittenShardsHaveSockets`: the shards written to are the first so many, not those
  with a socket.
- `InterruptedRunWrites`: an interrupted run exits before it writes its result.
- `ProvisionReturns`: when every worker met a failing save, `provision` hangs.
- `LoadOnItsOwn`: the load block of run.go, "What loading the data cost, on its own", is the
  difference of a mark before the load and one after the warmup. `LinesAreOwn` says what does
  hold: the load line has nothing of the timed window in it.

Defined in the MC modules beside these and violated as well, when named as the
invariant of the cfg given: `PushReturns` (`SocketInterrupt.cfg` with `MaxLost = 2`: with the
last socket lost between two reads of `held` the writers walk an empty list of shards and
divide by zero), `DropsShow` (`SocketInterrupt.cfg` with `InsertErrors = TRUE`
and `MaxStatements = 2`: a row committed without an answer makes up for a dropped
frame, so `deliveries_missing` is zero), `RtoFromKill` (`SoakNodes.cfg`: the clock of
a pusher drill starts before the lookup), `KilledSegmentsDropped` (`Commands.cfg`: a
restart that has counted past the first snapshot is not seen), `FileNamesEveryReady`,
`SetupBeforeRequest`, `FailuresCounted` (`Provision.cfg`: a dropped save error, the
order of setup and request in the README, a count capped at five), `FineBeforeRollback`
and `NoQuietHalving` (`WireTpcb.cfg`; tpcb.go:143 says that the connection is fine before
a rollback, since `Query` only returns after ReadyForQuery, but it also returns when the
connection broke and at an unknown kind; tpcb.go:62 says that clients must not quietly
halve, but `Run` returns no error when a client has given up).

Also, from the modules added later:

- `LosingMeansSwept` (`SoakLoops.cfg`): sustain.go:822 says that a failed sweep drops the
  sample, and `BoundHeld` reads two samples over the bound as a sweep that did not help;
  `compactLoop` ignores the sweep's error and takes the sample.
- `KeysDeleted` (`Commands.cfg`): the comment on `probe.Run` says that every key is deleted
  before it returns; an error returns early and leaves keys. `ProbeCleans` says which.
- `RealIsKept` (`Commands.cfg`): the page says that a simulated number holds a place until a
  real one replaces it; a newer simulated result replaces a real one.
- `OrderIsNothing` (`Commands.cfg`): of two results of one date the later file wins, although
  the page "should not depend on which came first on the command line".
- `DrainIsLeftOut` (`Commands.cfg`): when the last attached sample falls into the settle time,
  `Rates` never sees it and the drain after it counts as dormant.

Seen while modelling, and written into the properties as the code has it: the fleet command
dies on an unknown price card without stopping its node, and `waitHealthy` accepts whoever
listens (`NodesAccounted`); the node's counters of a phase span its warmup
(`DeltaExplained`); `fleet.Quantile` does not see durations above the last finite bound, and
`pick` may be one rank above the nearest, and attach's `quantile`, which its comment calls "the
smallest measured value at or above the asked rank", may be one below, as for p95 of three
cycles (`PercentilesNearRank`); the timed window of the store begins before the server's and
ends after it, where run.go:156-160 has them cover the same seconds (`LinesAreOwn`); an archive
of logs may lack files and is published all the same (`KeepLogs`); a node that ignores its
signal keeps the fleet command waiting (`FleetReturns`); the page is written before the book,
and a torn book stops every later invocation (`Board`).

## 6. Plan

Modelled: all of the plan, that is `SocketRun`, `Soak`, `StoreCounters`, `Provision`,
`WireTpcb`, `SoakLoops` with `ResultFile`, `FleetRun` with `HttpLoad`, and `Commands`. Proved:
the theorems of section 4, which leave none of the invariants. What could follow: the
timeouts two hazards in `PROJECT.json` are without a property for, once the code has them
(the join and the wire client wait without a deadline).

## 7. Not modelled

Parsing and printing (scenarios, pgbench output, pgstats, report, environment, the text of
gc and fold reports, the node's metrics), the cost arithmetic, the process and system
samplers, and the websocket framing: they decide nothing that another part depends on, or
are conversions without state. `checkpointLoop` records nothing. The lock on a workdir is
one `flock`, whose exclusion is the kernel's. Request signing and tokens are computed from
their inputs.

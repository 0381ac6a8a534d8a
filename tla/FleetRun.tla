------------------------------ MODULE FleetRun ------------------------------
(***************************************************************************)
(* The fleet command (cmd/zoubench/fleet.go: cmdFleet, startServe,         *)
(* waitHealthy) around the load generator of fleet/fleet.go, which is      *)
(* resthttp's with a tenant drawn for every request (HttpLoad).  The       *)
(* command starts a node, provisions it, and runs the phases it was asked  *)
(* for, reading the node's own counters on both sides of each; every       *)
(* error on the way takes the node down before it exits.                   *)
(*                                                                         *)
(* Somebody may start the command again: a node left behind by an earlier  *)
(* run keeps the ports, the new one cannot have them and goes away, and    *)
(* the health check is answered by whoever listens.  Provisioning itself   *)
(* is in Provision; the hold phase sends nothing, and what it computes is  *)
(* in IdleHold.                                                            *)
(***************************************************************************)
EXTENDS HttpLoad

CONSTANTS
  Options,     \* how the command may be called: the phases wanted, whether to keep
               \* the node, whether there is a rate and a warmup
  WorkingSet,  \* scenario.working_set
  MaxRuns      \* bound on the runs of the command

ASSUME FleetRunAssumption ==
  /\ Options \subseteq [want : SUBSET {"provision", "steady", "hold", "churn"},
                        keep : BOOLEAN, rated : BOOLEAN, warmup : BOOLEAN]
  /\ WorkingSet \in Nat /\ MaxRuns \in Nat

VARIABLES
  pc,         \* where cmdFleet is
  opt,        \* the flags and the scenario of this run
  ready,      \* state.Ready: how many tenants the state file has
  node,       \* external: whose node listens: "none", "own" or an "old" run's
  alive,      \* external: this run's node is running
  runs,       \* runs started
  stopped,    \* stop() has signalled the node
  then,       \* where the command goes when node.Wait() has returned
  scrape,     \* the node's count when the phase began
  block,      \* the block of the phase that has just ended
  phase,      \* history of the phase: late when it began, taken when the measured
              \* window began, and whether the node has restarted
  leftBy      \* history: why earlier runs left their nodes

cmdVars == <<pc, opt, ready, node, alive, runs, stopped, then, scrape, block, phase, leftBy>>
vars    == <<loadVars, cmdVars>>

\* The phases in their order.
Order == <<"provision", "steady", "hold", "churn", "price", "write">>
Driven == {"steady", "churn"}
NoOptions == [want |-> {}, keep |-> FALSE, rated |-> FALSE, warmup |-> FALSE]
NoPhase == [owed |-> 0, warm |-> 0, restarted |-> FALSE]
NoBlock == [read |-> FALSE, delta |-> 0, ok |-> 0, loose |-> 0, unpaid |-> 0, of |-> NoPhase]

Init ==
  /\ LoadInit
  /\ pc = "exited" /\ opt = NoOptions /\ ready = 0
  /\ node = "none" /\ alive = FALSE /\ runs = 0 /\ stopped = FALSE /\ then = "exited"
  /\ scrape = 0 /\ block = NoBlock /\ phase = NoPhase /\ leftBy = {}

-----------------------------------------------------------------------------
(* Starting, stopping and dying.                                           *)

\* startServe.  A node that finds its ports taken exits.
StartServe ==
  /\ pc = "exited" /\ runs < MaxRuns
  /\ pc' = "health" /\ runs' = runs + 1 /\ stopped' = FALSE /\ block' = NoBlock
  /\ opt' \in Options
  /\ alive' = (node = "none") /\ node' = (IF node = "none" THEN "own" ELSE "old")
  /\ UNCHANGED <<ready, then, scrape, phase, leftBy, loadVars>>

\* The process is gone, with what it has not written; a node it did not stop
\* is somebody else's from now on.
Gone(why) ==
  /\ pc' = "exited" /\ block' = NoBlock
  /\ leftBy' = IF alive THEN leftBy \cup {why} ELSE leftBy
  /\ UNCHANGED <<opt, ready, node, alive, runs, stopped, then, scrape, phase, loadVars>>

\* What the process can say for a node it leaves behind stop.
Why == IF opt.keep THEN "keep" ELSE "error"

\* stop(), and on: once, and not when the node is to be kept, it signals the
\* node and waits for it.
Stop(next) ==
  /\ ~stopped /\ ~opt.keep
  /\ pc' = "wait" /\ then' = next /\ stopped' = TRUE
  /\ UNCHANGED <<opt, ready, node, alive, runs, scrape, block, phase, leftBy, loadVars>>

\* node.Wait() returns: the node is gone, and its counters with it, unless it
\* was not this run's that had the ports.
Waited ==
  /\ pc = "wait" /\ pc' = then /\ alive' = FALSE
  /\ IF alive THEN node' = "none" /\ served' = 0 /\ late' = 0
              ELSE UNCHANGED <<node, served, late>>
  /\ UNCHANGED <<opt, ready, runs, stopped, then, scrape, block, phase, leftBy, refs, paced,
                 window, over, tick, client, out, sends, taken, truth>>

\* Mutant of Fatal: the error is returned with the node up.
FatalNoStop == Gone("error")

\* An error the command foresees: stop, then die.
Fatal == Stop("fatal") \/ ((stopped \/ opt.keep) /\ Gone(Why))

\* die, behind a node that has been waited for.
Dies == pc = "fatal" /\ Gone(Why)

\* waitHealthy: anybody's answer will do.
Healthy ==
  /\ pc = "health" /\ node # "none"
  /\ pc' = "provision"
  /\ UNCHANGED <<opt, ready, node, alive, runs, stopped, then, scrape, block, phase, leftBy,
                 loadVars>>

NotHealthy == pc = "health" /\ Fatal

\* The next phase in order that was asked for; pricing and writing always
\* follow.
NextPhase(p) ==
  LET i == CHOOSE k \in DOMAIN Order : Order[k] = p
  IN  Order[CHOOSE j \in DOMAIN Order :
              /\ j > i /\ Order[j] \in opt.want \cup {"price", "write"}
              /\ \A k \in i + 1 .. j - 1 : Order[k] \notin opt.want \cup {"price", "write"}]

\* Provisioning adds tenants; it may fail, and may never come back
\* (Provision, ProvisionStuck).
Provisioned ==
  /\ pc = "provision" /\ "provision" \in opt.want
  /\ ready' = Tenants /\ pc' = NextPhase(pc)
  /\ UNCHANGED <<opt, node, alive, runs, stopped, then, scrape, block, phase, leftBy, loadVars>>

ProvisionFails ==
  /\ pc = "provision" /\ "provision" \in opt.want /\ Fatal

\* Phases that do not drive the node: provisioning when it is not asked for,
\* and hold, which waits.
NoProvision ==
  /\ pc = "provision" /\ "provision" \notin opt.want /\ pc' = NextPhase(pc)
  /\ UNCHANGED <<opt, ready, node, alive, runs, stopped, then, scrape, block, phase, leftBy,
                 loadVars>>

Hold ==
  /\ pc = "hold" /\ pc' = NextPhase(pc)
  /\ UNCHANGED <<opt, ready, node, alive, runs, stopped, then, scrape, block, phase, leftBy,
                 loadVars>>

-----------------------------------------------------------------------------
(* A phase.                                                                *)

\* Mutant of Width: the working set is taken for granted.
WidthUnclamped == IF pc = "churn" \/ WorkingSet <= 0 THEN ready ELSE WorkingSet

\* The width of the working set, or all of what is ready.
Width == IF pc = "churn" \/ WorkingSet <= 0 \/ WorkingSet > ready THEN ready ELSE WorkingSet

\* Drive refuses an empty set of tenants.
PhaseFails ==
  /\ pc \in Driven /\ window = "none" /\ Width = 0
  /\ Fatal

\* Drive: a tenant is drawn from these for every request.
Drive == StartLoad(1..Width, opt.rated, opt.warmup)

\* The counters are read, and the generator starts.
StartPhase ==
  /\ pc \in Driven /\ window = "none" /\ Width > 0
  /\ Drive
  /\ scrape' = served /\ block' = NoBlock /\ phase' = [NoPhase EXCEPT !.owed = late]
  /\ UNCHANGED <<pc, opt, ready, node, alive, runs, stopped, then, leftBy>>

\* The generator at work.
While(Step) ==
  /\ pc \in Driven /\ InWindow /\ Step
  /\ phase' = IF window = "warm" /\ window' = "measure" THEN [phase EXCEPT !.warm = taken]
                                                      ELSE phase
  /\ UNCHANGED <<pc, opt, ready, node, alive, runs, stopped, then, scrape, block, leftBy>>

DriveStep == While(LoadStep)

\* External: the node counts what it has answered, in this phase or later.
NodeCounts ==
  /\ node # "none" /\ CountLate /\ UNCHANGED cmdVars

\* External: the node restarts in the middle of a phase.
NodeRestarts ==
  /\ pc \in Driven /\ window # "none" /\ Restart
  /\ phase' = [phase EXCEPT !.restarted = TRUE]
  /\ UNCHANGED <<pc, opt, ready, node, alive, runs, stopped, then, scrape, block, leftBy>>

\* A phase's block.  loose, unpaid and of are history: how many answers there
\* may be that nobody counted, and what the node has not counted yet.
Block(scraped, delta) ==
  [read |-> scraped, delta |-> delta, ok |-> out.ok,
   loose |-> truth.dropped + truth.failed, unpaid |-> late, of |-> phase]

\* Mutant of PhaseDelta: the counters are the node's, not the phase's.
NodeTotal == {served}

\* fleet.Delta of the two scrapes, at the series of status 200: a series that
\* is not in the second one, as when nothing has been counted since a restart,
\* has no difference, and is read as zero.
PhaseDelta == {served - scrape} \cup {n \in {0} : served = 0}

\* The counters are read again and the block is written, without them when a
\* scrape failed.
EndPhase ==
  /\ pc \in Driven /\ window = "done"
  /\ \/ \E d \in PhaseDelta : block' = Block(TRUE, d)
     \/ block' = Block(FALSE, 0)
  /\ pc' = NextPhase(pc) /\ LoadReset
  /\ scrape' = 0 /\ phase' = NoPhase
  /\ UNCHANGED <<served, late, opt, ready, node, alive, runs, stopped, then, leftBy>>

-----------------------------------------------------------------------------
(* The end.                                                                *)

\* Pricing, then stop(); a card that cannot be found dies where it stands.
Priced ==
  /\ pc = "price"
  /\ \/ Stop("write")
     \/ /\ stopped \/ opt.keep
        /\ pc' = "write"
        /\ UNCHANGED <<opt, ready, node, alive, runs, stopped, then, scrape, block, phase,
                       leftBy, loadVars>>

NoCard == pc = "price" /\ "hold" \in opt.want /\ Gone("card")

\* The result is written, or cannot be: the node is down by then.
WriteOut == pc = "write" /\ Gone(Why)

\* What the command does by itself, or waits for with a deadline: the health
\* check gives up after a minute, a scrape after ten seconds, and hold is a
\* loop over the clock.
Bounded ==
  \/ Healthy \/ NotHealthy \/ NoProvision \/ Hold \/ StartPhase \/ PhaseFails \/ EndPhase
  \/ Priced \/ NoCard \/ WriteOut \/ Dies

Next ==
  \/ StartServe \/ Provisioned \/ ProvisionFails \/ Waited
  \/ Bounded \/ DriveStep \/ NodeCounts \/ NodeRestarts

Spec == Init /\ [][Next]_vars

\* Goroutines are scheduled, the context of a window ends, and a request has a
\* timeout; select takes the end of the context sooner or later.  Nothing
\* bounds provisioning, whose commands have no timeout, and nothing the wait
\* for a node that has been signalled and does not go.
Fairness ==
  /\ WF_vars(Bounded) /\ WF_vars(Waited /\ ~alive)
  /\ WF_vars(While(Expire)) /\ WF_vars(While(WarmupDone \/ DriveDone))
  /\ \A c \in Clients : /\ WF_vars(While(Serve(c) \/ Fail(c))) /\ WF_vars(While(Return(c)))
                        /\ SF_vars(While(Leave(c)))

FairSpec == Spec /\ Fairness

-----------------------------------------------------------------------------
(* Properties.                                                             *)

\* Where the command and its node may be; a phase draws from tenants that are
\* ready.
TypeOK ==
  /\ LoadTypeOK
  /\ pc \in {"exited", "health", "provision", "steady", "hold", "churn", "price", "wait",
           "fatal", "write"}
  /\ node \in {"none", "own", "old"} /\ alive \in BOOLEAN /\ stopped \in BOOLEAN
  /\ ready \in 0..Tenants /\ refs \subseteq 1..ready /\ runs \in 0..MaxRuns
  /\ block.delta \in Int /\ block.ok \in Nat

\* The node's own count of a phase and the harness's of the answers with 200
\* differ by the warmup, which the scrapes span, by what the node counted late
\* and by requests that the end of a window or an error kept the harness from
\* counting: unless the node has restarted, never by more and never the other
\* way round.  A restart only takes away from the node's count, and a count
\* below zero shows that there was one (phase: the two scrapes around Drive).
DeltaExplained ==
  block.read =>
    LET extra == block.delta - block.ok - block.of.warm - block.of.owed
    IN  /\ extra <= block.loose
        /\ ~block.of.restarted => extra + block.unpaid \in 0..block.loose
        /\ block.delta < 0 => block.of.restarted

\* A run leaves its node running only when it was told to, or when a price
\* card cannot be found; and only then does a later run measure a node that
\* it did not start (stop, the fatal exits, waitHealthy).
NodesAccounted ==
  /\ leftBy \subseteq {"keep", "card"}
  /\ pc \in {"provision", "steady", "hold", "churn", "price"} /\ ~alive => leftBy # {}

\* The command waits for what may never come.
Unbounded == (pc = "provision" /\ "provision" \in opt.want) \/ (pc = "wait" /\ alive)

\* The command comes to an end, whatever the node answers and whenever the
\* windows close, unless provisioning never returns or a node does not go when
\* it is told to (cmdFleet: drive's wg.Wait behind the contexts of its windows).
FleetReturns == []<>(pc = "exited") \/ <>[]Unbounded
=============================================================================

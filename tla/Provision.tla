----------------------------- MODULE Provision -----------------------------
(***************************************************************************)
(* Provisioning a fleet (cmd/zoubench/fleet.go: provision, register,       *)
(* touch, applySetup; fleet/state.go: LoadState, Has, Add, save).          *)
(*                                                                         *)
(* A run hands the tenants that are not ready to a pool of workers over an *)
(* unbuffered channel; each is registered, touched over http and given its *)
(* schema, and is then written into the state file, which the next run     *)
(* starts from.  A run may be killed between any two steps.                *)
(*                                                                         *)
(* External: the store, in which the steps of a tenant take effect, also   *)
(* when they report a failure.  A state file is told apart by the store it *)
(* was written for; the jwt secret is compared in the same place and in    *)
(* the same way, and is part of that identity here.                        *)
(***************************************************************************)
EXTENDS Integers, FiniteSets, FiniteSetsExt

CONSTANTS
  Tenants,       \* scenario.tenants: the refs are 1 .. Tenants
  Jobs,          \* the workers
  FailureCap,    \* how many failures are kept, 5 in the code
  Stores,        \* the stores a run may be pointed at
  MaxRuns,       \* bound on the runs
  MaxErrors,     \* bound on the steps that fail
  MaxSaveFails,  \* bound on the saves that fail
  NoStore, NoWorker

ASSUME ProvisionAssumption ==
  /\ Tenants \in Nat \ {0} /\ Jobs \in Nat \ {0} /\ FailureCap \in Nat \ {0}
  /\ MaxRuns \in Nat /\ MaxErrors \in Nat /\ MaxSaveFails \in Nat
  /\ NoStore \notin Stores /\ NoWorker \notin 1..Jobs

VARIABLES
  done,      \* external: the steps each tenant of each store has been through
  file,      \* the state file: the store it names and the refs ready in it
  torn,      \* the state file is half written
  store,     \* the store of this run
  pc,        \* where provision is
  todo,      \* the refs still to be handed out
  worker,    \* each worker: where it is, its ref, and whether a step failed
  lock,      \* who holds State.mu
  have,      \* State.have, and State.Ready
  made,      \* len(createMS)
  failed,    \* len(failed)
  runs, errors, saveFails,   \* how much of each bound is used
  failures   \* history: tenants of this run a step of which failed

fileVars == <<file, torn>>
runVars  == <<store, pc, todo, worker, lock, have, made, failed, failures>>
useVars  == <<runs, errors, saveFails>>
vars     == <<done, fileVars, runVars, useVars>>

Refs == 1..Tenants
Workers == 1..Jobs
Steps == {"register", "touch", "setup"}

\* register, touch and applySetup, in the order provision calls them.
After == [register |-> "touch", touch |-> "setup", setup |-> "note"]

Idle == [pc |-> "idle", ref |-> 0, err |-> FALSE]
NoFile == [store |-> NoStore, ready |-> {}]

\* A process that has just been started, or is not there.
Fresh(s, at) ==
  /\ store' = s /\ pc' = at
  /\ todo' = {} /\ worker' = [w \in Workers |-> Idle] /\ lock' = NoWorker
  /\ have' = {} /\ made' = 0 /\ failed' = 0 /\ failures' = {}

Init ==
  /\ done = [s \in Stores |-> [r \in Refs |-> {}]]
  /\ file = NoFile /\ torn = FALSE
  /\ store = NoStore /\ pc = "down" /\ todo = {}
  /\ worker = [w \in Workers |-> Idle] /\ lock = NoWorker
  /\ have = {} /\ made = 0 /\ failed = 0 /\ failures = {}
  /\ runs = 0 /\ errors = 0 /\ saveFails = 0

\* Somebody runs the command against a store.
Start(s) ==
  /\ pc \in {"down", "ok", "error"} /\ runs < MaxRuns
  /\ Fresh(s, "load")
  /\ runs' = runs + 1
  /\ UNCHANGED <<done, fileVars, errors, saveFails>>

\* Mutant of Refused: whose store the file describes is not looked at.
RefusedOnlyTorn == torn

\* A state file that does not parse or names another store is refused.
Refused == torn \/ (file.store # NoStore /\ file.store # store)

\* LoadState, and the refs it does not have.
Load ==
  /\ pc = "load"
  /\ IF Refused
     THEN pc' = "down" /\ UNCHANGED <<have, todo>>
     ELSE pc' = "hand" /\ have' = file.ready /\ todo' = Refs \ file.ready
  /\ UNCHANGED <<done, fileVars, store, worker, lock, made, failed, failures, useVars>>

\* work <- ref: the channel has no buffer, so a worker must be receiving.
Hand(w) ==
  /\ pc = "hand" /\ todo # {} /\ worker[w].pc = "idle"
  /\ worker' = [worker EXCEPT ![w] = [pc |-> "register", ref |-> Min(todo), err |-> FALSE]]
  /\ todo' = todo \ {Min(todo)}
  /\ UNCHANGED <<done, fileVars, store, pc, lock, have, made, failed, failures, useVars>>

CloseWork ==
  /\ pc = "hand" /\ todo = {}
  /\ pc' = "closed"
  /\ UNCHANGED <<done, fileVars, store, todo, worker, lock, have, made, failed, failures,
                 useVars>>

\* A step of a tenant takes effect in the store.
Effect(w) ==
  done' = [done EXCEPT ![store][worker[w].ref] = @ \union {worker[w].pc}]

StepOK(w) ==
  /\ worker[w].pc \in Steps
  /\ Effect(w)
  /\ worker' = [worker EXCEPT ![w].pc = After[@]]
  /\ UNCHANGED <<fileVars, store, pc, todo, lock, have, made, failed, failures, useVars>>

\* A step that fails may have taken effect; the steps after it are skipped.
StepFails(w) ==
  /\ worker[w].pc \in Steps /\ errors < MaxErrors
  /\ Effect(w) \/ UNCHANGED done
  /\ worker' = [worker EXCEPT ![w].pc = "note", ![w].err = TRUE]
  /\ failures' = failures \union {worker[w].ref}
  /\ errors' = errors + 1
  /\ UNCHANGED <<fileVars, store, pc, todo, lock, have, made, failed, runs, saveFails>>

\* Mutant of Note: a worker whose tenant failed returns.
NoteReturns(w) ==
  /\ worker[w].pc = "note"
  /\ IF worker[w].err
     THEN /\ failed' = IF failed < FailureCap THEN failed + 1 ELSE failed
          /\ worker' = [worker EXCEPT ![w].pc = "gone"]
          /\ UNCHANGED made
     ELSE /\ made' = made + 1
          /\ worker' = [worker EXCEPT ![w].pc = "add"]
          /\ UNCHANGED failed
  /\ UNCHANGED <<done, fileVars, store, pc, todo, lock, have, failures, useVars>>

\* The outcome is noted, and only a tenant without a failure goes on.
Note(w) ==
  /\ worker[w].pc = "note"
  /\ IF worker[w].err
     THEN /\ failed' = IF failed < FailureCap THEN failed + 1 ELSE failed
          /\ worker' = [worker EXCEPT ![w].pc = "idle"]
          /\ UNCHANGED made
     ELSE /\ made' = made + 1
          /\ worker' = [worker EXCEPT ![w].pc = "add"]
          /\ UNCHANGED failed
  /\ UNCHANGED <<done, fileVars, store, pc, todo, lock, have, failures, useVars>>

\* Add, under State.mu: the ref is ready in memory before it is saved.
Add(w) ==
  /\ worker[w].pc = "add" /\ lock = NoWorker
  /\ IF worker[w].ref \in have
     THEN worker' = [worker EXCEPT ![w].pc = "idle"] /\ UNCHANGED <<lock, have>>
     ELSE /\ lock' = w
          /\ have' = have \union {worker[w].ref}
          /\ worker' = [worker EXCEPT ![w].pc = "write"]
  /\ UNCHANGED <<done, fileVars, store, pc, todo, made, failed, failures, useVars>>

\* Mutant of WriteTmp: the state file is written in place.
WriteTmpInPlace(w) ==
  /\ worker[w].pc = "write"
  /\ torn' = TRUE
  /\ worker' = [worker EXCEPT ![w].pc = "rename"]
  /\ UNCHANGED <<done, file, store, pc, todo, lock, have, made, failed, failures, useVars>>

\* save: everything is written beside the file, which is then replaced.
WriteTmp(w) ==
  /\ worker[w].pc = "write"
  /\ worker' = [worker EXCEPT ![w].pc = "rename"]
  /\ UNCHANGED <<done, fileVars, store, pc, todo, lock, have, made, failed, failures, useVars>>

Rename(w) ==
  /\ worker[w].pc = "rename"
  /\ file' = [store |-> store, ready |-> have] /\ torn' = FALSE
  /\ lock' = NoWorker
  /\ worker' = [worker EXCEPT ![w].pc = "idle"]
  /\ UNCHANGED <<done, store, pc, todo, have, made, failed, failures, useVars>>

\* A save that fails is told to nobody, and its worker returns.
SaveFails(w) ==
  /\ worker[w].pc \in {"write", "rename"} /\ saveFails < MaxSaveFails
  /\ saveFails' = saveFails + 1
  /\ lock' = NoWorker
  /\ worker' = [worker EXCEPT ![w].pc = "gone"]
  /\ UNCHANGED <<done, fileVars, store, pc, todo, have, made, failed, failures, runs, errors>>

\* Mutant of AllOver: the channel being empty is taken for the work being
\* done.
AllOverEarly == pc = "closed"

\* wg.Wait: a worker returns when the channel is closed and drained.
AllOver == pc = "closed" /\ \A w \in Workers : worker[w].pc \in {"idle", "gone"}

Return ==
  /\ AllOver
  /\ pc' = IF failed > 0 THEN "error" ELSE "ok"
  /\ UNCHANGED <<done, fileVars, store, todo, worker, lock, have, made, failed, failures,
                 useVars>>

\* The process is killed: what it had in memory is gone.
Crash ==
  /\ pc \in {"load", "hand", "closed"}
  /\ Fresh(NoStore, "down")
  /\ UNCHANGED <<done, fileVars, useVars>>

RunStep ==
  \/ Load \/ CloseWork \/ Return
  \/ \E w \in Workers : Hand(w) \/ StepOK(w) \/ Note(w) \/ Add(w) \/ WriteTmp(w) \/ Rename(w)

Next ==
  \/ \E s \in Stores : Start(s)
  \/ RunStep
  \/ \E w \in Workers : StepFails(w) \/ SaveFails(w)
  \/ Crash

Spec == Init /\ [][Next]_vars

\* A run that is not killed gets to run, and what its workers wait for
\* answers: the request times out, the two commands have no timeout and are
\* taken to return.
FairSpec == Spec /\ WF_vars(RunStep)

-----------------------------------------------------------------------------

TypeOK ==
  /\ done \in [Stores -> [Refs -> SUBSET Steps]]
  /\ file \in [store : Stores \union {NoStore}, ready : SUBSET Refs] /\ torn \in BOOLEAN
  /\ store \in Stores \union {NoStore}
  /\ pc \in {"down", "load", "hand", "closed", "ok", "error"}
  /\ todo \in SUBSET Refs
  /\ worker \in [Workers -> [pc : Steps \union {"idle", "note", "add", "write", "rename", "gone"},
                             ref : 0..Tenants, err : BOOLEAN]]
  /\ lock \in Workers \union {NoWorker}
  /\ have \in SUBSET Refs /\ made \in Nat /\ failed \in 0..FailureCap
  /\ runs \in Nat /\ errors \in Nat /\ saveFails \in Nat
  /\ failures \in SUBSET Refs

Provisioned(s) == {r \in Refs : done[s][r] = Steps}

\* The state file, and what a run takes over from it, name only tenants
\* that have been through every step in the store they are named for,
\* however runs are killed, restarted and pointed at other stores.
ReadyIsProvisioned ==
  /\ file.store # NoStore => file.ready \subseteq Provisioned(file.store)
  /\ pc \in {"hand", "closed", "ok", "error"} => have \subseteq Provisioned(store)

\* A kill in the middle of a save leaves the state before it: a file that
\* can be read never becomes one that cannot, never changes its store and
\* never forgets a tenant.
ReadyKept ==
  [][/\ ~torn'
     /\ file.store # NoStore => file'.store = file.store /\ file.ready \subseteq file'.ready]_vars

\* A run that reports success has made every tenant that was not there, and
\* one that reports an error has met one.
OkMeansMade ==
  /\ pc = "ok" => Refs = Provisioned(store) /\ Refs = have /\ failures = {}
  /\ pc = "error" => failures # {}

\* A run that is not killed comes to an end.
ProvisionReturns == (pc = "load") ~> (pc \in {"down", "ok", "error"})
=============================================================================

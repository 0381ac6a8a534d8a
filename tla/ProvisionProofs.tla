-------------------------- MODULE ProvisionProofs --------------------------
(***************************************************************************)
(* Proofs about Provision for every number of tenants, workers, stores,    *)
(* runs, failing steps and failing saves.                                  *)
(***************************************************************************)
EXTENDS Provision, WellFoundedInduction, TLAPS

USE ProvisionAssumption

\* A run that has read the state file.
Loaded == pc \in {"hand", "closed", "ok", "error"}

Busy(w) == worker[w].pc \notin {"idle", "gone"}

\* The steps a tenant has been through when its worker is at p.
Behind(p) ==
  CASE p = "register" -> {}
    [] p = "touch"    -> {"register"}
    [] p = "setup"    -> {"register", "touch"}
    [] OTHER          -> Steps

\* The file is whole, is the one of this run's store if there is one, and
\* names nobody the run does not have.
FileInv ==
  /\ torn = FALSE
  /\ file.store = NoStore => file.ready = {}
  /\ pc \in {"load", "hand", "closed"} => store \in Stores
  /\ Loaded => /\ store \in Stores
               /\ file.store \in {NoStore, store}
               /\ file.store = store => file.ready \subseteq have

\* Where a worker can be, and what it has behind it there.
WorkerInv(w) ==
  /\ Busy(w) => pc \in {"hand", "closed"} /\ worker[w].ref \in Refs
  /\ worker[w].pc \in {"write", "rename"} => worker[w].ref \in have
  /\ IF worker[w].err
     THEN /\ worker[w].pc \in {"note", "idle"}
          /\ worker[w].ref \in failures
     ELSE Busy(w) => Behind(worker[w].pc) \subseteq done[store][worker[w].ref]

\* Every tenant is waiting, in a worker's hands, ready or failed, and a
\* failure has been noted or is about to be.
TallyInv ==
  /\ Loaded => \A r \in Refs : \/ r \in todo \union have \union failures
                               \/ \E w \in Workers : Busy(w) /\ worker[w].ref = r
  /\ pc \in {"closed", "ok", "error"} => todo = {}
  /\ failed > 0 => failures # {}
  /\ failures # {} => failed > 0 \/ \E w \in Workers : worker[w].pc = "note" /\ worker[w].err
  /\ pc = "ok" => failed = 0
  /\ pc = "error" => failed > 0

IInv ==
  /\ TypeOK /\ FileInv /\ TallyInv /\ ReadyIsProvisioned
  /\ \A w \in Workers : WorkerInv(w)

-----------------------------------------------------------------------------

\* A set of numbers has a least one: the next ref handed out is one that is
\* still to be handed out.
LEMMA MinIsMember ==
  ASSUME NEW S \in SUBSET Nat, S # {} PROVE Min(S) \in S
<1> DEFINE Less == {ss \in Nat \X Nat : ss[1] < ss[2]}
<1>1. IsWellFoundedOn(Less, Nat)
  BY NatLessThanWellFounded DEF OpToRel
<1> HIDE DEF Less
<1>2. PICK x \in S : \A y \in S : ~(<<y, x>> \in Less)
  BY <1>1, WFMin, Zenon
<1>3. ASSUME NEW y \in S PROVE x =< y
  <2>1. <<y, x>> \in Nat \X Nat /\ <<y, x>>[1] = y /\ <<y, x>>[2] = x
    OBVIOUS
  <2>2. ~(y < x)
    BY <1>2, <2>1, Zenon DEF Less
  <2>3. QED
    BY <2>2
<1>4. QED
  BY <1>3 DEF Min

LEMMA InitInv == Init => IInv
<1> SUFFICES ASSUME Init PROVE IInv
  OBVIOUS
<1>1. \A w \in Workers : worker[w] = Idle
  BY DEF Init
<1>2. Idle.pc = "idle" /\ Idle.ref = 0 /\ Idle.err = FALSE
  BY DEF Idle
<1>3. TypeOK
  <2>1. torn \in BOOLEAN
    BY Zenon DEF Init
  <2>2. QED
    BY <2>1 DEF Init, TypeOK, Idle, NoFile
<1>4. \A w \in Workers : WorkerInv(w)
  BY <1>1, <1>2 DEF WorkerInv, Busy
<1>5. FileInv /\ TallyInv /\ ReadyIsProvisioned
  BY DEF Init, FileInv, TallyInv, ReadyIsProvisioned, NoFile, Loaded
<1>6. QED
  BY <1>3, <1>4, <1>5 DEF IInv

\* What one step does in the store: it adds to what one tenant has been
\* through and takes nothing away.
LEMMA EffectAdds ==
  ASSUME TypeOK, store \in Stores, NEW w \in Workers, worker[w].ref \in Refs,
         worker[w].pc \in Steps, Effect(w)
  PROVE  /\ done' \in [Stores -> [Refs -> SUBSET Steps]]
         /\ \A s \in Stores, r \in Refs : done[s][r] \subseteq done'[s][r]
         /\ done'[store][worker[w].ref] = done[store][worker[w].ref] \union {worker[w].pc}
BY DEF TypeOK, Effect

\* Nothing that was provisioned stops being so.
LEMMA ProvisionedGrows ==
  ASSUME TypeOK, TypeOK', \A s \in Stores, r \in Refs : done[s][r] \subseteq done'[s][r]
  PROVE  \A s \in Stores : Provisioned(s) \subseteq Provisioned(s)'
<1> SUFFICES ASSUME NEW s \in Stores, NEW r \in Refs, done[s][r] = Steps
             PROVE  done'[s][r] = Steps
  BY DEF Provisioned
<1>1. done'[s][r] \in SUBSET Steps
  BY DEF TypeOK
<1>2. QED
  BY <1>1

\* What TypeOK says of a worker.
WorkerStates ==
  [pc : Steps \union {"idle", "note", "add", "write", "rename", "gone"},
   ref : 0..Tenants, err : BOOLEAN]

LEMMA NextType == IInv /\ [Next]_vars => TypeOK'
<1> SUFFICES ASSUME IInv, [Next]_vars PROVE TypeOK'
  OBVIOUS
<1>1. TypeOK /\ FileInv /\ \A w \in Workers : WorkerInv(w)
  BY DEF IInv
<1>2. torn \in BOOLEAN /\ \A w \in Workers : worker[w].err \in BOOLEAN
  BY <1>1 DEF TypeOK
<1>3. torn' = torn \/ torn' = FALSE
  BY Zenon DEF Next, RunStep, Start, Load, Hand, CloseWork, StepOK, StepFails, Note, Add,
     WriteTmp, Rename, SaveFails, Return, Crash, fileVars, vars
<1>4. torn' \in BOOLEAN
  BY <1>2, <1>3
<1>5. [w \in Workers |-> Idle] \in [Workers -> WorkerStates]
  <2>1. Idle \in WorkerStates
    BY DEF Idle, WorkerStates
  <2>2. QED
    BY <2>1
<1> USE DEF TypeOK, fileVars, useVars
<1>6. ASSUME NEW s \in Stores, Start(s) PROVE TypeOK'
  BY <1>1, <1>4, <1>5, <1>6 DEF Start, Fresh, WorkerStates
<1>7. CASE Load
  BY <1>1, <1>4, <1>7 DEF Load
<1>8. CASE CloseWork
  BY <1>1, <1>4, <1>8 DEF CloseWork
<1>9. CASE Return
  BY <1>1, <1>4, <1>9 DEF Return
<1>10. CASE Crash
  BY <1>1, <1>4, <1>5, <1>10 DEF Crash, Fresh, WorkerStates
<1>11. ASSUME NEW w \in Workers, Hand(w) PROVE TypeOK'
  <2>1. Min(todo) \in todo
    <3>1. todo \in SUBSET Nat /\ todo # {}
      BY <1>1, <1>11 DEF Hand, Refs
    <3>2. QED
      BY <3>1, MinIsMember
  <2>2. Min(todo) \in 0..Tenants
    <3>1. todo \subseteq 0..Tenants
      BY <1>1 DEF Refs
    <3>2. QED
      BY <2>1, <3>1, Zenon
  <2>3. [pc |-> "register", ref |-> Min(todo), err |-> FALSE] \in WorkerStates
    BY <2>2 DEF Steps, WorkerStates
  <2>4. worker' \in [Workers -> WorkerStates]
    BY <1>1, <1>11, <2>3 DEF Hand, WorkerStates
  <2>5. QED
    BY <1>1, <1>4, <1>11, <2>4 DEF Hand, WorkerStates
<1>12. ASSUME NEW w \in Workers, worker[w].pc \in Steps
       PROVE  store \in Stores /\ worker[w].ref \in Refs
  BY <1>1, <1>12 DEF WorkerInv, Busy, FileInv, Steps
<1>13. ASSUME NEW w \in Workers, StepOK(w) PROVE TypeOK'
  <2>1. done' \in [Stores -> [Refs -> SUBSET Steps]]
    BY <1>1, <1>12, <1>13, EffectAdds DEF StepOK
  <2>2. After[worker[w].pc] \in Steps \union {"note"}
    BY <1>13 DEF StepOK, After, Steps
  <2>3. QED
    BY <1>1, <1>4, <1>13, <2>1, <2>2 DEF StepOK
<1>14. ASSUME NEW w \in Workers, StepFails(w) PROVE TypeOK'
  <2>1. done' \in [Stores -> [Refs -> SUBSET Steps]]
    BY <1>1, <1>12, <1>14, EffectAdds DEF StepFails
  <2>2. worker' \in [Workers -> WorkerStates]
    <3>1. [worker[w] EXCEPT !.pc = "note", !.err = TRUE] \in WorkerStates
      BY <1>1 DEF WorkerStates
    <3>2. worker' = [worker EXCEPT ![w] = [worker[w] EXCEPT !.pc = "note", !.err = TRUE]]
      BY <1>14 DEF StepFails
    <3>3. QED
      BY <1>1, <3>1, <3>2 DEF WorkerStates
  <2>3. QED
    BY <1>1, <1>4, <1>12, <1>14, <2>1, <2>2 DEF StepFails, WorkerStates
<1>15. ASSUME NEW w \in Workers, Note(w) PROVE TypeOK'
  BY <1>1, <1>4, <1>15 DEF Note
<1>16. ASSUME NEW w \in Workers, Add(w) PROVE TypeOK'
  <2>1. worker[w].ref \in Refs
    BY <1>1, <1>16 DEF Add, WorkerInv, Busy
  <2>2. QED
    BY <1>1, <1>4, <1>16, <2>1 DEF Add
<1>17. ASSUME NEW w \in Workers, WriteTmp(w) PROVE TypeOK'
  BY <1>1, <1>4, <1>17 DEF WriteTmp
<1>18. ASSUME NEW w \in Workers, Rename(w) PROVE TypeOK'
  BY <1>1, <1>4, <1>18 DEF Rename
<1>19. ASSUME NEW w \in Workers, SaveFails(w) PROVE TypeOK'
  BY <1>1, <1>4, <1>19 DEF SaveFails
<1>20. CASE UNCHANGED vars
  BY <1>1, <1>20 DEF vars, runVars
<1>21. QED
  BY <1>6, <1>7, <1>8, <1>9, <1>10, <1>11, <1>13, <1>14, <1>15, <1>16, <1>17, <1>18, <1>19, <1>20
     DEF Next, RunStep

\* The file's part: only Rename writes it, with what the run has.
LEMMA NextFile == IInv /\ [Next]_vars => FileInv'
<1> SUFFICES ASSUME IInv, [Next]_vars PROVE FileInv'
  OBVIOUS
<1>1. TypeOK /\ FileInv /\ \A w \in Workers : WorkerInv(w)
  BY DEF IInv
<1> USE DEF FileInv, Loaded, fileVars, useVars
<1>2. ASSUME NEW s \in Stores, Start(s) PROVE FileInv'
  BY <1>1, <1>2 DEF Start, Fresh
<1>3. CASE Load
  BY <1>1, <1>3 DEF Load, Refused
<1>4. CASE CloseWork \/ Return
  BY <1>1, <1>4 DEF CloseWork, Return, AllOver
<1>5. CASE Crash
  BY <1>1, <1>5 DEF Crash, Fresh
<1>6. ASSUME NEW w \in Workers, Hand(w) \/ StepOK(w) \/ StepFails(w) \/ Note(w) \/ WriteTmp(w)
                                \/ SaveFails(w)
      PROVE  FileInv'
  BY <1>1, <1>6 DEF Hand, StepOK, StepFails, Note, WriteTmp, SaveFails
<1>7. ASSUME NEW w \in Workers, Add(w) PROVE FileInv'
  BY <1>1, <1>7 DEF Add
<1>8. ASSUME NEW w \in Workers, Rename(w) PROVE FileInv'
  <2>1. pc \in {"hand", "closed"}
    BY <1>1, <1>8 DEF Rename, WorkerInv, Busy
  <2>2. QED
    BY <1>1, <1>8, <2>1 DEF Rename
<1>9. CASE UNCHANGED vars
  BY <1>1, <1>9 DEF vars, runVars
<1>10. QED
  BY <1>2, <1>3, <1>4, <1>5, <1>6, <1>7, <1>8, <1>9 DEF Next, RunStep

\* Steps that take nothing away from the store keep what is named ready.
LEMMA DoneGrows ==
  IInv /\ [Next]_vars => \A s \in Stores, r \in Refs : done[s][r] \subseteq done'[s][r]
<1> SUFFICES ASSUME IInv, [Next]_vars
             PROVE  \A s \in Stores, r \in Refs : done[s][r] \subseteq done'[s][r]
  OBVIOUS
<1>1. TypeOK /\ FileInv /\ \A w \in Workers : WorkerInv(w)
  BY DEF IInv
<1>2. ASSUME NEW w \in Workers, worker[w].pc \in Steps, Effect(w)
      PROVE  \A s \in Stores, r \in Refs : done[s][r] \subseteq done'[s][r]
  <2>1. store \in Stores /\ worker[w].ref \in Refs
    BY <1>1, <1>2 DEF WorkerInv, Busy, FileInv, Steps
  <2>2. QED
    BY <1>1, <1>2, <2>1, EffectAdds
<1>3. \/ \E w \in Workers : worker[w].pc \in Steps /\ Effect(w)
      \/ done' = done
  BY Zenon DEF Next, RunStep, Start, Load, Hand, CloseWork, StepOK, StepFails, Note, Add,
     WriteTmp, Rename, SaveFails, Return, Crash, vars
<1>4. QED
  BY <1>2, <1>3

LEMMA NextReady == IInv /\ [Next]_vars => ReadyIsProvisioned'
<1> SUFFICES ASSUME IInv, [Next]_vars PROVE ReadyIsProvisioned'
  OBVIOUS
<1>1. TypeOK /\ FileInv /\ ReadyIsProvisioned /\ \A w \in Workers : WorkerInv(w)
  BY DEF IInv
<1>2. TypeOK'
  BY NextType
<1>3. \A s \in Stores : Provisioned(s) \subseteq Provisioned(s)'
  BY <1>1, <1>2, DoneGrows, ProvisionedGrows
<1>4. file.store \in Stores \union {NoStore} /\ file'.store \in Stores \union {NoStore}
  BY <1>1, <1>2 DEF TypeOK
<1> USE DEF ReadyIsProvisioned, fileVars, useVars
<1>5. ASSUME NEW s \in Stores, Start(s) PROVE ReadyIsProvisioned'
  BY <1>1, <1>3, <1>4, <1>5 DEF Start, Fresh
<1>6. CASE Load
  BY <1>1, <1>3, <1>4, <1>6 DEF Load, Refused, FileInv
<1>7. CASE CloseWork \/ Return
  BY <1>1, <1>3, <1>4, <1>7 DEF CloseWork, Return, AllOver, FileInv, Loaded
<1>8. CASE Crash
  BY <1>1, <1>3, <1>4, <1>8 DEF Crash, Fresh
<1>9. ASSUME NEW w \in Workers, Hand(w) \/ StepOK(w) \/ StepFails(w) \/ Note(w) \/ WriteTmp(w)
                                \/ SaveFails(w)
      PROVE  ReadyIsProvisioned'
  <2>1. UNCHANGED <<file, pc, store, have>>
    BY <1>9 DEF Hand, StepOK, StepFails, Note, WriteTmp, SaveFails
  <2>2. QED
    BY <1>1, <1>3, <1>4, <2>1 DEF FileInv, Loaded
<1>10. ASSUME NEW w \in Workers, Add(w) PROVE ReadyIsProvisioned'
  <2>1. worker[w].ref \in Provisioned(store)
    <3>1. worker[w].pc = "add" /\ ~worker[w].err
      BY <1>1, <1>10 DEF Add, WorkerInv
    <3>2. store \in Stores /\ worker[w].ref \in Refs /\ Steps \subseteq done[store][worker[w].ref]
      BY <1>1, <3>1 DEF WorkerInv, Busy, Behind, FileInv
    <3>3. done[store][worker[w].ref] \in SUBSET Steps
      BY <1>1, <3>2 DEF TypeOK
    <3>4. QED
      BY <3>2, <3>3 DEF Provisioned
  <2>2. UNCHANGED <<file, pc, store>> /\ have' \subseteq have \union {worker[w].ref}
    BY <1>10 DEF Add
  <2>3. QED
    BY <1>1, <1>3, <1>4, <2>1, <2>2 DEF FileInv, Loaded
<1>11. ASSUME NEW w \in Workers, Rename(w) PROVE ReadyIsProvisioned'
  <2>1. pc \in {"hand", "closed"}
    BY <1>1, <1>11 DEF Rename, WorkerInv, Busy
  <2>2. QED
    BY <1>1, <1>3, <1>4, <1>11, <2>1 DEF Rename, FileInv
<1>12. CASE UNCHANGED vars
  BY <1>1, <1>3, <1>4, <1>12 DEF vars, runVars, FileInv, Loaded
<1>13. QED
  BY <1>5, <1>6, <1>7, <1>8, <1>9, <1>10, <1>11, <1>12 DEF Next, RunStep

\* A worker goes from step to step with what is behind it done.
LEMMA NextWorker ==
  ASSUME IInv, [Next]_vars, NEW v \in Workers PROVE WorkerInv(v)'
<1>1. TypeOK /\ FileInv /\ WorkerInv(v)
  BY DEF IInv
<1>2. \A s \in Stores, r \in Refs : done[s][r] \subseteq done'[s][r]
  BY DoneGrows
<1>3. TypeOK'
  BY NextType
<1>4. Busy(v) => store \in Stores
  BY <1>1 DEF FileInv, WorkerInv
<1> USE DEF fileVars, useVars
<1>5. ASSUME worker'[v] = worker[v], store' = store, have \subseteq have',
             failures \subseteq failures', pc' = pc \/ (pc = "hand" /\ pc' = "closed")
      PROVE  WorkerInv(v)'
  <2>1. Busy(v)' <=> Busy(v)
    BY <1>5 DEF Busy
  <2>2. CASE worker[v].err
    BY <1>1, <1>5, <2>1, <2>2 DEF WorkerInv
  <2>3. CASE ~worker[v].err
    <3>1. Busy(v) => done[store][worker[v].ref] \subseteq done'[store][worker[v].ref]
      BY <1>1, <1>2, <1>4 DEF WorkerInv
    <3>2. Busy(v) => Behind(worker[v].pc) \subseteq done'[store][worker[v].ref]
      BY <1>1, <2>3, <3>1 DEF WorkerInv
    <3>3. QED
      BY <1>1, <1>5, <2>1, <2>3, <3>2 DEF WorkerInv
  <2>4. QED
    BY <2>2, <2>3
<1>6. ASSUME worker'[v].pc \in {"idle", "gone"}, ~worker'[v].err PROVE WorkerInv(v)'
  BY <1>6 DEF WorkerInv, Busy
<1>7. worker' = [w \in Workers |-> Idle] => WorkerInv(v)'
  <2>1. Idle.pc = "idle" /\ ~Idle.err
    BY DEF Idle
  <2>2. QED
    BY <1>6, <2>1
<1>8. ASSUME NEW s \in Stores, Start(s) PROVE WorkerInv(v)'
  BY <1>7, <1>8 DEF Start, Fresh
<1>9. CASE Load
  <2>1. ~Busy(v)
    BY <1>1, <1>9 DEF Load, WorkerInv
  <2>2. worker' = worker /\ failures' = failures
    BY <1>9 DEF Load
  <2>3. QED
    BY <1>1, <2>1, <2>2 DEF WorkerInv, Busy
<1>10. CASE CloseWork
  BY <1>5, <1>10 DEF CloseWork
<1>11. CASE Return
  <2>1. ~Busy(v)
    BY <1>11 DEF Return, AllOver, Busy
  <2>2. worker' = worker /\ failures' = failures
    BY <1>11 DEF Return
  <2>3. QED
    BY <1>1, <2>1, <2>2 DEF WorkerInv, Busy
<1>12. CASE Crash
  BY <1>7, <1>12 DEF Crash, Fresh
<1>13. ASSUME NEW w \in Workers, w # v,
              \/ Hand(w) \/ StepOK(w) \/ StepFails(w) \/ Note(w) \/ Add(w) \/ WriteTmp(w)
              \/ Rename(w) \/ SaveFails(w)
       PROVE  WorkerInv(v)'
  <2>1. worker'[v] = worker[v]
    BY <1>1, <1>13 DEF Hand, StepOK, StepFails, Note, Add, WriteTmp, Rename, SaveFails, TypeOK
  <2>2. store' = store /\ pc' = pc /\ have \subseteq have' /\ failures \subseteq failures'
    BY <1>13 DEF Hand, StepOK, StepFails, Note, Add, WriteTmp, Rename, SaveFails
  <2>3. QED
    BY <1>5, <2>1, <2>2
<1>14. CASE Hand(v)
  <2>1. /\ worker'[v].pc = "register" /\ worker'[v].ref = Min(todo) /\ worker'[v].err = FALSE
        /\ pc' = "hand"
    BY <1>1, <1>14 DEF Hand, TypeOK
  <2>2. Min(todo) \in Refs
    <3>1. todo \in SUBSET Nat /\ todo # {} /\ todo \subseteq Refs
      BY <1>1, <1>14 DEF Hand, Refs, TypeOK
    <3>2. Min(todo) \in todo
      BY <3>1, MinIsMember
    <3>3. QED
      BY <3>1, <3>2, Zenon
  <2>3. Behind("register") = {}
    BY DEF Behind
  <2>4. QED
    BY <2>1, <2>2, <2>3 DEF WorkerInv, Busy
<1>15. ASSUME worker[v].pc \in Steps
       PROVE  /\ pc \in {"hand", "closed"} /\ worker[v].ref \in Refs /\ ~worker[v].err
              /\ store \in Stores /\ Behind(worker[v].pc) \subseteq done[store][worker[v].ref]
  BY <1>1, <1>4, <1>15 DEF WorkerInv, Busy, Steps
<1>16. CASE StepOK(v)
  <2>1. /\ worker[v].pc \in Steps /\ Effect(v) /\ UNCHANGED <<pc, store, have, failures>>
        /\ worker'[v].pc = After[worker[v].pc]
        /\ worker'[v].ref = worker[v].ref /\ worker'[v].err = worker[v].err
    BY <1>1, <1>16 DEF StepOK, TypeOK
  <2>2. done'[store][worker[v].ref] = done[store][worker[v].ref] \union {worker[v].pc}
    BY <1>1, <1>15, <2>1, EffectAdds
  <2>3. Behind(After[worker[v].pc]) = Behind(worker[v].pc) \union {worker[v].pc}
    BY <2>1 DEF Behind, After, Steps
  <2>4. After[worker[v].pc] \in {"touch", "setup", "note"}
    BY <2>1 DEF After, Steps
  <2>5. QED
    BY <1>15, <2>1, <2>2, <2>3, <2>4 DEF WorkerInv, Busy
<1>17. CASE StepFails(v)
  <2>1. /\ worker[v].pc \in Steps /\ pc' = pc /\ worker[v].ref \in failures'
        /\ worker'[v].pc = "note" /\ worker'[v].ref = worker[v].ref /\ worker'[v].err = TRUE
    BY <1>1, <1>17 DEF StepFails, TypeOK
  <2>2. QED
    BY <1>15, <2>1 DEF WorkerInv, Busy
<1>18. ASSUME worker[v].pc \in {"note", "add", "write", "rename"}, ~worker[v].err
       PROVE  /\ pc \in {"hand", "closed"} /\ worker[v].ref \in Refs /\ store \in Stores
              /\ Steps \subseteq done[store][worker[v].ref]
  BY <1>1, <1>4, <1>18 DEF WorkerInv, Busy, Behind
<1>19. CASE Note(v)
  <2>1. UNCHANGED <<pc, store, have, failures, done>> /\ worker[v].pc = "note"
    BY <1>19 DEF Note
  <2>2. CASE worker[v].err
    <3>1. worker'[v].pc = "idle" /\ worker'[v].ref = worker[v].ref /\ worker'[v].err = worker[v].err
      <4>1. worker' = [worker EXCEPT ![v].pc = "idle"]
        BY <1>19, <2>2, Zenon DEF Note
      <4>2. QED
        BY <1>1, <4>1 DEF TypeOK
    <3>2. QED
      BY <1>1, <2>1, <2>2, <3>1 DEF WorkerInv, Busy
  <2>3. CASE ~worker[v].err
    <3>1. worker'[v].pc = "add" /\ worker'[v].ref = worker[v].ref /\ worker'[v].err = worker[v].err
      BY <1>1, <1>19, <2>3 DEF Note, TypeOK
    <3>2. Behind("add") = Steps
      BY DEF Behind
    <3>3. QED
      BY <1>18, <2>1, <2>3, <3>1, <3>2 DEF WorkerInv, Busy
  <2>4. QED
    BY <2>2, <2>3
<1>20. worker[v].pc \in {"add", "write", "rename"} => ~worker[v].err
  BY <1>1 DEF WorkerInv
<1>21. CASE Add(v)
  <2>1. /\ UNCHANGED <<pc, store, failures, done>> /\ worker[v].pc = "add"
        /\ worker'[v].pc \in {"idle", "write"} /\ worker[v].ref \in have'
        /\ worker'[v].ref = worker[v].ref /\ worker'[v].err = worker[v].err
    BY <1>1, <1>21 DEF Add, TypeOK
  <2>2. Behind("write") = Steps
    BY DEF Behind
  <2>3. QED
    BY <1>18, <1>20, <2>1, <2>2 DEF WorkerInv, Busy
<1>22. CASE WriteTmp(v)
  <2>1. /\ UNCHANGED <<pc, store, have, failures, done>> /\ worker[v].pc = "write"
        /\ worker'[v].pc = "rename"
        /\ worker'[v].ref = worker[v].ref /\ worker'[v].err = worker[v].err
    BY <1>1, <1>22 DEF WriteTmp, TypeOK
  <2>2. Behind("rename") = Steps
    BY DEF Behind
  <2>3. QED
    BY <1>1, <1>18, <1>20, <2>1, <2>2 DEF WorkerInv, Busy
<1>23. CASE Rename(v) \/ SaveFails(v)
  <2>1. /\ worker[v].pc \in {"write", "rename"} /\ worker'[v].pc \in {"idle", "gone"}
        /\ worker'[v].err = worker[v].err
    BY <1>1, <1>23 DEF Rename, SaveFails, TypeOK
  <2>2. QED
    BY <1>6, <1>20, <2>1
<1>24. CASE UNCHANGED vars
  BY <1>5, <1>24 DEF vars, runVars
<1>25. QED
  BY <1>8, <1>9, <1>10, <1>11, <1>12, <1>13, <1>14, <1>16, <1>17, <1>19, <1>21, <1>22, <1>23, <1>24
     DEF Next, RunStep

\* No tenant is lost track of, and no failure goes unnoted.
LEMMA NextTally == IInv /\ [Next]_vars => TallyInv'
<1> SUFFICES ASSUME IInv, [Next]_vars PROVE TallyInv'
  OBVIOUS
<1>1. TypeOK /\ FileInv /\ TallyInv /\ \A w \in Workers : WorkerInv(w)
  BY DEF IInv
<1>2. failed \in Nat /\ FailureCap \in Nat \ {0} /\ have \subseteq Refs /\ file.ready \subseteq Refs
  BY <1>1 DEF TypeOK
<1> DEFINE Accounted == \A r \in Refs : \/ r \in todo \union have \union failures
                                        \/ \E w \in Workers : Busy(w) /\ worker[w].ref = r
           Noting == \E w \in Workers : worker[w].pc = "note" /\ worker[w].err
<1> USE DEF fileVars, useVars
\* A step of one worker that keeps hold of its tenant, or puts it away.
<1>3. ASSUME NEW w \in Workers, \A v \in Workers \ {w} : worker'[v] = worker[v],
             todo' = todo, have \subseteq have', failures \subseteq failures', pc' = pc,
             Busy(w) => \/ worker[w].ref \in have' \union failures'
                        \/ Busy(w)' /\ worker'[w].ref = worker[w].ref
      PROVE  Loaded' => Accounted'
  <2> SUFFICES ASSUME Loaded', NEW r \in Refs
               PROVE  \/ r \in (todo \union have \union failures)'
                      \/ \E v \in Workers : Busy(v)' /\ worker'[v].ref = r
    OBVIOUS
  <2>1. Loaded
    BY <1>3 DEF Loaded
  <2>2. CASE r \in todo \union have \union failures
    BY <1>3, <2>2
  <2>3. ASSUME NEW v \in Workers, Busy(v), worker[v].ref = r
        PROVE  \/ r \in (todo \union have \union failures)'
               \/ \E u \in Workers : Busy(u)' /\ worker'[u].ref = r
    <3>1. CASE v = w
      BY <1>3, <2>3, <3>1
    <3>2. CASE v # w
      BY <1>3, <2>3, <3>2 DEF Busy
    <3>3. QED
      BY <3>1, <3>2
  <2>4. QED
    BY <1>1, <2>1, <2>2, <2>3 DEF TallyInv
\* A step of one worker that is not about to note a failure.
<1>4. ASSUME NEW w \in Workers, \A v \in Workers \ {w} : worker'[v] = worker[v],
             worker[w].pc = "note" => ~worker[w].err
      PROVE  Noting => Noting'
  BY <1>4
\* What a worker's step that leaves the outcome alone keeps.
<1>5. ASSUME NEW w \in Workers, \A v \in Workers \ {w} : worker'[v] = worker[v],
             worker[w].pc = "note" => ~worker[w].err,
             UNCHANGED <<todo, failures, pc, failed>>, Loaded' => Accounted'
      PROVE  TallyInv'
  BY <1>1, <1>4, <1>5 DEF TallyInv
<1>6. ASSUME NEW s \in Stores, Start(s) PROVE TallyInv'
  BY <1>6 DEF Start, Fresh, TallyInv, Loaded
<1>7. CASE Load
  <2>1. UNCHANGED <<worker, failed, failures>> /\ pc = "load"
    BY <1>7 DEF Load
  <2>2. Loaded' => pc' = "hand" /\ Refs \subseteq todo' \union have'
    BY <1>7 DEF Load, Loaded
  <2>3. pc' \in {"down", "hand"}
    BY <1>7 DEF Load
  <2>4. QED
    BY <1>1, <2>1, <2>2, <2>3 DEF TallyInv
<1>8. CASE CloseWork
  <2>1. UNCHANGED <<worker, todo, have, failed, failures>> /\ pc = "hand" /\ pc' = "closed" /\ todo = {}
    BY <1>8 DEF CloseWork
  <2>2. QED
    BY <1>1, <2>1 DEF TallyInv, Loaded, Busy
<1>9. CASE Return
  <2>1. /\ UNCHANGED <<worker, todo, have, failed, failures>> /\ pc = "closed"
        /\ pc' = IF failed > 0 THEN "error" ELSE "ok"
    BY <1>9 DEF Return, AllOver
  <2>2. QED
    BY <1>1, <1>2, <2>1 DEF TallyInv, Loaded, Busy
<1>10. CASE Crash
  BY <1>10 DEF Crash, Fresh, TallyInv, Loaded
<1>11. ASSUME NEW w \in Workers, Hand(w) PROVE TallyInv'
  <2>1. /\ worker[w].pc = "idle" /\ todo' = todo \ {Min(todo)} /\ pc = "hand"
        /\ UNCHANGED <<pc, have, failed, failures>>
        /\ worker'[w].pc = "register" /\ worker'[w].ref = Min(todo)
        /\ \A v \in Workers \ {w} : worker'[v] = worker[v]
    BY <1>1, <1>11 DEF Hand, TypeOK
  <2>2. ~Busy(w) /\ Busy(w)'
    BY <2>1 DEF Busy
  <2>3. \A v \in Workers : Busy(v) => Busy(v)' /\ worker'[v].ref = worker[v].ref
    BY <2>1, <2>2 DEF Busy
  <2>4. Accounted
    BY <1>1, <2>1 DEF TallyInv, Loaded
  <2>5. Accounted'
    <3> SUFFICES ASSUME NEW r \in Refs
                 PROVE  \/ r \in (todo \union have \union failures)'
                        \/ \E v \in Workers : Busy(v)' /\ worker'[v].ref = r
      OBVIOUS
    <3>1. CASE r = Min(todo)
      BY <2>1, <2>2, <3>1
    <3>2. CASE r # Min(todo)
      BY <2>1, <2>3, <2>4, <3>2
    <3>3. QED
      BY <3>1, <3>2
  <2>6. Noting => Noting'
    BY <1>4, <2>1
  <2>7. QED
    BY <1>1, <2>1, <2>5, <2>6 DEF TallyInv
<1>12. ASSUME NEW w \in Workers, StepOK(w) PROVE TallyInv'
  <2>1. /\ UNCHANGED <<todo, have, failures, pc, failed>> /\ worker[w].pc \in Steps
        /\ worker'[w].pc = After[worker[w].pc] /\ worker'[w].ref = worker[w].ref
        /\ \A v \in Workers \ {w} : worker'[v] = worker[v]
    BY <1>1, <1>12 DEF StepOK, TypeOK
  <2>2. Busy(w)' /\ worker[w].pc # "note"
    BY <2>1 DEF Busy, After, Steps
  <2>3. Loaded' => Accounted'
    BY <1>3, <2>1, <2>2
  <2>4. QED
    BY <1>5, <2>1, <2>2, <2>3
<1>13. ASSUME NEW w \in Workers, StepFails(w) PROVE TallyInv'
  <2>1. /\ UNCHANGED <<todo, have, pc, failed>> /\ worker[w].pc \in Steps
        /\ failures' = failures \union {worker[w].ref}
        /\ worker'[w].pc = "note" /\ worker'[w].ref = worker[w].ref /\ worker'[w].err
        /\ \A v \in Workers \ {w} : worker'[v] = worker[v]
    BY <1>1, <1>13 DEF StepFails, TypeOK
  <2>2. pc \in {"hand", "closed"}
    BY <1>1, <2>1 DEF WorkerInv, Busy, Steps
  <2>3. Loaded' => Accounted'
    BY <1>3, <2>1
  <2>4. QED
    BY <1>1, <2>1, <2>2, <2>3 DEF TallyInv
<1>14. ASSUME NEW w \in Workers, Note(w) PROVE TallyInv'
  <2>1. /\ UNCHANGED <<todo, have, failures, pc>> /\ worker[w].pc = "note"
        /\ \A v \in Workers \ {w} : worker'[v] = worker[v]
        /\ worker'[w].ref = worker[w].ref
    BY <1>1, <1>14 DEF Note, TypeOK
  <2>2. pc \in {"hand", "closed"}
    BY <1>1, <2>1 DEF WorkerInv, Busy
  <2>3. CASE worker[w].err
    <3>1. failed' = IF failed < FailureCap THEN failed + 1 ELSE failed
      BY <1>14, <2>3 DEF Note
    <3>2. failed' > 0
      BY <1>2, <3>1
    <3>3. worker[w].ref \in failures
      BY <1>1, <2>3 DEF WorkerInv
    <3>4. Loaded' => Accounted'
      BY <1>3, <2>1, <3>3
    <3>5. QED
      BY <1>1, <2>1, <2>2, <3>2, <3>3, <3>4 DEF TallyInv
  <2>4. CASE ~worker[w].err
    <3>1. worker'[w].pc = "add" /\ failed' = failed
      BY <1>1, <1>14, <2>4 DEF Note, TypeOK
    <3>2. Loaded' => Accounted'
      BY <1>3, <2>1, <3>1 DEF Busy
    <3>3. QED
      BY <1>5, <2>1, <2>4, <3>1, <3>2
  <2>5. QED
    BY <2>3, <2>4
<1>15. ASSUME NEW w \in Workers, Add(w) PROVE TallyInv'
  <2>1. /\ UNCHANGED <<todo, failures, pc, failed>> /\ worker[w].pc = "add"
        /\ have \subseteq have' /\ worker[w].ref \in have'
        /\ \A v \in Workers \ {w} : worker'[v] = worker[v]
    BY <1>1, <1>15 DEF Add, TypeOK
  <2>2. Loaded' => Accounted'
    BY <1>3, <2>1
  <2>3. QED
    BY <1>5, <2>1, <2>2
<1>16. ASSUME NEW w \in Workers, WriteTmp(w) \/ Rename(w) \/ SaveFails(w) PROVE TallyInv'
  <2>1. /\ UNCHANGED <<todo, have, failures, pc, failed>> /\ worker[w].pc \in {"write", "rename"}
        /\ \A v \in Workers \ {w} : worker'[v] = worker[v]
    BY <1>1, <1>16 DEF WriteTmp, Rename, SaveFails, TypeOK
  <2>2. worker[w].ref \in have
    BY <1>1, <2>1 DEF WorkerInv
  <2>3. Loaded' => Accounted'
    BY <1>3, <2>1, <2>2
  <2>4. QED
    BY <1>5, <2>1, <2>3
<1>17. CASE UNCHANGED vars
  <2>1. UNCHANGED <<todo, have, failures, pc, failed, worker>>
    BY <1>17 DEF vars, runVars
  <2>2. QED
    BY <1>1, <2>1 DEF TallyInv, Loaded, Busy
<1>18. QED
  BY <1>6, <1>7, <1>8, <1>9, <1>10, <1>11, <1>12, <1>13, <1>14, <1>15, <1>16, <1>17 DEF Next, RunStep

LEMMA Invariance == Spec => []IInv
<1>1. IInv /\ [Next]_vars => IInv'
  BY NextType, NextFile, NextTally, NextReady, NextWorker DEF IInv, Workers
<1>2. QED
  BY InitInv, <1>1, PTL DEF Spec

\* Every variable of provision keeps its type: the count of failures stays
\* within its cap, and the file and the lock name stores and workers that
\* exist.
THEOREM TypeCorrect == Spec => []TypeOK
<1>1. IInv => TypeOK
  BY DEF IInv
<1>2. QED
  BY Invariance, <1>1, PTL

\* However runs are killed, restarted, pointed at other stores and fail at
\* any step or save, the state file and State.have name only tenants that
\* have been registered, touched and set up in the store they are named for.
THEOREM ReadyAreProvisioned == Spec => []ReadyIsProvisioned
<1>1. IInv => ReadyIsProvisioned
  BY DEF IInv
<1>2. QED
  BY Invariance, <1>1, PTL

\* provision returns nil only when every tenant is there and none failed in
\* this run, and an error only when one did, for every number of tenants,
\* workers and kept failures.
THEOREM OkIsMade == Spec => []OkMeansMade
<1>1. IInv => OkMeansMade
  <2> SUFFICES ASSUME IInv PROVE OkMeansMade
    OBVIOUS
  <2>1. TypeOK /\ FileInv /\ TallyInv /\ ReadyIsProvisioned /\ \A w \in Workers : WorkerInv(w)
    BY DEF IInv
  <2>2. ASSUME pc = "ok" PROVE Refs = Provisioned(store) /\ Refs = have /\ failures = {}
    <3>1. \A w \in Workers : ~Busy(w)
      BY <2>1, <2>2 DEF WorkerInv
    <3>2. todo = {} /\ ~(failed > 0)
      BY <2>1, <2>2 DEF TallyInv
    <3>3. failures = {}
      BY <2>1, <3>1, <3>2 DEF TallyInv, Busy
    <3>4. Refs \subseteq have
      BY <2>1, <2>2, <3>1, <3>2, <3>3 DEF TallyInv, Loaded
    <3>5. have \subseteq Refs /\ Provisioned(store) \subseteq Refs
      BY <2>1 DEF TypeOK, Provisioned
    <3>6. have \subseteq Provisioned(store)
      BY <2>1, <2>2 DEF ReadyIsProvisioned
    <3>7. QED
      BY <3>3, <3>4, <3>5, <3>6
  <2>3. pc = "error" => failures # {}
    BY <2>1 DEF TallyInv
  <2>4. QED
    BY <2>2, <2>3 DEF OkMeansMade
<1>2. QED
  BY Invariance, <1>1, PTL

\* No step, a kill in the middle of a save included, leaves a file that
\* cannot be read, gives the file to another store or takes a tenant out of
\* it.
THEOREM ReadyIsKept == Spec => ReadyKept
<1> DEFINE Keeps ==
      /\ ~torn'
      /\ file.store # NoStore => file'.store = file.store /\ file.ready \subseteq file'.ready
<1>1. IInv /\ [Next]_vars => [Keeps]_vars
  <2> SUFFICES ASSUME IInv, [Next]_vars, ~UNCHANGED vars PROVE Keeps
    OBVIOUS
  <2>1. TypeOK /\ FileInv /\ \A w \in Workers : WorkerInv(w)
    BY DEF IInv
  <2>2. ~torn'
    BY NextFile DEF FileInv
  <2>3. file' = file \/ \E w \in Workers : Rename(w)
    BY Zenon DEF Next, RunStep, Start, Load, Hand, CloseWork, StepOK, StepFails, Note, Add,
       WriteTmp, SaveFails, Return, Crash, fileVars, vars
  <2>4. ASSUME NEW w \in Workers, Rename(w) PROVE Keeps
    <3>1. pc \in {"hand", "closed"}
      BY <2>1, <2>4 DEF Rename, WorkerInv, Busy
    <3>2. QED
      BY <2>1, <2>2, <2>4, <3>1 DEF Rename, FileInv, Loaded
  <2>5. QED
    BY <2>2, <2>3, <2>4
<1>2. QED
  BY Invariance, <1>1, PTL DEF Spec, ReadyKept
=============================================================================

--------------------------- MODULE FleetRunProofs ---------------------------
(***************************************************************************)
(* Proofs about FleetRun and the load generator in it, for every number of *)
(* clients, tenants, requests and runs, every working set and every way to *)
(* call the command.                                                       *)
(***************************************************************************)
EXTENDS FleetRun, SumsProofs

USE HttpLoadAssumption, FleetRunAssumption

\* The clients at one of these places.
AtPlace(P) == {c \in Clients : client[c].pc \in P}

\* The full types.
CountSet == [requests : Nat, errors : Nat, ok : Nat, other : Nat, samples : Nat,
             failures : Nat, touched : SUBSET (1..Tenants)]
ClientSet == [pc : {"away", "loop", "sent"} \cup Answered, to : 0..Tenants, n : CountSet]
TruthSet == [ok : Nat, made : Nat, odd : Nat, wrong : Nat, failed : Nat, dropped : Nat]
PhaseSet == [owed : Nat, warm : Nat, restarted : BOOLEAN]
BlockSet == [read : BOOLEAN, delta : Int, ok : Nat, loose : Nat, unpaid : Nat, of : PhaseSet]

LoadTypes ==
  /\ refs \subseteq 1..Tenants /\ paced \in BOOLEAN
  /\ window \in {"none", "warm", "measure", "done"}
  /\ over \in BOOLEAN /\ tick \in BOOLEAN
  /\ client \in [Clients -> ClientSet] /\ out \in CountSet
  /\ sends \in 0..MaxSends /\ served \in Nat /\ late \in Nat /\ taken \in Nat
  /\ truth \in TruthSet

CommandTypes ==
  /\ pc \in {"exited", "health", "provision", "steady", "hold", "churn", "price", "wait",
             "fatal", "write"}
  /\ opt \in Options \cup {NoOptions} /\ ready \in 0..Tenants
  /\ node \in {"none", "own", "old"} /\ alive \in BOOLEAN /\ stopped \in BOOLEAN
  /\ runs \in 0..MaxRuns /\ scrape \in Nat /\ phase \in PhaseSet /\ block \in BlockSet
  /\ leftBy \in SUBSET {"keep", "card"}

\* A client's own counts: requests are samples and errors, failures are kept
\* in words up to the cap, and a request under way is for a tenant it may
\* draw.
ClientInv(c) ==
  LET n == client[c].n
  IN  /\ n.touched \subseteq refs
      /\ client[c].to \in IF client[c].pc \in {"away", "loop"} THEN {NoTenant} ELSE refs
      /\ window = "measure" => n.requests = n.samples + n.errors
      /\ n.failures = IF n.errors < FailureCap THEN n.errors ELSE FailureCap

\* The clients' counts of one kind.
Requests(cl) == [c \in Clients |-> cl[c].n.requests]
Errors(cl)   == [c \in Clients |-> cl[c].n.errors]
Oks(cl)      == [c \in Clients |-> cl[c].n.ok]
Others(cl)   == [c \in Clients |-> cl[c].n.other]
Samples(cl)  == [c \in Clients |-> cl[c].n.samples]
Failures(cl) == [c \in Clients |-> cl[c].n.failures]
Touched(cl)  == UNION {cl[c].n.touched : c \in Clients}

Total(f) == SumFunctionOnSet(f, Clients)

\* What the clients have counted together is what came back to them.
CountsInv ==
  window \in {"warm", "measure"} =>
    /\ Total(Requests(client)) = truth.ok + truth.made + truth.odd + truth.wrong + truth.failed
    /\ Total(Errors(client)) = truth.odd + truth.wrong + truth.failed
    /\ Total(Oks(client)) = truth.ok + truth.odd
    /\ Total(Others(client)) = truth.made + truth.wrong
    /\ window = "measure" => Total(Samples(client)) = truth.ok + truth.made
    /\ Cardinality(Touched(client)) <= Total(Requests(client))

\* Nobody drops an answer before the end of the window, and who drops one
\* leaves.
DroppedInv ==
  window # "none" =>
    /\ ~over => truth.dropped = 0
    /\ truth.dropped <= Cardinality(AtPlace({"away"}))

\* What the server has taken since the measured window began: the answers with
\* 200 that were counted or are on their way, and no more besides than the
\* failures and the answers dropped.
TakenInv ==
  window \in {"measure", "done"} =>
    LET counted == truth.ok + truth.odd
    IN  /\ taken - phase.warm >= counted + Cardinality(AtPlace({"ok", "odd"}))
        /\ taken - phase.warm <= counted + Cardinality(AtPlace({"ok", "odd", "failed"}))
                                   + truth.failed + truth.dropped

\* What it has taken is in its count or will be, until it restarts.
LedgerInv ==
  window # "none" =>
    /\ served + late <= scrape + phase.owed + taken
    /\ ~phase.restarted => served + late = scrape + phase.owed + taken /\ scrape <= served

\* Where the windows of the generator are open, and what is left of them.
PhaseInv ==
  /\ window # "none" => pc \in Driven
  /\ window = "none" => refs = {}
  /\ window = "done" => \A c \in Clients : client[c].pc = "away"
  /\ refs \subseteq 1..ready

\* A node is this run's while it is alive; one that is not has been left
\* behind; stop() has been called only at the end.
NodeInv ==
  /\ alive = (node = "own")
  /\ node = "old" => leftBy # {}
  /\ pc = "exited" /\ node = "own" => leftBy # {}
  /\ pc \notin {"exited", "fatal", "write"} => node # "none"
  /\ stopped => pc \in {"wait", "fatal", "write", "exited"}
  /\ pc = "wait" => then \in {"fatal", "write"}
  /\ pc \in {"fatal", "write"} /\ alive => opt.keep

IInv ==
  /\ LoadTypes /\ CommandTypes
  /\ \A c \in Clients : ClientInv(c)
  /\ CountsInv /\ DroppedInv /\ TakenInv /\ LedgerInv /\ PhaseInv /\ NodeInv
  /\ OutcomeIsTruth /\ DeltaExplained

-----------------------------------------------------------------------------
(* The operators.                                                          *)

\* A window starts with nothing counted.
LEMMA NothingYet ==
  /\ NoCount \in CountSet /\ NoTruth \in TruthSet /\ Away \in ClientSet
  /\ [Away EXCEPT !.pc = "loop"] \in ClientSet /\ [Away EXCEPT !.pc = "loop"].n = NoCount
  /\ [Away EXCEPT !.pc = "loop"].to = 0 /\ [Away EXCEPT !.pc = "loop"].pc = "loop"
  /\ Away.pc = "away" /\ Away.to = 0 /\ Away.n = NoCount
  /\ NoPhase \in PhaseSet /\ NoBlock \in BlockSet
BY DEF NoCount, NoTruth, Away, CountSet, TruthSet, ClientSet, NoTenant, Answered, NoBlock,
       BlockSet, NoPhase, PhaseSet

\* What one request adds keeps the shape of the counts.
LEMMA CountedType ==
  ASSUME NEW n \in CountSet, NEW how \in Answered, NEW to \in 1..Tenants
  PROVE  Counted(n, how, to) \in CountSet
<1>1. /\ n.requests \in Nat /\ n.errors \in Nat /\ n.ok \in Nat /\ n.other \in Nat /\ n.samples \in Nat
      /\ n.failures \in Nat /\ n.touched \in SUBSET (1..Tenants)
  BY DEF CountSet
<1>2. QED
  BY <1>1 DEF Counted, CountSet

LEMMA SummedIs ==
  Summed = [requests |-> Total(Requests(client)), errors |-> Total(Errors(client)),
            ok |-> Total(Oks(client)), other |-> Total(Others(client)),
            samples |-> Total(Samples(client)),
            failures |-> Min({FailureCap, Total(Failures(client))}),
            touched |-> Touched(client)]
BY DEF Summed, Sum, Total, Requests, Errors, Oks, Others, Samples, Failures, Touched

\* The sums have the terms they should.
LEMMA SummedType ==
  ASSUME client \in [Clients -> ClientSet]
  PROVE  Summed \in CountSet
<1>1. \A c \in Clients : client[c].n \in CountSet
  BY DEF ClientSet
<1>2. /\ \A c \in Clients : Requests(client)[c] \in Nat /\ Errors(client)[c] \in Nat
      /\ \A c \in Clients : Oks(client)[c] \in Nat /\ Others(client)[c] \in Nat
      /\ \A c \in Clients : Samples(client)[c] \in Nat
      /\ \A c \in Clients : Failures(client)[c] \in Nat
  BY <1>1 DEF CountSet, Requests, Errors, Oks, Others, Samples, Failures
<1>3. /\ Total(Requests(client)) \in Nat /\ Total(Errors(client)) \in Nat
      /\ Total(Oks(client)) \in Nat /\ Total(Others(client)) \in Nat
      /\ Total(Samples(client)) \in Nat
      /\ Total(Failures(client)) \in Nat
  BY <1>2, SumNat DEF Total
<1>4. Touched(client) \subseteq 1..Tenants
  BY <1>1 DEF Touched, CountSet
<1>5. Min({FailureCap, Total(Failures(client))}) \in Nat
  BY <1>3 DEF Min
<1>6. QED
  BY <1>3, <1>4, <1>5, SummedIs DEF CountSet

\* The next phase is one that was asked for, or pricing.
LEMMA NextPhaseType ==
  ASSUME NEW p \in {"provision", "steady", "hold", "churn"}
  PROVE  NextPhase(p) \in {"steady", "hold", "churn", "price"}
<1> DEFINE W == opt.want \cup {"price", "write"}
           i == CHOOSE k \in DOMAIN Order : Order[k] = p
           J == {j \in 1..6 : j > i /\ Order[j] \in W}
<1>1. /\ DOMAIN Order = 1..6
      /\ Order[1] = "provision" /\ Order[2] = "steady" /\ Order[3] = "hold"
      /\ Order[4] = "churn" /\ Order[5] = "price" /\ Order[6] = "write"
  BY DEF Order
<1>2. i \in 1..4
  BY <1>1
<1> HIDE DEF W, i
<1>3. 5 \in J /\ J \in SUBSET Nat
  BY <1>1, <1>2 DEF W
<1>4. PICK m \in J : \A j \in J : m <= j
  BY <1>3, LeastNumber
<1> DEFINE Is(j) == /\ j > i /\ Order[j] \in W
                    /\ \A k \in i + 1 .. j - 1 : Order[k] \notin W
<1>5. m \in DOMAIN Order /\ Is(m)
  BY <1>1, <1>2, <1>4
<1>6. \A j \in DOMAIN Order : Is(j) => j \in 2..5
  BY <1>1, <1>2, <1>3
<1>7. NextPhase(p) = Order[CHOOSE j \in DOMAIN Order : Is(j)]
  BY Zenon DEF NextPhase, W, i
<1> HIDE DEF Is
<1>8. (CHOOSE j \in DOMAIN Order : Is(j)) \in 2..5
  BY <1>5, <1>6
<1> DEFINE next == CHOOSE j \in DOMAIN Order : Is(j)
<1>9. next \in 2..5 /\ NextPhase(p) = Order[next]
  BY <1>7, <1>8
<1> HIDE DEF next
<1>10. next = 2 \/ next = 3 \/ next = 4 \/ next = 5
  BY <1>9
<1>11. QED
  BY <1>1, <1>9, <1>10

\* Nobody has counted anything: the sums of a window that starts.
LEMMA FreshSums ==
  ASSUME NEW cl, \A c \in Clients : cl[c].n = NoCount
  PROVE  /\ Total(Requests(cl)) = 0 /\ Total(Errors(cl)) = 0 /\ Total(Oks(cl)) = 0
         /\ Total(Others(cl)) = 0 /\ Total(Samples(cl)) = 0 /\ Touched(cl) = {}
<1>1. /\ \A c \in Clients : Requests(cl)[c] = 0 /\ Errors(cl)[c] = 0
      /\ \A c \in Clients : Oks(cl)[c] = 0 /\ Others(cl)[c] = 0 /\ Samples(cl)[c] = 0
  BY DEF Requests, Errors, Oks, Others, Samples, NoCount
<1>2. Touched(cl) = {}
  BY DEF Touched, NoCount
<1>3. QED
  BY <1>1, <1>2, SumZero DEF Total

\* One client's count of a kind changes.
LEMMA TotalMoves ==
  ASSUME NEW f, NEW g, NEW c \in Clients,
         \A d \in Clients : f[d] \in Nat /\ g[d] \in Nat,
         \A d \in Clients \ {c} : f[d] = g[d]
  PROVE  Total(g) = Total(f) + (g[c] - f[c]) /\ Total(f) \in Nat
<1>1. Total(f) \in Nat
  BY SumNat DEF Total
<1>2. \A d \in Clients : f[d] \in Int /\ g[d] \in Int
  OBVIOUS
<1>3. QED
  BY <1>1, <1>2, SumChange DEF Total

\* The clients at a place are finitely many, and one of them leaves or
\* arrives.
LEMMA PlacesFinite ==
  ASSUME NEW P
  PROVE  /\ IsFiniteSet(AtPlace(P)) /\ Cardinality(AtPlace(P)) \in Nat
         /\ Cardinality(AtPlace(P)) <= Cardinality(Clients)
<1>1. AtPlace(P) \subseteq Clients
  BY DEF AtPlace
<1>2. QED
  BY <1>1, FS_Subset, FS_CardinalityType

LEMMA PlaceMoves ==
  ASSUME NEW P, NEW c \in Clients, \A d \in Clients \ {c} : client'[d] = client[d]
  PROVE  Cardinality(AtPlace(P))' = Cardinality(AtPlace(P))
           + (IF client'[c].pc \in P THEN 1 ELSE 0) - (IF client[c].pc \in P THEN 1 ELSE 0)
<1> DEFINE A == AtPlace(P)
           B == AtPlace(P)'
<1>1. /\ IsFiniteSet(A) /\ Cardinality(A) \in Nat
  BY PlacesFinite
<1>2. c \in A <=> client[c].pc \in P
  BY DEF AtPlace
<1>3. c \in B <=> client'[c].pc \in P
  BY DEF AtPlace
<1>4. A \ {c} = B \ {c}
  BY DEF AtPlace
<1> HIDE DEF A, B
<1>5. c \in B => B = (A \ {c}) \cup {c}
  BY <1>4
<1>6. c \notin B => B = A \ {c}
  BY <1>4
<1>7. /\ IsFiniteSet(A \ {c})
      /\ Cardinality(A \ {c}) = Cardinality(A) - (IF c \in A THEN 1 ELSE 0)
  BY <1>1, FS_RemoveElement
<1>8. Cardinality((A \ {c}) \cup {c}) = Cardinality(A \ {c}) + 1
  BY <1>7, FS_AddElement
<1>9. Cardinality(B) = Cardinality(A) + (IF c \in B THEN 1 ELSE 0) - (IF c \in A THEN 1 ELSE 0)
  <2>1. c \in B => Cardinality(B) = Cardinality(A \ {c}) + 1
    BY <1>5, <1>8, Zenon
  <2>2. c \notin B => Cardinality(B) = Cardinality(A \ {c})
    BY <1>6, Zenon
  <2>3. QED
    BY <1>1, <1>7, <2>1, <2>2
<1>10. Cardinality(B) = Cardinality(AtPlace(P))'
  BY DEF B
<1>11. QED
  BY <1>2, <1>3, <1>9, <1>10 DEF A

-----------------------------------------------------------------------------
(* The first state, and the kinds of steps.                                *)

LEMMA InitInv == Init => IInv
<1> SUFFICES ASSUME Init PROVE IInv
  OBVIOUS
<1>1. LoadTypes
  <2>1. paced \in BOOLEAN /\ over \in BOOLEAN /\ tick \in BOOLEAN
    BY Zenon DEF Init, LoadInit
  <2>2. sends \in 0..MaxSends /\ served \in Nat /\ late \in Nat /\ taken \in Nat
    BY DEF Init, LoadInit
  <2>3. client \in [Clients -> ClientSet]
    BY NothingYet DEF Init, LoadInit
  <2>4. QED
    BY <2>1, <2>2, <2>3, NothingYet DEF Init, LoadInit, LoadTypes
<1>2. CommandTypes
  <2>1. alive \in BOOLEAN /\ stopped \in BOOLEAN
    BY Zenon DEF Init
  <2>2. ready \in 0..Tenants /\ runs \in 0..MaxRuns /\ scrape \in Nat
    BY DEF Init
  <2>3. opt \in Options \cup {NoOptions} /\ leftBy \in SUBSET {"keep", "card"}
    BY DEF Init
  <2>4. QED
    BY <2>1, <2>2, <2>3, NothingYet DEF Init, CommandTypes
<1>3. \A c \in Clients : ClientInv(c)
  <2>1. \A c \in Clients : client[c] = Away
    BY DEF Init, LoadInit
  <2>2. QED
    BY <2>1, NothingYet DEF ClientInv, NoTenant, NoCount, Init, LoadInit
<1>4. CountsInv /\ DroppedInv /\ TakenInv /\ LedgerInv /\ OutcomeIsTruth
  BY DEF Init, LoadInit, CountsInv, DroppedInv, TakenInv, LedgerInv, OutcomeIsTruth
<1>5. PhaseInv /\ NodeInv /\ DeltaExplained
  BY DEF Init, LoadInit, PhaseInv, NodeInv, DeltaExplained, NoBlock
<1>6. QED
  BY <1>1, <1>2, <1>3, <1>4, <1>5 DEF IInv

\* A step that leaves the generator alone, between its windows.
Aside ==
  /\ window = "none" /\ (UNCHANGED <<served, late>> \/ (served' = 0 /\ late' = 0))
  /\ UNCHANGED <<refs, paced, window, over, tick, client, out, sends, taken, truth, scrape,
                 phase>>

LEMMA StepKinds ==
  ASSUME IInv, Next
  PROVE  Aside \/ StartPhase \/ DriveStep \/ EndPhase \/ NodeCounts \/ NodeRestarts
<1>1. pc \notin Driven => window = "none"
  BY DEF IInv, PhaseInv
<1>2. \A why : Gone(why) /\ window = "none" => Aside
  BY DEF Gone, Aside, loadVars, serverVars
<1>3. \A next : Stop(next) /\ window = "none" => Aside
  BY DEF Stop, Aside, loadVars, serverVars
<1>4. ASSUME Fatal, window = "none" PROVE Aside
  BY <1>2, <1>3, <1>4 DEF Fatal
<1>5. (StartServe \/ Healthy \/ Provisioned \/ NoProvision \/ Hold) => Aside
  BY <1>1 DEF StartServe, Healthy, Provisioned, NoProvision, Hold, Aside, loadVars, serverVars,
              Driven
<1>6. Waited => Aside
  BY <1>1 DEF Waited, Aside, Driven
<1>7. (NotHealthy \/ ProvisionFails \/ PhaseFails) => Aside
  BY <1>1, <1>4 DEF NotHealthy, ProvisionFails, PhaseFails, Driven
<1>8. NoCard \/ WriteOut \/ Dies => Aside
  BY <1>1, <1>2 DEF NoCard, WriteOut, Dies, Driven
<1>9. Priced => Aside
  BY <1>1, <1>3 DEF Priced, Aside, loadVars, serverVars, Driven
<1>10. QED
  BY <1>5, <1>6, <1>7, <1>8, <1>9 DEF Next, Bounded

-----------------------------------------------------------------------------
(* The command.                                                            *)

\* The end of a process that may leave its node.
LEMMA GoneKeeps ==
  ASSUME CommandTypes, NodeInv, NEW why, Gone(why), alive => why \in {"keep", "card"}
  PROVE  CommandTypes' /\ NodeInv'
<1>1. /\ pc' = "exited" /\ block' = NoBlock
      /\ leftBy' = (IF alive THEN leftBy \cup {why} ELSE leftBy)
      /\ opt' = opt /\ ready' = ready /\ node' = node /\ alive' = alive /\ runs' = runs
      /\ stopped' = stopped /\ then' = then /\ scrape' = scrape /\ phase' = phase
  BY DEF Gone
<1>2. leftBy' \in SUBSET {"keep", "card"}
  BY <1>1 DEF CommandTypes
<1>3. CommandTypes'
  BY <1>1, <1>2, NothingYet DEF CommandTypes
<1>4. NodeInv'
  BY <1>1 DEF NodeInv
<1>5. QED
  BY <1>3, <1>4

\* stop() signals a node and waits.
LEMMA StopKeeps ==
  ASSUME CommandTypes, NodeInv, NEW next \in {"fatal", "write"}, Stop(next),
         pc \notin {"exited", "fatal", "write"}
  PROVE  CommandTypes' /\ NodeInv'
<1>1. /\ pc' = "wait" /\ then' = next /\ stopped' = TRUE
      /\ opt' = opt /\ ready' = ready /\ node' = node /\ alive' = alive /\ runs' = runs
      /\ scrape' = scrape /\ block' = block /\ phase' = phase /\ leftBy' = leftBy
  BY DEF Stop
<1>2. stopped' \in BOOLEAN
  BY <1>1, Zenon
<1>3. CommandTypes'
  BY <1>1, <1>2 DEF CommandTypes
<1>4. NodeInv'
  BY <1>1 DEF NodeInv
<1>5. QED
  BY <1>3, <1>4

\* An error the command foresees, anywhere before the node is stopped.
LEMMA FatalKeeps ==
  ASSUME CommandTypes, NodeInv, Fatal, pc \notin {"wait", "fatal", "write", "exited"}
  PROVE  CommandTypes' /\ NodeInv'
<1>1. CASE Stop("fatal")
  BY <1>1, StopKeeps
<1>2. CASE (stopped \/ opt.keep) /\ Gone(Why)
  <2>1. opt.keep
    BY <1>2 DEF NodeInv
  <2>2. QED
    BY <1>2, <2>1, GoneKeeps DEF Why
<1>3. QED
  BY <1>1, <1>2 DEF Fatal

LEMMA CommandKept ==
  ASSUME IInv, Next
  PROVE  CommandTypes' /\ NodeInv'
<1>1. CommandTypes /\ NodeInv /\ LoadTypes
  BY DEF IInv
<1>2. CASE StartServe
  <2>1. alive' = (node = "none") /\ stopped' = FALSE
    BY <1>2 DEF StartServe
  <2>2. alive' \in BOOLEAN /\ stopped' \in BOOLEAN
    BY <2>1, Zenon
  <2>3. runs' \in 0..MaxRuns
    BY <1>1, <1>2 DEF StartServe, CommandTypes
  <2>4. CommandTypes'
    BY <1>1, <1>2, <2>2, <2>3, NothingYet DEF StartServe, CommandTypes
  <2>5. NodeInv'
    BY <1>1, <1>2 DEF StartServe, NodeInv, CommandTypes
  <2>6. QED
    BY <2>4, <2>5
<1>3. CASE Healthy
  BY <1>1, <1>3 DEF Healthy, CommandTypes, NodeInv
<1>4. CASE NotHealthy
  BY <1>1, <1>4, FatalKeeps DEF NotHealthy
<1>5. CASE Provisioned \/ NoProvision \/ Hold
  <2>1. pc' \in {"steady", "hold", "churn", "price"} /\ pc \in {"provision", "hold"}
    BY <1>5, NextPhaseType DEF Provisioned, NoProvision, Hold
  <2>2. ready' \in 0..Tenants
    BY <1>1, <1>5 DEF Provisioned, NoProvision, Hold, CommandTypes
  <2>3. /\ opt' = opt /\ node' = node /\ alive' = alive /\ runs' = runs
        /\ stopped' = stopped /\ then' = then /\ scrape' = scrape /\ block' = block
        /\ phase' = phase /\ leftBy' = leftBy
    BY <1>5 DEF Provisioned, NoProvision, Hold
  <2>4. QED
    BY <1>1, <2>1, <2>2, <2>3 DEF CommandTypes, NodeInv
<1>6. CASE ProvisionFails
  BY <1>1, <1>6, FatalKeeps DEF ProvisionFails
<1>7. CASE Waited
  <2>1. /\ pc' = then /\ alive' = FALSE /\ node' = (IF alive THEN "none" ELSE node)
        /\ opt' = opt /\ ready' = ready /\ runs' = runs /\ stopped' = stopped
        /\ then' = then /\ scrape' = scrape /\ block' = block /\ phase' = phase
        /\ leftBy' = leftBy
    BY <1>7, Zenon DEF Waited
  <2>2. then \in {"fatal", "write"}
    BY <1>1, <1>7 DEF Waited, NodeInv
  <2>3. alive' \in BOOLEAN
    BY <2>1, Zenon
  <2>4. CommandTypes'
    BY <1>1, <2>1, <2>2, <2>3 DEF CommandTypes
  <2>5. NodeInv'
    BY <1>1, <2>1, <2>2 DEF NodeInv
  <2>6. QED
    BY <2>4, <2>5
<1>8. CASE StartPhase
  <2>1. phase' \in PhaseSet
    BY <1>1, <1>8, NothingYet DEF StartPhase, PhaseSet, LoadTypes
  <2>2. CommandTypes'
    BY <1>1, <1>8, <2>1, NothingYet DEF StartPhase, CommandTypes, LoadTypes
  <2>3. QED
    BY <1>1, <1>8, <2>2 DEF StartPhase, NodeInv
<1>9. CASE PhaseFails
  BY <1>1, <1>9, FatalKeeps DEF PhaseFails, Driven
<1>10. CASE DriveStep
  <2>1. phase' \in {phase, [phase EXCEPT !.warm = taken]}
    BY <1>10 DEF DriveStep, While
  <2>2. phase' \in PhaseSet
    BY <1>1, <2>1 DEF CommandTypes, LoadTypes, PhaseSet
  <2>3. QED
    BY <1>1, <1>10, <2>2 DEF DriveStep, While, CommandTypes, NodeInv
<1>11. CASE EndPhase
  <2>1. pc \in Driven /\ pc' \in {"steady", "hold", "churn", "price"}
    BY <1>11, NextPhaseType DEF EndPhase, Driven
  <2>2. PICK read \in BOOLEAN, d \in PhaseDelta \cup {0} : block' = Block(read, d)
    BY <1>11 DEF EndPhase
  <2>3. d \in Int
    BY <1>1 DEF PhaseDelta, LoadTypes, CommandTypes
  <2>4. out.ok \in Nat /\ truth.dropped + truth.failed \in Nat
    BY <1>1 DEF LoadTypes, CountSet, TruthSet
  <2>5. block' \in BlockSet
    BY <1>1, <2>2, <2>3, <2>4 DEF Block, BlockSet, LoadTypes, CommandTypes
  <2>6. scrape' = 0 /\ phase' = NoPhase
    BY <1>11 DEF EndPhase
  <2>7. CommandTypes'
    BY <1>1, <1>11, <2>1, <2>5, <2>6, NothingYet DEF EndPhase, CommandTypes
  <2>8. QED
    BY <1>1, <1>11, <2>1, <2>7 DEF EndPhase, NodeInv, Driven
<1>12. CASE Priced
  <2>1. CASE Stop("write")
    BY <1>1, <1>12, <2>1, StopKeeps DEF Priced
  <2>2. CASE ~Stop("write")
    <3>1. /\ stopped \/ opt.keep
          /\ pc = "price" /\ pc' = "write"
          /\ UNCHANGED <<opt, ready, node, alive, runs, stopped, then, scrape, block, phase,
                         leftBy, loadVars>>
      BY <1>12, <2>2 DEF Priced
    <3>2. opt.keep
      BY <1>1, <3>1 DEF NodeInv
    <3>3. QED
      BY <1>1, <3>1, <3>2 DEF CommandTypes, NodeInv
  <2>3. QED
    BY <2>1, <2>2
<1>13. CASE NoCard
  BY <1>1, <1>13, GoneKeeps DEF NoCard
<1>14. CASE WriteOut \/ Dies
  <2>1. Gone(Why) /\ pc \in {"fatal", "write"}
    BY <1>14 DEF WriteOut, Dies
  <2>2. alive => Why \in {"keep", "card"}
    BY <1>1, <2>1 DEF NodeInv, Why
  <2>3. QED
    BY <1>1, <2>1, <2>2, GoneKeeps
<1>15. CASE NodeCounts
  <2>1. UNCHANGED <<pc, opt, ready, node, alive, runs, stopped, then, scrape, block, phase, leftBy>>
    BY <1>15 DEF NodeCounts, cmdVars
  <2>2. QED
    BY <1>1, <2>1 DEF CommandTypes, NodeInv
<1>16. CASE NodeRestarts
  <2>1. UNCHANGED <<pc, opt, ready, node, alive, runs, stopped, then, scrape, block, leftBy>>
    BY <1>16 DEF NodeRestarts
  <2>2. phase' \in PhaseSet
    <3>1. phase' = [phase EXCEPT !.restarted = TRUE] /\ phase \in PhaseSet
      BY <1>1, <1>16 DEF NodeRestarts, CommandTypes
    <3>2. QED
      BY <3>1, Zenon DEF PhaseSet
  <2>3. QED
    BY <1>1, <2>1, <2>2 DEF CommandTypes, NodeInv
<1>17. QED
  BY <1>2, <1>3, <1>4, <1>5, <1>6, <1>7, <1>8, <1>9, <1>10, <1>11, <1>12, <1>13, <1>14,
     <1>15, <1>16 DEF Next, Bounded

\* The node's count of a phase, once its window is done.
LEMMA DeltaKept ==
  ASSUME IInv, Next
  PROVE  DeltaExplained'
<1>1. block' = block \/ block' = NoBlock \/ EndPhase
  BY Zenon DEF Next, Bounded, StartServe, Healthy, NotHealthy, Provisioned, NoProvision,
     ProvisionFails, Hold, StartPhase, PhaseFails, DriveStep, While, Priced, NoCard, WriteOut,
     Dies, Waited, NodeCounts, NodeRestarts, Fatal, Gone, Stop, cmdVars
<1>2. CASE block' = block
  BY <1>2 DEF IInv, DeltaExplained
<1>3. CASE block' = NoBlock
  BY <1>3 DEF DeltaExplained, NoBlock
<1>4. CASE EndPhase
  <2>1. PICK read \in BOOLEAN, d \in PhaseDelta \cup {0} :
          block' = Block(read, d) /\ (read => d \in PhaseDelta)
    BY <1>4 DEF EndPhase
  <2>2. window = "done"
    BY <1>4 DEF EndPhase
  <2>3. \A c \in Clients : client[c].pc = "away"
    BY <2>2 DEF IInv, PhaseInv
  <2>4. AtPlace({"ok", "odd"}) = {} /\ AtPlace({"ok", "odd", "failed"}) = {}
    BY <2>3 DEF AtPlace
  <2>5. /\ truth.ok \in Nat /\ truth.odd \in Nat /\ truth.failed \in Nat
        /\ truth.dropped \in Nat /\ served \in Nat /\ late \in Nat /\ taken \in Nat
        /\ scrape \in Nat /\ phase.owed \in Nat /\ phase.warm \in Nat
    BY DEF IInv, LoadTypes, CommandTypes, TruthSet, PhaseSet
  <2>6. /\ taken - phase.warm >= truth.ok + truth.odd
        /\ taken - phase.warm <= truth.ok + truth.odd + truth.failed + truth.dropped
    <3>1. /\ Cardinality(AtPlace({"ok", "odd"})) = 0
          /\ Cardinality(AtPlace({"ok", "odd", "failed"})) = 0
      BY <2>4, FS_EmptySet, Zenon
    <3>2. QED
      BY <2>2, <2>5, <3>1 DEF IInv, TakenInv
  <2>7. out.ok = truth.ok + truth.odd
    BY <2>2 DEF IInv, OutcomeIsTruth
  <2>8. /\ served + late <= scrape + phase.owed + taken
        /\ ~phase.restarted => served + late = scrape + phase.owed + taken /\ scrape <= served
    BY <2>2 DEF IInv, LedgerInv
  <2>9. /\ block'.read = read /\ block'.delta = d /\ block'.ok = out.ok
        /\ block'.loose = truth.dropped + truth.failed /\ block'.unpaid = late
        /\ block'.of = phase
    BY <2>1 DEF Block
  <2>10. read => d = served - scrape \/ (d = 0 /\ served = 0)
    BY <2>1 DEF PhaseDelta
  <2>11. ASSUME read, ~phase.restarted PROVE d = served - scrape /\ d >= 0
    BY <2>5, <2>8, <2>10, <2>11
  <2>12. ASSUME read
         PROVE  /\ d - out.ok - phase.warm - phase.owed <= truth.dropped + truth.failed
                /\ ~phase.restarted => d - out.ok - phase.warm - phase.owed + late
                                         \in 0..(truth.dropped + truth.failed)
                /\ d < 0 => phase.restarted
    <3>1. d - out.ok - phase.warm - phase.owed <= truth.dropped + truth.failed
      <4>1. CASE d = served - scrape
        BY <2>5, <2>6, <2>7, <2>8, <4>1
      <4>2. CASE d = 0
        BY <2>5, <2>7, <4>2
      <4>3. QED
        BY <2>10, <2>12, <4>1, <4>2
    <3>2. ASSUME ~phase.restarted
          PROVE  d - out.ok - phase.warm - phase.owed + late
                   \in 0..(truth.dropped + truth.failed)
      BY <2>5, <2>6, <2>7, <2>8, <2>11, <2>12, <3>2
    <3>3. QED
      BY <2>5, <2>11, <2>12, <3>1, <3>2
  <2>13. QED
    BY <2>9, <2>12 DEF DeltaExplained
<1>5. QED
  BY <1>1, <1>2, <1>3, <1>4

-----------------------------------------------------------------------------
(* The generator.                                                          *)

LoadInv ==
  /\ LoadTypes /\ \A c \in Clients : ClientInv(c)
  /\ CountsInv /\ DroppedInv /\ TakenInv /\ LedgerInv /\ PhaseInv /\ OutcomeIsTruth

LEMMA AsideKeeps ==
  ASSUME IInv, Aside
  PROVE  LoadInv'
<1>1. /\ window = "none" /\ window' = "none" /\ refs' = refs /\ paced' = paced /\ over' = over
      /\ tick' = tick /\ client' = client /\ out' = out /\ sends' = sends /\ truth' = truth
      /\ taken' = taken
      /\ (served' = served /\ late' = late) \/ (served' = 0 /\ late' = 0)
  BY DEF Aside
<1>2. served' \in Nat /\ late' \in Nat
  BY <1>1 DEF IInv, LoadTypes
<1>3. LoadTypes'
  BY <1>1, <1>2 DEF IInv, LoadTypes
<1>4. \A c \in Clients : ClientInv(c)'
  BY <1>1 DEF IInv, ClientInv
<1>5. CountsInv' /\ DroppedInv' /\ TakenInv' /\ LedgerInv' /\ OutcomeIsTruth'
  BY <1>1 DEF CountsInv, DroppedInv, TakenInv, LedgerInv, OutcomeIsTruth
<1>6. PhaseInv'
  <2>1. ready' = ready \/ refs' = {}
    BY <1>1 DEF IInv, PhaseInv
  <2>2. QED
    BY <1>1, <2>1 DEF IInv, PhaseInv
<1>7. QED
  BY <1>3, <1>4, <1>5, <1>6 DEF LoadInv

\* The node counts or restarts beside the generator.
LEMMA NodeKeeps ==
  ASSUME IInv, NodeCounts \/ NodeRestarts
  PROVE  LoadInv'
<1>1. /\ window' = window /\ refs' = refs /\ paced' = paced /\ over' = over /\ tick' = tick
      /\ client' = client /\ out' = out /\ sends' = sends /\ truth' = truth
      /\ taken' = taken /\ pc' = pc /\ ready' = ready /\ scrape' = scrape
  BY DEF NodeCounts, NodeRestarts, CountLate, Restart, cmdVars
<1>2. \/ late > 0 /\ late' = late - 1 /\ served' = served + 1 /\ phase' = phase
      \/ late' = 0 /\ served' = 0 /\ phase' = [phase EXCEPT !.restarted = TRUE]
  BY DEF NodeCounts, NodeRestarts, CountLate, Restart, cmdVars
<1>3. /\ served \in Nat /\ late \in Nat /\ taken \in Nat /\ scrape \in Nat
      /\ phase \in PhaseSet /\ phase.owed \in Nat
  BY DEF IInv, LoadTypes, CommandTypes, PhaseSet
<1>4. /\ phase'.owed = phase.owed /\ phase'.warm = phase.warm
      /\ \/ late > 0 /\ late' = late - 1 /\ served' = served + 1 /\ phase' = phase
         \/ late' = 0 /\ served' = 0 /\ phase'.restarted = TRUE
  <2>1. [phase EXCEPT !.restarted = TRUE].restarted = TRUE
    BY <1>3, Zenon DEF PhaseSet
  <2>2. /\ [phase EXCEPT !.restarted = TRUE].owed = phase.owed
        /\ [phase EXCEPT !.restarted = TRUE].warm = phase.warm
    BY <1>3 DEF PhaseSet
  <2>3. QED
    BY <1>2, <2>1, <2>2, Zenon
<1>5. served' \in Nat /\ late' \in Nat
  BY <1>2, <1>3
<1>6. LoadTypes'
  BY <1>1, <1>5 DEF IInv, LoadTypes
<1>7. \A c \in Clients : ClientInv(c)'
  BY <1>1 DEF IInv, ClientInv
<1>8. CountsInv' /\ DroppedInv' /\ TakenInv'
  BY <1>1, <1>4 DEF IInv, CountsInv, DroppedInv, TakenInv, AtPlace
<1>9. LedgerInv'
  <2>1. CASE late > 0 /\ late' = late - 1 /\ served' = served + 1 /\ phase' = phase
    BY <1>1, <1>3, <2>1 DEF IInv, LedgerInv
  <2>2. CASE late' = 0 /\ served' = 0 /\ phase'.restarted = TRUE
    BY <1>1, <1>3, <1>4, <2>2 DEF LedgerInv
  <2>3. QED
    BY <1>4, <2>1, <2>2
<1>10. PhaseInv' /\ OutcomeIsTruth'
  BY <1>1 DEF IInv, PhaseInv, OutcomeIsTruth
<1>11. QED
  BY <1>6, <1>7, <1>8, <1>9, <1>10 DEF LoadInv

\* A window starts: with clients that have counted nothing, and with nothing
\* served since.
LEMMA WindowStarts ==
  ASSUME NEW w \in {"warm", "measure"}, StartWindow(w), pc' \in Driven, LoadTypes,
         refs' \subseteq 1..Tenants, refs' \subseteq 1..ready', paced' \in BOOLEAN,
         out' \in CountSet, sends' \in 0..MaxSends, served' = served, late' = late,
         taken' \in Nat, w = "measure" => phase'.warm = taken', LedgerInv'
  PROVE  LoadInv'
<1>1. /\ window' = w /\ over' = FALSE /\ tick' = FALSE /\ truth' = NoTruth
      /\ client' = [c \in Clients |-> [Away EXCEPT !.pc = "loop"]]
  BY DEF StartWindow
<1>2. \A c \in Clients : client'[c].n = NoCount /\ client'[c].to = 0 /\ client'[c].pc = "loop"
  BY <1>1, NothingYet
<1>3. /\ truth'.ok = 0 /\ truth'.made = 0 /\ truth'.odd = 0 /\ truth'.wrong = 0
      /\ truth'.failed = 0 /\ truth'.dropped = 0
  BY <1>1 DEF NoTruth
<1>4. LoadTypes'
  <2>1. over' \in BOOLEAN /\ tick' \in BOOLEAN
    BY <1>1, Zenon
  <2>2. client' \in [Clients -> ClientSet]
    BY <1>1, NothingYet
  <2>3. QED
    BY <1>1, <2>1, <2>2, NothingYet DEF LoadTypes
<1>5. \A c \in Clients : ClientInv(c)'
  BY <1>2 DEF ClientInv, NoCount, NoTenant
<1>6. CountsInv'
  <2>1. /\ Total(Requests(client')) = 0 /\ Total(Errors(client')) = 0
        /\ Total(Oks(client')) = 0 /\ Total(Others(client')) = 0 /\ Total(Samples(client')) = 0
        /\ Touched(client') = {}
    BY <1>2, FreshSums
  <2>2. Cardinality(Touched(client')) = 0
    BY <2>1, FS_EmptySet, Zenon
  <2>3. QED
    BY <1>3, <2>1, <2>2 DEF CountsInv, Total, Requests, Errors, Oks, Others, Samples, Touched
<1>7. DroppedInv'
  <2>1. AtPlace({"away"})' = {}
    BY <1>2 DEF AtPlace
  <2>2. Cardinality(AtPlace({"away"}))' = 0
    BY <2>1, FS_EmptySet
  <2>3. QED
    BY <1>3, <2>2 DEF DroppedInv
<1>8. TakenInv'
  <2>1. AtPlace({"ok", "odd"})' = {} /\ AtPlace({"ok", "odd", "failed"})' = {}
    BY <1>2 DEF AtPlace
  <2>2. /\ Cardinality(AtPlace({"ok", "odd"}))' = 0
        /\ Cardinality(AtPlace({"ok", "odd", "failed"}))' = 0
    BY <2>1, FS_EmptySet
  <2>3. QED
    BY <1>1, <1>3, <2>2 DEF TakenInv
<1>9. PhaseInv' /\ OutcomeIsTruth'
  BY <1>1 DEF PhaseInv, OutcomeIsTruth
<1>10. QED
  BY <1>4, <1>5, <1>6, <1>7, <1>8, <1>9 DEF LoadInv

LEMMA StartPhaseKeeps ==
  ASSUME IInv, StartPhase
  PROVE  LoadInv'
<1>1. PICK w \in {"warm", "measure"} : StartWindow(w)
  BY DEF StartPhase, Drive, StartLoad
<1>2. Width \in Nat /\ Width <= ready /\ ready \in 0..Tenants
  BY DEF Width, IInv, CommandTypes
<1>3. refs' \subseteq 1..Tenants /\ refs' \subseteq 1..ready'
  BY <1>2 DEF StartPhase, Drive, StartLoad
<1>4. paced' \in BOOLEAN
  <2>1. opt.rated \in BOOLEAN
    <3>1. CASE opt \in Options
      <4>1. opt \in [want : SUBSET {"provision", "steady", "hold", "churn"},
                     keep : BOOLEAN, rated : BOOLEAN, warmup : BOOLEAN]
        BY <3>1
      <4>2. QED
        BY <4>1
    <3>2. CASE opt = NoOptions
      BY <3>2 DEF NoOptions
    <3>3. QED
      BY <3>1, <3>2 DEF IInv, CommandTypes
  <2>2. QED
    BY <2>1 DEF StartPhase, Drive, StartLoad
<1>5. /\ out' \in CountSet /\ sends' \in 0..MaxSends /\ served' = served /\ late' = late
      /\ taken' = 0 /\ taken' \in Nat
  BY NothingYet DEF StartPhase, Drive, StartLoad
<1>6. scrape' = served /\ pc' \in Driven /\ phase'.owed = late /\ phase'.warm = 0
  BY DEF StartPhase, NoPhase
<1>7. LoadTypes /\ LedgerInv'
  BY <1>5, <1>6 DEF IInv, LoadTypes, LedgerInv
<1>8. QED
  BY <1>1, <1>3, <1>4, <1>5, <1>6, <1>7, WindowStarts

LEMMA WarmupDoneKeeps ==
  ASSUME IInv, While(WarmupDone)
  PROVE  LoadInv'
<1>1. StartWindow("measure") /\ window = "warm"
  BY DEF While, WarmupDone
<1>2. /\ refs' = refs /\ paced' = paced /\ out' = out /\ sends' = sends /\ served' = served
      /\ late' = late /\ taken' = taken /\ ready' = ready /\ scrape' = scrape /\ pc' \in Driven
  BY DEF While, WarmupDone, serverVars
<1>3. phase' = [phase EXCEPT !.warm = taken]
  <2>1. window' = "measure"
    BY <1>1 DEF StartWindow
  <2>2. QED
    BY <1>1, <2>1 DEF While
<1>4. LoadTypes /\ phase'.warm = taken' /\ LedgerInv'
  <2>1. /\ phase'.warm = taken' /\ phase'.owed = phase.owed
        /\ phase'.restarted = phase.restarted
    BY <1>2, <1>3 DEF IInv, CommandTypes, PhaseSet
  <2>2. QED
    BY <1>1, <1>2, <2>1 DEF IInv, LedgerInv
<1>5. /\ refs' \subseteq 1..Tenants /\ refs' \subseteq 1..ready' /\ paced' \in BOOLEAN
      /\ out' \in CountSet /\ sends' \in 0..MaxSends /\ taken' \in Nat
  BY <1>2 DEF IInv, LoadTypes, PhaseInv
<1>6. QED
  BY <1>1, <1>2, <1>4, <1>5, WindowStarts

LEMMA EndPhaseKeeps ==
  ASSUME IInv, EndPhase
  PROVE  LoadInv'
<1>1. /\ window' = "none" /\ refs' = {} /\ paced' = FALSE /\ over' = FALSE /\ tick' = FALSE
      /\ client' = [c \in Clients |-> Away] /\ out' = NoCount /\ sends' = 0
      /\ truth' = NoTruth /\ served' = served /\ late' = late /\ taken' = 0
  BY DEF EndPhase, LoadReset
<1>2. LoadTypes'
  <2>1. over' \in BOOLEAN /\ tick' \in BOOLEAN /\ paced' \in BOOLEAN
    BY <1>1, Zenon
  <2>2. client' \in [Clients -> ClientSet]
    BY <1>1, NothingYet
  <2>3. sends' \in 0..MaxSends /\ taken' \in Nat
    BY <1>1
  <2>4. QED
    BY <1>1, <2>1, <2>2, <2>3, NothingYet DEF LoadTypes, IInv
<1>3. \A c \in Clients : ClientInv(c)'
  <2>1. \A c \in Clients : client'[c] = Away
    BY <1>1
  <2>2. QED
    BY <1>1, <2>1, NothingYet DEF ClientInv, NoCount, NoTenant
<1>4. CountsInv' /\ DroppedInv' /\ OutcomeIsTruth' /\ PhaseInv'
  BY <1>1 DEF CountsInv, DroppedInv, OutcomeIsTruth, PhaseInv
<1>5. TakenInv' /\ LedgerInv'
  BY <1>1 DEF TakenInv, LedgerInv
<1>6. QED
  BY <1>2, <1>3, <1>4, <1>5 DEF LoadInv

\* The end of the context and the ticker touch no count.
LEMMA SignalsKeep ==
  ASSUME IInv, While(Expire) \/ While(TickFires)
  PROVE  LoadInv'
<1>1. /\ InWindow /\ window' = window /\ refs' = refs /\ paced' = paced /\ client' = client
      /\ out' = out /\ sends' = sends /\ served' = served /\ truth' = truth
      /\ late' = late /\ taken' = taken /\ scrape' = scrape /\ pc' = pc /\ ready' = ready
  BY DEF While, Expire, TickFires, serverVars
<1>2. phase' = phase
  BY <1>1 DEF While
<1>3. (over' = TRUE \/ over' = over) /\ (tick' = TRUE \/ tick' = tick)
  BY DEF While, Expire, TickFires
<1>4. LoadTypes'
  <2>1. over' \in BOOLEAN /\ tick' \in BOOLEAN
    BY <1>3, Zenon DEF IInv, LoadTypes
  <2>2. QED
    BY <1>1, <2>1 DEF IInv, LoadTypes
<1>5. \A c \in Clients : ClientInv(c)'
  BY <1>1 DEF IInv, ClientInv
<1>6. CountsInv'
  BY <1>1 DEF IInv, CountsInv
<1>7. DroppedInv'
  BY <1>1, <1>3 DEF IInv, DroppedInv, AtPlace
<1>8. TakenInv' /\ LedgerInv'
  BY <1>1, <1>2 DEF IInv, TakenInv, LedgerInv, AtPlace
<1>9. PhaseInv' /\ OutcomeIsTruth'
  BY <1>1 DEF IInv, PhaseInv, OutcomeIsTruth, InWindow
<1>10. QED
  BY <1>4, <1>5, <1>6, <1>7, <1>8, <1>9 DEF LoadInv

\* The failures in words are cut off for every client and once more for all
\* of them, which comes to the same as cutting off the errors.
LEMMA FailuresSummed ==
  ASSUME client \in [Clients -> ClientSet], \A c \in Clients : ClientInv(c)
  PROVE  Min({FailureCap, Total(Failures(client))}) = Min({FailureCap, Total(Errors(client))})
<1> DEFINE F == Failures(client)
           E == Errors(client)
<1>1. \A c \in Clients : client[c].n.errors \in Nat /\ client[c].n.failures \in Nat
  BY DEF ClientSet, CountSet
<1>2. \A c \in Clients : /\ E[c] \in Nat /\ F[c] \in Nat
                         /\ F[c] = IF E[c] < FailureCap THEN E[c] ELSE FailureCap
  BY <1>1 DEF Failures, Errors, ClientInv
<1> HIDE DEF F, E
<1>3. Total(F) \in Nat /\ Total(E) \in Nat
  BY <1>2, SumNat DEF Total
<1>4. \A a, b \in Nat : Min({a, b}) = IF a <= b THEN a ELSE b
  BY DEF Min
<1>5. CASE \E c \in Clients : E[c] >= FailureCap
  <2>1. PICK c \in Clients : E[c] >= FailureCap
    BY <1>5
  <2>2. F[c] <= Total(F) /\ E[c] <= Total(E)
    BY <1>2, SumHas DEF Total
  <2>3. FailureCap <= Total(F) /\ FailureCap <= Total(E)
    BY <1>2, <1>3, <2>1, <2>2
  <2>4. QED
    BY <1>3, <1>4, <2>3 DEF F, E
<1>6. CASE \A c \in Clients : E[c] < FailureCap
  <2>1. \A c \in Clients : F[c] = E[c]
    BY <1>2, <1>6
  <2>2. Total(F) = Total(E)
    BY <2>1, SumSame DEF Total
  <2>3. QED
    BY <2>2 DEF F, E
<1>7. QED
  BY <1>2, <1>5, <1>6

\* The clients have joined and their counts are added up.
LEMMA DriveDoneKeeps ==
  ASSUME IInv, While(DriveDone)
  PROVE  LoadInv'
<1>1. /\ window = "measure" /\ window' = "done" /\ refs' = refs /\ paced' = paced
      /\ client' = client /\ over' = over /\ tick' = tick
      /\ out' = Summed /\ sends' = sends /\ served' = served /\ truth' = truth
      /\ late' = late /\ taken' = taken
      /\ scrape' = scrape /\ pc' = pc /\ ready' = ready /\ phase' = phase
      /\ \A c \in Clients : client[c].pc = "away"
  BY DEF While, DriveDone, Joined, serverVars
<1>2. LoadTypes /\ \A c \in Clients : ClientInv(c)
  BY DEF IInv
<1>3. LoadTypes'
  <2>1. Summed \in CountSet
    BY <1>2, SummedType DEF LoadTypes
  <2>2. QED
    BY <1>1, <1>2, <2>1 DEF LoadTypes
<1>4. \A c \in Clients : ClientInv(c)'
  BY <1>1, <1>2 DEF ClientInv
<1>5. DroppedInv'
  BY <1>1 DEF IInv, DroppedInv, AtPlace
<1>6. TakenInv' /\ LedgerInv'
  BY <1>1 DEF IInv, TakenInv, LedgerInv, AtPlace
<1>7. CountsInv' /\ PhaseInv'
  BY <1>1 DEF IInv, PhaseInv, CountsInv
<1>8. OutcomeIsTruth'
  <2>1. /\ out'.requests = Total(Requests(client)) /\ out'.errors = Total(Errors(client))
        /\ out'.ok = Total(Oks(client)) /\ out'.other = Total(Others(client))
        /\ out'.samples = Total(Samples(client))
        /\ out'.failures = Min({FailureCap, Total(Failures(client))})
        /\ out'.touched = Touched(client)
    BY <1>1, SummedIs
  <2>2. /\ truth.ok \in Nat /\ truth.made \in Nat /\ truth.odd \in Nat /\ truth.wrong \in Nat
        /\ truth.failed \in Nat /\ truth.dropped \in Nat
    BY <1>2 DEF LoadTypes, TruthSet
  <2>3. /\ Total(Requests(client)) = truth.ok + truth.made + truth.odd + truth.wrong + truth.failed
        /\ Total(Errors(client)) = truth.odd + truth.wrong + truth.failed
        /\ Total(Oks(client)) = truth.ok + truth.odd
        /\ Total(Others(client)) = truth.made + truth.wrong
        /\ Total(Samples(client)) = truth.ok + truth.made
        /\ Cardinality(Touched(client)) <= Total(Requests(client))
    BY <1>1 DEF IInv, CountsInv
  <2>4. truth.dropped <= Cardinality(Clients)
    <3>1. truth.dropped <= Cardinality(AtPlace({"away"}))
      BY <1>1 DEF IInv, DroppedInv
    <3>2. QED
      BY <2>2, <3>1, PlacesFinite, FS_CardinalityType
  <2>5. Touched(client) \subseteq refs
    BY <1>2 DEF Touched, ClientInv
  <2>6. out'.failures = Min({FailureCap, out'.errors})
    BY <1>2, <2>1, FailuresSummed DEF LoadTypes
  <2>7. QED
    BY <1>1, <2>1, <2>2, <2>3, <2>4, <2>5, <2>6 DEF OutcomeIsTruth
<1>9. QED
  BY <1>3, <1>4, <1>5, <1>6, <1>7, <1>8 DEF LoadInv

\* What every step of a client leaves alone.
LEMMA ClientFrame ==
  ASSUME IInv, NEW c \in Clients, While(ClientStep(c))
  PROVE  /\ window \in {"warm", "measure"} /\ window' = window /\ refs' = refs
         /\ paced' = paced /\ over' = over /\ out' = out /\ phase' = phase
         /\ scrape' = scrape /\ pc' = pc /\ ready' = ready
         /\ late' \in Nat /\ taken' \in Nat /\ served' = served /\ LedgerInv'
         /\ tick' \in BOOLEAN /\ sends' \in 0..MaxSends
<1>1. ClientStep(c) /\ InWindow
  BY DEF While
<1>2. /\ window' = window /\ refs' = refs /\ paced' = paced /\ over' = over /\ out' = out
      /\ (tick' = tick \/ tick' = FALSE)
      /\ (sends' = sends \/ (sends < MaxSends /\ sends' = sends + 1))
  BY <1>1 DEF ClientStep, Leave, Send, Serve, Fail, Return
<1>3. /\ served' = served
      /\ \/ late' = late /\ taken' = taken
         \/ late' = late + 1 /\ taken' = taken + 1
  BY <1>1, Zenon DEF ClientStep, Leave, Send, Serve, Fail, Return, Takes, serverVars
<1>4. sends' \in 0..MaxSends
  BY <1>2 DEF IInv, LoadTypes
<1>5. tick' \in BOOLEAN
  BY <1>2, Zenon DEF IInv, LoadTypes
<1>6. phase' = phase /\ scrape' = scrape /\ pc' = pc /\ ready' = ready
  BY <1>1, <1>2 DEF While, InWindow
<1>7. late' \in Nat /\ taken' \in Nat /\ LedgerInv'
  <2>1. /\ served \in Nat /\ late \in Nat /\ taken \in Nat /\ scrape \in Nat
        /\ phase.owed \in Nat
    BY DEF IInv, LoadTypes, CommandTypes, PhaseSet
  <2>2. QED
    BY <1>2, <1>6, <1>3, <2>1 DEF IInv, LedgerInv
<1>8. QED
  BY <1>1, <1>2, <1>4, <1>5, <1>6, <1>3, <1>7 DEF InWindow

\* What one client's step must show for the rest to follow.
LEMMA ClientKeeps ==
  ASSUME IInv, NEW c \in Clients, While(ClientStep(c)),
         client' \in [Clients -> ClientSet], truth' \in TruthSet,
         \A d \in Clients \ {c} : client'[d] = client[d],
         ClientInv(c)', CountsInv', DroppedInv', TakenInv'
  PROVE  LoadInv'
<1>1. LoadTypes'
  BY ClientFrame DEF IInv, LoadTypes
<1>2. \A d \in Clients : ClientInv(d)'
  <2>1. ASSUME NEW d \in Clients \ {c} PROVE ClientInv(d)'
    <3>1. client'[d] = client[d] /\ window' = window /\ refs' = refs
      BY ClientFrame
    <3>2. ClientInv(d)
      BY DEF IInv
    <3>3. QED
      BY <3>1, <3>2 DEF ClientInv
  <2>2. QED
    BY <2>1
<1>3. PhaseInv' /\ OutcomeIsTruth'
  BY ClientFrame DEF IInv, PhaseInv, OutcomeIsTruth
<1>4. QED
  BY <1>1, <1>2, <1>3, ClientFrame DEF LoadInv

\* A step in which nothing is counted.
LEMMA QuietCounts ==
  ASSUME IInv, NEW c \in Clients, While(ClientStep(c)),
         client' \in [Clients -> ClientSet],
         \A d \in Clients : client'[d].n = client[d].n,
         /\ truth'.ok = truth.ok /\ truth'.made = truth.made /\ truth'.odd = truth.odd
         /\ truth'.wrong = truth.wrong /\ truth'.failed = truth.failed
  PROVE  CountsInv'
<1>1. /\ Requests(client') = Requests(client) /\ Errors(client') = Errors(client)
      /\ Oks(client') = Oks(client) /\ Others(client') = Others(client) /\ Samples(client') = Samples(client)
      /\ Touched(client') = Touched(client)
  BY DEF Requests, Errors, Oks, Others, Samples, Touched
<1>2. window' = window
  BY ClientFrame
<1>3. /\ Total(Requests(client))' = Total(Requests(client))
      /\ Total(Errors(client))' = Total(Errors(client))
      /\ Total(Oks(client))' = Total(Oks(client))
      /\ Total(Others(client))' = Total(Others(client))
      /\ Total(Samples(client))' = Total(Samples(client))
      /\ Touched(client)' = Touched(client)
  BY <1>1 DEF Total, Requests, Errors, Oks, Others, Samples, Touched
<1>4. QED
  BY <1>2, <1>3 DEF IInv, CountsInv

\* A client moves between two places and nothing is counted: what its step
\* must show, the places being known.
LEMMA QuietKeeps ==
  ASSUME IInv, NEW c \in Clients, While(ClientStep(c)),
         client' \in [Clients -> ClientSet], truth' = truth,
         \A d \in Clients \ {c} : client'[d] = client[d],
         client'[c].n = client[c].n,
         client'[c].to \in IF client'[c].pc \in {"away", "loop"} THEN {NoTenant} ELSE refs,
         client[c].pc \in {"loop", "sent"},
         \/ client'[c].pc \in {"away", "sent", "made", "wrong"} /\ taken' = taken
         \/ client'[c].pc \in {"ok", "odd"} /\ taken' = taken + 1
         \/ client'[c].pc = "failed" /\ taken' \in {taken, taken + 1}
  PROVE  LoadInv'
<1>1. /\ taken \in Nat /\ phase.warm \in Nat /\ truth.ok \in Nat /\ truth.made \in Nat
      /\ truth.odd \in Nat /\ truth.failed \in Nat
      /\ truth.dropped \in Nat /\ truth \in TruthSet
  BY DEF IInv, LoadTypes, CommandTypes, TruthSet, PhaseSet
<1>2. ClientInv(c)'
  BY ClientFrame DEF IInv, ClientInv
<1>3. CountsInv'
  <2>1. \A d \in Clients : client'[d].n = client[d].n
    OBVIOUS
  <2>2. QED
    BY <2>1, QuietCounts
<1>4. DroppedInv'
  <2>1. /\ Cardinality(AtPlace({"away"})) \in Nat
        /\ Cardinality(AtPlace({"away"}))' = Cardinality(AtPlace({"away"}))
             + (IF client'[c].pc \in {"away"} THEN 1 ELSE 0)
             - (IF client[c].pc \in {"away"} THEN 1 ELSE 0)
    BY PlaceMoves, PlacesFinite
  <2>2. Cardinality(AtPlace({"away"}))' >= Cardinality(AtPlace({"away"}))
    BY <2>1
  <2>3. window \in {"warm", "measure"} /\ over' = over
    BY ClientFrame
  <2>4. (~over => truth.dropped = 0) /\ truth.dropped <= Cardinality(AtPlace({"away"}))
    BY <2>3 DEF IInv, DroppedInv
  <2>5. truth.dropped <= Cardinality(AtPlace({"away"}))'
    BY <1>1, <2>1, <2>2, <2>4
  <2>6. QED
    BY <2>3, <2>4, <2>5 DEF DroppedInv
<1>5. TakenInv'
  <2> DEFINE A == {"ok", "odd"}
             B == {"ok", "odd", "failed"}
  <2>1. /\ Cardinality(AtPlace(A)) \in Nat /\ Cardinality(AtPlace(B)) \in Nat
        /\ Cardinality(AtPlace(A))' = Cardinality(AtPlace(A))
             + (IF client'[c].pc \in A THEN 1 ELSE 0) - (IF client[c].pc \in A THEN 1 ELSE 0)
        /\ Cardinality(AtPlace(B))' = Cardinality(AtPlace(B))
             + (IF client'[c].pc \in B THEN 1 ELSE 0) - (IF client[c].pc \in B THEN 1 ELSE 0)
    BY PlaceMoves, PlacesFinite
  <2>2. /\ window \in {"warm", "measure"} /\ window' = window /\ phase' = phase
        /\ scrape' = scrape
    BY ClientFrame
  <2>3. /\ window = "measure" =>
             /\ taken - phase.warm >= (truth.ok + truth.odd) + Cardinality(AtPlace(A))
             /\ taken - phase.warm <= (truth.ok + truth.odd) + Cardinality(AtPlace(B))
                                     + truth.failed + truth.dropped
    BY DEF IInv, TakenInv
  <2> HIDE DEF A, B
  <2>4. /\ Cardinality(AtPlace(A))' = Cardinality(AtPlace(A)) + (IF client'[c].pc \in A THEN 1 ELSE 0)
        /\ Cardinality(AtPlace(B))' = Cardinality(AtPlace(B)) + (IF client'[c].pc \in B THEN 1 ELSE 0)
    BY <2>1 DEF A, B
  <2>5. /\ window = "measure" =>
             /\ taken' - phase.warm >= (truth.ok + truth.odd) + Cardinality(AtPlace(A))'
             /\ taken' - phase.warm <= (truth.ok + truth.odd) + Cardinality(AtPlace(B))'
                                     + truth.failed + truth.dropped
    <3>1. CASE client'[c].pc \in {"away", "sent", "made", "wrong"} /\ taken' = taken
      <4>1. client'[c].pc \notin A /\ client'[c].pc \notin B
        BY <3>1 DEF A, B
      <4>2. QED
        BY <1>1, <2>1, <2>3, <2>4, <3>1, <4>1
    <3>2. CASE client'[c].pc \in {"ok", "odd"} /\ taken' = taken + 1
      <4>1. client'[c].pc \in A /\ client'[c].pc \in B
        BY <3>2 DEF A, B
      <4>2. QED
        BY <1>1, <2>1, <2>3, <2>4, <3>2, <4>1
    <3>3. CASE client'[c].pc = "failed" /\ taken' \in {taken, taken + 1}
      <4>1. client'[c].pc \notin A /\ client'[c].pc \in B
        BY <3>3 DEF A, B
      <4>2. QED
        BY <1>1, <2>1, <2>3, <2>4, <3>3, <4>1
    <3>4. QED
      BY <3>1, <3>2, <3>3
  <2>6. QED
    BY <2>2, <2>5 DEF TakenInv, A, B
<1>6. truth' \in TruthSet
  BY <1>1
<1>7. QED
  BY <1>2, <1>3, <1>4, <1>5, <1>6, ClientKeeps

LEMMA ClientFields ==
  ASSUME IInv, NEW c \in Clients
  PROVE  /\ client[c] \in ClientSet /\ client[c].n \in CountSet /\ client[c].to \in 0..Tenants
         /\ client[c].pc \in {"away", "loop", "sent"} \cup Answered
         /\ client[c].to \in IF client[c].pc \in {"away", "loop"} THEN {NoTenant} ELSE refs
         /\ refs \subseteq 1..Tenants
         /\ client \in [Clients -> ClientSet]
BY DEF IInv, LoadTypes, ClientSet, ClientInv

LEMMA LeaveKeeps ==
  ASSUME IInv, NEW c \in Clients, While(ClientStep(c)), Leave(c)
  PROVE  LoadInv'
<1>1. /\ client[c].pc = "loop" /\ client' = [client EXCEPT ![c].pc = "away"]
      /\ truth' = truth /\ taken' = taken
  BY DEF Leave, Goes, serverVars
<1>2. /\ client'[c].pc = "away" /\ client'[c].n = client[c].n /\ client'[c].to = client[c].to
      /\ \A d \in Clients \ {c} : client'[d] = client[d]
      /\ client' \in [Clients -> ClientSet]
  BY <1>1, ClientFields DEF ClientSet
<1>3. client'[c].to = NoTenant
  BY <1>1, <1>2, ClientFields
<1>4. QED
  BY <1>1, <1>2, <1>3, QuietKeeps

LEMMA SendKeeps ==
  ASSUME IInv, NEW c \in Clients, While(ClientStep(c)), Send(c)
  PROVE  LoadInv'
<1>1. PICK t \in refs : client' = [client EXCEPT ![c].pc = "sent", ![c].to = t]
  BY DEF Send
<1>2. client[c].pc = "loop" /\ truth' = truth /\ taken' = taken
  BY DEF Send, serverVars
<1>3. t \in 0..Tenants
  BY ClientFields
<1>4. /\ client'[c].pc = "sent" /\ client'[c].n = client[c].n /\ client'[c].to = t
      /\ \A d \in Clients \ {c} : client'[d] = client[d]
      /\ client' \in [Clients -> ClientSet]
  BY <1>1, <1>3, ClientFields DEF ClientSet
<1>5. QED
  BY <1>2, <1>4, QuietKeeps

\* The answer, of one kind or another.
LEMMA AnswerKeeps ==
  ASSUME IInv, NEW c \in Clients, While(ClientStep(c)), NEW p \in Answered, Goes(c, p),
         client[c].pc = "sent", truth' = truth,
         \/ p \in {"made", "wrong"} /\ taken' = taken
         \/ p \in {"ok", "odd"} /\ taken' = taken + 1
         \/ p = "failed" /\ taken' \in {taken, taken + 1}
  PROVE  LoadInv'
<1>1. client' = [client EXCEPT ![c].pc = p]
  BY DEF Goes
<1>2. /\ client'[c].pc = p /\ client'[c].n = client[c].n /\ client'[c].to = client[c].to
      /\ \A d \in Clients \ {c} : client'[d] = client[d]
      /\ client' \in [Clients -> ClientSet]
  BY <1>1, ClientFields DEF ClientSet
<1>3. client'[c].to \in refs /\ client'[c].pc \notin {"away", "loop"}
  BY <1>2, ClientFields DEF Answered
<1>4. QED
  BY <1>2, <1>3, QuietKeeps

LEMMA ServeKeeps ==
  ASSUME IInv, NEW c \in Clients, While(ClientStep(c)), Serve(c) \/ Fail(c)
  PROVE  LoadInv'
<1>1. client[c].pc = "sent" /\ truth' = truth
  BY DEF Serve, Fail
<1>2. \E p \in Answered :
        /\ Goes(c, p)
        /\ \/ p \in {"made", "wrong"} /\ taken' = taken
           \/ p \in {"ok", "odd"} /\ taken' = taken + 1
           \/ p = "failed" /\ taken' \in {taken, taken + 1}
  BY DEF Serve, Fail, Answered, Takes
<1>3. QED
  BY <1>1, <1>2, AnswerKeeps

\* The window is over: the answer is dropped and the client leaves.
LEMMA DropKeeps ==
  ASSUME IInv, NEW c \in Clients, While(ClientStep(c)), Return(c), over
  PROVE  LoadInv'
<1>1. /\ client' = [client EXCEPT ![c].pc = "away", ![c].to = NoTenant]
      /\ truth' = [truth EXCEPT !.dropped = @ + 1]
      /\ client[c].pc \in Answered /\ taken' = taken
  BY DEF Return, serverVars
<1>2. /\ client'[c].pc = "away" /\ client'[c].n = client[c].n /\ client'[c].to = NoTenant
      /\ \A d \in Clients \ {c} : client'[d] = client[d]
      /\ client' \in [Clients -> ClientSet]
  BY <1>1, ClientFields DEF ClientSet, NoTenant
<1>3. /\ taken \in Nat /\ phase.warm \in Nat /\ truth.ok \in Nat /\ truth.made \in Nat
      /\ truth.odd \in Nat /\ truth.failed \in Nat
      /\ truth.dropped \in Nat /\ truth \in TruthSet
  BY DEF IInv, LoadTypes, CommandTypes, TruthSet, PhaseSet
<1>4. /\ truth'.ok = truth.ok /\ truth'.made = truth.made /\ truth'.odd = truth.odd
      /\ truth'.wrong = truth.wrong
      /\ truth'.failed = truth.failed /\ truth'.dropped = truth.dropped + 1
      /\ truth' \in TruthSet
  BY <1>1, <1>3 DEF TruthSet
<1>5. ClientInv(c)'
  BY <1>2, ClientFrame DEF IInv, ClientInv
<1>6. CountsInv'
  <2>1. \A d \in Clients : client'[d].n = client[d].n
    BY <1>2
  <2>2. QED
    BY <1>2, <1>4, <2>1, QuietCounts
<1>7. DroppedInv'
  <2>1. client[c].pc # "away"
    BY <1>1 DEF Answered
  <2>2. /\ Cardinality(AtPlace({"away"})) \in Nat
        /\ Cardinality(AtPlace({"away"}))' = Cardinality(AtPlace({"away"}))
             + (IF client'[c].pc \in {"away"} THEN 1 ELSE 0)
             - (IF client[c].pc \in {"away"} THEN 1 ELSE 0)
    BY <1>2, PlaceMoves, PlacesFinite
  <2>3. Cardinality(AtPlace({"away"}))' = Cardinality(AtPlace({"away"})) + 1
    BY <1>2, <2>1, <2>2
  <2>4. window \in {"warm", "measure"} /\ over' = over
    BY ClientFrame
  <2>5. truth.dropped <= Cardinality(AtPlace({"away"}))
    BY <2>4 DEF IInv, DroppedInv
  <2>6. truth'.dropped <= Cardinality(AtPlace({"away"}))'
    BY <1>3, <1>4, <2>2, <2>3, <2>5
  <2>7. QED
    BY <2>4, <2>6 DEF DroppedInv
<1>8. TakenInv'
  <2> DEFINE A == {"ok", "odd"}
             B == {"ok", "odd", "failed"}
  <2>1. /\ Cardinality(AtPlace(A)) \in Nat /\ Cardinality(AtPlace(B)) \in Nat
        /\ Cardinality(AtPlace(A))' = Cardinality(AtPlace(A))
             + (IF client'[c].pc \in A THEN 1 ELSE 0) - (IF client[c].pc \in A THEN 1 ELSE 0)
        /\ Cardinality(AtPlace(B))' = Cardinality(AtPlace(B))
             + (IF client'[c].pc \in B THEN 1 ELSE 0) - (IF client[c].pc \in B THEN 1 ELSE 0)
    BY <1>2, PlaceMoves, PlacesFinite
  <2>2. /\ window \in {"warm", "measure"} /\ window' = window /\ phase' = phase
        /\ scrape' = scrape
    BY ClientFrame
  <2>3. /\ window = "measure" =>
             /\ taken - phase.warm >= (truth.ok + truth.odd) + Cardinality(AtPlace(A))
             /\ taken - phase.warm <= (truth.ok + truth.odd) + Cardinality(AtPlace(B))
                                     + truth.failed + truth.dropped
    BY DEF IInv, TakenInv
  <2>4. client'[c].pc \notin A /\ client'[c].pc \notin B
    BY <1>2
  <2> HIDE DEF A, B
  <2>5. /\ Cardinality(AtPlace(A))' \in {Cardinality(AtPlace(A)), Cardinality(AtPlace(A)) - 1}
        /\ Cardinality(AtPlace(B))' \in {Cardinality(AtPlace(B)), Cardinality(AtPlace(B)) - 1}
    BY <2>1, <2>4
  <2>6. window = "measure" =>
          /\ taken' - phase.warm >= (truth'.ok + truth'.odd) + Cardinality(AtPlace(A))'
          /\ taken' - phase.warm <= (truth'.ok + truth'.odd) + Cardinality(AtPlace(B))'
                                  + truth'.failed + truth'.dropped
    BY <1>1, <1>3, <1>4, <2>1, <2>3, <2>5
  <2>7. QED
    BY <1>1, <2>2, <2>3, <2>6 DEF TakenInv, A, B
<1>9. QED
  BY <1>1, <1>2, <1>3, <1>4, <1>5, <1>6, <1>7, <1>8, ClientKeeps

\* What came back is counted, by the client and by the history alike.
LEMMA CountedTruth ==
  ASSUME truth \in TruthSet, NEW how \in Answered, truth' = [truth EXCEPT ![how] = @ + 1]
  PROVE  /\ truth' \in TruthSet /\ truth'.dropped = truth.dropped
         /\ truth'.ok = truth.ok + (IF how = "ok" THEN 1 ELSE 0)
         /\ truth'.made = truth.made + (IF how = "made" THEN 1 ELSE 0)
         /\ truth'.odd = truth.odd + (IF how = "odd" THEN 1 ELSE 0)
         /\ truth'.wrong = truth.wrong + (IF how = "wrong" THEN 1 ELSE 0)
         /\ truth'.failed = truth.failed + (IF how = "failed" THEN 1 ELSE 0)
<1>1. CASE how = "ok"
  BY <1>1 DEF TruthSet
<1>2. CASE how = "made"
  BY <1>2 DEF TruthSet
<1>3. CASE how = "odd"
  BY <1>3 DEF TruthSet
<1>4. CASE how = "wrong"
  BY <1>4 DEF TruthSet
<1>5. CASE how = "failed"
  BY <1>5 DEF TruthSet
<1>6. QED
  BY <1>1, <1>2, <1>4, <1>5, <1>3 DEF Answered

LEMMA CountKeeps ==
  ASSUME IInv, NEW c \in Clients, While(ClientStep(c)), Return(c), ~over
  PROVE  LoadInv'
<1> DEFINE how == client[c].pc
           to == client[c].to
           n == client[c].n
           m == Counted(n, how, to)
<1>1. /\ client' = [client EXCEPT ![c] = [pc |-> "loop", to |-> NoTenant, n |-> m]]
      /\ truth' = [truth EXCEPT ![how] = @ + 1]
      /\ how \in Answered /\ taken' = taken
  BY DEF Return, serverVars
<1>2. n \in CountSet /\ to \in refs /\ to \in 1..Tenants
  BY <1>1, ClientFields DEF Answered
<1>3. m \in CountSet
  BY <1>1, <1>2, CountedType
<1>4. /\ n.requests \in Nat /\ n.errors \in Nat /\ n.ok \in Nat /\ n.other \in Nat /\ n.samples \in Nat
      /\ n.failures \in Nat /\ n.touched \in SUBSET (1..Tenants)
  BY <1>2 DEF CountSet
<1>5. window \in {"warm", "measure"} /\ window' = window
  BY ClientFrame
<1>6. /\ m.requests = n.requests + 1 /\ m.touched = n.touched \cup {to}
      /\ m.ok = n.ok + (IF how \in {"ok", "odd"} THEN 1 ELSE 0)
      /\ m.other = n.other + (IF how \in {"made", "wrong"} THEN 1 ELSE 0)
      /\ m.errors = n.errors + (IF how \in {"odd", "wrong", "failed"} THEN 1 ELSE 0)
      /\ m.failures = IF how \in {"odd", "wrong", "failed"} /\ n.failures < FailureCap
                      THEN n.failures + 1 ELSE n.failures
      /\ window = "measure" =>
           m.samples = n.samples + (IF how \in {"ok", "made"} THEN 1 ELSE 0)
  BY <1>4 DEF Counted
<1> HIDE DEF m
<1>7. /\ client'[c].pc = "loop" /\ client'[c].n = m /\ client'[c].to = NoTenant
      /\ \A d \in Clients \ {c} : client'[d] = client[d]
      /\ client' \in [Clients -> ClientSet]
  BY <1>1, <1>3, ClientFields DEF ClientSet, NoTenant
<1>8. /\ taken \in Nat /\ phase.warm \in Nat /\ truth.ok \in Nat /\ truth.made \in Nat
      /\ truth.odd \in Nat /\ truth.failed \in Nat
      /\ truth.wrong \in Nat /\ truth.dropped \in Nat /\ truth \in TruthSet
  BY DEF IInv, LoadTypes, CommandTypes, TruthSet, PhaseSet
<1>9. /\ truth' \in TruthSet /\ truth'.dropped = truth.dropped
      /\ truth'.ok = truth.ok + (IF how = "ok" THEN 1 ELSE 0)
      /\ truth'.made = truth.made + (IF how = "made" THEN 1 ELSE 0)
      /\ truth'.odd = truth.odd + (IF how = "odd" THEN 1 ELSE 0)
      /\ truth'.wrong = truth.wrong + (IF how = "wrong" THEN 1 ELSE 0)
      /\ truth'.failed = truth.failed + (IF how = "failed" THEN 1 ELSE 0)
  BY <1>1, <1>8, CountedTruth
<1>10. how \in {"ok", "made", "odd", "wrong", "failed"}
  BY <1>1 DEF Answered
<1>11. /\ n.touched \subseteq refs
       /\ n.failures = IF n.errors < FailureCap THEN n.errors ELSE FailureCap
       /\ window = "measure" => n.requests = n.samples + n.errors
  BY DEF IInv, ClientInv
<1> HIDE DEF n, how, to
<1>12. ClientInv(c)'
  <2>1. m.touched \subseteq refs'
    BY <1>2, <1>6, <1>11, ClientFrame
  <2>2. window = "measure" => m.requests = m.samples + m.errors
    BY <1>4, <1>6, <1>10, <1>11
  <2>3. m.failures = IF m.errors < FailureCap THEN m.errors ELSE FailureCap
    BY <1>4, <1>6, <1>11
  <2>4. QED
    BY <1>5, <1>7, <2>1, <2>2, <2>3 DEF ClientInv
<1>13. CountsInv'
  <2>1. \A d \in Clients : client[d].n \in CountSet /\ client'[d].n \in CountSet
    BY <1>7, ClientFields DEF ClientSet
  <2>2. Total(Requests(client')) = Total(Requests(client)) + 1
    <3>1. /\ \A d \in Clients : Requests(client)[d] \in Nat /\ Requests(client')[d] \in Nat
          /\ \A d \in Clients \ {c} : Requests(client)[d] = Requests(client')[d]
          /\ Requests(client')[c] - Requests(client)[c] = 1
      BY <1>4, <1>6, <1>7, <2>1 DEF Requests, CountSet, n
    <3>2. Total(Requests(client')) = Total(Requests(client)) + (Requests(client')[c] - Requests(client)[c])
      BY <3>1, TotalMoves
    <3>3. QED
      BY <3>1, <3>2
  <2>3. Total(Errors(client')) = Total(Errors(client))
                                   + (IF how \in {"odd", "wrong", "failed"} THEN 1 ELSE 0)
    <3>1. /\ \A d \in Clients : Errors(client)[d] \in Nat /\ Errors(client')[d] \in Nat
          /\ \A d \in Clients \ {c} : Errors(client)[d] = Errors(client')[d]
          /\ Errors(client')[c] - Errors(client)[c] = (IF how \in {"odd", "wrong", "failed"} THEN 1 ELSE 0)
      BY <1>4, <1>6, <1>7, <2>1 DEF Errors, CountSet, n
    <3>2. Total(Errors(client')) = Total(Errors(client)) + (Errors(client')[c] - Errors(client)[c])
      BY <3>1, TotalMoves
    <3>3. QED
      BY <3>1, <3>2
  <2>4. Total(Oks(client')) = Total(Oks(client)) + (IF how \in {"ok", "odd"} THEN 1 ELSE 0)
    <3>1. /\ \A d \in Clients : Oks(client)[d] \in Nat /\ Oks(client')[d] \in Nat
          /\ \A d \in Clients \ {c} : Oks(client)[d] = Oks(client')[d]
          /\ Oks(client')[c] - Oks(client)[c] = (IF how \in {"ok", "odd"} THEN 1 ELSE 0)
      BY <1>4, <1>6, <1>7, <2>1 DEF Oks, CountSet, n
    <3>2. Total(Oks(client')) = Total(Oks(client)) + (Oks(client')[c] - Oks(client)[c])
      BY <3>1, TotalMoves
    <3>3. QED
      BY <3>1, <3>2
  <2>5. Total(Others(client')) = Total(Others(client)) + (IF how \in {"made", "wrong"} THEN 1 ELSE 0)
    <3>1. /\ \A d \in Clients : Others(client)[d] \in Nat /\ Others(client')[d] \in Nat
          /\ \A d \in Clients \ {c} : Others(client)[d] = Others(client')[d]
          /\ Others(client')[c] - Others(client)[c] = (IF how \in {"made", "wrong"} THEN 1 ELSE 0)
      BY <1>4, <1>6, <1>7, <2>1 DEF Others, CountSet, n
    <3>2. Total(Others(client')) = Total(Others(client)) + (Others(client')[c] - Others(client)[c])
      BY <3>1, TotalMoves
    <3>3. QED
      BY <3>1, <3>2
  <2>6. window = "measure" =>
          Total(Samples(client')) = Total(Samples(client))
                                      + (IF how \in {"ok", "made"} THEN 1 ELSE 0)
    <3>1. SUFFICES ASSUME window = "measure"
                   PROVE  Total(Samples(client')) = Total(Samples(client))
                                      + (IF how \in {"ok", "made"} THEN 1 ELSE 0)
      OBVIOUS
    <3>2. /\ \A d \in Clients : Samples(client)[d] \in Nat /\ Samples(client')[d] \in Nat
          /\ \A d \in Clients \ {c} : Samples(client)[d] = Samples(client')[d]
          /\ Samples(client')[c] - Samples(client)[c] = (IF how \in {"ok", "made"} THEN 1 ELSE 0)
      BY <1>4, <1>6, <1>7, <2>1, <3>1 DEF Samples, CountSet, n
    <3>3. Total(Samples(client')) = Total(Samples(client)) + (Samples(client')[c] - Samples(client)[c])
      BY <3>2, TotalMoves
    <3>4. QED
      BY <3>2, <3>3
  <2>7. Cardinality(Touched(client')) <= Cardinality(Touched(client)) + 1
    <3>1. Touched(client') = Touched(client) \cup {to}
      BY <1>6, <1>7 DEF Touched, n
    <3>2. IsFiniteSet(Touched(client))
      <4>1. Touched(client) \in SUBSET (1..Tenants)
        BY <2>1 DEF Touched, CountSet
      <4>2. QED
        BY <4>1, FS_Interval, FS_Subset
    <3>3. Cardinality(Touched(client)) \in Nat
      BY <3>2, FS_CardinalityType
    <3>4. Cardinality(Touched(client) \cup {to}) =
            IF to \in Touched(client) THEN Cardinality(Touched(client))
            ELSE Cardinality(Touched(client)) + 1
      BY <3>2, FS_AddElement
    <3>5. QED
      BY <3>1, <3>3, <3>4
  <2>8. Cardinality(Touched(client)) \in Nat /\ Cardinality(Touched(client')) \in Nat
    <3>1. Touched(client) \in SUBSET (1..Tenants) /\ Touched(client') \in SUBSET (1..Tenants)
      BY <2>1 DEF Touched, CountSet
    <3>2. IsFiniteSet(1..Tenants)
      BY FS_Interval
    <3>3. IsFiniteSet(Touched(client)) /\ IsFiniteSet(Touched(client'))
      BY <3>1, <3>2, FS_Subset
    <3>4. QED
      BY <3>3, FS_CardinalityType
  <2>9. /\ Total(Requests(client)) = truth.ok + truth.made + truth.odd + truth.wrong + truth.failed
        /\ Total(Errors(client)) = truth.odd + truth.wrong + truth.failed
        /\ Total(Oks(client)) = truth.ok + truth.odd
        /\ Total(Others(client)) = truth.made + truth.wrong
        /\ window = "measure" => Total(Samples(client)) = truth.ok + truth.made
        /\ Cardinality(Touched(client)) <= Total(Requests(client))
    BY <1>5 DEF IInv, CountsInv
  <2>10. /\ Total(Requests(client')) = truth'.ok + truth'.made + truth'.odd + truth'.wrong
                                             + truth'.failed
         /\ Total(Errors(client')) = truth'.odd + truth'.wrong + truth'.failed
         /\ Total(Oks(client')) = truth'.ok + truth'.odd
         /\ Total(Others(client')) = truth'.made + truth'.wrong
         /\ window = "measure" => Total(Samples(client')) = truth'.ok + truth'.made
    BY <1>8, <1>9, <1>10, <2>2, <2>3, <2>4, <2>6, <2>9, <2>5
  <2>11. Cardinality(Touched(client')) <= Total(Requests(client'))
    BY <1>8, <2>2, <2>7, <2>8, <2>9
  <2>12. QED
    BY <1>5, <2>10, <2>11
       DEF CountsInv, Total, Requests, Errors, Oks, Others, Samples, Touched
<1>14. DroppedInv'
  <2>1. /\ Cardinality(AtPlace({"away"})) \in Nat
        /\ Cardinality(AtPlace({"away"}))' = Cardinality(AtPlace({"away"}))
             + (IF client'[c].pc \in {"away"} THEN 1 ELSE 0)
             - (IF client[c].pc \in {"away"} THEN 1 ELSE 0)
    BY <1>7, PlaceMoves, PlacesFinite
  <2>2. Cardinality(AtPlace({"away"}))' = Cardinality(AtPlace({"away"}))
    BY <1>7, <1>10, <2>1 DEF how
  <2>3. (~over => truth.dropped = 0) /\ truth.dropped <= Cardinality(AtPlace({"away"}))
    BY <1>5 DEF IInv, DroppedInv
  <2>4. truth'.dropped <= Cardinality(AtPlace({"away"}))'
    BY <1>9, <2>2, <2>3
  <2>5. QED
    BY <1>9, <2>3, <2>4 DEF DroppedInv
<1>15. TakenInv'
  <2> DEFINE A == {"ok", "odd"}
             B == {"ok", "odd", "failed"}
  <2>1. /\ Cardinality(AtPlace(A)) \in Nat /\ Cardinality(AtPlace(B)) \in Nat
        /\ Cardinality(AtPlace(A))' = Cardinality(AtPlace(A))
             + (IF client'[c].pc \in A THEN 1 ELSE 0) - (IF client[c].pc \in A THEN 1 ELSE 0)
        /\ Cardinality(AtPlace(B))' = Cardinality(AtPlace(B))
             + (IF client'[c].pc \in B THEN 1 ELSE 0) - (IF client[c].pc \in B THEN 1 ELSE 0)
    BY <1>7, PlaceMoves, PlacesFinite
  <2>2. phase' = phase /\ scrape' = scrape
    BY ClientFrame
  <2>3. /\ window = "measure" =>
             /\ taken - phase.warm >= (truth.ok + truth.odd) + Cardinality(AtPlace(A))
             /\ taken - phase.warm <= (truth.ok + truth.odd) + Cardinality(AtPlace(B))
                                     + truth.failed + truth.dropped
    BY DEF IInv, TakenInv
  <2>4. /\ client'[c].pc \notin A /\ client'[c].pc \notin B
        /\ how \in A <=> how \in {"ok", "odd"}
        /\ how \in B <=> how \in {"ok", "odd", "failed"}
    BY <1>7
  <2> HIDE DEF A, B
  <2>5. /\ Cardinality(AtPlace(A))' = Cardinality(AtPlace(A)) - (IF how \in A THEN 1 ELSE 0)
        /\ Cardinality(AtPlace(B))' = Cardinality(AtPlace(B)) - (IF how \in B THEN 1 ELSE 0)
    BY <2>1, <2>4 DEF how
  <2>6. window = "measure" =>
          /\ taken' - phase.warm >= (truth'.ok + truth'.odd) + Cardinality(AtPlace(A))'
          /\ taken' - phase.warm <= (truth'.ok + truth'.odd) + Cardinality(AtPlace(B))'
                                  + truth'.failed + truth'.dropped
    BY <1>1, <1>8, <1>9, <1>10, <2>1, <2>3, <2>4, <2>5
  <2>7. QED
    BY <1>1, <1>5, <2>2, <2>3, <2>6 DEF TakenInv, A, B
<1>16. QED
  BY <1>1, <1>7, <1>8, <1>9, <1>12, <1>13, <1>14, <1>15, ClientKeeps

-----------------------------------------------------------------------------
(* The theorems.                                                           *)

LEMMA DriveStepKeeps ==
  ASSUME IInv, DriveStep
  PROVE  LoadInv'
<1>1. \/ While(Expire) \/ While(TickFires) \/ While(WarmupDone) \/ While(DriveDone)
      \/ \E c \in Clients : While(ClientStep(c)) /\ ClientStep(c)
  BY Zenon DEF DriveStep, While, LoadStep
<1>2. ASSUME NEW c \in Clients, While(ClientStep(c)), ClientStep(c) PROVE LoadInv'
  BY <1>2, LeaveKeeps, SendKeeps, ServeKeeps, DropKeeps, CountKeeps DEF ClientStep
<1>3. QED
  BY <1>1, <1>2, SignalsKeep, WarmupDoneKeeps, DriveDoneKeeps

LEMMA NextInv == IInv /\ [Next]_vars => IInv'
<1> SUFFICES ASSUME IInv, [Next]_vars PROVE IInv'
  OBVIOUS
<1>1. CASE Next
  <2>1. LoadInv'
    BY <1>1, StepKinds, AsideKeeps, StartPhaseKeeps, DriveStepKeeps, EndPhaseKeeps, NodeKeeps
  <2>2. QED
    BY <1>1, <2>1, CommandKept, DeltaKept DEF IInv, LoadInv
<1>2. CASE UNCHANGED vars
  <2>1. /\ UNCHANGED <<refs, paced, window, over, tick, client, out, sends, served, truth>>
        /\ UNCHANGED <<pc, opt, ready, node, alive, runs, stopped, then, scrape, block, phase,
                       leftBy, late, taken>>
    BY <1>2 DEF vars, loadVars, serverVars, cmdVars
  <2>2. LoadTypes' /\ CommandTypes'
    BY <2>1 DEF IInv, LoadTypes, CommandTypes
  <2>3. \A c \in Clients : ClientInv(c)'
    BY <2>1 DEF IInv, ClientInv
  <2>4. CountsInv' /\ DroppedInv'
    BY <2>1 DEF IInv, CountsInv, DroppedInv, AtPlace
  <2>5. TakenInv' /\ LedgerInv' /\ PhaseInv' /\ NodeInv'
    BY <2>1 DEF IInv, TakenInv, LedgerInv, PhaseInv, NodeInv, AtPlace
  <2>6. OutcomeIsTruth' /\ DeltaExplained'
    BY <2>1 DEF IInv, OutcomeIsTruth, DeltaExplained
  <2>7. QED
    BY <2>2, <2>3, <2>4, <2>5, <2>6 DEF IInv
<1>3. QED
  BY <1>1, <1>2

LEMMA Invariant == Spec => []IInv
BY InitInv, NextInv, PTL DEF Spec

\* The command and the generator are always at one of their places, and a
\* phase draws only from tenants that are ready, though the working set may
\* be wider than what was provisioned (cmdFleet, Drive).
THEOREM TypeCorrect == Spec => []TypeOK
<1>1. IInv => TypeOK
  <2> SUFFICES ASSUME IInv PROVE TypeOK
    OBVIOUS
  <2>1. LoadTypeOK
    <3>1. ASSUME NEW c \in Clients
          PROVE  /\ client[c].pc \in {"away", "loop", "sent"} \cup Answered
                 /\ client[c].to \in refs \cup {NoTenant}
      BY ClientFields
    <3>2. QED
      BY <3>1 DEF IInv, LoadTypes, LoadTypeOK
  <2>2. block.delta \in Int /\ block.ok \in Nat
    BY DEF IInv, CommandTypes, BlockSet
  <2>3. QED
    BY <2>1, <2>2 DEF IInv, CommandTypes, PhaseInv, TypeOK
<1>2. QED
  BY <1>1, Invariant, PTL

\* However many clients share the ticker, whatever the server answers and
\* whenever the windows end, the Outcome is what came back in the measured
\* window: every request once, nothing of the warmup, at most one answer a
\* client dropped, and a failure in words whenever there was an error (drive,
\* once).
THEOREM OutcomeCorrect == Spec => []OutcomeIsTruth
<1>1. IInv => OutcomeIsTruth
  BY DEF IInv
<1>2. QED
  BY <1>1, Invariant, PTL

\* Unless the node restarts in it, the node's own count of a phase differs
\* from the harness's answers with 200 by the warmup, by what was counted late
\* and by no more than the requests that were dropped or failed; a restart
\* only takes away, and nothing else makes it negative (phase: the two scrapes
\* around Drive; Delta).
THEOREM DeltaCorrect == Spec => []DeltaExplained
<1>1. IInv => DeltaExplained
  BY DEF IInv
<1>2. QED
  BY <1>1, Invariant, PTL

\* Over any number of runs a node is left behind only where it was to be kept
\* or where a price card could not be found, and a run that measures a node it
\* did not start follows such a one (stop, the fatal exits, waitHealthy).
THEOREM NodesCorrect == Spec => []NodesAccounted
<1>1. IInv => NodesAccounted
  BY DEF IInv, CommandTypes, NodeInv, NodesAccounted
<1>2. QED
  BY <1>1, Invariant, PTL
=============================================================================

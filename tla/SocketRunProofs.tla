-------------------------- MODULE SocketRunProofs --------------------------
(***************************************************************************)
(* Proofs about SocketRun for every number of sockets, shards, dialers,    *)
(* writers and collectors, every span and every bound on the faults.       *)
(***************************************************************************)
EXTENDS SocketRun, SumsProofs

USE ShapeAssumption, RunAssumption

-----------------------------------------------------------------------------
(* Counting sockets by state.                                              *)

\* How many sockets of a state function are in a set of states.
NumIn(f, S) == Cardinality({i \in Ids : f[i] \in S})

LEMMA IdsFinite == IsFiniteSet(Ids)
  BY FS_Interval DEF Ids

\* Moving one socket id changes the number of sockets in a set of states by
\* whether its old and its new state are in the set.
LEMMA MoveCounts ==
  ASSUME NEW f \in [Ids -> SockStates], NEW g \in [Ids -> SockStates], NEW id \in Ids,
         \A i \in Ids : i # id => g[i] = f[i], NEW S
  PROVE  /\ NumIn(f, S) \in Nat
         /\ (f[id] \in S <=> g[id] \in S) => NumIn(g, S) = NumIn(f, S)
         /\ f[id] \notin S /\ g[id] \in S => NumIn(g, S) = NumIn(f, S) + 1
         /\ f[id] \in S /\ g[id] \notin S => NumIn(f, S) > 0 /\ NumIn(g, S) = NumIn(f, S) - 1
<1> DEFINE T == {i \in Ids : f[i] \in S}
           U == {i \in Ids : g[i] \in S}
<1>1. IsFiniteSet(T)
  BY IdsFinite, FS_Subset
<1>2. Cardinality(T) \in Nat
  BY <1>1, FS_CardinalityType
<1>3. (f[id] \in S <=> g[id] \in S) => U = T
  OBVIOUS
<1>4. ASSUME f[id] \notin S, g[id] \in S
      PROVE  Cardinality(U) = Cardinality(T) + 1
  <2>1. U = T \union {id} /\ id \notin T
    BY <1>4
  <2> HIDE DEF U, T
  <2>2. QED
    BY <1>1, <2>1, FS_AddElement
<1>5. ASSUME f[id] \in S, g[id] \notin S
      PROVE  Cardinality(T) > 0 /\ Cardinality(U) = Cardinality(T) - 1
  <2>1. U = T \ {id} /\ id \in T
    BY <1>5
  <2> HIDE DEF U, T
  <2>2. Cardinality(T) # 0
    BY <1>1, <2>1, FS_EmptySet
  <2>3. Cardinality(U) = Cardinality(T) - 1
    BY <1>1, <2>1, FS_RemoveElement
  <2>4. QED
    BY <1>2, <2>2, <2>3
<1>6. QED
  BY <1>2, <1>3, <1>4, <1>5 DEF NumIn

-----------------------------------------------------------------------------
(* The ramp and the readers' losses.                                       *)

RampInv == RampTypeOK /\ CountersMatch /\ HandedInOrder

\* Everything that touches a socket or the counters of sockets.
RampMoves ==
  \/ RampStep
  \/ \E id \in Ids : ReadFails(id) \/ CountLost(id) \/ UncountHeld(id) \/ Refuse(id)
  \/ Interrupt

LEMMA RampInitInv == RampInit => RampInv
<1> SUFFICES ASSUME RampInit PROVE RampInv
  OBVIOUS
<1>1. sock \in [Ids -> SockStates]
  BY DEF RampInit, SockStates
<1>2. RampTypeOK
  <2>1. offering \in BOOLEAN /\ stopped \in BOOLEAN /\ cancelled \in BOOLEAN
    BY Zenon DEF RampInit
  <2>2. QED
    BY <1>1, <2>1 DEF RampInit, RampTypeOK
<1>3. /\ InState({"up", "dropping", "losing", "closed"}) = {}
      /\ InState({"losing", "lost"}) = {}
  BY DEF RampInit, InState
<1>4. CountersMatch
  BY <1>3, FS_EmptySet DEF RampInit, CountersMatch
<1>5. HandedInOrder
  BY DEF RampInit, HandedInOrder, Ids
<1>6. QED
  BY <1>2, <1>4, <1>5 DEF RampInv

\* No step of a worker, of the producer or of a reader takes the counters
\* away from the sockets they count.
LEMMA RampMovesInv == RampInv /\ RampMoves => RampInv'
<1> SUFFICES ASSUME RampInv, RampMoves PROVE RampInv'
  OBVIOUS
<1> DEFINE H == {"up", "dropping", "losing", "closed"}
           D == {"losing", "lost"}
<1>1. /\ CountersMatch  <=> held = NumIn(sock, H) /\ lost = NumIn(sock, D)
      /\ CountersMatch' <=> held' = NumIn(sock', H) /\ lost' = NumIn(sock', D)
  BY DEF CountersMatch, InState, NumIn
<1>2. held = NumIn(sock, H) /\ lost = NumIn(sock, D) /\ RampTypeOK /\ HandedInOrder
  BY <1>1 DEF RampInv
<1> HIDE DEF H, D
<1> SUFFICES RampTypeOK' /\ held' = NumIn(sock', H) /\ lost' = NumIn(sock', D) /\ HandedInOrder'
  BY <1>1 DEF RampInv
<1> USE DEF RampTypeOK, HandedInOrder
<1>0. offering' \in BOOLEAN /\ stopped' \in BOOLEAN /\ cancelled' \in BOOLEAN
  BY <1>2, Zenon DEF RampMoves, RampStep, Offer, SendId, CloseIds, RampReturn, Take,
     DialOK, Refuse, JoinOK, ReadFails, CountLost, UncountHeld, Interrupt
<1>3. CASE Offer \/ CloseIds \/ RampReturn \/ Interrupt
  <2>1. /\ UNCHANGED <<sock, nextId, held, lost, noted>>
        /\ ramp' \in {"handing", "closed", "returned"}
    BY <1>2, <1>3 DEF Offer, CloseIds, RampReturn, Interrupt
  <2>2. offering' => ramp' = "handing" /\ nextId' < Sockets
    BY <1>2, <1>3 DEF Offer, CloseIds, RampReturn, Interrupt
  <2>3. QED
    BY <1>2, <1>0, <2>1, <2>2
<1>6. ASSUME NEW id \in Ids, NEW a \in SockStates, NEW b \in SockStates, Move(id, a, b)
      PROVE  /\ NumIn(sock, H) \in Nat /\ NumIn(sock, D) \in Nat
             /\ (a \in H <=> b \in H) => NumIn(sock', H) = NumIn(sock, H)
             /\ (a \in D <=> b \in D) => NumIn(sock', D) = NumIn(sock, D)
             /\ a \notin H /\ b \in H => NumIn(sock', H) = NumIn(sock, H) + 1
             /\ a \notin D /\ b \in D => NumIn(sock', D) = NumIn(sock, D) + 1
             /\ a \in H /\ b \notin H => NumIn(sock, H) > 0 /\ NumIn(sock', H) = NumIn(sock, H) - 1
  <2>1. /\ sock \in [Ids -> SockStates] /\ sock' \in [Ids -> SockStates]
        /\ sock[id] = a /\ sock'[id] = b /\ \A i \in Ids : i # id => sock'[i] = sock[i]
    BY <1>2, <1>6 DEF Move
  <2> HIDE DEF HandedInOrder, RampTypeOK
  <2>2. QED
    BY <2>1, MoveCounts
<1>4. CASE SendId
  <2>1. /\ nextId \in Ids /\ sock' = [sock EXCEPT ![nextId] = "queued"]
        /\ sock[nextId] = "new" /\ nextId' = nextId + 1 /\ ~offering'
        /\ UNCHANGED <<ramp, held, lost, noted>>
    BY <1>2, <1>4 DEF SendId, Move, Ids
  <2>2. sock' \in [Ids -> SockStates]
    BY <1>2, <2>1 DEF SockStates
  <2>3. NumIn(sock', H) = NumIn(sock, H) /\ NumIn(sock', D) = NumIn(sock, D)
    BY <1>2, <1>4, <1>6, <2>1 DEF H, D, SockStates, Move
  <2>4. HandedInOrder'
    BY <1>2, <2>1, <2>2 DEF Ids
  <2>5. nextId' \in 0..Sockets
    BY <2>1 DEF Ids
  <2>6. QED
    BY <1>2, <1>0, <2>1, <2>2, <2>3, <2>4, <2>5
<1>5. ASSUME NEW id \in Ids, NEW a \in SockStates \ {"new"}, NEW b \in SockStates \ {"new"},
             Move(id, a, b),
             UNCHANGED <<nextId, offering, ramp>>
      PROVE  sock' \in [Ids -> SockStates] /\ HandedInOrder'
  <2>1. /\ sock' \in [Ids -> SockStates]
        /\ sock'[id] # "new" /\ sock[id] # "new"
        /\ \A i \in Ids : i # id => sock'[i] = sock[i]
    BY <1>2, <1>5 DEF Move
  <2>2. QED
    BY <1>2, <1>5, <2>1
<1>7. ASSUME NEW id \in Ids, Take(id) \/ DialOK(id) \/ Refuse(id)
      PROVE  RampTypeOK' /\ held' = NumIn(sock', H) /\ lost' = NumIn(sock', D) /\ HandedInOrder'
  <2>1. PICK a, b \in SockStates \ {"new"} :
          Move(id, a, b) /\ a \notin H /\ b \notin H /\ a \notin D /\ b \notin D
    BY <1>7 DEF Take, DialOK, Refuse, SockStates, H, D
  <2>2. UNCHANGED <<nextId, offering, ramp, held, lost, stopped, cancelled>> /\ noted' \in Nat
    BY <1>2, <1>7 DEF Take, DialOK, Refuse
  <2>3. NumIn(sock', H) = NumIn(sock, H) /\ NumIn(sock', D) = NumIn(sock, D)
    BY <2>1, <1>6
  <2>4. QED
    BY <1>0, <1>2, <1>5, <2>1, <2>2, <2>3
<1>8. ASSUME NEW id \in Ids, JoinOK(id)
      PROVE  RampTypeOK' /\ held' = NumIn(sock', H) /\ lost' = NumIn(sock', D) /\ HandedInOrder'
  <2>1. NumIn(sock', H) = NumIn(sock, H) + 1 /\ NumIn(sock', D) = NumIn(sock, D)
    BY <1>8, <1>6 DEF JoinOK, H, D, SockStates
  <2>2. sock' \in [Ids -> SockStates] /\ HandedInOrder'
    BY <1>5, <1>8 DEF JoinOK, SockStates
  <2>3. QED
    BY <1>0, <1>2, <1>8, <2>1, <2>2 DEF JoinOK
<1>9. ASSUME NEW id \in Ids, ReadFails(id)
      PROVE  RampTypeOK' /\ held' = NumIn(sock', H) /\ lost' = NumIn(sock', D) /\ HandedInOrder'
  <2>1. PICK b \in {"closed", "dropping"} : Move(id, "up", b)
    BY <1>9 DEF ReadFails
  <2>2. NumIn(sock', H) = NumIn(sock, H) /\ NumIn(sock', D) = NumIn(sock, D)
    BY <2>1, <1>6 DEF H, D, SockStates
  <2>3. sock' \in [Ids -> SockStates] /\ HandedInOrder'
    BY <1>5, <1>9, <2>1 DEF ReadFails, SockStates
  <2>4. QED
    BY <1>0, <1>2, <1>9, <2>2, <2>3 DEF ReadFails
<1>10. ASSUME NEW id \in Ids, CountLost(id)
       PROVE  RampTypeOK' /\ held' = NumIn(sock', H) /\ lost' = NumIn(sock', D) /\ HandedInOrder'
  <2>1. NumIn(sock', H) = NumIn(sock, H) /\ NumIn(sock', D) = NumIn(sock, D) + 1
    BY <1>10, <1>6 DEF CountLost, H, D, SockStates
  <2>2. sock' \in [Ids -> SockStates] /\ HandedInOrder'
    BY <1>5, <1>10 DEF CountLost, SockStates
  <2>3. QED
    BY <1>0, <1>2, <1>10, <2>1, <2>2 DEF CountLost
<1>11. ASSUME NEW id \in Ids, UncountHeld(id)
       PROVE  RampTypeOK' /\ held' = NumIn(sock', H) /\ lost' = NumIn(sock', D) /\ HandedInOrder'
  <2>1. /\ NumIn(sock, H) > 0 /\ NumIn(sock', H) = NumIn(sock, H) - 1
        /\ NumIn(sock', D) = NumIn(sock, D)
    BY <1>11, <1>6 DEF UncountHeld, H, D, SockStates
  <2>2. sock' \in [Ids -> SockStates] /\ HandedInOrder'
    BY <1>5, <1>11 DEF UncountHeld, SockStates
  <2>3. QED
    BY <1>0, <1>2, <1>11, <2>1, <2>2 DEF UncountHeld
<1>12. QED
  BY <1>3, <1>4, <1>7, <1>8, <1>9, <1>10, <1>11 DEF RampMoves, RampStep

-----------------------------------------------------------------------------
(* Writers' statements.                                                    *)

LEMMA ShareType ==
  ASSUME NEW w \in Ws
  PROVE  Share(w) \in Nat /\ BatchOf(w) \in Nat /\ w * BatchOf(w) \in Nat
<1>1. w \in Nat /\ Rows \div Writers \in Nat
  BY DEF Ws
<1>2. Share(w) \in Nat
  BY <1>1 DEF Share
<1>3. QED
  BY <1>1, <1>2 DEF BatchOf

\* A statement's rows are finitely many rows on shards that exist, with the
\* statement's number and the clock's reading.
LEMMA BatchRowsType ==
  ASSUME TypeOK, NEW w \in Ws, shards # 0
  PROVE  /\ BatchRows(w) \subseteq Row /\ IsFiniteSet(BatchRows(w))
         /\ \A r \in BatchRows(w) : r.stmt = sends /\ r.stamp = now
<1> DEFINE J == 0..(BatchOf(w) - 1)
           row(j) == [stmt |-> sends, j |-> j, stamp |-> now,
                      shard |-> (writer[w].next + j) % shards]
<1>1. BatchOf(w) \in Nat /\ writer[w].next \in Nat /\ sends \in Nat /\ now \in Nat
      /\ shards \in 1..Shards
  BY ShareType DEF TypeOK, WriterTypeOK, RunTypeOK, WriterState
<1>2. \A j \in J : row(j) \in Row
  <2> SUFFICES ASSUME NEW j \in J PROVE row(j) \in Row
    OBVIOUS
  <2>1. (writer[w].next + j) % shards \in ShardIds
    BY <1>1 DEF ShardIds
  <2>2. QED
    BY <1>1, <2>1 DEF Row
<1>3. IsFiniteSet(J)
  <2>1. BatchOf(w) - 1 \in Int
    BY <1>1
  <2>2. QED
    BY <2>1, FS_Interval
<1>4. BatchRows(w) = {row(j) : j \in J}
  BY DEF BatchRows
<1>5. IsFiniteSet(BatchRows(w))
  <2>1. [j \in J |-> row(j)] \in Surjection(J, BatchRows(w))
    BY <1>4 DEF Surjection
  <2>2. QED
    BY <1>3, <2>1, FS_Surjection
<1>6. QED
  BY <1>2, <1>4, <1>5

-----------------------------------------------------------------------------
(* Types.                                                                  *)

\* Steps that change nothing but where Run is, its clock, its window and
\* what it has read so far.
ControlStep ==
  \/ SeeHeld \/ ShardsHeld \/ OpenWriters \/ StoreFrom \/ StoreTo \/ StartDrain
  \/ StopRun \/ Return \/ Report \/ Tick

ControlFrame == UNCHANGED <<writerVars, sheetVars, netVars>>

LEMMA ControlFrames == ControlStep => ControlFrame
BY DEF ControlStep, ControlFrame, SeeHeld, ShardsHeld, OpenWriters, StoreFrom, StoreTo,
   StartDrain, StopRun, Return, Report, Tick, clockVars, windowVars, resultVars,
   writerVars, sheetVars, netVars, runVars

\* The ramp's invariant through the steps of the rest of the run.
LEMMA RampKept ==
  ASSUME RampInv,
         \/ UNCHANGED rampVars \/ Close
         \/ noted' = noted + 1 /\ UNCHANGED <<sock, nextId, offering, ramp, held, lost,
                                              stopped, cancelled>>
  PROVE  RampInv'
<1>1. UNCHANGED <<sock, nextId, offering, ramp, held, lost, cancelled>>
  BY DEF rampVars, Close
<1>2. stopped' \in BOOLEAN
  BY Zenon DEF rampVars, Close, RampInv, RampTypeOK
<1>3. noted' \in Nat
  BY DEF rampVars, Close, RampInv, RampTypeOK
<1>4. QED
  BY <1>1, <1>2, <1>3 DEF RampInv, RampTypeOK, CountersMatch, HandedInOrder, InState

LEMMA ControlType ==
  ASSUME TypeOK, RampInv, ControlStep
  PROVE  TypeOK' /\ RampInv'
<1> USE DEF clockVars, windowVars, resultVars, writerVars, sheetVars, netVars, runVars
<1>1. WriterTypeOK' /\ SheetTypeOK' /\ NetTypeOK'
  BY ControlFrames DEF ControlFrame, TypeOK, WriterTypeOK, SheetTypeOK, NetTypeOK
<1>2. UNCHANGED rampVars \/ Close
  BY DEF ControlStep, SeeHeld, ShardsHeld, OpenWriters, StoreFrom, StoreTo,
     StartDrain, StopRun, Return, Report, Tick, Fail, rampVars
<1>3. RampInv'
  BY <1>2, RampKept
<1>4. failed' \in BOOLEAN
  BY Zenon DEF ControlStep, SeeHeld, ShardsHeld, OpenWriters, StoreFrom, StoreTo,
     StartDrain, StopRun, Return, Report, Tick, Fail, TypeOK, RunTypeOK, RampTypeOK
<1>5. /\ now' \in Nat \ {0} /\ deadline' \in Nat /\ from' \in Nat /\ to' \in Nat
      /\ heldSeen' \in Nat /\ shards' \in 0..Shards /\ lostSeen' \in Nat
  <2> USE DEF TypeOK, RunTypeOK, RampTypeOK
  <2>1. CASE SeeHeld
    BY <2>1 DEF SeeHeld, Fail
  <2>2. CASE ShardsHeld
    BY <2>2 DEF ShardsHeld
  <2>3. CASE OpenWriters
    BY <2>3 DEF OpenWriters, Fail
  <2>4. CASE StoreFrom \/ StoreTo
    BY <2>4 DEF StoreFrom, StoreTo
  <2>5. CASE StartDrain \/ StopRun
    BY <2>5 DEF StartDrain, StopRun
  <2>6. CASE Return \/ Report
    BY <2>6 DEF Return, Report
  <2>7. CASE Tick
    BY <2>7 DEF Tick
  <2>8. QED
    BY <2>1, <2>2, <2>3, <2>4, <2>5, <2>6, <2>7 DEF ControlStep
<1>6. phase' \in {"ramp", "held", "open", "opened", "warmup", "storing", "window",
                  "measure", "drain", "tally", "returned"} \union Ended
  BY DEF ControlStep, SeeHeld, ShardsHeld, OpenWriters, StoreFrom, StoreTo,
     StartDrain, StopRun, Return, Report, Tick, Fail, TypeOK, RunTypeOK, Ended
<1>7. QED
  BY <1>1, <1>3, <1>4, <1>5, <1>6 DEF TypeOK, RunTypeOK, RampInv

LEMMA PushType ==
  ASSUME TypeOK, RampInv, StartWarmup \/ StartMeasure
  PROVE  TypeOK' /\ RampInv'
<1> USE DEF clockVars, windowVars, resultVars, sheetVars, netVars
<1>1. PICK span \in Nat : Push(span)
  BY DEF StartWarmup, StartMeasure
<1>2. RampInv'
  BY <1>1, RampKept DEF Push
<1>3. SheetTypeOK' /\ NetTypeOK'
  BY <1>1 DEF Push, TypeOK, SheetTypeOK, NetTypeOK
<1>4. WriterTypeOK'
  <2>1. \A w \in Ws : writer'[w] \in WriterState
    BY <1>1, ShareType DEF Push, TypeOK, WriterTypeOK, WriterState
  <2>2. writer' \in [Ws -> WriterState]
    BY <1>1, <2>1 DEF Push
  <2>3. QED
    BY <1>1, <2>2 DEF Push, TypeOK, WriterTypeOK
<1>5. failed' \in BOOLEAN
  BY <1>1, Zenon DEF Push, TypeOK, RunTypeOK
<1>6. RunTypeOK'
  <2>0. deadline' = now + span /\ now \in Nat
    BY <1>1 DEF Push, TypeOK, RunTypeOK
  <2>1. deadline' \in Nat /\ UNCHANGED <<now, heldSeen, shards, lostSeen>>
    <3>1. UNCHANGED <<now, heldSeen, shards, lostSeen>>
      BY <1>1 DEF Push
    <3>2. QED
      BY <2>0, <3>1
  <2>2. from' \in Nat /\ to' \in Nat /\ phase' \in {"warmup", "measure"}
    BY DEF StartWarmup, StartMeasure, TypeOK, RunTypeOK
  <2>3. QED
    BY <1>5, <2>1, <2>2 DEF TypeOK, RunTypeOK
<1>7. QED
  BY <1>2, <1>3, <1>4, <1>6 DEF TypeOK, RampInv

LEMMA TallyType ==
  ASSUME TypeOK, RampInv, TallyOne
  PROVE  TypeOK' /\ RampInv'
<1> USE DEF clockVars, windowVars, resultVars, writerVars, netVars, runVars
<1>1. RampInv' /\ RunTypeOK' /\ WriterTypeOK' /\ NetTypeOK'
  <2>1. RampInv'
    BY RampKept DEF TallyOne
  <2>2. QED
    BY <2>1 DEF TallyOne, TypeOK, RunTypeOK, WriterTypeOK, NetTypeOK
<1>2. tally.cols \in ColIds /\ col[tally.cols] \in Sheet /\ tally.sheet \in Sheet
  BY DEF TallyOne, TypeOK, SheetTypeOK, ColIds
<1>3. Merge(tally.sheet, col[tally.cols]) \in Sheet
  BY <1>2 DEF Merge, Sheet
<1>4. SheetTypeOK'
  BY <1>2, <1>3 DEF TallyOne, TypeOK, SheetTypeOK, ColIds
<1>5. QED
  BY <1>1, <1>4 DEF TypeOK, RampInv

\* A statement never moves a counter by anything but a number of rows.
LEMMA PumpType ==
  ASSUME TypeOK, RampInv, BatchesApart, NEW w \in Ws, PumpStep(w) \/ PumpError(w)
  PROVE  TypeOK' /\ RampInv'
<1> USE DEF clockVars, windowVars, resultVars, writerVars, sheetVars, netVars, runVars
<1>0. writer[w] \in WriterState /\ writer \in [Ws -> WriterState]
  BY DEF TypeOK, WriterTypeOK
<1>1. CASE PumpStop(w)
  <2>1. RampInv'
    BY <1>1, RampKept DEF PumpStop
  <2>2. writer' \in [Ws -> WriterState]
    BY <1>0, <1>1 DEF PumpStop, WriterState
  <2>3. QED
    BY <1>1, <2>1, <2>2 DEF PumpStop, TypeOK, RunTypeOK, WriterTypeOK, SheetTypeOK,
       NetTypeOK, RampInv
<1>2. CASE PumpSend(w)
  <2>1. RampInv'
    BY <1>2, RampKept DEF PumpSend
  <2>2. writer' \in [Ws -> WriterState] /\ sends' \in Nat
    <3>1. CASE shards = 0
      BY <1>0, <1>2, <3>1 DEF PumpSend, TypeOK, WriterTypeOK
    <3>2. CASE shards # 0
      <4>1. BatchRows(w) \subseteq Row
        BY <3>2, BatchRowsType
      <4>2. now \in Nat /\ writer[w].next + BatchOf(w) \in Nat /\ sends \in Nat
        BY <1>0, ShareType DEF TypeOK, RunTypeOK, WriterTypeOK, WriterState
      <4>3. QED
        BY <1>0, <1>2, <3>2, <4>1, <4>2 DEF PumpSend, WriterState
    <3>3. QED
      BY <3>1, <3>2
  <2>3. phase' \in {phase, "panicked"}
    BY <1>2 DEF PumpSend
  <2>4. RunTypeOK'
    BY <1>2, <2>3 DEF PumpSend, TypeOK, RunTypeOK, Ended
  <2>5. QED
    BY <1>2, <2>1, <2>2, <2>4 DEF PumpSend, TypeOK, WriterTypeOK, SheetTypeOK, NetTypeOK, RampInv
<1>3. CASE DbCommit(w)
  <2>1. RampInv'
    BY <1>3, RampKept DEF DbCommit
  <2>2. writer' \in [Ws -> WriterState]
    BY <1>0, <1>3 DEF DbCommit, WriterState
  <2>3. rows' \subseteq Row /\ frames' \subseteq Frame
    BY <1>0, <1>3 DEF DbCommit, WriterState, TypeOK, NetTypeOK, Frame, InState
  <2>4. QED
    BY <1>3, <2>1, <2>2, <2>3 DEF DbCommit, TypeOK, RunTypeOK, WriterTypeOK, SheetTypeOK,
       NetTypeOK, RampInv
<1>4. CASE PumpAck(w)
  <2>1. RampInv'
    BY <1>4, RampKept DEF PumpAck
  <2>2. writer' \in [Ws -> WriterState]
    BY <1>0, <1>4 DEF PumpAck, WriterState
  <2>3. \A s : Cardinality({r \in writer[w].batch : r.shard = s}) \in Nat
    BY FS_Subset, FS_CardinalityType DEF BatchesApart
  <2>4. perShard' \in [ShardIds -> Nat] /\ owed' \subseteq Row
    <3>1. CASE InWindow(writer[w].stamp)
      <4>1. perShard' = [s \in ShardIds |->
              perShard[s] + Cardinality({r \in writer[w].batch : r.shard = s})]
        BY <1>4, <3>1 DEF PumpAck
      <4>2. owed' = owed \union writer[w].batch
        BY <1>4, <3>1 DEF PumpAck
      <4>3. \A s \in ShardIds :
              perShard[s] + Cardinality({r \in writer[w].batch : r.shard = s}) \in Nat
        <5> SUFFICES ASSUME NEW s \in ShardIds
                     PROVE  perShard[s] + Cardinality({r \in writer[w].batch : r.shard = s}) \in Nat
          OBVIOUS
        <5> DEFINE n == Cardinality({r \in writer[w].batch : r.shard = s})
        <5>1. n \in Nat
          BY <2>3
        <5>2. perShard[s] \in Nat
          BY DEF TypeOK, WriterTypeOK
        <5> HIDE DEF n
        <5>3. perShard[s] + n \in Nat
          BY <5>1, <5>2
        <5>4. QED
          BY <5>3 DEF n
      <4>4. QED
        BY <1>0, <4>1, <4>2, <4>3 DEF TypeOK, WriterTypeOK, WriterState
    <3>2. CASE ~InWindow(writer[w].stamp)
      BY <1>4, <3>2 DEF PumpAck, TypeOK, WriterTypeOK
    <3>3. QED
      BY <3>1, <3>2
  <2>5. QED
    BY <1>4, <2>1, <2>2, <2>4 DEF PumpAck, TypeOK, RunTypeOK, WriterTypeOK, SheetTypeOK,
       NetTypeOK, RampInv
<1>5. CASE PumpError(w)
  <2>1. RampInv'
    BY <1>5, RampKept DEF PumpError
  <2>2. writer' \in [Ws -> WriterState]
    <3>1. PICK conn \in {"open", "broken"} :
            writer' = [writer EXCEPT ![w].pc = "done", ![w].conn = conn]
      <4>1. writer[w].conn \in {"open", "broken"}
        BY <1>0 DEF WriterState
      <4>2. QED
        BY <1>5, <4>1 DEF PumpError
    <3>2. QED
      BY <1>0, <3>1 DEF WriterState
  <2>3. unacked' \subseteq Row
    BY <1>0, <1>5 DEF PumpError, WriterState, TypeOK, WriterTypeOK
  <2>4. QED
    BY <1>5, <2>1, <2>2, <2>3 DEF PumpError, TypeOK, RunTypeOK, WriterTypeOK, SheetTypeOK,
       NetTypeOK, RampInv
<1>6. QED
  BY <1>1, <1>2, <1>3, <1>4, <1>5 DEF PumpStep

LEMMA FrameType ==
  ASSUME TypeOK, RampInv, NEW f \in frames, Read(f) \/ NodeDrops(f)
  PROVE  TypeOK' /\ RampInv'
<1> USE DEF clockVars, windowVars, resultVars, writerVars, sheetVars, runVars
<1>0. f \in Frame /\ f.id \in Ids /\ f.id \in Nat
  BY DEF TypeOK, NetTypeOK, Frame, Ids
<1>1. RampInv'
  BY RampKept DEF Read, NodeDrops
<1>2. RunTypeOK' /\ WriterTypeOK' /\ NetTypeOK'
  BY DEF Read, NodeDrops, TypeOK, RunTypeOK, WriterTypeOK, NetTypeOK
<1>3. SheetTypeOK'
  <2>1. CASE NodeDrops(f)
    BY <2>1 DEF NodeDrops, TypeOK, SheetTypeOK
  <2>2. CASE Read(f)
    <3>1. f.id % Cols \in ColIds /\ ShardOf(f.id) \in ShardIds
      BY <1>0 DEF ColIds, ShardIds, ShardOf
    <3>2. col' \in [ColIds -> Sheet]
      BY <2>2, <3>1 DEF Read, TypeOK, SheetTypeOK, Sheet
    <3>3. QED
      BY <1>0, <2>2, <3>2 DEF Read, TypeOK, SheetTypeOK
  <2>3. QED
    BY <2>1, <2>2
<1>4. QED
  BY <1>1, <1>2, <1>3 DEF TypeOK, RampInv

-----------------------------------------------------------------------------
(* The accounting.                                                         *)

\* What the result will expect, without the statements in flight.
OwedCounted ==
  /\ \A r \in owed : Measured(r.stamp)
  /\ \A s \in ShardIds : perShard[s] = Cardinality({r \in owed : r.shard = s})

Accounts == WindowUnset /\ BatchesApart /\ FramesApart /\ CountedOnce /\ OwedCounted

\* The variables the accounting speaks of.
acctVars == <<phase, from, to, writer, sends, perShard, owed, unacked, col, tally,
              counted, merged, rows, frames>>

LEMMA AccountsFrame == Accounts /\ UNCHANGED acctVars => Accounts'
BY DEF Accounts, acctVars, WindowUnset, BatchesApart, FramesApart, CountedOnce, OwedCounted,
   WindowFrames, Measured, Delivered

LEMMA FrameOfWindow ==
  ASSUME NEW f \in Frame
  PROVE  f \in WindowFrames <=>
           f.row \in rows /\ Measured(f.row.stamp) /\ ShardOf(f.id) = f.row.shard
<1>1. f \in [row : rows, id : Ids] <=> f.row \in rows
  BY DEF Frame
<1>2. QED
  BY <1>1 DEF WindowFrames

\* The window moves only while nothing has been counted.
LEMMA WindowMoves ==
  ASSUME TypeOK, Accounts, ControlStep
  PROVE  /\ UNCHANGED <<from, to>> \/ (counted = {} /\ owed = {})
         /\ WindowUnset'
<1> USE DEF clockVars, windowVars, resultVars
<1>1. ASSUME StoreFrom \/ StoreTo
      PROVE  counted = {} /\ owed = {}
  <2>1. from = 0 \/ (from # 0 /\ to = 0)
    BY <1>1 DEF StoreFrom, StoreTo, Accounts, WindowUnset, BeforeWindow
  <2>2. \A stamp : ~Measured(stamp)
    BY <2>1 DEF Measured, TypeOK, RunTypeOK
  <2>3. QED
    BY <2>2 DEF Accounts, CountedOnce, OwedCounted, WindowFrames
<1>2. ASSUME ~(StoreFrom \/ StoreTo)
      PROVE  UNCHANGED <<from, to>>
  BY <1>2 DEF ControlStep, SeeHeld, ShardsHeld, OpenWriters, StartDrain, StopRun, Return,
     Report, Tick, Fail
<1>3. WindowUnset'
  <2> USE DEF Accounts, WindowUnset, BeforeWindow
  <2>1. CASE StoreFrom
    BY <2>1 DEF StoreFrom, TypeOK, RunTypeOK
  <2>2. CASE StoreTo
    BY <2>2 DEF StoreTo
  <2>3. CASE SeeHeld \/ ShardsHeld \/ OpenWriters
    BY <2>3 DEF SeeHeld, ShardsHeld, OpenWriters, Fail
  <2>4. CASE StartDrain \/ StopRun \/ Return \/ Report \/ Tick
    BY <2>4 DEF StartDrain, StopRun, Return, Report, Tick
  <2>5. QED
    BY <2>1, <2>2, <2>3, <2>4 DEF ControlStep
<1>4. QED
  BY <1>1, <1>2, <1>3

LEMMA ControlAccounts ==
  ASSUME TypeOK, Accounts, ControlStep
  PROVE  Accounts'
<1>1. UNCHANGED <<writerVars, sheetVars, netVars>>
  BY ControlFrames DEF ControlFrame
<1> USE DEF writerVars, sheetVars, netVars
<1>2. BatchesApart' /\ FramesApart'
  BY <1>1 DEF Accounts, BatchesApart, FramesApart
<1>3. (\A stamp : Measured(stamp)' = Measured(stamp)) \/ (counted = {} /\ owed = {})
  BY WindowMoves DEF Measured
<1>4. counted' \subseteq WindowFrames'
  BY <1>1, <1>3 DEF Accounts, CountedOnce, WindowFrames
<1>5. CountedOnce'
  BY <1>1, <1>4 DEF Accounts, CountedOnce, Delivered
<1>6. OwedCounted'
  BY <1>1, <1>3 DEF Accounts, OwedCounted
<1>7. QED
  BY <1>2, <1>5, <1>6, WindowMoves DEF Accounts

LEMMA PushAccounts ==
  ASSUME TypeOK, Accounts, StartWarmup \/ StartMeasure
  PROVE  Accounts'
<1> USE DEF resultVars, sheetVars, netVars, windowVars
<1>1. PICK span : Push(span)
  BY DEF StartWarmup, StartMeasure
<1>2. UNCHANGED <<from, to, sends, perShard, owed, unacked, col, tally, counted, merged,
                  rows, frames>>
  BY <1>1 DEF Push, StartWarmup, StartMeasure, Accounts, WindowUnset, BeforeWindow
<1>3. \A w \in Ws : /\ writer'[w].batch = writer[w].batch
                    /\ writer'[w].stamp = writer[w].stamp
                    /\ writer'[w].pc \in {"wait", "done"}
  BY <1>1 DEF Push, TypeOK, WriterTypeOK, WriterState
<1>4. BatchesApart'
  BY <1>2, <1>3 DEF Accounts, BatchesApart
<1>5. FramesApart' /\ CountedOnce' /\ OwedCounted'
  BY <1>2 DEF Accounts, FramesApart, CountedOnce, OwedCounted, WindowFrames, Measured, Delivered
<1>6. WindowUnset'
  BY <1>2 DEF StartWarmup, StartMeasure, Accounts, WindowUnset, BeforeWindow
<1>7. QED
  BY <1>4, <1>5, <1>6 DEF Accounts

\* A collector's frames join the tally once: none of them was merged before.
LEMMA TallyAccounts ==
  ASSUME TypeOK, Accounts, TallyOne
  PROVE  Accounts'
<1> USE DEF clockVars, windowVars, resultVars, writerVars, netVars, runVars
<1> DEFINE c == tally.cols
           New == {f \in counted : f.id % Cols = c}
<1>1. /\ UNCHANGED <<phase, from, to, writer, sends, perShard, owed, unacked, col, counted,
                     rows, frames>>
      /\ merged' = merged \union New
  BY DEF TallyOne
<1>2. c \in ColIds /\ c \in Nat /\ tally'.cols = c + 1
      /\ tally'.sheet.hist = tally.sheet.hist + col[c].hist
  BY DEF TallyOne, Merge, TypeOK, SheetTypeOK, ColIds
<1>3. IsFiniteSet(merged) /\ IsFiniteSet(New) /\ merged \intersect New = {}
  <2>1. IsFiniteSet(counted) /\ merged \subseteq counted
    BY DEF Accounts, FramesApart, CountedOnce
  <2>2. IsFiniteSet(merged) /\ IsFiniteSet(New)
    BY <2>1, FS_Subset
  <2>3. \A f \in merged : f.id % Cols < c
    BY DEF Accounts, FramesApart
  <2>4. \A f \in merged : f.id % Cols # c
    BY <2>3, <1>2
  <2>5. QED
    BY <2>2, <2>4
<1>4. Cardinality(merged') = Cardinality(merged) + Cardinality(New)
  <2> HIDE DEF New
  <2>1. /\ Cardinality(merged) \in Nat /\ Cardinality(New) \in Nat
        /\ Cardinality(merged \union New) =
             Cardinality(merged) + Cardinality(New) - Cardinality(merged \intersect New)
    BY <1>3, FS_Union, FS_CardinalityType
  <2>2. Cardinality(merged \intersect New) = 0
    BY <1>3, FS_EmptySet
  <2>3. QED
    BY <1>1, <2>1, <2>2
<1>5. Delivered' = Cardinality(merged')
  <2>1. Delivered = Cardinality(merged) /\ col[c].hist = Cardinality(New)
    BY <1>2 DEF Accounts, CountedOnce
  <2>2. QED
    BY <1>2, <1>4, <2>1 DEF Delivered
<1>6. CountedOnce'
  BY <1>1, <1>5 DEF Accounts, CountedOnce, WindowFrames, Measured
<1>7. FramesApart'
  <2>1. \A f \in merged' : f.id % Cols < tally'.cols
    <3> SUFFICES ASSUME NEW f \in merged' PROVE f.id % Cols < tally'.cols
      OBVIOUS
    <3>1. f.id % Cols \in Nat
      BY <1>1 DEF Accounts, CountedOnce, TypeOK, SheetTypeOK, Frame, Ids
    <3>2. f.id % Cols < c \/ f.id % Cols = c
      BY <1>1 DEF Accounts, FramesApart
    <3>3. QED
      BY <1>2, <3>1, <3>2
  <2>2. QED
    BY <1>1, <2>1 DEF Accounts, FramesApart
<1>8. QED
  BY <1>1, <1>6, <1>7 DEF Accounts, WindowUnset, BatchesApart, OwedCounted, Measured

\* Deliveries are filed one at a time, under the collector and the shard of
\* the socket they reached.
LEMMA ReadAccounts ==
  ASSUME TypeOK, Accounts, NEW f \in frames, Read(f)
  PROVE  Accounts'
<1> USE DEF clockVars, windowVars, resultVars, writerVars, runVars
<1> DEFINE k == f.id % Cols
           In(c) == {g \in counted : g.id % Cols = c}
           On(c, s) == {g \in counted : g.id % Cols = c /\ g.row.shard = s}
<1>1. /\ UNCHANGED <<phase, from, to, writer, sends, perShard, owed, unacked, tally, merged,
                     rows>>
      /\ frames' = frames \ {f}
  BY DEF Read
<1>2. /\ f \in Frame /\ f.id \in Nat /\ f \notin counted /\ f.row \in rows
      /\ ShardOf(f.id) = f.row.shard /\ k \in ColIds /\ f.row.shard \in ShardIds
  BY DEF TypeOK, NetTypeOK, Frame, Row, Ids, ColIds, Accounts, FramesApart
<1>3. WindowUnset' /\ BatchesApart' /\ OwedCounted'
  BY <1>1 DEF Accounts, WindowUnset, BatchesApart, OwedCounted, Measured
<1>4. WindowFrames' = WindowFrames
  BY <1>1 DEF WindowFrames, Measured
<1>5. CASE ~InWindow(f.row.stamp)
  <2>1. UNCHANGED counted /\ col' = [col EXCEPT ![k].stray = @ + 1]
    BY <1>5 DEF Read
  <2>2. \A c \in ColIds : col'[c].hist = col[c].hist /\ col'[c].shards = col[c].shards
    BY <1>2, <2>1 DEF TypeOK, SheetTypeOK, Sheet
  <2>3. FramesApart' /\ CountedOnce'
    BY <1>1, <1>4, <2>1, <2>2 DEF Accounts, FramesApart, CountedOnce, Delivered
  <2>4. QED
    BY <1>3, <2>3 DEF Accounts
<1>6. CASE InWindow(f.row.stamp)
  <2>1. /\ counted' = counted \union {f}
        /\ col' = [col EXCEPT ![k].hist = @ + 1, ![k].shards[ShardOf(f.id)] = @ + 1]
    BY <1>6 DEF Read
  <2>2. FramesApart'
    <3>1. IsFiniteSet(counted \union {f})
      BY FS_AddElement DEF Accounts, FramesApart
    <3>2. QED
      BY <1>1, <1>2, <2>1, <3>1 DEF Accounts, FramesApart
  <2>3. counted' \subseteq WindowFrames'
    <3>1. Measured(f.row.stamp)
      BY <1>2, <1>6 DEF InWindow, Measured, TypeOK, RunTypeOK, Frame, Row
    <3>2. f \in WindowFrames
      BY <1>2, <3>1, FrameOfWindow
    <3>3. QED
      BY <1>4, <2>1, <3>2 DEF Accounts, CountedOnce
  <2>4. ASSUME NEW c \in ColIds
        PROVE  col'[c].hist = Cardinality({g \in counted' : g.id % Cols = c})
    <3>1. IsFiniteSet(In(c)) /\ Cardinality(In(c)) \in Nat
      BY FS_Subset, FS_CardinalityType DEF Accounts, FramesApart
    <3>2. col[c].hist = Cardinality(In(c)) /\ f \notin In(c)
      BY <1>2 DEF Accounts, CountedOnce
    <3>3. CASE c = k
      <4>1. {g \in counted' : g.id % Cols = c} = In(c) \union {f}
        BY <2>1, <3>3
      <4>2. Cardinality(In(c) \union {f}) = Cardinality(In(c)) + 1
        BY <3>1, <3>2, FS_AddElement
      <4>3. col'[c].hist = col[c].hist + 1
        BY <1>2, <2>1, <3>3 DEF TypeOK, SheetTypeOK, Sheet
      <4>4. QED
        BY <3>2, <4>1, <4>2, <4>3
    <3>4. CASE c # k
      <4>1. {g \in counted' : g.id % Cols = c} = In(c)
        BY <2>1, <3>4
      <4>2. col'[c].hist = col[c].hist
        BY <1>2, <2>1, <3>4 DEF TypeOK, SheetTypeOK, Sheet
      <4>3. QED
        BY <3>2, <4>1, <4>2
    <3>5. QED
      BY <3>3, <3>4
  <2>5. ASSUME NEW c \in ColIds, NEW s \in ShardIds
        PROVE  col'[c].shards[s] =
                 Cardinality({g \in counted' : g.id % Cols = c /\ g.row.shard = s})
    <3>1. IsFiniteSet(On(c, s)) /\ Cardinality(On(c, s)) \in Nat
      BY FS_Subset, FS_CardinalityType DEF Accounts, FramesApart
    <3>2. col[c].shards[s] = Cardinality(On(c, s)) /\ f \notin On(c, s)
      BY <1>2 DEF Accounts, CountedOnce
    <3>3. CASE c = k /\ s = f.row.shard
      <4>1. {g \in counted' : g.id % Cols = c /\ g.row.shard = s} = On(c, s) \union {f}
        BY <2>1, <3>3
      <4>2. Cardinality(On(c, s) \union {f}) = Cardinality(On(c, s)) + 1
        BY <3>1, <3>2, FS_AddElement
      <4>3. col'[c].shards[s] = col[c].shards[s] + 1
        BY <1>2, <2>1, <3>3 DEF TypeOK, SheetTypeOK, Sheet
      <4>4. QED
        BY <3>2, <4>1, <4>2, <4>3
    <3>4. CASE ~(c = k /\ s = f.row.shard)
      <4>1. {g \in counted' : g.id % Cols = c /\ g.row.shard = s} = On(c, s)
        BY <2>1, <3>4
      <4>2. col'[c].shards[s] = col[c].shards[s]
        BY <1>2, <2>1, <3>4 DEF TypeOK, SheetTypeOK, Sheet
      <4>3. QED
        BY <3>2, <4>1, <4>2
    <3>5. QED
      BY <3>3, <3>4
  <2>6. merged' \subseteq counted' /\ Delivered' = Cardinality(merged')
    BY <1>1, <2>1 DEF Accounts, CountedOnce, Delivered
  <2>7. CountedOnce'
    BY <2>3, <2>4, <2>5, <2>6 DEF CountedOnce
  <2>8. QED
    BY <1>3, <2>2, <2>7 DEF Accounts
<1>7. QED
  BY <1>5, <1>6

LEMMA DropAccounts ==
  ASSUME TypeOK, Accounts, NEW f \in frames, NodeDrops(f)
  PROVE  Accounts'
<1> USE DEF clockVars, windowVars, resultVars, writerVars, sheetVars, runVars
<1>1. /\ UNCHANGED <<phase, from, to, writer, sends, perShard, owed, unacked, col, tally,
                     counted, merged, rows>>
      /\ frames' \subseteq frames
  BY DEF NodeDrops
<1>2. QED
  BY <1>1 DEF Accounts, WindowUnset, BatchesApart, FramesApart, CountedOnce, OwedCounted,
     WindowFrames, Measured, Delivered

OnShard(R, s) == {r \in R : r.shard = s}

\* Two finite sets of rows with nothing in common count up, shard by shard.
LEMMA ShardCounts ==
  ASSUME NEW A, NEW B, IsFiniteSet(A), IsFiniteSet(B), A \intersect B = {}, NEW s
  PROVE  Cardinality(OnShard(A \union B, s)) =
           Cardinality(OnShard(A, s)) + Cardinality(OnShard(B, s))
<1> DEFINE X == OnShard(A, s)
           Y == OnShard(B, s)
<1>1. IsFiniteSet(X) /\ IsFiniteSet(Y)
  BY FS_Subset DEF OnShard
<1>2. X \intersect Y = {} /\ OnShard(A \union B, s) = X \union Y
  BY DEF OnShard
<1> HIDE DEF X, Y
<1>3. /\ Cardinality(X \intersect Y) = 0
      /\ Cardinality(X) \in Nat /\ Cardinality(Y) \in Nat
      /\ Cardinality(X \union Y) = Cardinality(X) + Cardinality(Y) - Cardinality(X \intersect Y)
  BY <1>1, <1>2, FS_Union, FS_EmptySet, FS_CardinalityType
<1>4. Cardinality(X \union Y) = Cardinality(X) + Cardinality(Y)
  BY <1>3
<1>5. QED
  BY <1>2, <1>4 DEF X, Y

\* A statement through its life keeps batches, rows and counts apart.
LEMMA PumpAccounts ==
  ASSUME TypeOK, Accounts, NEW w \in Ws, PumpStep(w) \/ PumpError(w)
  PROVE  Accounts'
<1> USE DEF clockVars, windowVars, resultVars, writerVars, sheetVars, netVars, runVars
<1>0. /\ writer[w] \in WriterState /\ writer \in [Ws -> WriterState]
      /\ UNCHANGED <<from, to, col, tally, counted, merged>>
  BY DEF TypeOK, WriterTypeOK, PumpStep, PumpStop, PumpSend, DbCommit, PumpAck, PumpError
<1>1. CASE PumpStop(w)
  <2>1. /\ UNCHANGED <<phase, sends, perShard, owed, unacked, rows, frames>>
        /\ \A v \in Ws : writer'[v].batch = writer[v].batch /\ writer'[v].stamp = writer[v].stamp
        /\ \A v \in Ws : writer'[v].pc \in {writer[v].pc, "done"}
    BY <1>0, <1>1 DEF PumpStop, WriterState
  <2>2. BatchesApart'
    BY <2>1 DEF Accounts, BatchesApart
  <2>3. QED
    BY <1>0, <2>1, <2>2 DEF Accounts, WindowUnset, FramesApart, CountedOnce, OwedCounted,
       WindowFrames, Measured, Delivered
<1>2. CASE PumpSend(w)
  <2>1. UNCHANGED <<perShard, owed, unacked, rows, frames>> /\ phase' \in {phase, "panicked"}
    BY <1>2 DEF PumpSend
  <2>2. BatchesApart'
    <3>1. CASE shards = 0
      <4>1. UNCHANGED <<writer, sends>>
        BY <1>2, <3>1 DEF PumpSend
      <4>2. QED
        BY <2>1, <4>1 DEF Accounts, BatchesApart
    <3>2. CASE shards # 0
      <4>1. /\ IsFiniteSet(BatchRows(w))
            /\ \A r \in BatchRows(w) : r.stmt = sends /\ r.stamp = now
        BY <3>2, BatchRowsType
      <4>2. /\ writer'[w].batch = BatchRows(w) /\ writer'[w].stamp = now
            /\ writer'[w].pc = "sent" /\ sends' = sends + 1
            /\ \A v \in Ws : v # w => writer'[v] = writer[v]
        BY <1>0, <1>2, <3>2 DEF PumpSend, WriterState
      <4>3. /\ \A v \in Ws : \A r \in writer[v].batch : r.stmt < sends
            /\ \A r \in rows : r.stmt < sends
        BY DEF Accounts, BatchesApart
      <4>4. BatchRows(w) \intersect rows = {}
        BY <4>1, <4>3 DEF TypeOK, WriterTypeOK
      <4>5. \A v \in Ws : BatchRows(w) \intersect writer[v].batch = {}
        BY <4>1, <4>3 DEF TypeOK, WriterTypeOK
      <4>6. /\ \A v \in Ws : \A r \in writer'[v].batch : r.stmt < sends'
            /\ \A r \in rows : r.stmt < sends'
        <5>1. /\ sends \in Nat
              /\ \A r \in rows : r.stmt \in Nat
              /\ \A v \in Ws : \A r \in writer[v].batch : r.stmt \in Nat
          BY <1>0 DEF TypeOK, WriterTypeOK, NetTypeOK, Row, WriterState
        <5>2. QED
          BY <4>1, <4>2, <4>3, <5>1
      <4>7. QED
        BY <2>1, <4>1, <4>2, <4>4, <4>5, <4>6 DEF Accounts, BatchesApart
    <3>3. QED
      BY <3>1, <3>2
  <2>3. WindowUnset'
    BY <1>0, <2>1 DEF Accounts, WindowUnset, BeforeWindow
  <2>4. QED
    BY <1>0, <2>1, <2>2, <2>3 DEF Accounts, FramesApart, CountedOnce, OwedCounted,
       WindowFrames, Measured, Delivered
<1>3. CASE DbCommit(w)
  <2> DEFINE B == writer[w].batch
  <2>1. /\ UNCHANGED <<phase, sends, perShard, owed, unacked>>
        /\ rows' = rows \union B /\ frames \subseteq frames'
        /\ \A f \in frames' \ frames : f.row \in B /\ ShardOf(f.id) = f.row.shard
        /\ \A v \in Ws : writer'[v].batch = writer[v].batch /\ writer'[v].stamp = writer[v].stamp
        /\ writer'[w].pc = "committed" /\ \A v \in Ws : v # w => writer'[v] = writer[v]
    BY <1>0, <1>3 DEF DbCommit, WriterState
  <2>2. B \intersect rows = {} /\ \A v \in Ws : v # w => writer[v].batch \intersect B = {}
    BY <1>3 DEF DbCommit, Accounts, BatchesApart
  <2>3. BatchesApart'
    <3>1. B \intersect (owed \union unacked) = {}
      BY <2>2 DEF Accounts, BatchesApart
    <3>2. \A r \in rows' : r.stmt < sends
      BY <2>1 DEF Accounts, BatchesApart
    <3>3. \A v \in Ws : v # w /\ writer[v].pc = "sent" => writer[v].batch \intersect rows' = {}
      BY <2>1, <2>2 DEF Accounts, BatchesApart
    <3>4. QED
      BY <2>1, <3>1, <3>2, <3>3 DEF Accounts, BatchesApart
  <2>4. FramesApart'
    BY <1>0, <2>1, <2>2 DEF Accounts, FramesApart
  <2>5. WindowFrames \subseteq WindowFrames'
    BY <1>0, <2>1 DEF WindowFrames, Measured
  <2>6. CountedOnce'
    BY <1>0, <2>5 DEF Accounts, CountedOnce, Delivered
  <2>7. QED
    BY <1>0, <2>1, <2>3, <2>4, <2>6 DEF Accounts, WindowUnset, OwedCounted, Measured
<1>4. CASE PumpAck(w)
  <2> DEFINE B == writer[w].batch
  <2>1. /\ UNCHANGED <<phase, sends, unacked, rows, frames>>
        /\ \A v \in Ws : writer'[v].batch = writer[v].batch /\ writer'[v].stamp = writer[v].stamp
        /\ writer'[w].pc = "wait" /\ \A v \in Ws : v # w => writer'[v] = writer[v]
    BY <1>0, <1>4 DEF PumpAck, WriterState
  <2>2. /\ B \subseteq rows /\ B \intersect (owed \union unacked) = {} /\ IsFiniteSet(B)
        /\ \A r \in B : r.stamp = writer[w].stamp
        /\ \A v \in Ws : v # w => writer[v].batch \intersect B = {}
    BY <1>4 DEF PumpAck, Accounts, BatchesApart
  <2>3. BatchesApart' /\ OwedCounted'
    <3>1. CASE ~InWindow(writer[w].stamp)
      <4>1. UNCHANGED <<perShard, owed>>
        BY <1>4, <3>1 DEF PumpAck
      <4>2. QED
        BY <1>0, <2>1, <4>1 DEF Accounts, BatchesApart, OwedCounted, Measured
    <3>2. CASE InWindow(writer[w].stamp)
      <4>1. /\ owed' = owed \union B
            /\ perShard' = [s \in ShardIds |->
                 perShard[s] + Cardinality({r \in B : r.shard = s})]
        BY <1>4, <3>2 DEF PumpAck
      <4>2. IsFiniteSet(owed) /\ IsFiniteSet(owed')
        BY <2>2, <4>1, FS_Union DEF Accounts, BatchesApart
      <4>3. BatchesApart'
        BY <2>1, <2>2, <4>1, <4>2 DEF Accounts, BatchesApart
      <4>4. \A r \in owed' : Measured(r.stamp)'
        <5>1. Measured(writer[w].stamp)
          BY <1>0, <3>2 DEF InWindow, Measured, TypeOK, RunTypeOK, WriterState
        <5>2. QED
          BY <1>0, <2>2, <4>1, <5>1 DEF Accounts, OwedCounted, Measured
      <4>5. ASSUME NEW s \in ShardIds
            PROVE  perShard'[s] = Cardinality({r \in owed' : r.shard = s})
        <5>1. perShard[s] = Cardinality({r \in owed : r.shard = s})
          BY DEF Accounts, OwedCounted
        <5>2. owed \intersect B = {}
          BY <2>2
        <5> HIDE DEF B
        <5>3. Cardinality(OnShard(owed \union B, s)) =
                Cardinality(OnShard(owed, s)) + Cardinality(OnShard(B, s))
          BY <2>2, <4>2, <5>2, ShardCounts
        <5>4. QED
          BY <4>1, <5>1, <5>3 DEF OnShard
      <4>6. QED
        BY <4>3, <4>4, <4>5 DEF OwedCounted
    <3>3. QED
      BY <3>1, <3>2
  <2>4. QED
    BY <1>0, <2>1, <2>3 DEF Accounts, WindowUnset, FramesApart, CountedOnce, WindowFrames,
       Measured, Delivered
<1>5. CASE PumpError(w)
  <2> DEFINE B == writer[w].batch
  <2>1. /\ UNCHANGED <<phase, sends, perShard, owed, rows, frames>>
        /\ \A v \in Ws : writer'[v].batch = writer[v].batch /\ writer'[v].stamp = writer[v].stamp
        /\ writer'[w].pc = "done" /\ \A v \in Ws : v # w => writer'[v] = writer[v]
    <3>1. PICK conn : writer' = [writer EXCEPT ![w].pc = "done", ![w].conn = conn]
      BY <1>5 DEF PumpError
    <3>2. UNCHANGED <<phase, sends, perShard, owed, rows, frames>>
      BY <1>5 DEF PumpError
    <3>3. QED
      BY <1>0, <3>1, <3>2 DEF WriterState
  <2>2. \/ unacked' = unacked
        \/ writer[w].pc = "committed" /\ unacked' = unacked \union B
    BY <1>5 DEF PumpError
  <2>3. BatchesApart'
    BY <2>1, <2>2 DEF Accounts, BatchesApart
  <2>4. QED
    BY <1>0, <2>1, <2>3 DEF Accounts, WindowUnset, FramesApart, CountedOnce, OwedCounted,
       WindowFrames, Measured, Delivered
<1>6. QED
  BY <1>1, <1>2, <1>3, <1>4, <1>5 DEF PumpStep

-----------------------------------------------------------------------------
(* Every answered row of the window is owed.                               *)

LEMMA AnsweredFrame ==
  Answered /\ UNCHANGED <<phase, now, from, to, writer, owed, unacked, rows>> => Answered'
BY DEF Answered, Answering, Measured

LEMMA PushOver ==
  ASSUME Answered, PushDone
  PROVE  /\ \A w \in Ws : writer[w].pc = "done"
         /\ \A r : ~Answering(r)
BY DEF Answered, PushDone, Answering

LEMMA ControlAnswered ==
  ASSUME TypeOK, Answered, ControlStep
  PROVE  Answered'
<1> USE DEF clockVars, windowVars, resultVars, writerVars, sheetVars, netVars
<1>1. UNCHANGED <<writer, owed, unacked, rows>>
  BY ControlFrames DEF ControlFrame
<1>2. \A r : Answering(r)' = Answering(r)
  BY <1>1 DEF Answering
<1>3. CASE SeeHeld \/ ShardsHeld \/ OpenWriters
  <2>1. phase \in BeforeWindow \ {"warmup"} /\ phase' \in {"held", "open", "opened", "returned"}
    BY <1>3 DEF SeeHeld, ShardsHeld, OpenWriters, Fail, BeforeWindow
  <2>2. rows = {} /\ \A w \in Ws : writer[w].pc = "done"
    BY <2>1 DEF Answered, BeforeWindow
  <2>3. QED
    BY <1>1, <2>1, <2>2 DEF Answered
<1>4. CASE StoreFrom
  <2>1. /\ phase' = "storing" /\ from' = now
        /\ \A w \in Ws : writer[w].pc = "done"
        /\ \A r \in rows : r.stamp < now
    <3>1. CASE phase = "opened"
      BY <1>4, <3>1 DEF StoreFrom, Answered, BeforeWindow
    <3>2. CASE phase = "warmup" /\ PushDone
      BY <1>4, <3>2, PushOver DEF StoreFrom, Answered
    <3>3. QED
      BY <1>4, <3>1, <3>2 DEF StoreFrom
  <2>2. QED
    BY <1>1, <2>1 DEF Answered, BeforeWindow
<1>5. CASE StoreTo
  BY <1>1, <1>5 DEF StoreTo, Answered, BeforeWindow
<1>6. CASE StartDrain
  <2>1. phase = "measure" /\ phase' = "drain" /\ UNCHANGED <<from, to>>
    BY <1>6 DEF StartDrain
  <2>2. \A w \in Ws : writer[w].pc = "done"
    BY <1>6, PushOver DEF StartDrain
  <2>3. QED
    BY <1>1, <1>2, <2>1, <2>2 DEF Answered, BeforeWindow, Measured
<1>7. CASE StopRun \/ Return \/ Report
  <2>1. /\ phase \in {"drain", "tally", "returned"}
        /\ phase' \in {"tally", "returned", "written", "exited"}
        /\ UNCHANGED <<from, to>>
    BY <1>7 DEF StopRun, Return, Report
  <2>2. QED
    BY <1>1, <1>2, <2>1 DEF Answered, BeforeWindow, Measured
<1>8. CASE Tick
  <2>1. now' = now + 1 /\ UNCHANGED <<phase, from, to>>
    BY <1>8 DEF Tick
  <2>2. now \in Nat /\ \A r \in rows : r.stamp \in Nat
    BY DEF TypeOK, RunTypeOK, NetTypeOK, Row
  <2>3. \A r \in rows : r.stamp < now => r.stamp < now'
    BY <2>1, <2>2
  <2>4. QED
    BY <1>1, <1>2, <2>1, <2>3 DEF Answered, Measured
<1>9. QED
  BY <1>3, <1>4, <1>5, <1>6, <1>7, <1>8 DEF ControlStep

LEMMA PushAnswered ==
  ASSUME TypeOK, Answered, StartWarmup \/ StartMeasure
  PROVE  Answered'
<1> USE DEF resultVars, sheetVars, netVars, windowVars
<1>1. PICK span : Push(span)
  BY DEF StartWarmup, StartMeasure
<1>2. UNCHANGED <<owed, unacked, rows>>
  BY <1>1 DEF Push
<1>3. \A w \in Ws : writer'[w].pc = IF Share(w) = 0 THEN "done" ELSE "wait"
  BY <1>1 DEF Push, TypeOK, WriterTypeOK, WriterState
<1>4. Rows = 0 => \A w \in Ws : Share(w) = 0
  BY DEF Share, Ws
<1>5. CASE StartWarmup
  <2>1. rows = {} /\ phase' = "warmup"
    BY <1>5 DEF StartWarmup, Answered, BeforeWindow
  <2>2. QED
    BY <1>2, <1>3, <1>4, <2>1 DEF Answered, BeforeWindow
<1>6. CASE StartMeasure
  <2>1. phase' = "measure" /\ UNCHANGED <<from, to>> /\ \A r \in rows : r.stamp < from
    BY <1>6 DEF StartMeasure, Answered
  <2>2. \A r \in rows : ~Measured(r.stamp)'
    BY <2>1 DEF Measured, TypeOK, RunTypeOK, NetTypeOK, Row
  <2>3. QED
    BY <1>2, <1>3, <1>4, <2>1, <2>2 DEF Answered, BeforeWindow
<1>7. QED
  BY <1>5, <1>6

LEMMA PumpAnswered ==
  ASSUME TypeOK, Accounts, Answered, phase \notin Ended,
         NEW w \in Ws, PumpStep(w) \/ PumpError(w)
  PROVE  Answered'
<1> USE DEF clockVars, windowVars, resultVars, writerVars, sheetVars, netVars, runVars
<1> DEFINE B == writer[w].batch
<1>0. /\ writer[w] \in WriterState /\ writer \in [Ws -> WriterState]
      /\ UNCHANGED <<from, to, now>>
      /\ writer[w].pc # "done" /\ Rows # 0 /\ phase \in {"warmup", "measure"}
  <2>1. writer[w] \in WriterState /\ writer \in [Ws -> WriterState]
    BY DEF TypeOK, WriterTypeOK
  <2>2. writer[w].pc # "done" /\ UNCHANGED <<from, to, now>>
    BY DEF PumpStep, PumpStop, PumpSend, DbCommit, PumpAck, PumpError
  <2>3. QED
    BY <2>1, <2>2 DEF Answered, Ended
<1>1. CASE PumpStop(w)
  <2>1. /\ UNCHANGED <<phase, owed, unacked, rows>>
        /\ writer'[w].pc = "done" /\ writer[w].pc = "wait"
        /\ \A v \in Ws : v # w => writer'[v] = writer[v]
    BY <1>0, <1>1 DEF PumpStop, WriterState
  <2>2. \A r : Answering(r) => Answering(r)'
    BY <2>1 DEF Answering
  <2>3. QED
    BY <1>0, <2>1, <2>2 DEF Answered, BeforeWindow, Measured
<1>2. CASE PumpSend(w)
  <2>1. /\ UNCHANGED <<owed, unacked, rows>> /\ phase' \in {phase, "panicked"}
        /\ writer[w].pc = "wait"
        /\ \A v \in Ws : v # w => writer'[v] = writer[v]
    BY <1>0, <1>2 DEF PumpSend, WriterState
  <2>2. \A r : Answering(r) => Answering(r)'
    BY <2>1 DEF Answering
  <2>3. QED
    BY <1>0, <2>1, <2>2 DEF Answered, BeforeWindow, Measured
<1>3. CASE DbCommit(w)
  <2>1. /\ UNCHANGED <<phase, owed, unacked>> /\ rows' = rows \union B
        /\ writer'[w].pc = "committed" /\ writer'[w].batch = B /\ writer[w].pc = "sent"
        /\ \A v \in Ws : v # w => writer'[v] = writer[v]
    BY <1>0, <1>3 DEF DbCommit, WriterState
  <2>2. /\ \A r : Answering(r) => Answering(r)'
        /\ \A r \in B : Answering(r)'
    BY <2>1 DEF Answering
  <2>3. QED
    BY <1>0, <2>1, <2>2 DEF Answered, BeforeWindow, Measured
<1>4. CASE PumpAck(w)
  <2>1. /\ UNCHANGED <<phase, unacked, rows>> /\ owed \subseteq owed'
        /\ writer'[w].pc = "wait" /\ now > writer[w].stamp
        /\ InWindow(writer[w].stamp) => B \subseteq owed'
        /\ \A v \in Ws : v # w => writer'[v] = writer[v]
    BY <1>0, <1>4 DEF PumpAck, WriterState
  <2>2. \A r : Answering(r) => Answering(r)' \/ r \in B
    BY <2>1 DEF Answering
  <2>3. \A r \in B : r.stamp = writer[w].stamp
    BY DEF Accounts, BatchesApart
  <2>4. \A r \in B : r.stamp < now /\ (Measured(r.stamp) => r \in owed')
    BY <1>0, <2>1, <2>3 DEF InWindow, Measured, TypeOK, RunTypeOK, WriterState
  <2>5. QED
    BY <1>0, <2>1, <2>2, <2>4 DEF Answered, BeforeWindow, Measured
<1>5. CASE PumpError(w)
  <2>1. /\ UNCHANGED <<phase, owed, rows>> /\ now > writer[w].stamp
        /\ unacked \subseteq unacked'
        /\ writer[w].pc = "committed" => B \subseteq unacked'
    BY <1>5 DEF PumpError
  <2>2. writer'[w].pc = "done" /\ \A v \in Ws : v # w => writer'[v] = writer[v]
    <3>1. PICK conn : writer' = [writer EXCEPT ![w].pc = "done", ![w].conn = conn]
      BY <1>5 DEF PumpError
    <3>2. QED
      BY <1>0, <3>1 DEF WriterState
  <2>3. \A r : Answering(r) => Answering(r)' \/ (r \in B /\ r \in unacked')
    BY <2>1, <2>2 DEF Answering
  <2>4. \A r \in B : r.stamp < now
    BY <1>0, <2>1 DEF Accounts, BatchesApart, TypeOK, RunTypeOK, WriterState
  <2>5. QED
    BY <1>0, <2>1, <2>2, <2>3, <2>4 DEF Answered, BeforeWindow, Measured
<1>6. QED
  BY <1>1, <1>2, <1>3, <1>4, <1>5 DEF PumpStep

-----------------------------------------------------------------------------
(* The ramp's end.                                                         *)

\* The channel is closed only after the last id or an interrupt, and the
\* ramp returns with nothing left in it.
RampDone ==
  /\ ramp # "handing" => nextId = Sockets \/ cancelled
  /\ ramp = "returned" => \A id \in Ids : sock[id] \notin {"queued", "dialing", "joining"}

LEMMA RampDoneFrame ==
  RampDone /\ UNCHANGED <<ramp, nextId, sock, cancelled>> => RampDone'
BY DEF RampDone

LEMMA RampDoneMoves == RampInv /\ RampDone /\ RampMoves => RampDone'
<1> SUFFICES ASSUME RampInv, RampDone, RampMoves PROVE RampDone'
  OBVIOUS
<1> USE DEF RampInv, RampTypeOK, RampDone
<1>1. CASE Offer \/ CloseIds \/ Interrupt
  BY <1>1 DEF Offer, CloseIds, Interrupt
<1>2. CASE RampReturn
  BY <1>2 DEF RampReturn, InState
<1>3. CASE SendId
  BY <1>3 DEF SendId, HandedInOrder
<1>4. ASSUME NEW id \in Ids, Take(id) \/ DialOK(id) \/ JoinOK(id) \/ Refuse(id)
      PROVE  RampDone'
  BY <1>4 DEF Take, DialOK, JoinOK, Refuse, Move
<1>5. ASSUME NEW id \in Ids, ReadFails(id) \/ CountLost(id) \/ UncountHeld(id)
      PROVE  RampDone'
  BY <1>5 DEF ReadFails, CountLost, UncountHeld, Move
<1>6. QED
  BY <1>1, <1>2, <1>3, <1>4, <1>5 DEF RampMoves, RampStep

\* A returned ramp that was not interrupted has put every id among the held,
\* the lost and the refused.
LEMMA RampPartition == RampInv /\ RampDone => RampSettles
<1> SUFFICES ASSUME RampInv, RampDone, ramp = "returned"
             PROVE  /\ InState({"queued", "dialing", "joining"}) = {}
                    /\ ~cancelled => Sockets = held + Cardinality(InState({"lost", "refused"}))
  BY DEF RampSettles
<1>1. InState({"queued", "dialing", "joining"}) = {}
  BY DEF RampDone, InState
<1>2. ASSUME ~cancelled
      PROVE  Sockets = held + Cardinality(InState({"lost", "refused"}))
  <2> DEFINE H == InState({"up", "dropping", "losing", "closed"})
             G == InState({"lost", "refused"})
  <2>1. \A id \in Ids : sock[id] # "new"
    BY <1>2 DEF RampInv, RampDone, HandedInOrder, RampTypeOK, Ids
  <2>2. H \union G = Ids /\ H \intersect G = {}
    BY <2>1 DEF RampInv, RampDone, RampTypeOK, SockStates, InState
  <2>3. H \subseteq Ids /\ G \subseteq Ids /\ held = Cardinality(H)
    BY DEF InState, RampInv, CountersMatch
  <2> HIDE DEF H, G
  <2>4. IsFiniteSet(H) /\ IsFiniteSet(G)
    BY <2>3, IdsFinite, FS_Subset
  <2>5. Cardinality(H) \in Nat /\ Cardinality(G) \in Nat /\ Cardinality({}) = 0
    BY <2>4, FS_CardinalityType, FS_EmptySet
  <2>6. Cardinality(Ids) = Cardinality(H) + Cardinality(G) - Cardinality({})
    BY <2>2, <2>4, FS_Union
  <2>7. Cardinality(Ids) = Sockets
    BY FS_Interval DEF Ids
  <2>8. QED
    BY <2>3, <2>5, <2>6, <2>7 DEF G
<1>3. QED
  BY <1>1, <1>2

-----------------------------------------------------------------------------
(* The inductive invariant of the whole run.                               *)

IInv == TypeOK /\ RampInv /\ RampDone /\ Accounts /\ Answered

LEMMA InitIInv == Init => IInv
<1> SUFFICES ASSUME Init PROVE IInv
  OBVIOUS
<1>1. RampInv
  BY RampInitInv DEF Init
<1>2. RampDone
  BY DEF Init, RampInit, RampDone
<1>3. TypeOK
  <2>1. RunTypeOK
    <3>1. failed \in BOOLEAN
      BY Zenon DEF Init
    <3>2. QED
      BY <3>1 DEF Init, RunTypeOK
  <2>2. WriterTypeOK
    BY DEF Init, WriterTypeOK, WriterState, ZeroShards
  <2>3. EmptySheet \in Sheet
    BY DEF EmptySheet, Sheet, ZeroShards
  <2>4. SheetTypeOK
    BY <2>3 DEF Init, SheetTypeOK
  <2>5. NetTypeOK
    BY DEF Init, NetTypeOK
  <2>6. QED
    BY <1>1, <2>1, <2>2, <2>4, <2>5 DEF TypeOK, RampInv
<1>4. WindowUnset
  BY DEF Init, WindowUnset, BeforeWindow
<1>5. BatchesApart
  BY FS_EmptySet DEF Init, BatchesApart
<1>6. FramesApart
  BY FS_EmptySet DEF Init, FramesApart
<1>7. CountedOnce
  <2>1. \A c \in ColIds : {f \in counted : f.id % Cols = c} = {}
    BY DEF Init
  <2>2. \A c \in ColIds, s \in ShardIds :
          {f \in counted : f.id % Cols = c /\ f.row.shard = s} = {}
    BY DEF Init
  <2>3. \A c \in ColIds : col[c].hist = 0 /\ \A s \in ShardIds : col[c].shards[s] = 0
    BY DEF Init, EmptySheet, ZeroShards
  <2>4. counted = {} /\ merged = {} /\ Delivered = 0
    BY DEF Init, Delivered, EmptySheet
  <2>5. QED
    BY <2>1, <2>2, <2>3, <2>4, FS_EmptySet DEF CountedOnce
<1>8. OwedCounted
  <2>1. owed = {} /\ \A s \in ShardIds : perShard[s] = 0 /\ {r \in owed : r.shard = s} = {}
    BY DEF Init, ZeroShards
  <2>2. QED
    BY <2>1, FS_EmptySet DEF OwedCounted
<1>9. Answered
  BY DEF Init, Answered, BeforeWindow
<1>10. QED
  BY <1>1, <1>2, <1>3, <1>4, <1>5, <1>6, <1>7, <1>8, <1>9 DEF IInv, Accounts

\* Steps of the ramp and of the readers touch nothing else.
LEMMA RampIInv == IInv /\ RampMoves /\ OnlyRamp => IInv'
<1> SUFFICES ASSUME IInv, RampMoves, OnlyRamp PROVE IInv'
  OBVIOUS
<1> USE DEF OnlyRamp, runVars, clockVars, windowVars, resultVars, writerVars, sheetVars, netVars
<1>1. RampInv' /\ RampDone'
  BY RampMovesInv, RampDoneMoves DEF IInv
<1>2. RunTypeOK' /\ WriterTypeOK' /\ SheetTypeOK' /\ NetTypeOK'
  BY DEF IInv, TypeOK, RunTypeOK, WriterTypeOK, SheetTypeOK, NetTypeOK
<1>3. Accounts' /\ Answered'
  BY AccountsFrame, AnsweredFrame DEF IInv, acctVars
<1>4. QED
  BY <1>1, <1>2, <1>3 DEF IInv, TypeOK, RampInv

LEMMA NextIInv == IInv /\ [Next]_vars => IInv'
<1> SUFFICES ASSUME IInv, [Next]_vars PROVE IInv'
  OBVIOUS
<1> USE DEF IInv
<1>1. CASE UNCHANGED vars
  <2>1. UNCHANGED <<rampVars, runVars, writerVars, sheetVars, netVars>>
    BY <1>1 DEF vars
  <2> USE DEF runVars, clockVars, windowVars, resultVars, writerVars, sheetVars, netVars
  <2>2. RampInv'
    BY <2>1, RampKept
  <2>3. RampDone'
    BY <2>1, RampDoneFrame DEF rampVars
  <2>4. RunTypeOK' /\ WriterTypeOK' /\ SheetTypeOK' /\ NetTypeOK'
    BY <2>1 DEF TypeOK, RunTypeOK, WriterTypeOK, SheetTypeOK, NetTypeOK
  <2>5. Accounts' /\ Answered'
    BY <2>1, AccountsFrame, AnsweredFrame DEF acctVars
  <2>6. QED
    BY <2>2, <2>3, <2>4, <2>5 DEF TypeOK, RampInv
<1>2. CASE ControlStep
  <2>1. RampDone'
    <3>1. UNCHANGED <<ramp, nextId, sock, cancelled>>
      BY <1>2 DEF ControlStep, SeeHeld, ShardsHeld, OpenWriters, StoreFrom, StoreTo,
         StartDrain, StopRun, Return, Report, Tick, Fail, Close, rampVars
    <3>2. QED
      BY <3>1, RampDoneFrame
  <2>2. QED
    BY <1>2, <2>1, ControlType, ControlAccounts, ControlAnswered
<1>3. CASE StartWarmup \/ StartMeasure
  <2>1. RampDone'
    BY <1>3, RampDoneFrame DEF StartWarmup, StartMeasure, Push, rampVars
  <2>2. QED
    BY <1>3, <2>1, PushType, PushAccounts, PushAnswered
<1>4. CASE TallyOne
  <2>1. RampDone' /\ Answered'
    BY <1>4, RampDoneFrame, AnsweredFrame DEF TallyOne, rampVars, runVars, clockVars,
       windowVars, writerVars, netVars
  <2>2. QED
    BY <1>4, <2>1, TallyType, TallyAccounts
<1>5. ASSUME phase \notin Ended, NEW w \in Ws, PumpStep(w) \/ PumpError(w)
      PROVE  IInv'
  <2>1. RampDone'
    BY <1>5, RampDoneFrame DEF PumpStep, PumpStop, PumpSend, DbCommit, PumpAck, PumpError,
       rampVars
  <2>2. QED
    BY <1>5, <2>1, PumpType, PumpAccounts, PumpAnswered DEF Accounts
<1>6. ASSUME NEW f \in frames, Read(f) \/ NodeDrops(f)
      PROVE  IInv'
  <2>1. RampDone' /\ Answered'
    BY <1>6, RampDoneFrame, AnsweredFrame DEF Read, NodeDrops, rampVars, runVars,
       clockVars, windowVars, writerVars
  <2>2. QED
    BY <1>6, <2>1, FrameType, ReadAccounts, DropAccounts
<1>7. CASE RampMoves /\ OnlyRamp
  BY <1>7, RampIInv
<1> HIDE DEF IInv
<1>8. CASE RunStep
  BY <1>8, <1>2, <1>3, <1>4 DEF RunStep, ControlStep
<1>9. CASE Faults /\ phase \notin Ended
  BY <1>9, <1>5, <1>6, <1>7 DEF Faults, RampMoves
<1>10. QED
  BY <1>1, <1>2, <1>5, <1>6, <1>7, <1>8, <1>9 DEF Next, RampMoves, ControlStep

LEMMA Inductive == Spec => []IInv
<1>1. QED
  BY InitIInv, NextIInv, PTL DEF Spec

-----------------------------------------------------------------------------
(* What the run guarantees.                                                *)

\* Every variable keeps its type: no counter of run, writer or collector
\* goes below zero, and shardsHeld never names a shard that does not exist.
THEOREM TypeCorrect == Spec => []TypeOK
<1>1. IInv => TypeOK
  BY DEF IInv
<1>2. QED
  BY <1>1, Inductive, PTL

\* run.held and run.lost are the sockets they count, however the workers'
\* and the readers' separate atomic additions interleave.
THEOREM CountersCorrect == Spec => []CountersMatch
<1>1. IInv => CountersMatch
  BY DEF IInv, RampInv
<1>2. QED
  BY <1>1, Inductive, PTL

\* ramp returns with every id accounted for: held, lost or refused.
THEOREM RampCorrect == Spec => []RampSettles
<1>1. IInv => RampSettles
  BY RampPartition DEF IInv
<1>2. QED
  BY <1>1, Inductive, PTL

\* Every delivery the collectors and the tally count is a frame of a
\* committed row of the measured window, counted exactly once.
THEOREM DeliveriesCorrect == Spec => []CountedOnce
<1>1. IInv => CountedOnce
  BY DEF IInv, Accounts
<1>2. QED
  BY <1>1, Inductive, PTL

\* The rows deliveries_expected is computed from are exactly the committed
\* rows of the window whose answer came back.
THEOREM ExpectationCorrect == Spec => []OwedIsCommitted
<1>1. IInv => OwedIsCommitted
  <2> SUFFICES ASSUME IInv PROVE OwedIsCommitted
    OBVIOUS
  <2>1. owed \subseteq {r \in rows \ unacked : Measured(r.stamp)}
    BY DEF IInv, Accounts, BatchesApart, OwedCounted
  <2>2. \A s \in ShardIds : perShard[s] = Cardinality({r \in owed : r.shard = s})
    BY DEF IInv, Accounts, OwedCounted
  <2>3. ASSUME phase \in {"drain", "tally", "returned", "written"}
        PROVE  {r \in rows \ unacked : Measured(r.stamp)} \subseteq owed
    <3>1. \A r : ~Answering(r)
      BY <2>3 DEF IInv, Answered, Answering
    <3>2. QED
      BY <2>3, <3>1 DEF IInv, Answered
  <2>4. QED
    BY <2>1, <2>2, <2>3 DEF OwedIsCommitted
<1>2. QED
  BY <1>1, Inductive, PTL

-----------------------------------------------------------------------------
(* What is missing.                                                        *)

\* One number further the quotient or the remainder moves.
LEMMA NextQuotient ==
  ASSUME NEW n \in Nat, NEW d \in Nat \ {0}
  PROVE  \/ n % d = d - 1 /\ (n + 1) \div d = n \div d + 1 /\ (n + 1) % d = 0
         \/ n % d < d - 1 /\ (n + 1) \div d = n \div d /\ (n + 1) % d = (n % d) + 1
<1> DEFINE p == n \div d
           m == n % d
<1>1. p \in Nat /\ m \in 0..(d - 1) /\ n = d * p + m
  BY Euclid
<1> HIDE DEF p, m
<1>2. d * p \in Nat /\ n + 1 \in Nat
  BY <1>1
<1>3. CASE m = d - 1
  <2>1. n + 1 = d * (p + 1) + 0 /\ p + 1 \in Nat /\ 0 \in 0..(d - 1)
    <3>1. d * (p + 1) = d * p + d
      BY <1>1
    <3> QED BY <1>1, <1>2, <1>3, <3>1
  <2>2. (n + 1) \div d = p + 1 /\ (n + 1) % d = 0
    BY <1>2, <2>1, EuclidUnique
  <2> QED BY <1>3, <2>2 DEF p, m
<1>4. CASE m < d - 1
  <2>1. n + 1 = d * p + (m + 1) /\ m + 1 \in 0..(d - 1)
    BY <1>1, <1>2, <1>4
  <2>2. (n + 1) \div d = p /\ (n + 1) % d = m + 1
    BY <1>1, <1>2, <2>1, EuclidUnique
  <2> QED BY <1>4, <2>2 DEF p, m
<1> QED BY <1>1, <1>3, <1>4

\* quota counts what it says it counts: of the first n sockets, those whose
\* number leaves the remainder s are on shard s.
IdsOnShard(s, n) == {i \in 0..(n - 1) : ShardOf(i) = s}

LEMMA QuotaStep ==
  ASSUME NEW s \in ShardIds, NEW n \in Nat,
         IsFiniteSet(IdsOnShard(s, n)), Cardinality(IdsOnShard(s, n)) = SocketsOn(s, n)
  PROVE  Cardinality(IdsOnShard(s, n + 1)) = SocketsOn(s, n + 1)
<1> DEFINE q == n \div Shards
           m == n % Shards
<1>1. /\ Shards \in Nat \ {0} /\ q \in Nat /\ m \in 0..(Shards - 1)
      /\ s \in 0..(Shards - 1)
  <2>1. Shards \in Nat \ {0} /\ s \in 0..(Shards - 1)
    BY DEF ShardIds
  <2> QED BY <2>1, Euclid
<1>2. \/ m = Shards - 1 /\ (n + 1) \div Shards = q + 1 /\ (n + 1) % Shards = 0
      \/ m < Shards - 1 /\ (n + 1) \div Shards = q /\ (n + 1) % Shards = m + 1
  BY <1>1, NextQuotient
<1>3. /\ SocketsOn(s, n) = q + (IF s < m THEN 1 ELSE 0)
      /\ SocketsOn(s, n + 1) =
           ((n + 1) \div Shards) + (IF s < ((n + 1) % Shards) THEN 1 ELSE 0)
  BY DEF SocketsOn
<1>4. ASSUME m = s
      PROVE  Cardinality(IdsOnShard(s, n + 1)) = Cardinality(IdsOnShard(s, n)) + 1
  <2>1. IdsOnShard(s, n + 1) = IdsOnShard(s, n) \cup {n} /\ n \notin IdsOnShard(s, n)
    BY <1>4 DEF IdsOnShard, ShardOf
  <2> QED BY <2>1, FS_AddElement
<1>5. ASSUME m # s PROVE IdsOnShard(s, n + 1) = IdsOnShard(s, n)
  BY <1>5 DEF IdsOnShard, ShardOf
<1> HIDE DEF q, m
<1> QED BY <1>1, <1>2, <1>3, <1>4, <1>5

LEMMA Quota ==
  ASSUME NEW s \in ShardIds, NEW n \in Nat
  PROVE  IsFiniteSet(IdsOnShard(s, n)) /\ Cardinality(IdsOnShard(s, n)) = SocketsOn(s, n)
<1>1. ASSUME NEW k \in Nat PROVE IsFiniteSet(IdsOnShard(s, k))
  <2>1. IsFiniteSet(0..(k - 1)) /\ IdsOnShard(s, k) \in SUBSET (0..(k - 1))
    BY FS_Interval DEF IdsOnShard
  <2> QED BY <2>1, FS_Subset
<1> DEFINE Bad == {k \in Nat : Cardinality(IdsOnShard(s, k)) # SocketsOn(s, k)}
<1>2. ASSUME Bad # {} PROVE FALSE
  <2>1. PICK k \in Bad : \A j \in Bad : k <= j
    BY <1>2, LeastNumber
  <2>2. CASE k = 0
    <3>1. IdsOnShard(s, 0) = {}
      BY DEF IdsOnShard
    <3>2. 0 \div Shards = 0 /\ 0 % Shards = 0
      <4>1. Shards \in Nat \ {0} /\ 0 \in 0..(Shards - 1) /\ 0 = Shards * 0 + 0
        OBVIOUS
      <4> QED BY <4>1, EuclidUnique
    <3>3. SocketsOn(s, 0) = 0
      BY <3>2 DEF SocketsOn, ShardIds
    <3> QED BY <2>1, <2>2, <3>1, <3>3, FS_EmptySet
  <2>3. CASE k # 0
    <3> DEFINE j == k - 1
    <3>1. j \in Nat /\ k = j + 1 /\ j \notin Bad
      BY <2>1, <2>3
    <3>2. Cardinality(IdsOnShard(s, j)) = SocketsOn(s, j)
      BY <3>1
    <3> HIDE DEF j
    <3>3. Cardinality(IdsOnShard(s, j + 1)) = SocketsOn(s, j + 1)
      BY <1>1, <3>1, <3>2, QuotaStep
    <3> QED BY <2>1, <3>1, <3>3
  <2> QED BY <2>2, <2>3
<1> QED BY <1>1, <1>2

\* The frames of some rows on one shard: one for each of its sockets.
LEMMA FramesOnShard ==
  ASSUME NEW R, IsFiniteSet(R), NEW s \in ShardIds
  PROVE  Cardinality({f \in [row : R, id : Ids] : f.row.shard = s /\ ShardOf(f.id) = s}) =
           Cardinality({r \in R : r.shard = s}) * SocketsOn(s, Sockets)
<1> DEFINE A == {r \in R : r.shard = s}
           B == IdsOnShard(s, Sockets)
           F == {f \in [row : R, id : Ids] : f.row.shard = s /\ ShardOf(f.id) = s}
           b == [x \in A \X B |-> [row |-> x[1], id |-> x[2]]]
<1>1. B = {i \in Ids : ShardOf(i) = s}
  BY DEF IdsOnShard, Ids
<1>2. IsFiniteSet(B) /\ Cardinality(B) = SocketsOn(s, Sockets)
  BY Quota
<1>3. IsFiniteSet(A)
  BY FS_Subset
<1>4. IsFiniteSet(A \X B) /\ Cardinality(A \X B) = Cardinality(A) * Cardinality(B)
  BY <1>2, <1>3, FS_Product
<1> HIDE DEF B
<1>5. b \in Bijection(A \X B, F)
  <2>1. b \in [A \X B -> F]
    BY <1>1
  <2>2. ASSUME NEW x \in A \X B, NEW y \in A \X B, b[x] = b[y] PROVE x = y
    <3>1. b[x].row = x[1] /\ b[x].id = x[2] /\ b[y].row = y[1] /\ b[y].id = y[2]
      OBVIOUS
    <3> QED BY <2>2, <3>1
  <2>3. ASSUME NEW f \in F PROVE \E x \in A \X B : b[x] = f
    <3>1. <<f.row, f.id>> \in A \X B
      BY <1>1
    <3>2. b[<<f.row, f.id>>] = f
      BY <3>1
    <3> QED BY <3>1, <3>2
  <2> HIDE DEF b, A, F
  <2> QED BY <2>1, <2>2, <2>3 DEF Bijection, Injection, Surjection, IsInjective
<1>6. Cardinality(F) = Cardinality(A \X B)
  <2>1. ExistsBijection(A \X B, F)
    BY <1>5 DEF ExistsBijection
  <2> QED BY <1>4, <2>1, FS_Bijection
<1> QED BY <1>2, <1>4, <1>6

\* deliveries_expected, computed shard by shard from two counters, is the
\* number of frames the committed rows of the window were owed.
LEMMA FramesOfRows ==
  ASSUME NEW R, IsFiniteSet(R), \A r \in R : r.shard \in ShardIds
  PROVE  LET W == {f \in [row : R, id : Ids] : ShardOf(f.id) = f.row.shard}
         IN  /\ IsFiniteSet(W)
             /\ Cardinality(W) = SumFunctionOnSet([s \in ShardIds |->
                  Cardinality({r \in R : r.shard = s}) * SocketsOn(s, Sockets)], ShardIds)
<1> DEFINE W == {f \in [row : R, id : Ids] : ShardOf(f.id) = f.row.shard}
           g == [s \in ShardIds |->
                  Cardinality({r \in R : r.shard = s}) * SocketsOn(s, Sockets)]
           c == [f \in W |-> f.row.shard]
           P == R \X Ids
           b == [x \in P |-> [row |-> x[1], id |-> x[2]]]
<1>1. IsFiniteSet(W)
  <2>1. IsFiniteSet(P)
    BY IdsFinite, FS_Product
  <2>2. b \in Surjection(P, [row : R, id : Ids])
    <3>1. b \in [P -> [row : R, id : Ids]]
      OBVIOUS
    <3>2. ASSUME NEW f \in [row : R, id : Ids] PROVE \E x \in P : b[x] = f
      <4>1. <<f.row, f.id>> \in P /\ b[<<f.row, f.id>>] = f
        OBVIOUS
      <4> QED BY <4>1
    <3> QED BY <3>1, <3>2 DEF Surjection
  <2>3. IsFiniteSet([row : R, id : Ids])
    BY <2>1, <2>2, FS_Surjection
  <2>4. W \in SUBSET [row : R, id : Ids]
    OBVIOUS
  <2> HIDE DEF W
  <2> QED BY <2>3, <2>4, FS_Subset
<1>2. \A f \in W : c[f] \in ShardIds
  OBVIOUS
<1>3. ASSUME NEW s \in ShardIds PROVE g[s] = Cardinality({f \in W : c[f] = s})
  <2>1. {f \in W : c[f] = s} =
          {f \in [row : R, id : Ids] : f.row.shard = s /\ ShardOf(f.id) = s}
    OBVIOUS
  <2> QED BY <2>1, FramesOnShard
<1>4. IsFiniteSet(ShardIds)
  BY FS_Interval DEF ShardIds
<1> HIDE DEF W, g, c
<1>5. Cardinality(W) = SumFunctionOnSet(g, ShardIds)
  <2>1. Parts(W, ShardIds, c, g)
    BY <1>2, <1>3, Zenon DEF Parts
  <2> QED BY <1>1, <1>4, <2>1, SumParts, Zenon
<1> QED BY <1>1, <1>5 DEF W, g

\* The deliveries_missing of a run that was refused no socket and lost no
\* answer is, for every number of sockets, shards, writers and collectors,
\* the number of frames of the window that had not arrived when their
\* collector was tallied.
THEOREM MissingCorrect == Spec => []MissingIsExact
<1>1. IInv => MissingIsExact
  <2> SUFFICES ASSUME IInv, phase \in {"returned", "written"}, heldSeen = Sockets, unacked = {}
               PROVE  Missing = Cardinality(WindowFrames \ merged)
    BY DEF MissingIsExact
  <2>1. owed = {r \in rows : Measured(r.stamp)}
    <3>1. owed \subseteq {r \in rows : Measured(r.stamp)}
      BY DEF IInv, Accounts, BatchesApart, OwedCounted
    <3>2. \A r : ~Answering(r)
      BY DEF IInv, Answered, Answering
    <3>3. {r \in rows : Measured(r.stamp)} \subseteq owed
      BY <3>2 DEF IInv, Answered
    <3> QED BY <3>1, <3>3
  <2>2. IsFiniteSet(owed) /\ \A r \in owed : r.shard \in ShardIds
    BY DEF IInv, Accounts, BatchesApart, TypeOK, WriterTypeOK, Row
  <2>3. WindowFrames = {f \in [row : owed, id : Ids] : ShardOf(f.id) = f.row.shard}
    BY <2>1 DEF WindowFrames
  <2> DEFINE e == [s \in ShardIds |-> perShard[s] * SocketsOn(s, heldSeen)]
             g == [s \in ShardIds |->
                    Cardinality({r \in owed : r.shard = s}) * SocketsOn(s, Sockets)]
  <2>4. IsFiniteSet(WindowFrames) /\ Cardinality(WindowFrames) = SumFunctionOnSet(g, ShardIds)
    BY <2>2, <2>3, FramesOfRows
  <2>5. e = g
    BY DEF IInv, Accounts, OwedCounted
  <2>6. Expected = SumFunctionOnSet(e, ShardIds)
    <3>1. DOMAIN e = ShardIds
      OBVIOUS
    <3>2. Expected = SumFunction(e)
      BY Zenon DEF Expected
    <3> QED BY <3>1, <3>2, Zenon DEF SumFunction
  <2>7. Expected = Cardinality(WindowFrames)
    BY <2>4, <2>5, <2>6, Zenon
  <2>8. merged \subseteq WindowFrames /\ Delivered = Cardinality(merged)
    BY DEF IInv, Accounts, CountedOnce
  <2>9. Cardinality(WindowFrames \ merged) = Cardinality(WindowFrames) - Cardinality(merged)
    <3>1. WindowFrames \cap merged = merged
      BY <2>8
    <3> QED BY <2>4, <3>1, FS_Difference
  <2> QED BY <2>7, <2>8, <2>9 DEF Missing
<1>2. QED
  BY <1>1, Inductive, PTL
=============================================================================

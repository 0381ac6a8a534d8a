----------------------------- MODULE SoakProofs -----------------------------
(***************************************************************************)
(* Proofs about Soak for every sequence of drills, every number of         *)
(* segments, ids, lost rows and deaths, and every chunk size, patience and *)
(* deadline.                                                               *)
(***************************************************************************)
EXTENDS Soak, FiniteSetTheorems, TLAPS

USE SoakAssumption

\* One supervisor at most, the one the harness believes in.
NodeInv ==
  /\ alive \subseteq {node}
  /\ pc \in Over => alive = {}

\* An id is given out once, acked once and only after its commit was
\* answered, so a promised id that is missing stays missing.
LedgerInv ==
  /\ IsFiniteSet(rows)
  /\ IsInjective(acked) /\ Range(acked) \subseteq promised
  /\ next > 0 /\ writer.id < next /\ \A x \in promised : x < next
  /\ writer.pc \in {"sent", "committed"} => writer.id \notin promised
  /\ writer.pc = "answered" => writer.id \in promised \ Range(acked)

\* What is left of a ledger check holds every id that was missing when it
\* began.
ChunksInv ==
  /\ \A i \in 1..Len(chunks) : IsInjective(chunks[i]) /\ Range(chunks[i]) \subseteq promised
  /\ pc = "ledger" =>
       /\ drill.missing \subseteq promised \ rows
       /\ \A x \in drill.missing : \E i \in 1..Len(chunks) : x \in Range(chunks[i])

\* The three claims about one drill.
Alarmed(d) ==
  /\ ~d.ledger /\ d.checkError # "ledger" => promised \ rows # {}
  /\ d.balance = "broken" /\ d.checkError = "none" => ~exact
Timed(d) == d.rto # None => ~d.killError /\ d.killed # None /\ d.rto >= d.killed
Clean(d) == d.ledger /\ d.balance # "broken" /\ d.checkError = "none"

Killing == {"drill", "lookup", "postmaster", "kill"}

\* The drill in hand, before its kill, after it and after its checks.
DrillInv ==
  /\ pc \in Killing => drill.rto = None /\ ~drill.killError
  /\ pc \in {"reap", "probe"} =>
       drill.rto = None /\ ~drill.killError /\ drill.killed \in 0..clock
  /\ pc \in {"verify", "ledger", "balance", "record"} => Timed(drill)
  /\ pc \in Killing \union {"reap", "probe", "verify", "ledger"} =>
       ~drill.ledger /\ drill.checkError = "none" /\ drill.balance = "absent"
  /\ pc = "balance" => drill.balance = "absent"
  /\ pc \in {"balance", "record"} =>
       /\ Alarmed(drill)
       /\ drill.ledger => drill.missing = {}
       /\ violations = 0 => Clean(drill)

\* The drills recorded, and how many there are.
RecordInv ==
  /\ \A d \in Recorded : Alarmed(d) /\ Timed(d) /\ (d.ledger => d.missing = {})
  /\ violations = 0 => \A d \in Recorded : Clean(d)
  /\ Len(drills) = IF pc = "wait" THEN seq + 1 ELSE seq
  /\ pc \in {"finish", "stop", "written"} => seq = Segments \/ stopped

IInv == TypeOK /\ NodeInv /\ LedgerInv /\ ChunksInv /\ DrillInv /\ RecordInv

-----------------------------------------------------------------------------
(* What the ledger and its chunks are made of.                             *)

LEMMA RangeOfSequence ==
  ASSUME NEW S, NEW s \in Seq(S)
  PROVE  /\ Range(s) = {s[i] : i \in 1..Len(s)}
         /\ Range(s) \subseteq S
         /\ \A x : Range(Append(s, x)) = Range(s) \union {x}
<1>1. DOMAIN s = 1..Len(s)
  OBVIOUS
<1>2. Range(s) = {s[i] : i \in 1..Len(s)}
  BY <1>1 DEF Range
<1>3. \A i \in 1..Len(s) : s[i] \in S
  OBVIOUS
<1>4. ASSUME NEW x PROVE Range(Append(s, x)) = Range(s) \union {x}
  <2> DEFINE t == Append(s, x)
  <2>1. /\ DOMAIN t = 1..(Len(s) + 1) /\ t[Len(s) + 1] = x
        /\ \A i \in 1..Len(s) : t[i] = s[i]
    OBVIOUS
  <2>2. Len(s) \in Nat
    OBVIOUS
  <2> HIDE DEF t
  <2>3. \A i : i \in 1..(Len(s) + 1) <=> i \in 1..Len(s) \/ i = Len(s) + 1
    BY <2>2
  <2>4. {t[i] : i \in DOMAIN t} = {s[i] : i \in 1..Len(s)} \union {x}
    BY <2>1, <2>3
  <2>5. QED
    BY <1>2, <2>4 DEF Range, t
<1>5. QED
  BY <1>2, <1>3, <1>4

\* A sequence without repetitions has as many elements as it is long.
LEMMA InjectiveCount ==
  ASSUME NEW S, NEW s \in Seq(S), IsInjective(s)
  PROVE  IsFiniteSet(Range(s)) /\ Cardinality(Range(s)) = Len(s)
<1>1. DOMAIN s = 1..Len(s) /\ Len(s) \in Nat /\ s \in [1..Len(s) -> S]
  OBVIOUS
<1>2. s \in [1..Len(s) -> Range(s)] /\ \A t \in Range(s) : \E i \in 1..Len(s) : s[i] = t
  BY <1>1 DEF Range
<1>3. s \in Bijection(1..Len(s), Range(s))
  BY <1>2 DEF Bijection, Injection, Surjection
<1>4. ExistsBijection(1..Len(s), Range(s))
  BY <1>3 DEF ExistsBijection
<1>5. IsFiniteSet(1..Len(s)) /\ Cardinality(1..Len(s)) = Len(s)
  <2>1. /\ IsFiniteSet(1..Len(s))
        /\ Cardinality(1..Len(s)) = IF 1 > Len(s) THEN 0 ELSE Len(s) - 1 + 1
    <3>1. 1 \in Int /\ Len(s) \in Int
      BY <1>1
    <3>2. QED
      BY <3>1, FS_Interval, Zenon
  <2>2. QED
    BY <1>1, <2>1
<1>6. QED
  BY <1>4, <1>5, FS_Bijection

\* The count query of a chunk has the right answer exactly when every id of
\* the chunk is there.
LEMMA CountIsMembership ==
  ASSUME NEW c \in Seq(Nat), IsInjective(c)
  PROVE  CountMatches(c) <=> Range(c) \subseteq rows
<1>1. IsFiniteSet(Range(c)) /\ Cardinality(Range(c)) = Len(c)
  BY InjectiveCount
<1>2. Range(c) \intersect rows \in SUBSET Range(c)
  OBVIOUS
<1>3. Cardinality(Range(c)) = Cardinality(Range(c) \intersect rows) => Range(c) = Range(c) \intersect rows
  BY <1>1, <1>2, FS_Subset
<1>4. Range(c) \subseteq rows => Range(c) \intersect rows = Range(c)
  OBVIOUS
<1>5. QED
  BY <1>1, <1>3, <1>4 DEF CountMatches

\* A piece of the ledger: nothing new and nothing twice.
LEMMA PieceOf ==
  ASSUME NEW s \in Seq(Nat), NEW m \in Nat \ {0}, NEW n \in Int, n <= Len(s)
  PROVE  LET p == SubSeq(s, m, n)
         IN  /\ p \in Seq(Nat) /\ Range(p) \subseteq Range(s)
             /\ IsInjective(s) => IsInjective(p)
             /\ \A k \in m..n : s[k] \in Range(p)
<1> DEFINE p == SubSeq(s, m, n)
<1>1. CASE n < m
  <2>1. p = <<>>
    BY <1>1
  <2>2. QED
    BY <1>1, <2>1 DEF Range, IsInjective
<1>2. CASE m <= n
  <2>1. /\ p \in Seq(Nat) /\ Len(p) = n - m + 1 /\ DOMAIN p = 1..(n - m + 1)
        /\ \A i \in 1..(n - m + 1) : p[i] = s[m + i - 1]
    BY <1>2
  <2>2. DOMAIN s = 1..Len(s) /\ Len(s) \in Nat
    OBVIOUS
  <2> HIDE DEF p
  <2>3. \A i \in 1..(n - m + 1) : m + i - 1 \in 1..Len(s)
    BY <1>2, <2>2
  <2>4. Range(p) \subseteq Range(s)
    BY <2>1, <2>2, <2>3 DEF Range
  <2>5. IsInjective(s) => IsInjective(p)
    <3> SUFFICES ASSUME IsInjective(s), NEW i \in 1..(n - m + 1), NEW j \in 1..(n - m + 1),
                        p[i] = p[j]
                 PROVE  i = j
      BY <2>1 DEF IsInjective
    <3>1. s[m + i - 1] = s[m + j - 1]
      BY <2>1
    <3>2. m + i - 1 = m + j - 1
      BY <2>2, <2>3, <3>1, Zenon DEF IsInjective
    <3>3. QED
      BY <3>2
  <2>6. ASSUME NEW k \in m..n PROVE s[k] \in Range(p)
    <3>1. k - m + 1 \in 1..(n - m + 1) /\ m + (k - m + 1) - 1 = k
      OBVIOUS
    <3>2. QED
      BY <2>1, <3>1 DEF Range
  <2>7. QED
    BY <2>1, <2>4, <2>5, <2>6 DEF p
<1>3. QED
  BY <1>1, <1>2

LEMMA DivFacts ==
  ASSUME NEW a \in Nat, NEW c \in Nat \ {0}
  PROVE  /\ a \div c \in Nat
         /\ c * (a \div c) <= a /\ a < c * (a \div c) + c
OBVIOUS

LEMMA DivIsLargest ==
  ASSUME NEW a \in Nat, NEW c \in Nat \ {0}, NEW q \in Nat, c * q <= a
  PROVE  q <= a \div c
<1> DEFINE d == a \div c
<1>1. d \in Nat /\ a < c * d + c
  BY DivFacts
<1> HIDE DEF d
<1> SUFFICES ASSUME q >= d + 1 PROVE FALSE
  BY <1>1 DEF d
<1>2. PICK e \in Nat : q = d + 1 + e
  <2>1. q - d - 1 \in Nat /\ q = d + 1 + (q - d - 1)
    BY <1>1
  <2>2. QED
    BY <2>1
<1>3. c * q = c * d + c + c * e /\ c * e \in Nat
  BY <1>1, <1>2
<1>4. QED
  BY <1>1, <1>3

\* Ledger.Chunks: the pieces are pieces of the ledger, and every acked id is
\* in one of them, whatever the chunk size.
LEMMA ChunksCover ==
  ASSUME acked \in Seq(Nat), IsInjective(acked)
  PROVE  /\ Chunks \in Seq(Seq(Nat))
         /\ \A i \in 1..Len(Chunks) : /\ IsInjective(Chunks[i])
                                      /\ Range(Chunks[i]) \subseteq Range(acked)
         /\ \A x \in Range(acked) : \E i \in 1..Len(Chunks) : x \in Range(Chunks[i])
<1> DEFINE n == Len(acked)
           From(i) == (i - 1) * ChunkSize + 1
           To(i) == IF i * ChunkSize < n THEN i * ChunkSize ELSE n
<1>1. n \in Nat /\ DOMAIN acked = 1..n /\ ChunkSize \in Nat \ {0}
  OBVIOUS
<1>2. n + ChunkSize - 1 \in Nat
  BY <1>1
<1>3. Pieces \in Nat
  BY <1>1, <1>2, DivFacts DEF Pieces
<1>4. \A i \in 1..Pieces : From(i) \in Nat \ {0} /\ To(i) \in Int /\ To(i) <= n
  <2> SUFFICES ASSUME NEW i \in 1..Pieces
               PROVE  From(i) \in Nat \ {0} /\ To(i) \in Int /\ To(i) <= n
    OBVIOUS
  <2>1. i \in Nat \ {0} /\ i - 1 \in Nat
    BY <1>3
  <2>2. (i - 1) * ChunkSize \in Nat /\ i * ChunkSize \in Nat
    BY <1>1, <2>1
  <2>3. QED
    BY <1>1, <2>2
<1>5. Chunks = [i \in 1..Pieces |-> SubSeq(acked, From(i), To(i))]
  BY DEF Chunks
<1> HIDE DEF From, To
<1>6. \A i \in 1..Pieces :
        /\ SubSeq(acked, From(i), To(i)) \in Seq(Nat)
        /\ Range(SubSeq(acked, From(i), To(i))) \subseteq Range(acked)
        /\ IsInjective(SubSeq(acked, From(i), To(i)))
        /\ \A k \in From(i)..To(i) : acked[k] \in Range(SubSeq(acked, From(i), To(i)))
  BY <1>4, PieceOf
<1>7. Chunks \in Seq(Seq(Nat)) /\ Len(Chunks) = Pieces
  BY <1>3, <1>5, <1>6
<1>8. ASSUME NEW x \in Range(acked) PROVE \E i \in 1..Pieces : x \in Range(Chunks[i])
  <2>1. PICK k \in 1..n : x = acked[k]
    BY <1>1 DEF Range
  <2>2. k - 1 \in Nat /\ k \in Nat
    BY <1>1
  <2> DEFINE q == (k - 1) \div ChunkSize
  <2>3. q \in Nat /\ ChunkSize * q <= k - 1 /\ k - 1 < ChunkSize * q + ChunkSize
    BY <1>1, <2>2, DivFacts
  <2> HIDE DEF q
  <2>4. q + 1 \in Nat /\ ChunkSize * (q + 1) = ChunkSize * q + ChunkSize
    BY <1>1, <2>3
  <2>5. ChunkSize * q \in Nat
    BY <1>1, <2>3
  <2>6. ChunkSize * (q + 1) <= n + ChunkSize - 1
    BY <1>1, <2>2, <2>3, <2>4, <2>5
  <2>7. q + 1 <= Pieces
    BY <1>1, <1>2, <2>4, <2>6, DivIsLargest DEF Pieces
  <2>8. q + 1 \in 1..Pieces
    BY <1>3, <2>3, <2>7
  <2>9. From(q + 1) = ChunkSize * q + 1 /\ (To(q + 1) = ChunkSize * q + ChunkSize \/ To(q + 1) = n)
    <3>1. ((q + 1) - 1) * ChunkSize = ChunkSize * q /\ (q + 1) * ChunkSize = ChunkSize * q + ChunkSize
      BY <1>1, <2>3
    <3>2. From(q + 1) = ((q + 1) - 1) * ChunkSize + 1
      BY DEF From
    <3>3. To(q + 1) = (q + 1) * ChunkSize \/ To(q + 1) = n
      BY Zenon DEF To
    <3>4. QED
      BY <3>1, <3>2, <3>3
  <2>10. k \in From(q + 1)..To(q + 1)
    BY <1>1, <2>2, <2>3, <2>5, <2>9
  <2>11. x \in Range(Chunks[q + 1])
    BY <1>5, <1>6, <2>1, <2>8, <2>10
  <2>12. QED
    BY <2>8, <2>11
<1>9. QED
  BY <1>5, <1>6, <1>7, <1>8

-----------------------------------------------------------------------------
(* Type correctness.                                                       *)

LEMMA NewDrillType == \A n \in Nat : NewDrill(n) \in DrillState
<1> SUFFICES ASSUME NEW n \in Nat PROVE NewDrill(n) \in DrillState
  OBVIOUS
<1>1. Len(Drills) \in Nat \ {0}
  OBVIOUS
<1>2. (n % Len(Drills)) + 1 \in 1..Len(Drills)
  BY <1>1
<1>3. Drills[(n % Len(Drills)) + 1] \in {"pusher", "crash", "death"}
  BY <1>2
<1>4. QED
  BY <1>3 DEF NewDrill, DrillState, None

\* Going down takes rows away and gives none.
LEMMA GoDownLoses ==
  ASSUME TypeOK, IsFiniteSet(rows), GoDown
  PROVE  /\ server' = "down" /\ pusher' \in BOOLEAN /\ epoch' \in Nat
         /\ rows' \subseteq rows /\ IsFiniteSet(rows') /\ lost' \in Nat
         /\ exact' \in BOOLEAN /\ (exact' => exact)
<1>1. PICK gone \in SUBSET rows :
        rows' = rows \ gone /\ lost' = lost + Cardinality(gone) /\ exact' = (exact /\ gone = {})
  BY Zenon DEF GoDown
<1>2. Cardinality(gone) \in Nat
  BY FS_Subset, FS_CardinalityType
<1>3. rows' \in SUBSET rows /\ IsFiniteSet(rows')
  BY <1>1, FS_Subset
<1>4. exact' \in BOOLEAN /\ (exact' => exact)
  BY <1>1, Zenon
<1>5. pusher' \in BOOLEAN
  BY Zenon DEF GoDown
<1>6. QED
  BY <1>1, <1>2, <1>3, <1>4, <1>5 DEF TypeOK, GoDown

\* Every step either leaves the store alone, takes the server down, or
\* inserts the writer's row.
LEMMA StoreSteps ==
  [Next]_vars => \/ rows' = rows /\ exact' = exact /\ lost' = lost
                 \/ GoDown
                 \/ DbInserts
BY Zenon DEF Next, MainStep, WriterStep, BootOK, BootFails, Die, StartSegment, BenchExits,
   StartDrill, Landed, CannotKill, KillPusher, KillPostmaster, KillNode, StartReplacement,
   Probe, Tick, StartVerify, VerifyLedger, VerifyBalance, RecordDrill, EndSegment, Finish,
   WriteResult, WriterDials, WriterSends, WriterAnswered, WriterAcks, WriterFails,
   Recover, PusherStarts, Dies, Reap, Signal, vars, storeVars

LEMMA NextStoreType ==
  IInv /\ [Next]_vars =>
    rows' \in SUBSET Nat /\ IsFiniteSet(rows') /\ exact' \in BOOLEAN /\ lost' \in Nat
<1> SUFFICES ASSUME IInv, [Next]_vars
             PROVE  rows' \in SUBSET Nat /\ IsFiniteSet(rows') /\ exact' \in BOOLEAN /\ lost' \in Nat
  OBVIOUS
<1>1. TypeOK /\ IsFiniteSet(rows)
  BY DEF IInv, LedgerInv
<1>2. CASE rows' = rows /\ exact' = exact /\ lost' = lost
  BY <1>1, <1>2 DEF TypeOK
<1>3. CASE GoDown
  BY <1>1, <1>3, GoDownLoses DEF TypeOK
<1>4. CASE DbInserts
  <2>1. rows' = rows \union {writer.id} /\ exact' = exact /\ lost' = lost
    BY <1>4 DEF DbInserts
  <2>2. IsFiniteSet(rows')
    BY <1>1, <2>1, FS_AddElement
  <2>3. QED
    BY <1>1, <2>1, <2>2 DEF TypeOK
<1>5. QED
  BY <1>2, <1>3, <1>4, StoreSteps

LEMMA NextNodeType ==
  IInv /\ [Next]_vars =>
    /\ node' \in Nat /\ alive' \in SUBSET Nat /\ server' \in {"up", "down"}
    /\ pusher' \in BOOLEAN /\ epoch' \in Nat /\ deaths' \in Nat
<1> SUFFICES ASSUME IInv, [Next]_vars
             PROVE  /\ node' \in Nat /\ alive' \in SUBSET Nat /\ server' \in {"up", "down"}
                    /\ pusher' \in BOOLEAN /\ epoch' \in Nat /\ deaths' \in Nat
  OBVIOUS
<1>1. TypeOK /\ IsFiniteSet(rows)
  BY DEF IInv, LedgerInv
<1>2. /\ node \in Nat /\ alive \in SUBSET Nat /\ server \in {"up", "down"}
      /\ pusher \in BOOLEAN /\ epoch \in Nat /\ deaths \in Nat
  BY <1>1 DEF TypeOK
<1>3. GoDown => server' = "down" /\ pusher' \in BOOLEAN /\ epoch' \in Nat
  BY <1>1, GoDownLoses
<1>4. \/ UNCHANGED <<server, pusher, epoch>>
      \/ GoDown
      \/ server' = "up" /\ UNCHANGED <<pusher, epoch>>
      \/ pusher' = TRUE /\ UNCHANGED <<server, epoch>>
  BY Zenon DEF Next, MainStep, WriterStep, BootOK, BootFails, Die, StartSegment, BenchExits,
     StartDrill, Landed, CannotKill, KillPusher, KillPostmaster, KillNode, StartReplacement,
     Probe, Tick, StartVerify, VerifyLedger, VerifyBalance, RecordDrill, EndSegment, Finish,
     WriteResult, WriterDials, WriterSends, DbInserts, WriterAnswered, WriterAcks, WriterFails,
     Recover, PusherStarts, Dies, Reap, Signal, vars, nodeVars
<1>5. \/ UNCHANGED <<node, alive>>
      \/ node' = node + 1 /\ alive' = alive \union {node + 1}
      \/ node' = node /\ alive' \in {alive, {}, alive \ {node}}
  BY Zenon DEF Next, MainStep, WriterStep, BootOK, BootFails, Die, StartSegment, BenchExits,
     StartDrill, Landed, CannotKill, KillPusher, KillPostmaster, KillNode, StartReplacement,
     Probe, Tick, StartVerify, VerifyLedger, VerifyBalance, RecordDrill, EndSegment, Finish,
     WriteResult, WriterDials, WriterSends, DbInserts, WriterAnswered, WriterAcks, WriterFails,
     Recover, PusherStarts, Dies, Reap, Signal, vars, nodeVars
<1>6. deaths' = deaths \/ deaths' = deaths + 1
  BY Zenon DEF Next, MainStep, WriterStep, BootOK, BootFails, Die, StartSegment, BenchExits,
     StartDrill, Landed, CannotKill, KillPusher, KillPostmaster, KillNode, StartReplacement,
     Probe, Tick, StartVerify, VerifyLedger, VerifyBalance, RecordDrill, EndSegment, Finish,
     WriteResult, WriterDials, WriterSends, DbInserts, WriterAnswered, WriterAcks, WriterFails,
     Recover, PusherStarts, Dies, Reap, Signal, vars, storeVars
<1>7. pusher' \in BOOLEAN
  BY <1>2, <1>3, <1>4, Zenon
<1>8. server' \in {"up", "down"} /\ epoch' \in Nat
  BY <1>2, <1>3, <1>4
<1>9. node' \in Nat /\ alive' \in SUBSET Nat
  <2>1. CASE node' = node + 1 /\ alive' = alive \union {node + 1}
    BY <1>2, <2>1
  <2>2. CASE node' = node /\ alive' \in {alive, {}, alive \ {node}}
    BY <1>2, <2>2
  <2>3. QED
    BY <1>2, <1>5, <2>1, <2>2
<1>10. QED
  BY <1>2, <1>6, <1>7, <1>8, <1>9

LEMMA NextLedgerType ==
  IInv /\ [Next]_vars =>
    /\ writer' \in [pc : {"off", "idle", "sent", "committed", "answered"}, id : Nat,
                    conn : Nat \union {NoConn}]
    /\ next' \in Nat /\ acked' \in Seq(Nat) /\ promised' \in SUBSET Nat
<1> SUFFICES ASSUME IInv, [Next]_vars
             PROVE  /\ writer' \in [pc : {"off", "idle", "sent", "committed", "answered"},
                                    id : Nat, conn : Nat \union {NoConn}]
                    /\ next' \in Nat /\ acked' \in Seq(Nat) /\ promised' \in SUBSET Nat
  OBVIOUS
<1>1. /\ writer \in [pc : {"off", "idle", "sent", "committed", "answered"}, id : Nat,
                     conn : Nat \union {NoConn}]
      /\ next \in Nat /\ acked \in Seq(Nat) /\ promised \in SUBSET Nat /\ epoch \in Nat
  BY DEF IInv, TypeOK
<1>2. \/ WriterStep
      \/ /\ UNCHANGED <<next, acked, promised>>
         /\ \/ writer' = writer
            \/ writer' = [writer EXCEPT !.pc = "idle"]
            \/ writer' = [writer EXCEPT !.pc = "off"]
            \/ writer' = [writer EXCEPT !.pc = IF @ = "idle" THEN "off" ELSE @]
  BY Zenon DEF Next, MainStep, BootOK, BootFails, Die, StartSegment, BenchExits,
     StartDrill, Landed, CannotKill, KillPusher, KillPostmaster, KillNode, StartReplacement,
     Probe, Tick, StartVerify, VerifyLedger, VerifyBalance, RecordDrill, EndSegment, Finish,
     WriteResult, Recover, PusherStarts, Dies, Reap, vars, ledgerVars
<1>3. CASE WriterStep
  <2>1. CASE WriterDials
    BY <1>1, <2>1 DEF WriterDials
  <2>2. CASE WriterSends
    <3>1. /\ writer' = [writer EXCEPT !.pc = "sent", !.id = next] /\ next' = next + 1
          /\ UNCHANGED <<acked, promised>>
      BY <2>2 DEF WriterSends
    <3>2. writer' \in [pc : {"off", "idle", "sent", "committed", "answered"}, id : Nat,
                       conn : Nat \union {NoConn}]
      BY <1>1, <3>1
    <3>3. QED
      BY <1>1, <3>1, <3>2
  <2>3. CASE DbInserts
    BY <1>1, <2>3 DEF DbInserts
  <2>4. CASE WriterAnswered
    BY <1>1, <2>4 DEF WriterAnswered
  <2>5. Resumed \in {"off", "idle"}
    BY DEF Resumed
  <2>6. CASE WriterAcks
    BY <1>1, <2>5, <2>6 DEF WriterAcks
  <2>7. CASE WriterFails
    BY <1>1, <2>5, <2>7 DEF WriterFails
  <2>8. QED
    BY <1>3, <2>1, <2>2, <2>3, <2>4, <2>6, <2>7 DEF WriterStep
<1>4. QED
  BY <1>1, <1>2, <1>3

\* What the checks leave in a drill is a drill.
LEMMA ChecksType ==
  ASSUME TypeOK, VerifyLedger \/ VerifyBalance
  PROVE  /\ drill' \in DrillState /\ violations' \in Nat /\ chunks' \in Seq(Seq(Nat)) /\ tries' \in Nat
         /\ pc' \in {"ledger", "balance", "record"}
<1>1. /\ drill \in DrillState /\ violations \in Nat /\ chunks \in Seq(Seq(Nat)) /\ tries \in Nat
      /\ exact \in BOOLEAN
  BY DEF TypeOK
<1>2. \A ok \in BOOLEAN, err \in BOOLEAN : LedgerIs(ok, err) =>
        /\ drill' \in DrillState /\ violations' \in Nat /\ chunks' \in Seq(Seq(Nat))
        /\ pc' \in {"balance", "record"}
  <2> SUFFICES ASSUME NEW ok \in BOOLEAN, NEW err \in BOOLEAN, LedgerIs(ok, err)
               PROVE  /\ drill' \in DrillState /\ violations' \in Nat
                      /\ chunks' \in Seq(Seq(Nat)) /\ pc' \in {"balance", "record"}
    OBVIOUS
  <2>1. PICK e \in {"none", "ledger"} : drill' = [drill EXCEPT !.ledger = ok, !.checkError = e]
    BY DEF LedgerIs
  <2>2. drill' \in DrillState
    BY <1>1, <2>1 DEF DrillState
  <2>3. QED
    BY <1>1, <2>2 DEF LedgerIs
<1>3. \A ok \in BOOLEAN, err \in BOOLEAN : BalanceIs(ok, err) =>
        drill' \in DrillState /\ violations' \in Nat /\ pc' = "record"
  <2> SUFFICES ASSUME NEW ok \in BOOLEAN, NEW err \in BOOLEAN, BalanceIs(ok, err)
               PROVE  drill' \in DrillState /\ violations' \in Nat /\ pc' = "record"
    OBVIOUS
  <2>1. PICK b \in {"ok", "broken"}, e \in {"none", "ledger", "balance"} :
          drill' = [drill EXCEPT !.balance = b, !.checkError = e]
    BY <1>1 DEF BalanceIs, DrillState
  <2>2. drill' \in DrillState
    BY <1>1, <2>1 DEF DrillState
  <2>3. QED
    BY <1>1, <2>2 DEF BalanceIs
<1>4. CASE VerifyLedger
  <2>1. tries' \in Nat
    <3>1. tries' = 0 \/ tries' = tries + 1 \/ tries' = tries
      BY <1>4, Zenon DEF VerifyLedger, AttemptFails, OutOfAttempts
    <3>2. QED
      BY <1>1, <3>1
  <2>2. CASE LedgerIs(TRUE, FALSE) \/ LedgerIs(FALSE, FALSE) \/ LedgerIs(FALSE, TRUE)
    BY <1>2, <2>1, <2>2
  <2>3. CASE UNCHANGED <<pc, drill, violations>> /\ chunks' = Tail(chunks) /\ chunks # <<>>
    BY <1>1, <1>4, <2>1, <2>3 DEF VerifyLedger
  <2>4. CASE UNCHANGED <<pc, drill, violations, chunks>>
    BY <1>1, <1>4, <2>1, <2>4 DEF VerifyLedger
  <2>5. QED
    BY <1>4, <2>2, <2>3, <2>4, Zenon DEF VerifyLedger
<1>5. CASE VerifyBalance
  <2>1. tries' \in Nat /\ chunks' = chunks /\ pc = "balance"
    <3>1. /\ tries' = 0 \/ tries' = tries + 1
          /\ chunks' = chunks /\ pc = "balance"
      BY <1>5, Zenon DEF VerifyBalance, AttemptFails, OutOfAttempts
    <3>2. QED
      BY <1>1, <3>1
  <2>2. CASE BalanceIs(exact, FALSE) \/ BalanceIs(FALSE, TRUE)
    BY <1>1, <1>3, <2>1, <2>2
  <2>3. CASE UNCHANGED <<pc, drill, violations>>
    BY <1>1, <2>1, <2>3
  <2>4. QED
    BY <1>5, <2>2, <2>3, Zenon DEF VerifyBalance
<1>6. QED
  BY <1>4, <1>5

LEMMA NextType == IInv /\ [Next]_vars => TypeOK'
<1> SUFFICES ASSUME IInv, [Next]_vars PROVE TypeOK'
  OBVIOUS
<1>1. TypeOK /\ LedgerInv
  BY DEF IInv
<1>2. /\ seq \in Nat /\ drill \in DrillState /\ drills \in Seq(DrillState)
      /\ violations \in Nat /\ stopped \in BOOLEAN /\ clock \in Nat
      /\ chunks \in Seq(Seq(Nat)) /\ tries \in Nat /\ bench \in BOOLEAN
      /\ acked \in Seq(Nat) /\ rows \in SUBSET Nat
  BY <1>1 DEF TypeOK
<1> DEFINE Main ==
      /\ pc \in {"boot", "segment", "drill", "lookup", "postmaster", "kill", "probe", "verify",
                 "ledger", "balance", "record", "wait", "finish"}
                 \union {"reap", "fatal", "stop"} \union Over
      /\ seq \in Nat /\ drill \in DrillState /\ drills \in Seq(DrillState)
      /\ violations \in Nat /\ stopped \in BOOLEAN /\ clock \in Nat
      /\ chunks \in Seq(Seq(Nat)) /\ tries \in Nat /\ bench \in BOOLEAN
<1>3. Main
  BY <1>1 DEF TypeOK
<1>4. stopped' \in BOOLEAN /\ bench' \in BOOLEAN
  <2>1. stopped' = stopped \/ stopped' = (node \notin alive)
    BY Zenon DEF Next, MainStep, WriterStep, BootOK, BootFails, Die, StartSegment, BenchExits,
       StartDrill, Landed, CannotKill, KillPusher, KillPostmaster, KillNode, StartReplacement,
       Probe, Tick, StartVerify, VerifyLedger, VerifyBalance, RecordDrill, EndSegment, Finish,
       WriteResult, WriterDials, WriterSends, DbInserts, WriterAnswered, WriterAcks, WriterFails,
       Recover, PusherStarts, Dies, Reap, vars, mainVars
  <2>2. bench' = bench \/ bench' \in BOOLEAN \/ bench' = FALSE
    BY Zenon DEF Next, MainStep, WriterStep, BootOK, BootFails, Die, StartSegment, BenchExits,
       StartDrill, Landed, CannotKill, KillPusher, KillPostmaster, KillNode, StartReplacement,
       Probe, Tick, StartVerify, VerifyLedger, VerifyBalance, RecordDrill, EndSegment, Finish,
       WriteResult, WriterDials, WriterSends, DbInserts, WriterAnswered, WriterAcks, WriterFails,
       Recover, PusherStarts, Dies, Reap, vars, mainVars
  <2>3. QED
    BY <1>2, <2>1, <2>2, Zenon
<1>5. Main'
  <2>1. CASE WriterStep \/ Recover \/ PusherStarts \/ Dies \/ Reap \/ UNCHANGED vars
    <3>1. UNCHANGED mainVars
      BY <2>1, Zenon DEF WriterStep, WriterDials, WriterSends, DbInserts, WriterAnswered,
         WriterAcks, WriterFails, Recover, PusherStarts, Dies, Reap, vars
    <3>2. QED
      BY <1>3, <3>1 DEF mainVars
  <2>2. CASE BootOK \/ BootFails \/ Die \/ StartReplacement \/ Finish \/ WriteResult
    BY <1>3, <2>2 DEF BootOK, BootFails, Die, StartReplacement, Finish, WriteResult, Over
  <2>3. CASE StartSegment
    BY <1>3, <1>4, <2>3, NewDrillType DEF StartSegment
  <2>4. CASE BenchExits
    BY <1>3, <1>4, <2>4 DEF BenchExits
  <2>5. CASE StartDrill
    <3>1. drill.mode \in {"pusher", "crash", "death"}
      BY <1>2 DEF DrillState
    <3>2. pc' \in {"lookup", "postmaster", "kill"}
      BY <2>5, <3>1 DEF StartDrill
    <3>3. QED
      BY <1>3, <2>5, <3>2 DEF StartDrill
  <2>6. CASE KillPusher \/ KillPostmaster \/ KillNode
    <3>1. \/ drill' = [drill EXCEPT !.killed = clock]
          \/ drill' = [drill EXCEPT !.killError = TRUE]
      BY <2>6, Zenon DEF KillPusher, KillPostmaster, KillNode, Landed, CannotKill
    <3>2. drill' \in DrillState
      BY <1>2, <3>1 DEF DrillState
    <3>3. /\ pc' \in {"probe", "verify", "reap"}
          /\ UNCHANGED <<seq, drills, violations, stopped, clock, chunks, tries, bench>>
      BY <2>6 DEF KillPusher, KillPostmaster, KillNode, Landed, CannotKill
    <3>4. QED
      BY <1>3, <3>2, <3>3
  <2>7. CASE Probe
    <3>1. drill' = drill \/ drill' = [drill EXCEPT !.rto = clock]
      BY <2>7 DEF Probe
    <3>2. drill' \in DrillState
      BY <1>2, <3>1 DEF DrillState
    <3>3. QED
      BY <1>3, <2>7, <3>2 DEF Probe
  <2>8. CASE Tick
    BY <1>3, <2>8 DEF Tick
  <2>9. CASE StartVerify
    <3>1. chunks' \in Seq(Seq(Nat))
      BY <1>1, <1>2, <2>9, ChunksCover DEF StartVerify, LedgerInv
    <3>2. Range(acked) \ rows \in SUBSET Nat
      BY <1>2, RangeOfSequence
    <3>3. drill' \in DrillState
      BY <1>2, <2>9, <3>2 DEF StartVerify, DrillState
    <3>4. QED
      BY <1>3, <2>9, <3>1, <3>3 DEF StartVerify
  <2>10. CASE VerifyLedger \/ VerifyBalance
    <3>1. UNCHANGED <<seq, drills, stopped, clock, bench>>
      BY <2>10 DEF VerifyLedger, VerifyBalance
    <3>2. QED
      BY <1>1, <1>3, <2>10, <3>1, ChecksType
  <2>11. CASE RecordDrill
    BY <1>3, <2>11 DEF RecordDrill
  <2>12. CASE EndSegment
    <3>1. pc' \in {"finish", "segment"} /\ seq' = seq + 1
      BY <2>12 DEF EndSegment
    <3>2. QED
      BY <1>3, <1>4, <2>12, <3>1 DEF EndSegment
  <2>13. QED
    BY <2>1, <2>2, <2>3, <2>4, <2>5, <2>6, <2>7, <2>8, <2>9, <2>10, <2>11, <2>12 DEF Next, MainStep
<1>6. QED
  BY <1>5, NextStoreType, NextNodeType, NextLedgerType DEF TypeOK

-----------------------------------------------------------------------------
(* The invariant, part by part.                                            *)

LEMMA InitInv == Init => IInv
<1> SUFFICES ASSUME Init PROVE IInv
  OBVIOUS
<1>1. TypeOK
  <2>1. stopped \in BOOLEAN /\ bench \in BOOLEAN /\ pusher \in BOOLEAN /\ exact \in BOOLEAN
    BY Zenon DEF Init
  <2>2. drill \in DrillState
    BY NewDrillType DEF Init
  <2>3. writer \in [pc : {"off", "idle", "sent", "committed", "answered"}, id : Nat,
                    conn : Nat \union {NoConn}]
    BY DEF Init
  <2>4. QED
    BY <2>1, <2>2, <2>3 DEF Init, TypeOK
<1>2. NodeInv
  BY DEF Init, NodeInv, Over
<1>3. LedgerInv
  <2>1. IsFiniteSet(rows)
    BY FS_EmptySet DEF Init
  <2>2. IsInjective(acked) /\ Range(acked) = {}
    BY DEF Init, IsInjective, Range
  <2>3. QED
    BY <2>1, <2>2 DEF Init, LedgerInv
<1>4. ChunksInv /\ DrillInv
  BY DEF Init, ChunksInv, DrillInv, Killing
<1>5. RecordInv
  <2>1. Recorded = {}
    BY DEF Init, Recorded, Range
  <2>2. QED
    BY <2>1 DEF Init, RecordInv
<1>6. QED
  BY <1>1, <1>2, <1>3, <1>4, <1>5 DEF IInv

\* A replacement is started, and the program ends, only once the node the
\* harness believes in is gone.
LEMMA NextNode == IInv /\ [Next]_vars => NodeInv'
<1> SUFFICES ASSUME IInv, [Next]_vars PROVE NodeInv'
  OBVIOUS
<1>1. NodeInv
  BY DEF IInv
<1> USE DEF NodeInv, Over
<1>2. CASE BootOK \/ BootFails \/ StartSegment \/ StartDrill \/ KillPusher
           \/ KillPostmaster \/ KillNode \/ Probe \/ StartVerify \/ RecordDrill \/ EndSegment \/ Finish
  <2>1. UNCHANGED <<node, alive>>
    BY <1>2, Zenon DEF BootOK, BootFails, StartSegment, StartDrill, KillPusher, KillPostmaster,
       KillNode, Probe, StartVerify, RecordDrill, EndSegment, Finish, Signal, CannotKill, nodeVars
  <2>2. pc' \notin Over
    <3>1. CASE StartDrill
      <4>1. drill.mode \in {"pusher", "crash", "death"}
        BY DEF IInv, TypeOK, DrillState
      <4>2. QED
        BY <3>1, <4>1 DEF StartDrill
    <3>2. CASE ~StartDrill
      BY <1>2, <3>2 DEF BootOK, BootFails, StartSegment, KillPusher, KillPostmaster,
         KillNode, Probe, StartVerify, RecordDrill, EndSegment, Finish, Landed, CannotKill
    <3>3. QED
      BY <3>1, <3>2
  <2>3. QED
    BY <1>1, <2>1, <2>2
<1>3. CASE VerifyLedger \/ VerifyBalance
  <2>1. UNCHANGED <<node, alive>>
    BY <1>3 DEF VerifyLedger, VerifyBalance, nodeVars
  <2>2. pc' \in {"ledger", "balance", "record"}
    BY <1>3, ChecksType DEF IInv
  <2>3. QED
    BY <1>1, <2>1, <2>2
<1>4. CASE Die \/ WriteResult
  BY <1>1, <1>4 DEF Die, WriteResult, nodeVars
<1>5. CASE StartReplacement
  BY <1>1, <1>5 DEF StartReplacement
<1>6. CASE Reap
  BY <1>1, <1>6 DEF Reap, mainVars
<1>7. CASE Dies
  BY <1>1, <1>7 DEF Dies, mainVars
<1>8. CASE WriterStep \/ Recover \/ PusherStarts \/ BenchExits \/ Tick \/ UNCHANGED vars
  <2>1. UNCHANGED <<pc, node, alive>>
    BY <1>8, Zenon DEF WriterStep, WriterDials, WriterSends, DbInserts, WriterAnswered,
       WriterAcks, WriterFails, Recover, PusherStarts, BenchExits, Tick, vars, mainVars, nodeVars
  <2>2. QED
    BY <1>1, <2>1
<1>9. QED
  BY <1>2, <1>3, <1>4, <1>5, <1>6, <1>7, <1>8 DEF Next, MainStep

\* Ids are fresh, so nothing is acked twice.
LEMMA NextLedger == IInv /\ [Next]_vars => LedgerInv'
<1> SUFFICES ASSUME IInv, [Next]_vars PROVE LedgerInv'
  OBVIOUS
<1>1. LedgerInv /\ TypeOK
  BY DEF IInv
<1>2. IsFiniteSet(rows')
  BY NextStoreType
<1>3. /\ writer \in [pc : {"off", "idle", "sent", "committed", "answered"}, id : Nat,
                     conn : Nat \union {NoConn}]
      /\ next \in Nat /\ acked \in Seq(Nat) /\ promised \in SUBSET Nat
      /\ Range(acked) \subseteq promised /\ \A x \in promised : x < next
  BY <1>1 DEF TypeOK, LedgerInv
<1>4. CASE ~WriterStep
  <2>1. /\ UNCHANGED <<next, acked, promised>>
        /\ \/ writer' = writer
           \/ writer' = [writer EXCEPT !.pc = "idle"]
           \/ writer' = [writer EXCEPT !.pc = "off"]
           \/ writer' = [writer EXCEPT !.pc = IF @ = "idle" THEN "off" ELSE @]
    BY <1>4, Zenon DEF Next, MainStep, BootOK, BootFails, Die, StartSegment, BenchExits,
       StartDrill, Landed, CannotKill, KillPusher, KillPostmaster, KillNode, StartReplacement,
       Probe, Tick, StartVerify, VerifyLedger, VerifyBalance, RecordDrill, EndSegment, Finish,
       WriteResult, Recover, PusherStarts, Dies, Reap, vars, ledgerVars
  <2>2. writer'.id = writer.id /\ (writer'.pc = writer.pc \/ writer'.pc \in {"idle", "off"})
    BY <1>3, <2>1
  <2>3. QED
    BY <1>1, <1>2, <2>1, <2>2 DEF LedgerInv
<1>5. CASE WriterDials
  <2>1. writer'.id = writer.id /\ writer'.pc = writer.pc /\ UNCHANGED <<next, acked, promised>>
    BY <1>3, <1>5 DEF WriterDials
  <2>2. QED
    BY <1>1, <1>2, <2>1 DEF LedgerInv
<1>6. CASE WriterSends
  <2>1. /\ writer'.id = next /\ writer'.pc = "sent" /\ next' = next + 1
        /\ UNCHANGED <<acked, promised>>
    BY <1>3, <1>6 DEF WriterSends
  <2>2. next \notin promised
    BY <1>3
  <2>3. \A x \in promised : x < next + 1
    BY <1>3
  <2>4. QED
    BY <1>1, <1>2, <1>3, <2>1, <2>2, <2>3 DEF LedgerInv
<1>7. CASE DbInserts
  <2>1. /\ writer.pc = "sent" /\ writer'.id = writer.id /\ writer'.pc = "committed"
        /\ UNCHANGED <<next, acked, promised>>
    BY <1>3, <1>7 DEF DbInserts
  <2>2. QED
    BY <1>1, <1>2, <2>1 DEF LedgerInv
<1>8. CASE WriterAnswered
  <2>1. /\ writer.pc = "committed" /\ writer'.id = writer.id /\ writer'.pc = "answered"
        /\ promised' = promised \union {writer.id} /\ UNCHANGED <<next, acked>>
    BY <1>3, <1>8 DEF WriterAnswered
  <2>2. writer.id \notin promised /\ writer.id < next
    BY <1>1, <2>1 DEF LedgerInv
  <2>3. QED
    BY <1>1, <1>2, <1>3, <2>1, <2>2 DEF LedgerInv
<1>9. CASE WriterAcks
  <2>1. /\ writer.pc = "answered" /\ writer'.id = writer.id /\ writer'.pc \in {"off", "idle"}
        /\ acked' = Append(acked, writer.id) /\ UNCHANGED <<next, promised>>
    BY <1>3, <1>9 DEF WriterAcks, Resumed
  <2>2. writer.id \in promised \ Range(acked) /\ IsInjective(acked)
    BY <1>1, <2>1 DEF LedgerInv
  <2>3. Range(acked') = Range(acked) \union {writer.id} /\ Range(acked) = {acked[i] : i \in 1..Len(acked)}
    BY <1>3, <2>1, RangeOfSequence
  <2>4. IsInjective(acked')
    <3>1. /\ DOMAIN acked' = 1..(Len(acked) + 1) /\ acked'[Len(acked) + 1] = writer.id
          /\ \A i \in 1..Len(acked) : acked'[i] = acked[i]
          /\ DOMAIN acked = 1..Len(acked) /\ Len(acked) \in Nat
      BY <1>3, <2>1
    <3>2. \A i \in 1..Len(acked) : acked[i] # writer.id
      BY <2>2, <2>3
    <3>3. \A i \in 1..(Len(acked) + 1) : i \in 1..Len(acked) \/ i = Len(acked) + 1
      BY <3>1
    <3>4. QED
      BY <2>2, <3>1, <3>2, <3>3 DEF IsInjective
  <2>5. QED
    BY <1>1, <1>2, <2>1, <2>2, <2>3, <2>4 DEF LedgerInv
<1>10. CASE WriterFails
  <2>1. writer'.id = writer.id /\ writer'.pc \in {"off", "idle"} /\ UNCHANGED <<next, acked, promised>>
    BY <1>3, <1>10 DEF WriterFails, Resumed
  <2>2. QED
    BY <1>1, <1>2, <2>1 DEF LedgerInv
<1>11. QED
  BY <1>4, <1>5, <1>6, <1>7, <1>8, <1>9, <1>10 DEF WriterStep

\* A promised row that is lost is lost for good, and so is exactness.
LEMMA LossStays ==
  IInv /\ [Next]_vars =>
    /\ promised \subseteq promised'
    /\ promised \ rows \subseteq promised' \ rows'
    /\ exact' => exact
<1> SUFFICES ASSUME IInv, [Next]_vars
             PROVE  /\ promised \subseteq promised'
                    /\ promised \ rows \subseteq promised' \ rows'
                    /\ exact' => exact
  OBVIOUS
<1>1. TypeOK /\ LedgerInv
  BY DEF IInv
<1>2. promised' = promised \/ promised' = promised \union {writer.id}
  BY Zenon DEF Next, MainStep, WriterStep, BootOK, BootFails, Die, StartSegment, BenchExits,
     StartDrill, Landed, CannotKill, KillPusher, KillPostmaster, KillNode, StartReplacement,
     Probe, Tick, StartVerify, VerifyLedger, VerifyBalance, RecordDrill, EndSegment, Finish,
     WriteResult, WriterDials, WriterSends, DbInserts, WriterAnswered, WriterAcks, WriterFails,
     Recover, PusherStarts, Dies, Reap, vars, ledgerVars
<1>3. promised \intersect rows' \subseteq rows /\ (exact' => exact)
  <2>1. CASE rows' = rows /\ exact' = exact
    BY <2>1
  <2>2. CASE GoDown
    BY <1>1, <2>2, GoDownLoses DEF LedgerInv
  <2>3. CASE DbInserts
    <3>1. rows' = rows \union {writer.id} /\ writer.pc = "sent" /\ exact' = exact
      BY <2>3 DEF DbInserts
    <3>2. writer.id \notin promised
      BY <1>1, <3>1 DEF LedgerInv
    <3>3. QED
      BY <3>1, <3>2
  <2>4. QED
    BY <2>1, <2>2, <2>3, StoreSteps
<1>4. QED
  BY <1>2, <1>3

\* A chunk that counts right has none of the missing ids, so they are in the
\* chunks that are left.
LEMMA NextChunks == IInv /\ [Next]_vars => ChunksInv'
<1> SUFFICES ASSUME IInv, [Next]_vars PROVE ChunksInv'
  OBVIOUS
<1>1. TypeOK /\ LedgerInv /\ ChunksInv
  BY DEF IInv
<1>2. promised \subseteq promised' /\ promised \ rows \subseteq promised' \ rows'
  BY LossStays
<1>3. chunks \in Seq(Seq(Nat)) /\ acked \in Seq(Nat) /\ drill \in DrillState
  BY <1>1 DEF TypeOK
<1>4. CASE UNCHANGED chunks /\ (pc' = "ledger" => UNCHANGED <<pc, drill>>)
  BY <1>1, <1>2, <1>4 DEF ChunksInv
<1>5. CASE StartVerify
  <2>1. chunks' = Chunks /\ drill'.missing = Range(acked) \ rows /\ UNCHANGED <<promised, rows>>
    BY <1>3, <1>5 DEF StartVerify, DrillState, storeVars, ledgerVars
  <2>2. IsInjective(acked) /\ Range(acked) \subseteq promised
    BY <1>1 DEF LedgerInv
  <2>3. /\ \A i \in 1..Len(Chunks) : IsInjective(Chunks[i]) /\ Range(Chunks[i]) \subseteq promised
        /\ \A x \in Range(acked) : \E i \in 1..Len(Chunks) : x \in Range(Chunks[i])
    BY <1>3, <2>2, ChunksCover
  <2>4. QED
    BY <2>1, <2>2, <2>3 DEF ChunksInv
<1>6. CASE VerifyLedger
  <2>1. CASE chunks' = <<>> /\ pc' \in {"balance", "record"}
    BY <2>1 DEF ChunksInv
  <2>2. CASE UNCHANGED <<pc, drill, chunks>>
    BY <1>1, <1>2, <2>2 DEF ChunksInv
  <2>3. CASE /\ chunks # <<>> /\ CountMatches(Head(chunks))
             /\ chunks' = Tail(chunks) /\ UNCHANGED <<pc, drill>>
    <3>1. /\ Len(chunks) \in Nat \ {0} /\ Head(chunks) = chunks[1] /\ chunks[1] \in Seq(Nat)
          /\ Len(chunks') = Len(chunks) - 1
          /\ \A i \in 1..(Len(chunks) - 1) : chunks'[i] = chunks[i + 1]
      BY <1>3, <2>3
    <3>2. 1 \in 1..Len(chunks) /\ \A i \in 1..(Len(chunks) - 1) : i + 1 \in 1..Len(chunks)
      BY <3>1
    <3>3. IsInjective(chunks[1])
      BY <1>1, <3>2 DEF ChunksInv
    <3>4. Range(chunks[1]) \subseteq rows
      BY <2>3, <3>1, <3>3, CountIsMembership
    <3>5. \A i \in 1..Len(chunks') :
            IsInjective(chunks'[i]) /\ Range(chunks'[i]) \subseteq promised'
      BY <1>1, <1>2, <3>1, <3>2 DEF ChunksInv
    <3>6. pc = "ledger"
      BY <1>6 DEF VerifyLedger
    <3>7. drill.missing \subseteq promised' \ rows'
      BY <1>1, <1>2, <3>6 DEF ChunksInv
    <3>8. ASSUME NEW x \in drill.missing
          PROVE  \E i \in 1..Len(chunks') : x \in Range(chunks'[i])
      <4>1. x \notin rows
        BY <1>1, <3>6 DEF ChunksInv
      <4>2. PICK i \in 1..Len(chunks) : x \in Range(chunks[i])
        BY <1>1, <3>6 DEF ChunksInv
      <4>3. i # 1
        BY <3>4, <4>1, <4>2
      <4>4. i - 1 \in 1..(Len(chunks) - 1) /\ (i - 1) + 1 = i
        BY <3>1, <4>3
      <4>5. chunks'[i - 1] = chunks[i]
        BY <3>1, <4>4
      <4>6. QED
        BY <3>1, <4>2, <4>4, <4>5
    <3>9. QED
      BY <2>3, <3>5, <3>7, <3>8 DEF ChunksInv
  <2>4. QED
    <3>1. \A ok, err : LedgerIs(ok, err) => chunks' = <<>> /\ pc' \in {"balance", "record"}
      BY DEF LedgerIs
    <3>2. QED
      BY <1>6, <2>1, <2>2, <2>3, <3>1, Zenon DEF VerifyLedger
<1>7. CASE ~StartVerify /\ ~VerifyLedger
  <2>1. CASE WriterStep \/ Recover \/ PusherStarts \/ Dies \/ Reap \/ BenchExits \/ Tick \/ UNCHANGED vars
    <3>1. UNCHANGED <<chunks, pc, drill>>
      BY <2>1, Zenon DEF WriterStep, WriterDials, WriterSends, DbInserts, WriterAnswered,
         WriterAcks, WriterFails, Recover, PusherStarts, Dies, Reap, BenchExits, Tick, vars, mainVars
    <3>2. QED
      BY <1>4, <3>1
  <2>2. CASE StartDrill
    <3>1. drill.mode \in {"pusher", "crash", "death"}
      BY <1>3 DEF DrillState
    <3>2. pc' # "ledger" /\ chunks' = chunks
      BY <2>2, <3>1 DEF StartDrill
    <3>3. QED
      BY <1>4, <3>2
  <2>3. CASE VerifyBalance
    <3>1. chunks' = chunks /\ pc = "balance" /\ (pc' = pc \/ pc' = "record")
      BY <2>3 DEF VerifyBalance, BalanceIs
    <3>2. QED
      BY <1>4, <3>1
  <2>4. CASE BootOK \/ BootFails \/ Die \/ StartSegment \/ KillPusher \/ KillPostmaster \/ KillNode
             \/ StartReplacement \/ Probe \/ RecordDrill \/ EndSegment \/ Finish \/ WriteResult
    <3>1. pc' # "ledger" /\ chunks' = chunks
      BY <2>4 DEF BootOK, BootFails, Die, StartSegment, KillPusher, KillPostmaster, KillNode, Landed,
         CannotKill, StartReplacement, Probe, RecordDrill, EndSegment, Finish, WriteResult
    <3>2. QED
      BY <1>4, <3>1
  <2>5. QED
    BY <1>7, <2>1, <2>2, <2>3, <2>4 DEF Next, MainStep
<1>8. QED
  BY <1>5, <1>6, <1>7

\* The ledger check: what it decides about the drill in hand.
LEMMA LedgerDecides ==
  ASSUME IInv, [Next]_vars, VerifyLedger PROVE DrillInv'
<1>1. TypeOK /\ ChunksInv /\ DrillInv /\ pc = "ledger"
  BY DEF IInv, VerifyLedger
<1>2. drill \in DrillState /\ violations \in Nat /\ chunks \in Seq(Seq(Nat))
  BY <1>1 DEF TypeOK
<1>3. Timed(drill) /\ ~drill.ledger /\ drill.checkError = "none" /\ drill.balance = "absent"
  BY <1>1 DEF DrillInv, Killing
<1>4. UNCHANGED <<rows, exact, promised>>
  BY DEF VerifyLedger, storeVars, ledgerVars
\* The fields that a decision leaves alone, and those it writes.
<1>5. ASSUME NEW ok \in BOOLEAN, NEW err \in BOOLEAN, LedgerIs(ok, err)
      PROVE  /\ pc' \in {"balance", "record"} /\ Timed(drill') /\ drill'.balance = "absent"
             /\ drill'.ledger = ok /\ drill'.missing = drill.missing
             /\ drill'.checkError = (IF err THEN "ledger" ELSE "none")
             /\ ~ok => violations' = violations + 1
  <2>1. PICK e : e = (IF err THEN "ledger" ELSE "none")
                 /\ drill' = [drill EXCEPT !.ledger = ok, !.checkError = e]
    BY <1>5 DEF LedgerIs
  <2>2. /\ drill'.rto = drill.rto /\ drill'.killError = drill.killError
        /\ drill'.killed = drill.killed /\ drill'.balance = drill.balance
        /\ drill'.ledger = ok /\ drill'.missing = drill.missing /\ drill'.checkError = e
    BY <1>2, <2>1 DEF DrillState
  <2>3. Timed(drill')
    BY <1>3, <2>2 DEF Timed
  <2>4. pc' \in {"balance", "record"} /\ (~ok => violations' = violations + 1)
    BY <1>5 DEF LedgerIs
  <2>5. QED
    BY <1>3, <2>1, <2>2, <2>3, <2>4
<1>6. CASE chunks = <<>> /\ LedgerIs(TRUE, FALSE)
  <2>1. drill.missing = {}
    BY <1>1, <1>6 DEF ChunksInv
  <2>2. /\ pc' \in {"balance", "record"} /\ Timed(drill') /\ drill'.balance = "absent"
        /\ drill'.ledger /\ drill'.missing = {} /\ drill'.checkError = "none"
    BY <1>5, <1>6, <2>1
  <2>3. Alarmed(drill)' /\ Clean(drill')
    BY <2>2 DEF Alarmed, Clean
  <2>4. QED
    BY <2>2, <2>3 DEF DrillInv, Killing
<1>7. CASE chunks # <<>> /\ ~CountMatches(Head(chunks)) /\ LedgerIs(FALSE, FALSE)
  <2>1. Head(chunks) = chunks[1] /\ chunks[1] \in Seq(Nat) /\ 1 \in 1..Len(chunks)
    BY <1>2, <1>7
  <2>2. IsInjective(chunks[1]) /\ Range(chunks[1]) \subseteq promised
    BY <1>1, <2>1 DEF ChunksInv
  <2>3. ~(Range(chunks[1]) \subseteq rows)
    BY <1>7, <2>1, <2>2, CountIsMembership
  <2>4. promised' \ rows' # {}
    BY <1>4, <2>2, <2>3
  <2>5. /\ pc' \in {"balance", "record"} /\ Timed(drill') /\ drill'.balance = "absent"
        /\ ~drill'.ledger /\ violations' = violations + 1
    BY <1>5, <1>7
  <2>6. Alarmed(drill)'
    BY <2>4, <2>5 DEF Alarmed
  <2>7. violations' # 0
    BY <1>2, <2>5
  <2>8. QED
    BY <2>5, <2>6, <2>7 DEF DrillInv, Killing
<1>8. CASE LedgerIs(FALSE, TRUE)
  <2>1. /\ pc' \in {"balance", "record"} /\ Timed(drill') /\ drill'.balance = "absent"
        /\ ~drill'.ledger /\ drill'.checkError = "ledger" /\ violations' = violations + 1
    BY <1>5, <1>8
  <2>2. Alarmed(drill)'
    BY <2>1 DEF Alarmed
  <2>3. violations' # 0
    BY <1>2, <2>1
  <2>4. QED
    BY <2>1, <2>2, <2>3 DEF DrillInv, Killing
<1>9. CASE UNCHANGED <<pc, drill>>
  BY <1>1, <1>3, <1>9 DEF DrillInv, Killing
<1>10. QED
  BY <1>6, <1>7, <1>8, <1>9, Zenon DEF VerifyLedger

\* The balance check, after the ledger's.
LEMMA BalanceDecides ==
  ASSUME IInv, [Next]_vars, VerifyBalance PROVE DrillInv'
<1>1. TypeOK /\ DrillInv /\ pc = "balance"
  BY DEF IInv, VerifyBalance
<1>2. drill \in DrillState /\ violations \in Nat /\ exact \in BOOLEAN
  BY <1>1 DEF TypeOK
<1>3. /\ Timed(drill) /\ drill.balance = "absent" /\ Alarmed(drill)
      /\ drill.ledger => drill.missing = {}
      /\ violations = 0 => Clean(drill)
  BY <1>1 DEF DrillInv
<1>4. UNCHANGED <<rows, exact, promised>>
  BY DEF VerifyBalance, storeVars, ledgerVars
<1>5. ASSUME NEW ok \in BOOLEAN, NEW err \in BOOLEAN, BalanceIs(ok, err), ~ok \/ ~err,
             ok \/ err \/ ~exact
      PROVE  DrillInv'
  <2>1. PICK b, e : /\ b = (IF ok THEN "ok" ELSE "broken")
                    /\ e = (IF drill.checkError = "none" /\ err THEN "balance" ELSE drill.checkError)
                    /\ drill' = [drill EXCEPT !.balance = b, !.checkError = e]
    BY <1>2, <1>5 DEF BalanceIs, DrillState
  <2>2. /\ drill'.rto = drill.rto /\ drill'.killError = drill.killError
        /\ drill'.killed = drill.killed /\ drill'.balance = b
        /\ drill'.ledger = drill.ledger /\ drill'.missing = drill.missing /\ drill'.checkError = e
    BY <1>2, <2>1 DEF DrillState
  <2>3. /\ pc' = "record"
        /\ ok => violations' = violations
        /\ ~ok => violations' = violations + 1
    BY <1>5 DEF BalanceIs
  <2>4. Timed(drill')
    BY <1>3, <2>2 DEF Timed
  <2>5. drill'.ledger => drill'.missing = {}
    BY <1>3, <2>2
  <2>6. Alarmed(drill)'
    <3>1. e # "ledger" => drill.checkError # "ledger"
      BY <2>1
    <3>2. b = "broken" /\ e = "none" => ~exact
      BY <1>5, <2>1
    <3>3. QED
      BY <1>3, <1>4, <2>2, <3>1, <3>2 DEF Alarmed
  <2>7. violations' = 0 => Clean(drill')
    <3> SUFFICES ASSUME violations' = 0 PROVE Clean(drill')
      OBVIOUS
    <3>1. ok /\ violations = 0
      BY <1>2, <2>3
    <3>2. Clean(drill) /\ b = "ok"
      BY <1>3, <2>1, <3>1
    <3>3. e = "none"
      <4>1. violations' = violations
        BY <2>3, <3>1
      <4>2. ~err
        BY <1>5, <3>1
      <4>3. QED
        BY <2>1, <3>2, <4>2 DEF Clean
    <3>4. QED
      BY <2>2, <3>2, <3>3 DEF Clean
  <2>8. QED
    BY <2>3, <2>4, <2>5, <2>6, <2>7 DEF DrillInv, Killing
<1>6. CASE BalanceIs(exact, FALSE)
  BY <1>2, <1>5, <1>6
<1>7. CASE BalanceIs(FALSE, TRUE)
  BY <1>5, <1>7
<1>8. CASE UNCHANGED <<pc, drill, violations>>
  <2>1. Alarmed(drill)'
    BY <1>3, <1>4, <1>8 DEF Alarmed
  <2>2. QED
    BY <1>1, <1>3, <1>8, <2>1 DEF DrillInv, Killing
<1>9. QED
  BY <1>6, <1>7, <1>8, Zenon DEF VerifyBalance

LEMMA NextDrill == IInv /\ [Next]_vars => DrillInv'
<1> SUFFICES ASSUME IInv, [Next]_vars PROVE DrillInv'
  OBVIOUS
<1>1. TypeOK /\ DrillInv
  BY DEF IInv
<1>2. drill \in DrillState /\ violations \in Nat /\ clock \in Nat /\ seq \in Nat
  BY <1>1 DEF TypeOK
<1>3. CASE UNCHANGED <<pc, drill, violations>> /\ (clock' = clock \/ clock' = clock + 1)
  <2>1. Alarmed(drill) => Alarmed(drill)'
    BY <1>3, LossStays DEF Alarmed
  <2>2. drill.killed \in 0..clock => drill.killed \in 0..clock'
    BY <1>2, <1>3
  <2>3. QED
    BY <1>1, <1>3, <2>1, <2>2 DEF DrillInv
<1>4. CASE WriterStep \/ Recover \/ PusherStarts \/ Dies \/ Reap \/ BenchExits \/ Tick \/ UNCHANGED vars
  <2>1. UNCHANGED <<pc, drill, violations>> /\ (clock' = clock \/ clock' = clock + 1)
    BY <1>4, Zenon DEF WriterStep, WriterDials, WriterSends, DbInserts, WriterAnswered,
       WriterAcks, WriterFails, Recover, PusherStarts, Dies, Reap, BenchExits, Tick, vars, mainVars
  <2>2. QED
    BY <1>3, <2>1
<1>5. CASE BootOK \/ BootFails \/ Die \/ EndSegment \/ Finish \/ WriteResult \/ RecordDrill
  <2>1. pc' \in {"segment", "fatal", "died", "finish", "stop", "written", "wait"}
    BY <1>5 DEF BootOK, BootFails, Die, EndSegment, Finish, WriteResult, RecordDrill
  <2>2. QED
    BY <2>1 DEF DrillInv, Killing
<1>6. CASE StartSegment
  <2>1. pc' = "drill" /\ drill' = NewDrill(seq)
    BY <1>6 DEF StartSegment
  <2>2. /\ drill'.rto = None /\ drill'.killError = FALSE /\ drill'.ledger = FALSE
        /\ drill'.checkError = "none" /\ drill'.balance = "absent"
    BY <2>1 DEF NewDrill
  <2>3. QED
    BY <2>1, <2>2 DEF DrillInv, Killing
<1>7. CASE StartDrill
  <2>1. drill.mode \in {"pusher", "crash", "death"}
    BY <1>2 DEF DrillState
  <2>2. pc = "drill" /\ pc' \in {"lookup", "postmaster", "kill"} /\ drill' = drill
    BY <1>7, <2>1 DEF StartDrill
  <2>3. QED
    BY <1>1, <2>2 DEF DrillInv, Killing
<1>8. CASE KillPusher \/ KillPostmaster \/ KillNode
  <2>1. pc \in Killing
    BY <1>8 DEF KillPusher, KillPostmaster, KillNode, Killing
  <2>2. /\ drill.rto = None /\ ~drill.killError
        /\ ~drill.ledger /\ drill.checkError = "none" /\ drill.balance = "absent"
    BY <1>1, <2>1 DEF DrillInv
  <2>3. CASE drill' = [drill EXCEPT !.killed = clock] /\ pc' \in {"probe", "reap"} /\ clock' = clock
    <3>1. /\ drill'.rto = drill.rto /\ drill'.killError = drill.killError
          /\ drill'.killed = clock /\ drill'.balance = drill.balance
          /\ drill'.ledger = drill.ledger /\ drill'.checkError = drill.checkError
      BY <1>2, <2>3 DEF DrillState
    <3>2. drill'.killed \in 0..clock'
      BY <1>2, <2>3, <3>1
    <3>3. QED
      BY <2>2, <2>3, <3>1, <3>2 DEF DrillInv, Killing
  <2>4. CASE drill' = [drill EXCEPT !.killError = TRUE] /\ pc' = "verify"
    <3>1. /\ drill'.rto = drill.rto /\ drill'.balance = drill.balance
          /\ drill'.ledger = drill.ledger /\ drill'.checkError = drill.checkError
      BY <1>2, <2>4 DEF DrillState
    <3>2. Timed(drill')
      BY <2>2, <3>1 DEF Timed
    <3>3. QED
      BY <2>2, <2>4, <3>1, <3>2 DEF DrillInv, Killing
  <2>5. QED
    BY <1>8, <2>3, <2>4 DEF KillPusher, KillPostmaster, KillNode, Landed, CannotKill
<1>9. CASE StartReplacement
  <2>1. pc = "reap" /\ pc' \in {"probe", "died"} /\ UNCHANGED <<drill, clock>>
    BY <1>9 DEF StartReplacement
  <2>2. QED
    BY <1>1, <2>1 DEF DrillInv, Killing
<1>10. CASE Probe
  <2>1. pc = "probe" /\ pc' = "verify" /\ (drill' = drill \/ drill' = [drill EXCEPT !.rto = clock])
    BY <1>10 DEF Probe
  <2>2. /\ drill.rto = None /\ ~drill.killError /\ drill.killed \in 0..clock
        /\ ~drill.ledger /\ drill.checkError = "none" /\ drill.balance = "absent"
    BY <1>1, <2>1 DEF DrillInv, Killing
  <2>3. /\ drill'.rto \in {None, clock} /\ drill'.killError = drill.killError
        /\ drill'.killed = drill.killed /\ drill'.balance = drill.balance
        /\ drill'.ledger = drill.ledger /\ drill'.checkError = drill.checkError
    BY <1>2, <2>1, <2>2 DEF DrillState
  <2>4. Timed(drill')
    BY <1>2, <2>2, <2>3 DEF Timed, None
  <2>5. QED
    BY <2>1, <2>2, <2>3, <2>4 DEF DrillInv, Killing
<1>11. CASE StartVerify
  <2>1. pc = "verify" /\ pc' = "ledger" /\ drill' = [drill EXCEPT !.missing = Range(acked) \ rows]
    BY <1>11 DEF StartVerify
  <2>2. Timed(drill) /\ ~drill.ledger /\ drill.checkError = "none" /\ drill.balance = "absent"
    BY <1>1, <2>1 DEF DrillInv, Killing
  <2>3. /\ drill'.rto = drill.rto /\ drill'.killError = drill.killError
        /\ drill'.killed = drill.killed /\ drill'.balance = drill.balance
        /\ drill'.ledger = drill.ledger /\ drill'.checkError = drill.checkError
    BY <1>2, <2>1 DEF DrillState
  <2>4. Timed(drill')
    BY <2>2, <2>3 DEF Timed
  <2>5. QED
    BY <2>1, <2>2, <2>3, <2>4 DEF DrillInv, Killing
<1>12. QED
  BY <1>4, <1>5, <1>6, <1>7, <1>8, <1>9, <1>10, <1>11, LedgerDecides, BalanceDecides
     DEF Next, MainStep

\* Drills are recorded after their checks, one a segment.
LEMMA NextRecord == IInv /\ [Next]_vars => RecordInv'
<1> SUFFICES ASSUME IInv, [Next]_vars PROVE RecordInv'
  OBVIOUS
<1>1. TypeOK /\ DrillInv /\ RecordInv
  BY DEF IInv
<1>2. /\ drill \in DrillState /\ drills \in Seq(DrillState) /\ violations \in Nat
      /\ seq \in Nat /\ Segments \in Nat
  BY <1>1 DEF TypeOK
<1>3. \A d : Alarmed(d) => Alarmed(d)'
  BY LossStays DEF Alarmed
\* A step that records nothing and does not end a segment.
<1>4. ASSUME UNCHANGED <<drills, seq, stopped>>, violations' = 0 => violations = 0,
             pc = "wait" <=> pc' = "wait",
             pc' \in {"finish", "stop", "written"} => pc \in {"finish", "stop", "written"}
      PROVE  RecordInv'
  <2>1. Recorded' = Recorded
    BY <1>4 DEF Recorded
  <2>2. QED
    BY <1>1, <1>3, <1>4, <2>1 DEF RecordInv
<1>5. CASE WriterStep \/ Recover \/ PusherStarts \/ Dies \/ Reap \/ BenchExits \/ Tick \/ UNCHANGED vars
  <2>1. UNCHANGED <<drills, seq, stopped, violations, pc>>
    BY <1>5, Zenon DEF WriterStep, WriterDials, WriterSends, DbInserts, WriterAnswered,
       WriterAcks, WriterFails, Recover, PusherStarts, Dies, Reap, BenchExits, Tick, vars, mainVars
  <2>2. QED
    BY <1>4, <2>1
<1>6. CASE BootOK \/ BootFails \/ Die \/ StartSegment \/ KillPusher \/ KillPostmaster \/ KillNode
           \/ StartReplacement \/ Probe \/ StartVerify \/ Finish \/ WriteResult
  <2>1. UNCHANGED <<drills, seq, stopped, violations>>
    BY <1>6, Zenon DEF BootOK, BootFails, Die, StartSegment, KillPusher, KillPostmaster, KillNode,
       Landed, CannotKill, StartReplacement, Probe, StartVerify, Finish, WriteResult
  <2>2. /\ pc # "wait" /\ pc' # "wait"
        /\ pc' \in {"finish", "stop", "written"} => pc \in {"finish", "stop", "written"}
    BY <1>6 DEF BootOK, BootFails, Die, StartSegment, KillPusher, KillPostmaster, KillNode,
       Landed, CannotKill, StartReplacement, Probe, StartVerify, Finish, WriteResult
  <2>3. QED
    BY <1>4, <2>1, <2>2
<1>7. CASE StartDrill
  <2>1. drill.mode \in {"pusher", "crash", "death"}
    BY <1>2 DEF DrillState
  <2>2. /\ UNCHANGED <<drills, seq, stopped, violations>>
        /\ pc = "drill" /\ pc' \in {"lookup", "postmaster", "kill"}
    BY <1>7, <2>1 DEF StartDrill
  <2>3. QED
    BY <1>4, <2>2
<1>8. CASE VerifyLedger \/ VerifyBalance
  <2>1. UNCHANGED <<drills, seq, stopped>> /\ pc \in {"ledger", "balance"}
    BY <1>8 DEF VerifyLedger, VerifyBalance
  <2>2. pc' \in {"ledger", "balance", "record"}
    BY <1>1, <1>8, ChecksType
  <2>3. violations' = violations \/ violations' = violations + 1
    BY <1>8, Zenon DEF VerifyLedger, VerifyBalance, LedgerIs, BalanceIs
  <2>4. violations' = 0 => violations = 0
    BY <1>2, <2>3
  <2>5. QED
    BY <1>4, <2>1, <2>2, <2>4
<1>9. CASE RecordDrill
  <2>1. /\ pc = "record" /\ pc' = "wait" /\ drills' = Append(drills, drill)
        /\ UNCHANGED <<seq, violations, stopped>>
    BY <1>9 DEF RecordDrill
  <2>2. Recorded' = Recorded \union {drill} /\ Len(drills') = Len(drills) + 1
    BY <1>2, <2>1, RangeOfSequence DEF Recorded
  <2>3. /\ Alarmed(drill) /\ Timed(drill) /\ (drill.ledger => drill.missing = {})
        /\ violations = 0 => Clean(drill)
    BY <1>1, <2>1 DEF DrillInv
  <2>4. Len(drills) = seq
    BY <1>1, <2>1 DEF RecordInv
  <2>5. \A d \in Recorded' : Alarmed(d)' /\ Timed(d) /\ (d.ledger => d.missing = {})
    BY <1>1, <1>3, <2>2, <2>3 DEF RecordInv
  <2>6. violations' = 0 => \A d \in Recorded' : Clean(d)
    BY <1>1, <2>1, <2>2, <2>3 DEF RecordInv
  <2>7. QED
    BY <2>1, <2>2, <2>4, <2>5, <2>6 DEF RecordInv
<1>10. CASE EndSegment
  <2>1. /\ pc = "wait" /\ pc' \in {"finish", "segment"} /\ seq' = seq + 1
        /\ UNCHANGED <<drills, violations>>
        /\ pc' = "finish" => stopped' \/ seq' = Segments
    BY <1>10 DEF EndSegment
  <2>2. Len(drills) = seq + 1
    BY <1>1, <2>1 DEF RecordInv
  <2>3. Recorded' = Recorded
    BY <2>1 DEF Recorded
  <2>4. QED
    BY <1>1, <1>3, <2>1, <2>2, <2>3 DEF RecordInv
<1>11. QED
  BY <1>5, <1>6, <1>7, <1>8, <1>9, <1>10 DEF Next, MainStep

LEMMA Invariance == Spec => []IInv
<1>1. IInv /\ [Next]_vars => IInv'
  BY NextType, NextNode, NextLedger, NextChunks, NextDrill, NextRecord DEF IInv
<1>2. QED
  BY InitInv, <1>1, PTL DEF Spec

-----------------------------------------------------------------------------

\* Every variable of the soak keeps its type, however the drills go.
THEOREM TypeCorrect == Spec => []TypeOK
<1>1. IInv => TypeOK
  BY DEF IInv
<1>2. QED
  BY Invariance, <1>1, PTL

\* A drill that reports a broken ledger is about an acknowledged write the
\* store has lost, and one that reports a broken balance is about a store
\* that did not replay exactly, for every chunk size, every interleaving of
\* the ledger writer with the check, and every number of kills.
THEOREM AlarmsAreTrue == Spec => []NoFalseAlarm
<1>1. IInv => NoFalseAlarm
  BY DEF IInv, RecordInv, Alarmed, NoFalseAlarm
<1>2. QED
  BY Invariance, <1>1, PTL

\* A drill that reports an intact ledger missed no write that had been
\* recorded when its check began, however the ids fall into chunks.
THEOREM LossesAreReported == Spec => []LossReported
<1>1. IInv => LossReported
  BY DEF IInv, RecordInv, LossReported
<1>2. QED
  BY Invariance, <1>1, PTL

\* A published recovery time belongs to a kill that landed and is not
\* shorter than the time the kill took to land.
THEOREM RtoIsRecovery == Spec => []RtoMeansRecovery
<1>1. IInv => RtoMeansRecovery
  BY DEF IInv, RecordInv, Timed, RtoMeansRecovery
<1>2. QED
  BY Invariance, <1>1, PTL

\* The harness never runs two nodes over one store, and leaves none behind
\* when it exits, through any of its exits.
THEOREM AtMostOneNode == Spec => []OneNode
<1>1. IInv => OneNode
  <2> SUFFICES ASSUME IInv PROVE OneNode
    OBVIOUS
  <2>1. alive \subseteq {node} /\ (pc \in Over => alive = {})
    BY DEF IInv, NodeInv
  <2>2. IsFiniteSet({node}) /\ Cardinality({node}) = 1
    BY FS_Singleton
  <2>3. alive \in SUBSET {node}
    BY <2>1
  <2>4. Cardinality(alive) <= 1
    BY <2>2, <2>3, FS_Subset
  <2>5. QED
    BY <2>1, <2>4 DEF OneNode
<1>2. QED
  BY Invariance, <1>1, PTL

\* A result without violations is that of a soak that ran every segment or
\* says it stopped early, every drill of which could be checked and found
\* nothing.
THEOREM CleanMeansClean == Spec => []CleanSoak
<1>1. IInv => CleanSoak
  BY DEF IInv, RecordInv, Clean, CleanSoak
<1>2. QED
  BY Invariance, <1>1, PTL
=============================================================================

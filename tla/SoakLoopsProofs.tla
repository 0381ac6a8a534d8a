-------------------------- MODULE SoakLoopsProofs --------------------------
(***************************************************************************)
(* What SoakLoops promises holds for any number of segments, any scenario, *)
(* whatever compact, gc and fold print and whatever the disk does.         *)
(***************************************************************************)
EXTENDS SoakLoops, SumsProofs, SequenceTheorems

-----------------------------------------------------------------------------
(* The inductive invariant, in parts.                                      *)

Samples == [phase : 1..Segments, swept : BOOLEAN,
            amp : {Worst(s) : s \in Statuses}, over : BOOLEAN]
Errors == [error : {TRUE}]
Moves == [error : {FALSE}, retired : Nat, after : Nat]
Sweeps == [deleted : Nat]
Swept == [swept : BOOLEAN]
Gots == {NoSample} \cup Swept \cup Samples \cup Sweeps \cup Errors \cup Moves
LoopPlaces == {"off", "wait", "run", "status", "amp", "over", "note"}
MainPlaces == {"load", "start", "segment", "record", "overs", "folds", "sweeps", "marshal",
               "save"}
Cuts == [retired : Nat, deleted : Nat, untoldRetired : Nat, untoldDeleted : Nat]
Results == [held : {"absent", "yes", "no"}, retired : Nat \cup {None}, failures : Nat,
            after : Nat \cup {None}, deleted : Nat \cup {None}]

MainTypes ==
  /\ sc \in Scenarios /\ pc \in MainPlaces /\ seq \in Phases /\ stop \subseteq Phases
  /\ result \in Results /\ ticks \in Nat /\ ticks <= sc.maxTicks

DataTypes ==
  /\ amps \in [1..Segments -> Seq(Samples)] /\ segments \in Seq(Seq(Samples))
  /\ overs \in Seq(Samples) /\ judged \in Seq(Samples)
  /\ folds \in Seq(Errors \cup Moves) /\ sweeps \in Seq(Sweeps)
  /\ cut \in Cuts

States == [pc : LoopPlaces, got : Gots]
LoopTypes == loop \in [Loops -> States]

\* What a loop holds is what its kind and its place say.
Fits(l, v) ==
  /\ v.pc = "status" => l.kind = "compact" /\ v.got \in Swept
  /\ v.pc \in {"amp", "over"} =>
       /\ l.kind = "compact" /\ l.phase \in 1..Segments
       /\ v.got \in Samples /\ v.got.phase = l.phase
  /\ v.pc = "note" =>
       \/ l.kind = "gc" /\ v.got \in Sweeps
       \/ l.kind = "fold" /\ v.got \in Errors \cup Moves
  /\ l.kind = "compact" /\ l.phase = 0 => v.pc = "off"

\* A segment that has not begun has no loop.
Begun(l) == ~(l.phase > seq) /\ ~(l.phase = seq /\ pc = "start")

LoopInv(l) == Fits(l, loop[l]) /\ (loop[l].pc # "off" => Begun(l))

Compactor(g) == [kind |-> "compact", phase |-> g]
Flags(s, g) == Cardinality(Of(s, g, Len(s)))

\* A segment's timeline is one ahead of its flags between the two halves of
\* record, and level with them otherwise.
TimelineInv(g) ==
  /\ loop[Compactor(g)].pc = "over" =>
       Len(amps[g]) = Flags(overs, g) + 1 /\ loop[Compactor(g)].got = amps[g][Len(amps[g])]
  /\ loop[Compactor(g)].pc # "over" => Len(amps[g]) = Flags(overs, g)

FlagIsSample(i) ==
  LET own == amps[overs[i].phase]
      k   == Cardinality(Of(overs, overs[i].phase, i))
  IN  k <= Len(own) /\ overs[i] = own[k]

SegmentInv(g) ==
  g <= Len(segments) =>
    /\ IsPrefix(segments[g], amps[g])
    /\ pc \in {"folds", "sweeps", "marshal"} => Len(segments[g]) <= Flags(judged, g) + 1

SeqInv ==
  /\ Len(segments) <= Segments
  /\ pc = "load" => seq = 0 /\ Len(segments) = 0
  /\ pc \in {"start", "segment", "record"} =>
       /\ seq \in 1..Segments
       /\ Running => Len(segments) = seq - 1

\* Every layer and object that is gone is in a list, in a loop's hand, or
\* was told by nobody.
CutInv ==
  /\ Total(folds, Told) + Held("fold", Told) + cut.untoldRetired = cut.retired
  /\ Total(sweeps, Deleted) + Held("gc", Deleted) + cut.untoldDeleted = cut.deleted

ResultInv ==
  /\ pc \notin {"marshal", "save"} => result.deleted = None
  /\ pc \notin {"sweeps", "marshal", "save"} => result.retired = None /\ result.failures = 0

IInv ==
  /\ MainTypes /\ DataTypes /\ LoopTypes
  /\ \A l \in Loops : LoopInv(l)
  /\ \A g \in 1..Segments : TimelineInv(g)
  /\ \A i \in DOMAIN overs : FlagIsSample(i)
  /\ \A g \in 1..Segments : SegmentInv(g)
  /\ SeqInv /\ CutInv /\ ResultInv

\* Until the document has a place it is in none, and writeResult leaves only
\* once it has one or has been printed.
SaveInv ==
  /\ SaveTypeOK
  /\ save.pc # "leave" => ~told /\ \A d \in Dirs : file[d] = "absent"
  /\ save.pc = "rename" => part[save.dir] = "whole"
  /\ save.pc = "leave" => told \/ \E d \in Dirs : file[d] = "whole"

-----------------------------------------------------------------------------
(* The result file.                                                        *)

\* What a step of the soak is to the document: a step of writeResult, its
\* beginning, the end of the process, or nothing.
SaveMove == SaveStep \/ BeginSave \/ DieEarly \/ Killed

LEMMA StepSaves == [Next]_vars => SaveMove \/ UNCHANGED saveVars
<1>1. ASSUME NEW l \in Loops, LoopStep(l) PROVE UNCHANGED saveVars
  BY <1>1, Zenon DEF LoopStep, Stopped, Tick, Sweep, Status, NoteAmp, NoteOver, Collect,
       NoteSweep, FoldRuns, NoteFold
<1>2. ASSUME Main PROVE SaveMove \/ UNCHANGED saveVars
  BY <1>2, Zenon DEF Main, LoadDone, LoadFails, StartSegment, StopTick, RecordSegment,
       ReadOvers, ReadFolds, ReadSweeps, Marshal, Save, SaveMove
<1>3. Kill => SaveMove
  BY Zenon DEF Kill, SaveMove
<1>4. UNCHANGED vars => UNCHANGED saveVars
  BY Zenon DEF vars
<1> QED BY <1>1, <1>2, <1>3, <1>4, Zenon DEF Next

LEMMA SaveInitially == Init => SaveInv
<1> SUFFICES ASSUME SaveInit PROVE SaveInv
  BY Zenon DEF Init
<1>1. told \in BOOLEAN /\ ~told
  BY Zenon DEF SaveInit
<1> QED BY <1>1 DEF SaveInit, SaveInv, SaveTypeOK, Dirs, Contents

LEMMA SaveKept == SaveInv /\ (SaveMove \/ UNCHANGED saveVars) => SaveInv'
<1> SUFFICES ASSUME SaveInv, SaveMove \/ UNCHANGED saveVars PROVE SaveInv'
  OBVIOUS
<1> USE DEF SaveInv, SaveTypeOK, Dirs, Contents, SaveAt, Goto, Fallback, RemovePart
<1>1. CASE UNCHANGED saveVars
  BY <1>1 DEF saveVars
<1>2. CASE BeginSave
  BY <1>2 DEF BeginSave
<1>3. CASE MakeDir
  BY <1>3 DEF MakeDir
<1>4. CASE CreatePart
  BY <1>4 DEF CreatePart
<1>5. CASE WritePart
  BY <1>5 DEF WritePart
<1>6. CASE RenamePart
  BY <1>6 DEF RenamePart
<1>7. CASE PrintResult
  BY <1>7 DEF PrintResult
<1>8. CASE Leave
  BY <1>8 DEF Leave
<1>9. CASE DieEarly \/ Killed
  BY <1>9 DEF DieEarly, Killed
<1> QED BY <1>1, <1>2, <1>3, <1>4, <1>5, <1>6, <1>7, <1>8, <1>9 DEF SaveMove, SaveStep

LEMMA SaveRefines ==
  SaveInv /\ (SaveMove \/ UNCHANGED saveVars) => [Promise!Next]_(Promise!vars)
<1> SUFFICES ASSUME SaveInv, SaveMove \/ UNCHANGED saveVars
             PROVE  Promise!Next \/ UNCHANGED <<file, told, exit>>
  BY DEF Promise!vars
<1> USE DEF SaveInv, SaveTypeOK, Dirs, Contents, SaveAt, Goto, Fallback
<1>1. CASE UNCHANGED saveVars
  BY <1>1 DEF saveVars
<1>2. CASE BeginSave \/ MakeDir \/ CreatePart \/ WritePart
  BY <1>2 DEF BeginSave, MakeDir, CreatePart, WritePart
<1>3. CASE RenamePart
  <2>1. CASE UNCHANGED file
    BY <1>3, <2>1 DEF RenamePart
  <2>2. CASE file' = [file EXCEPT ![save.dir] = part[save.dir]]
    <3>1. Promise!Publish(save.dir)
      BY <1>3, <2>2 DEF RenamePart, Promise!Publish, Promise!Published
    <3> QED BY <3>1 DEF Promise!Next
  <2> QED BY <1>3, <2>1, <2>2 DEF RenamePart
<1>4. CASE PrintResult
  <2>1. Promise!Tell
    BY <1>4 DEF PrintResult, Promise!Tell, Promise!Published
  <2> QED BY <2>1 DEF Promise!Next
<1>5. CASE Leave \/ DieEarly \/ Killed
  <2>1. Promise!Leave
    BY <1>5 DEF Leave, DieEarly, Killed, Promise!Leave, Promise!Published
  <2> QED BY <2>1 DEF Promise!Next
<1> QED BY <1>1, <1>2, <1>3, <1>4, <1>5 DEF SaveMove, SaveStep

\* A soak implements what saving a result promises (ResultPublished): one
\* whole document appears in one step under the result's name, or it is
\* printed, and the exit code says which, whatever call on the disk fails,
\* whatever the loops do meanwhile and wherever the process is killed
\* (writeResult, writeFileAtomic, dieDown).
THEOREM SavesCorrect == Spec => SavesAtomically
<1>1. Init => Promise!Init
  BY Zenon DEF Init, SaveInit, Promise!Init
<1>2. Init => SaveInv
  BY SaveInitially
<1>3. SaveInv /\ [Next]_vars => SaveInv'
  BY SaveKept, StepSaves
<1>4. SaveInv /\ [Next]_vars => [Promise!Next]_(Promise!vars)
  BY SaveRefines, StepSaves
<1> QED BY <1>1, <1>2, <1>3, <1>4, PTL DEF Spec, SavesAtomically, Promise!Spec

-----------------------------------------------------------------------------
(* The lists: what an entry more does to what is read off them.            *)

LEMMA FlagsAppend ==
  ASSUME NEW s \in Seq(Samples), NEW e \in Samples, NEW g
  PROVE  /\ Flags(s, g) \in Nat
         /\ e.phase = g => Flags(Append(s, e), g) = Flags(s, g) + 1
         /\ e.phase # g => Flags(Append(s, e), g) = Flags(s, g)
         /\ \A i \in 1..Len(s) : Of(Append(s, e), g, i) = Of(s, g, i)
<1> DEFINE n == Len(s)
           t == Append(s, e)
<1>1. n \in Nat /\ Len(t) = n + 1 /\ t[n + 1] = e /\ \A i \in 1..n : t[i] = s[i]
  BY AppendProperties
<1>2. IsFiniteSet(Of(s, g, n)) /\ Cardinality(Of(s, g, n)) \in Nat
  <2>1. IsFiniteSet(1..n)
    BY <1>1, FS_Interval
  <2>2. Of(s, g, n) \in SUBSET (1..n)
    BY DEF Of
  <2> QED BY <2>1, <2>2, FS_Subset, FS_CardinalityType
<1>3. ASSUME e.phase = g PROVE Of(t, g, n + 1) = Of(s, g, n) \cup {n + 1}
  <2> HIDE DEF n, t
  <2> QED BY <1>1, <1>3 DEF Of
<1>4. ASSUME e.phase # g PROVE Of(t, g, n + 1) = Of(s, g, n)
  <2> HIDE DEF n, t
  <2> QED BY <1>1, <1>4 DEF Of
<1>5. n + 1 \notin Of(s, g, n)
  BY <1>1 DEF Of
<1>6. ASSUME NEW i \in 1..n PROVE Of(t, g, i) = Of(s, g, i)
  <2> HIDE DEF n, t
  <2> QED BY <1>1 DEF Of
<1>7. Cardinality(Of(s, g, n) \cup {n + 1}) = Cardinality(Of(s, g, n)) + 1
  BY <1>2, <1>5, FS_AddElement
<1>8. Flags(s, g) = Cardinality(Of(s, g, n)) /\ Flags(t, g) = Cardinality(Of(t, g, n + 1))
  BY <1>1 DEF Flags
<1> HIDE DEF n, t
<1>9. e.phase = g => Flags(t, g) = Flags(s, g) + 1
  BY <1>3, <1>7, <1>8
<1>10. e.phase # g => Flags(t, g) = Flags(s, g)
  BY <1>4, <1>8
<1> QED BY <1>2, <1>6, <1>8, <1>9, <1>10 DEF n, t

LEMMA FlagsOfNone == \A g : Flags(<<>>, g) = 0
<1> SUFFICES ASSUME NEW g PROVE Flags(<<>>, g) = 0
  OBVIOUS
<1>1. Of(<<>>, g, Len(<<>>)) = {}
  BY DEF Of
<1> QED BY <1>1, FS_EmptySet, Zenon DEF Flags

LEMMA FlagsNat == ASSUME NEW s \in Seq(Samples), NEW g PROVE Flags(s, g) \in Nat
<1>1. Len(s) \in Nat /\ IsFiniteSet(1..Len(s))
  BY FS_Interval
<1>2. Of(s, g, Len(s)) \in SUBSET (1..Len(s))
  BY DEF Of
<1> QED BY <1>1, <1>2, FS_Subset, FS_CardinalityType DEF Flags

LEMMA PrefixAppend ==
  ASSUME NEW s \in Seq(Samples), NEW t \in Seq(Samples), NEW e \in Samples
  PROVE  /\ IsPrefix(s, s)
         /\ IsPrefix(s, t) => IsPrefix(s, Append(t, e)) /\ Len(s) <= Len(t)
<1>1. IsPrefix(s, s)
  BY DEF IsPrefix
<1>2. ASSUME IsPrefix(s, t) PROVE IsPrefix(s, Append(t, e)) /\ Len(s) <= Len(t)
  <2> DEFINE u == Append(t, e)
  <2>1. Len(s) \in Nat /\ Len(t) \in Nat /\ Len(s) <= Len(t)
    BY <1>2 DEF IsPrefix
  <2>2. Len(u) = Len(t) + 1 /\ \A i \in 1..Len(t) : u[i] = t[i] /\ t[i] \in Samples
    BY AppendProperties
  <2> HIDE DEF u
  <2>3. /\ SubSeq(t, 1, Len(s)) \in Seq(Samples) /\ Len(SubSeq(t, 1, Len(s))) = Len(s)
        /\ \A i \in 1..Len(s) : SubSeq(t, 1, Len(s))[i] = t[i]
    <3>1. \A i \in 1..Len(s) : t[i] \in Samples
      BY <2>1, <2>2
    <3> QED BY <2>1, <3>1, SubSeqProperties
  <2>4. /\ SubSeq(u, 1, Len(s)) \in Seq(Samples) /\ Len(SubSeq(u, 1, Len(s))) = Len(s)
        /\ \A i \in 1..Len(s) : SubSeq(u, 1, Len(s))[i] = u[i]
    <3>1. \A i \in 1..Len(s) : u[i] \in Samples
      BY <2>1, <2>2
    <3> QED BY <2>1, <3>1, SubSeqProperties
  <2>5. \A i \in 1..Len(s) : SubSeq(u, 1, Len(s))[i] = SubSeq(t, 1, Len(s))[i]
    BY <2>1, <2>2, <2>3, <2>4
  <2>6. SubSeq(u, 1, Len(s)) = SubSeq(t, 1, Len(s))
    BY <2>1, <2>3, <2>4, <2>5, SeqEqual
  <2> QED BY <1>2, <2>1, <2>2, <2>6 DEF IsPrefix, u
<1> QED BY <1>1, <1>2

LEMMA TotalOfNone == Total(<<>>, Told) = 0 /\ Total(<<>>, Deleted) = 0
<1>1. /\ [i \in DOMAIN <<>> |-> Told(<<>>[i])] = <<>>
      /\ [i \in DOMAIN <<>> |-> Deleted(<<>>[i])] = <<>>
  OBVIOUS
<1>2. SumFunction(<<>>) = 0
  <2>1. <<>> \in Seq(Int) /\ 0 \in Int
    OBVIOUS
  <2> QED BY <2>1, SumAppend
<1> QED BY <1>1, <1>2 DEF Total

\* One number more on a list of counts.
OneMore(h, f, n, v) ==
  /\ f \in [1..n -> Nat] /\ h \in [1..(n + 1) -> Nat]
  /\ \A i \in 1..n : h[i] = f[i]
  /\ h[n + 1] = v

LEMMA ColumnAppend ==
  ASSUME NEW n \in Nat, NEW v \in Nat, NEW f, NEW h, OneMore(h, f, n, v)
  PROVE  SumFunction(f) \in Nat /\ SumFunction(h) = SumFunction(f) + v
<1> USE DEF OneMore
<1>1. IsFiniteSet(1..n) /\ IsFiniteSet(1..(n + 1))
  BY FS_Interval
<1>2. SumFunctionOnSet(f, 1..n) \in Nat
  <2>1. \A i \in 1..n : f[i] \in Nat
    OBVIOUS
  <2> QED BY <1>1, <2>1, SumNat
<1>3. SumFunctionOnSet(h, 1..(n + 1)) = h[n + 1] + SumFunctionOnSet(h, (1..(n + 1)) \ {n + 1})
  <2>1. n + 1 \in 1..(n + 1) /\ \A i \in 1..(n + 1) : h[i] \in Int
    OBVIOUS
  <2> QED BY <1>1, <2>1, SumTake
<1>4. (1..(n + 1)) \ {n + 1} = 1..n
  OBVIOUS
<1>5. SumFunctionOnSet(h, 1..n) = SumFunctionOnSet(f, 1..n)
  BY <1>1, SumSame
<1>6. DOMAIN f = 1..n /\ DOMAIN h = 1..(n + 1)
  OBVIOUS
<1>7. /\ SumFunction(f) = SumFunctionOnSet(f, 1..n)
      /\ SumFunction(h) = SumFunctionOnSet(h, 1..(n + 1))
  BY <1>6, Zenon DEF SumFunction
<1>8. SumFunctionOnSet(h, 1..(n + 1)) = v + SumFunctionOnSet(f, 1..n)
  BY <1>3, <1>4, <1>5, Zenon
<1> QED BY <1>2, <1>7, <1>8

LEMMA FoldsAppend ==
  ASSUME NEW s \in Seq(Errors \cup Moves), NEW e \in Errors \cup Moves
  PROVE  /\ Total(s, Told) \in Nat /\ Told(e) \in Nat
         /\ Total(Append(s, e), Told) = Total(s, Told) + Told(e)
         /\ Cardinality(Failed(s)) \in Nat
         /\ Cardinality(Failed(s)) <= Cardinality(Failed(Append(s, e)))
<1> DEFINE t == Append(s, e)
           f == [i \in DOMAIN s |-> Told(s[i])]
           h == [i \in DOMAIN t |-> Told(t[i])]
<1>1. \A x \in Errors \cup Moves : Told(x) \in Nat
  BY DEF Told, Errors, Moves
<1>2. /\ Len(s) \in Nat /\ DOMAIN s = 1..Len(s) /\ DOMAIN t = 1..(Len(s) + 1)
      /\ \A i \in 1..Len(s) : t[i] = s[i] /\ s[i] \in Errors \cup Moves
      /\ t[Len(s) + 1] = e
  BY AppendProperties
<1> HIDE DEF t
<1>3. /\ f \in [1..Len(s) -> Nat] /\ h \in [1..(Len(s) + 1) -> Nat]
      /\ \A i \in 1..Len(s) : h[i] = f[i]
      /\ h[Len(s) + 1] = Told(e)
  BY <1>1, <1>2
<1>4. Total(s, Told) = SumFunction(f) /\ Total(t, Told) = SumFunction(h)
  BY Zenon DEF Total
<1> HIDE DEF f, h
<1>5. Total(s, Told) \in Nat /\ Total(t, Told) = Total(s, Told) + Told(e)
  <2>1. Len(s) \in Nat /\ Told(e) \in Nat
    BY <1>1, <1>2
  <2>2. OneMore(h, f, Len(s), Told(e))
    BY <1>3, Zenon DEF OneMore
  <2>3. SumFunction(f) \in Nat /\ SumFunction(h) = SumFunction(f) + Told(e)
    BY <2>1, <2>2, ColumnAppend, Zenon
  <2> QED BY <1>4, <2>3
<1>6. Failed(s) \in SUBSET Failed(t) /\ Failed(t) \in SUBSET (1..(Len(s) + 1))
  BY <1>2 DEF Failed
<1>7. IsFiniteSet(1..(Len(s) + 1))
  BY <1>2, FS_Interval
<1>8. IsFiniteSet(Failed(t))
  BY <1>6, <1>7, FS_Subset
<1>9. IsFiniteSet(Failed(s)) /\ Cardinality(Failed(s)) <= Cardinality(Failed(t))
  BY <1>6, <1>8, FS_Subset
<1> QED BY <1>1, <1>5, <1>9, FS_CardinalityType DEF t

LEMMA SweepsAppend ==
  ASSUME NEW s \in Seq(Sweeps), NEW e \in Sweeps
  PROVE  /\ Total(s, Deleted) \in Nat /\ Deleted(e) \in Nat
         /\ Total(Append(s, e), Deleted) = Total(s, Deleted) + Deleted(e)
<1> DEFINE t == Append(s, e)
           f == [i \in DOMAIN s |-> Deleted(s[i])]
           h == [i \in DOMAIN t |-> Deleted(t[i])]
<1>1. \A x \in Sweeps : Deleted(x) \in Nat
  BY DEF Deleted, Sweeps
<1>2. /\ Len(s) \in Nat /\ DOMAIN s = 1..Len(s) /\ DOMAIN t = 1..(Len(s) + 1)
      /\ \A i \in 1..Len(s) : t[i] = s[i] /\ s[i] \in Sweeps
      /\ t[Len(s) + 1] = e
  BY AppendProperties
<1> HIDE DEF t
<1>3. /\ f \in [1..Len(s) -> Nat] /\ h \in [1..(Len(s) + 1) -> Nat]
      /\ \A i \in 1..Len(s) : h[i] = f[i]
      /\ h[Len(s) + 1] = Deleted(e)
  BY <1>1, <1>2
<1>4. Total(s, Deleted) = SumFunction(f) /\ Total(t, Deleted) = SumFunction(h)
  BY Zenon DEF Total
<1> HIDE DEF f, h
<1>5. Total(s, Deleted) \in Nat /\ Total(t, Deleted) = Total(s, Deleted) + Deleted(e)
  <2>1. Len(s) \in Nat /\ Deleted(e) \in Nat
    BY <1>1, <1>2
  <2>2. OneMore(h, f, Len(s), Deleted(e))
    BY <1>3, Zenon DEF OneMore
  <2>3. SumFunction(f) \in Nat /\ SumFunction(h) = SumFunction(f) + Deleted(e)
    BY <2>1, <2>2, ColumnAppend, Zenon
  <2> QED BY <1>4, <2>3
<1> QED BY <1>1, <1>5 DEF t

\* FoldTotals adds up counts.
LEMMA ReportTotals == ASSUME NEW r \in Reports PROVE Retired(r) \in Nat /\ BytesAfter(r) \in Nat
<1> DEFINE f == [i \in DOMAIN r |-> r[i].retired]
           h == [i \in DOMAIN r |-> r[i].after]
<1>1. r \in Seq([retired : Nat, after : Nat])
  BY SoakLoopsAssumption
<1>2. Len(r) \in Nat /\ DOMAIN r = 1..Len(r)
      /\ \A i \in 1..Len(r) : r[i].retired \in Nat /\ r[i].after \in Nat
  <2>1. Len(r) \in Nat /\ DOMAIN r = 1..Len(r)
        /\ \A i \in 1..Len(r) : r[i] \in [retired : Nat, after : Nat]
    BY <1>1, ElementOfSeq, LenProperties
  <2>2. \A x \in [retired : Nat, after : Nat] : x.retired \in Nat /\ x.after \in Nat
    OBVIOUS
  <2> QED BY <2>1, <2>2
<1>3. DOMAIN f = 1..Len(r) /\ DOMAIN h = 1..Len(r)
      /\ \A i \in 1..Len(r) : f[i] \in Nat /\ h[i] \in Nat
  BY <1>2
<1>4. Retired(r) = SumFunction(f) /\ BytesAfter(r) = SumFunction(h)
  BY Zenon DEF Retired, BytesAfter, Total
<1> HIDE DEF f, h
<1>5. IsFiniteSet(1..Len(r))
  BY <1>2, FS_Interval
<1>6. SumFunctionOnSet(f, 1..Len(r)) \in Nat /\ SumFunctionOnSet(h, 1..Len(r)) \in Nat
  BY <1>3, <1>5, SumNat
<1> QED BY <1>3, <1>4, <1>6 DEF SumFunction

\* The latest of some places in a list is one of them.
LEMMA MaxIn ==
  ASSUME NEW n \in Nat, NEW S \in SUBSET (1..n), S # {}
  PROVE  Max(S) \in S
<1> DEFINE R == {k \in 0..n : n - k \in S}
<1>1. R \in SUBSET Nat /\ R # {}
  <2>1. PICK x \in S : TRUE
    OBVIOUS
  <2>2. x \in 1..n /\ n - x \in 0..n /\ n - (n - x) = x
    BY <2>1
  <2>3. n - x \in R
    BY <2>1, <2>2
  <2>4. \A k \in 0..n : k \in Nat
    OBVIOUS
  <2> QED BY <2>3, <2>4
<1>2. PICK m \in R : \A y \in R : m <= y
  BY <1>1, LeastNumber
<1>3. n - m \in S
  BY <1>2
<1>4. ASSUME NEW y \in S PROVE n - m >= y
  <2>1. y \in 1..n /\ n - y \in 0..n /\ n - (n - y) = y
    OBVIOUS
  <2>2. n - y \in R
    BY <2>1
  <2>3. m \in 0..n /\ m <= n - y
    BY <1>2, <2>2
  <2> HIDE DEF R
  <2> QED BY <2>1, <2>3
<1> QED BY <1>3, <1>4 DEF Max

-----------------------------------------------------------------------------
(* What the loops hold.                                                    *)

LEMMA LoopsFinite == IsFiniteSet(Loops)
<1> DEFINE f == [x \in Kinds \X Phases |-> [kind |-> x[1], phase |-> x[2]]]
<1>1. IsFiniteSet(Phases)
  BY SoakLoopsAssumption, FS_Interval DEF Phases
<1>2. IsFiniteSet(Kinds)
  <2>1. Kinds = (({} \cup {"compact"}) \cup {"gc"}) \cup {"fold"}
    BY DEF Kinds
  <2> QED BY <2>1, FS_EmptySet, FS_AddElement
<1>3. IsFiniteSet(Kinds \X Phases)
  BY <1>1, <1>2, FS_Product
<1>4. f \in Surjection(Kinds \X Phases, Loops)
  <2>1. f \in [Kinds \X Phases -> Loops]
    BY DEF Loops
  <2>2. ASSUME NEW l \in Loops PROVE \E x \in Kinds \X Phases : f[x] = l
    <3>1. <<l.kind, l.phase>> \in Kinds \X Phases
      BY DEF Loops
    <3>2. f[<<l.kind, l.phase>>] = l
      BY <3>1 DEF Loops
    <3> QED BY <3>1, <3>2
  <2> QED BY <2>1, <2>2 DEF Surjection
<1> QED BY <1>3, <1>4, FS_Surjection

\* One of the loops comes to hold something, or lets go of it.
HeldRetired(w) == [l \in Loops |-> IF l.kind = "fold" /\ w[l].pc = "note" THEN Told(w[l].got) ELSE 0]
HeldDeleted(w) == [l \in Loops |-> IF l.kind = "gc" /\ w[l].pc = "note" THEN Deleted(w[l].got) ELSE 0]

LEMMA HeldMoves ==
  ASSUME NEW f, NEW h, NEW c \in Loops,
         \A l \in Loops : f[l] \in Nat /\ h[l] \in Nat,
         \A l \in Loops \ {c} : h[l] = f[l]
  PROVE  /\ SumFunctionOnSet(f, Loops) \in Nat
         /\ SumFunctionOnSet(h, Loops) = SumFunctionOnSet(f, Loops) + (h[c] - f[c])
<1>1. SumFunctionOnSet(f, Loops) \in Nat
  BY LoopsFinite, SumNat
<1>2. \A l \in Loops : f[l] \in Int /\ h[l] \in Int
  OBVIOUS
<1> QED BY <1>1, <1>2, LoopsFinite, SumChange

LEMMA HeldIs ==
  /\ Held("fold", Told) = SumFunctionOnSet(HeldRetired(loop), Loops)
  /\ Held("gc", Deleted) = SumFunctionOnSet(HeldDeleted(loop), Loops)
  /\ Held("fold", Told)' = SumFunctionOnSet(HeldRetired(loop'), Loops)
  /\ Held("gc", Deleted)' = SumFunctionOnSet(HeldDeleted(loop'), Loops)
<1>1. \A w : DOMAIN HeldRetired(w) = Loops /\ DOMAIN HeldDeleted(w) = Loops
  BY DEF HeldRetired, HeldDeleted
<1>2. /\ Held("fold", Told) = SumFunction(HeldRetired(loop))
      /\ Held("gc", Deleted) = SumFunction(HeldDeleted(loop))
      /\ Held("fold", Told)' = SumFunction(HeldRetired(loop'))
      /\ Held("gc", Deleted)' = SumFunction(HeldDeleted(loop'))
  BY Zenon DEF Held, HeldRetired, HeldDeleted
<1> QED BY <1>1, <1>2, Zenon DEF SumFunction

LEMMA HeldNat ==
  ASSUME NEW w, \A l \in Loops : Fits(l, w[l])
  PROVE  \A l \in Loops : HeldRetired(w)[l] \in Nat /\ HeldDeleted(w)[l] \in Nat
<1> SUFFICES ASSUME NEW l \in Loops
             PROVE  HeldRetired(w)[l] \in Nat /\ HeldDeleted(w)[l] \in Nat
  OBVIOUS
<1>1. \A x \in Errors \cup Moves : Told(x) \in Nat
  BY DEF Told, Errors, Moves
<1>2. \A x \in Sweeps : Deleted(x) \in Nat
  BY DEF Deleted, Sweeps
<1>3. l.kind = "fold" /\ w[l].pc = "note" => Told(w[l].got) \in Nat
  BY <1>1 DEF Fits
<1>4. l.kind = "gc" /\ w[l].pc = "note" => Deleted(w[l].got) \in Nat
  BY <1>2 DEF Fits
<1> QED BY <1>3, <1>4 DEF HeldRetired, HeldDeleted

\* What every step of a loop has in common: it moves that loop alone, to a
\* place that fits.
LoopMove(l, v) ==
  /\ l \in Loops /\ v \in States /\ Fits(l, v) /\ loop[l].pc # "off"
  /\ loop' = [loop EXCEPT ![l] = v]
  /\ UNCHANGED mainVars /\ UNCHANGED exit

LEMMA MoveLoop ==
  ASSUME IInv, NEW l, NEW v, LoopMove(l, v)
  PROVE  /\ LoopTypes' /\ \A m \in Loops : LoopInv(m)'
         /\ loop'[l] = v /\ \A m \in Loops \ {l} : loop'[m] = loop[m]
<1> USE DEF LoopMove
<1>1. LoopTypes' /\ loop'[l] = v /\ \A m \in Loops \ {l} : loop'[m] = loop[m]
  BY DEF IInv, LoopTypes
<1>2. ASSUME NEW m \in Loops PROVE LoopInv(m)'
  <2>1. LoopInv(m) /\ LoopInv(l)
    BY DEF IInv
  <2>2. Begun(m)' = Begun(m) /\ Begun(l)
    BY <2>1 DEF Begun, mainVars, LoopInv
  <2>3. loop'[m] = loop[m] \/ (m = l /\ loop'[m] = v)
    BY <1>1
  <2>4. Fits(m, loop'[m])
    BY <2>1, <2>3 DEF LoopInv
  <2>5. loop'[m].pc # "off" => Begun(m)
    BY <2>1, <2>2, <2>3 DEF LoopInv
  <2>6. LoopInv(m)' <=> (Fits(m, loop'[m]) /\ (loop'[m].pc # "off" => Begun(m)'))
    BY Zenon DEF LoopInv, Fits
  <2> QED BY <2>2, <2>4, <2>5, <2>6
<1> QED BY <1>1, <1>2

LEMMA MoveHeld ==
  ASSUME IInv, NEW l, NEW v, LoopMove(l, v)
  PROVE  /\ Held("fold", Told) \in Nat /\ Held("gc", Deleted) \in Nat
         /\ Held("fold", Told)' =
              Held("fold", Told) + (HeldRetired(loop')[l] - HeldRetired(loop)[l])
         /\ Held("gc", Deleted)' =
              Held("gc", Deleted) + (HeldDeleted(loop')[l] - HeldDeleted(loop)[l])
         /\ HeldRetired(loop)[l] =
              IF l.kind = "fold" /\ loop[l].pc = "note" THEN Told(loop[l].got) ELSE 0
         /\ HeldDeleted(loop)[l] =
              IF l.kind = "gc" /\ loop[l].pc = "note" THEN Deleted(loop[l].got) ELSE 0
         /\ HeldRetired(loop')[l] = IF l.kind = "fold" /\ v.pc = "note" THEN Told(v.got) ELSE 0
         /\ HeldDeleted(loop')[l] = IF l.kind = "gc" /\ v.pc = "note" THEN Deleted(v.got) ELSE 0
<1> DEFINE R0 == HeldRetired(loop)
           R1 == HeldRetired(loop')
           D0 == HeldDeleted(loop)
           D1 == HeldDeleted(loop')
<1>1. /\ l \in Loops /\ loop'[l] = v
      /\ \A m \in Loops \ {l} : loop'[m] = loop[m]
  BY MoveLoop DEF LoopMove
<1>2. (\A m \in Loops : Fits(m, loop[m])) /\ (\A m \in Loops : Fits(m, loop'[m]))
  <2>1. \A m \in Loops : LoopInv(m)
    BY DEF IInv
  <2>2. \A m \in Loops : Fits(m, loop'[m])
    BY <1>1, <2>1 DEF LoopInv, LoopMove
  <2> QED BY <2>1, <2>2 DEF LoopInv
<1>3. /\ \A m \in Loops : R0[m] \in Nat /\ R1[m] \in Nat
      /\ \A m \in Loops : D0[m] \in Nat /\ D1[m] \in Nat
  BY <1>2, HeldNat
<1>4. \A m \in Loops \ {l} : R1[m] = R0[m] /\ D1[m] = D0[m]
  BY <1>1 DEF HeldRetired, HeldDeleted
<1>5. /\ R0[l] = IF l.kind = "fold" /\ loop[l].pc = "note" THEN Told(loop[l].got) ELSE 0
      /\ D0[l] = IF l.kind = "gc" /\ loop[l].pc = "note" THEN Deleted(loop[l].got) ELSE 0
      /\ R1[l] = IF l.kind = "fold" /\ v.pc = "note" THEN Told(v.got) ELSE 0
      /\ D1[l] = IF l.kind = "gc" /\ v.pc = "note" THEN Deleted(v.got) ELSE 0
  BY <1>1 DEF HeldRetired, HeldDeleted
<1> HIDE DEF R0, R1, D0, D1
<1>6. /\ SumFunctionOnSet(R0, Loops) \in Nat
      /\ SumFunctionOnSet(R1, Loops) = SumFunctionOnSet(R0, Loops) + (R1[l] - R0[l])
  BY <1>1, <1>3, <1>4, HeldMoves
<1>7. /\ SumFunctionOnSet(D0, Loops) \in Nat
      /\ SumFunctionOnSet(D1, Loops) = SumFunctionOnSet(D0, Loops) + (D1[l] - D0[l])
  BY <1>1, <1>3, <1>4, HeldMoves
<1> QED BY <1>5, <1>6, <1>7, HeldIs, Zenon DEF R0, R1, D0, D1

-----------------------------------------------------------------------------
(* What a step has to leave alone for a part of the invariant to hold on.  *)

\* The timelines and the flags: nobody enters or leaves the gap between the
\* two halves of record.
LEMMA SameTimelines ==
  ASSUME IInv, NEW l, NEW v, LoopMove(l, v), loop[l].pc # "over", v.pc # "over",
         UNCHANGED <<amps, overs>>
  PROVE  /\ \A g \in 1..Segments : TimelineInv(g)'
         /\ \A i \in DOMAIN overs' : FlagIsSample(i)'
         /\ \A g \in 1..Segments : SegmentInv(g)'
<1>1. /\ LoopMove(l, v) /\ loop'[l] = v
      /\ \A m \in Loops \ {l} : loop'[m] = loop[m]
  BY MoveLoop
<1>2. ASSUME NEW g \in 1..Segments PROVE TimelineInv(g)'
  <2>1. TimelineInv(g)
    BY DEF IInv
  <2>2. Compactor(g) \in Loops
    BY DEF Compactor, Loops, Kinds, Phases
  <2>3. /\ loop[Compactor(g)].pc = "over" <=> loop'[Compactor(g)].pc = "over"
        /\ loop[Compactor(g)].pc = "over" => loop'[Compactor(g)] = loop[Compactor(g)]
    BY <1>1, <2>2
  <2>4. Flags(overs, g)' = Flags(overs, g)
    BY DEF Flags, Of
  <2> QED BY <2>1, <2>3, <2>4 DEF TimelineInv, Compactor
<1>3. ASSUME NEW i \in DOMAIN overs' PROVE FlagIsSample(i)'
  <2>1. FlagIsSample(i)
    BY DEF IInv
  <2> QED BY <2>1 DEF FlagIsSample, Of
<1>4. ASSUME NEW g \in 1..Segments PROVE SegmentInv(g)'
  <2>1. SegmentInv(g)
    BY DEF IInv
  <2>2. Flags(judged, g)' = Flags(judged, g)
    BY <1>1 DEF Flags, Of, LoopMove, mainVars
  <2> QED BY <1>1, <2>1, <2>2 DEF SegmentInv, LoopMove, mainVars
<1> QED BY <1>2, <1>3, <1>4

\* Where the soak is, and the figures published so far.
LEMMA SameMain ==
  ASSUME IInv, NEW l, NEW v, LoopMove(l, v)
  PROVE  /\ SeqInv' /\ ResultInv'
         /\ (UNCHANGED ticks => MainTypes')
<1> USE DEF LoopMove, mainVars, IInv
<1>1. SeqInv'
  BY DEF SeqInv, Running
<1>2. ResultInv'
  BY DEF ResultInv
<1>3. ASSUME UNCHANGED ticks PROVE MainTypes'
  BY <1>3 DEF MainTypes
<1> QED BY <1>1, <1>2, <1>3

\* The counts, when nothing is reported.
LEMMA SameCuts ==
  ASSUME IInv, NEW l, NEW v, LoopMove(l, v), loop[l].pc # "note", v.pc # "note",
         UNCHANGED <<folds, sweeps, cut>>
  PROVE  CutInv'
<1>1. /\ Held("fold", Told)' = Held("fold", Told) + (0 - 0) /\ Held("fold", Told) \in Nat
      /\ Held("gc", Deleted)' = Held("gc", Deleted) + (0 - 0) /\ Held("gc", Deleted) \in Nat
  BY MoveHeld, Zenon
<1>2. Total(folds, Told)' = Total(folds, Told) /\ Total(sweeps, Deleted)' = Total(sweeps, Deleted)
  BY DEF Total, Told, Deleted
<1>3. CutInv /\ cut' = cut
  BY DEF IInv
<1>4. Held("fold", Told)' = Held("fold", Told) /\ Held("gc", Deleted)' = Held("gc", Deleted)
  BY <1>1
<1> QED BY <1>2, <1>3, <1>4, Zenon DEF CutInv

\* A step of a loop that records nothing.
LEMMA QuietStep ==
  ASSUME IInv, NEW l, NEW v, LoopMove(l, v),
         loop[l].pc \in {"wait", "run", "status"},
         v.pc \in {"off", "wait", "run", "status", "amp"},
         UNCHANGED <<dataVars, cut>>, MainTypes'
  PROVE  IInv'
<1>1. /\ loop[l].pc # "over" /\ v.pc # "over" /\ loop[l].pc # "note" /\ v.pc # "note"
      /\ UNCHANGED <<amps, overs>> /\ UNCHANGED <<folds, sweeps, cut>>
  BY DEF dataVars
<1>2. DataTypes'
  BY DEF IInv, DataTypes, dataVars, LoopMove, mainVars
<1>3. LoopTypes' /\ \A m \in Loops : LoopInv(m)'
  BY MoveLoop
<1>4. /\ \A g \in 1..Segments : TimelineInv(g)'
      /\ \A i \in DOMAIN overs' : FlagIsSample(i)'
      /\ \A g \in 1..Segments : SegmentInv(g)'
  BY <1>1, SameTimelines
<1>5. SeqInv' /\ ResultInv'
  BY <1>1, SameMain
<1>6. CutInv'
  BY <1>1, SameCuts
<1> QED BY <1>2, <1>3, <1>4, <1>5, <1>6, Zenon DEF IInv

-----------------------------------------------------------------------------
(* The steps of a loop.                                                    *)

LEMMA SampleTypes ==
  /\ Off \in States /\ Waiting \in States /\ [pc |-> "run", got |-> NoSample] \in States
  /\ \A x \in Gots, p \in LoopPlaces : [pc |-> p, got |-> x] \in States
  /\ \A b \in BOOLEAN : [swept |-> b] \in Swept
  /\ \A n \in Nat : [deleted |-> n] \in Sweeps
<1>1. NoSample \in Gots
  BY DEF Gots
<1>2. \A x \in Gots, p \in LoopPlaces : [pc |-> p, got |-> x] \in States
  BY DEF States
<1>3. Off \in States /\ Waiting \in States /\ [pc |-> "run", got |-> NoSample] \in States
  BY <1>1, <1>2 DEF Off, Waiting, LoopPlaces
<1>4. \A b \in BOOLEAN : [swept |-> b] \in Swept
  BY DEF Swept
<1>5. \A n \in Nat : [deleted |-> n] \in Sweeps
  BY DEF Sweeps
<1> QED BY <1>2, <1>3, <1>4, <1>5, Zenon

LEMMA StoppedStep == ASSUME IInv, NEW l \in Loops, Stopped(l) PROVE IInv'
<1>1. LoopMove(l, Off) /\ loop[l].pc = "wait" /\ Off.pc = "off"
  BY SampleTypes DEF Stopped, LoopMove, At, Fits, Off, saveVars, mainVars
<1>2. UNCHANGED <<dataVars, cut>> /\ UNCHANGED ticks
  BY DEF Stopped
<1>3. MainTypes'
  BY <1>1, <1>2, SameMain
<1> QED BY <1>1, <1>2, <1>3, QuietStep

LEMMA TickStep == ASSUME IInv, NEW l \in Loops, Tick(l) PROVE IInv'
<1> DEFINE v == [pc |-> "run", got |-> NoSample]
<1>1. loop[l].pc = "wait" /\ v.pc = "run" /\ loop' = [loop EXCEPT ![l] = v]
  BY DEF Tick, At, Becomes
<1>2. Fits(l, v)
  <2>1. Fits(l, loop[l])
    BY DEF IInv, LoopInv
  <2> QED BY <1>1, <2>1 DEF Fits
<1>3. v \in States
  BY SampleTypes
<1>4. UNCHANGED <<dataVars, cut>> /\ UNCHANGED mainVars /\ UNCHANGED exit
  BY DEF Tick, saveVars
<1> HIDE DEF v
<1>5. LoopMove(l, v)
  BY <1>1, <1>2, <1>3, <1>4 DEF LoopMove
<1>6. MainTypes'
  <2>1. sc.maxTicks \in Nat
    BY SoakLoopsAssumption DEF IInv, MainTypes
  <2> QED BY <1>4, <2>1 DEF Tick, IInv, MainTypes, mainVars
<1> QED BY <1>1, <1>4, <1>5, <1>6, QuietStep

LEMMA SweepStep == ASSUME IInv, NEW l \in Loops, Sweep(l) PROVE IInv'
<1>1. PICK ok \in BOOLEAN : Becomes(l, "status", [swept |-> ok])
  BY Zenon DEF Sweep
<1> DEFINE v == [pc |-> "status", got |-> [swept |-> ok]]
<1>2. loop[l].pc = "run" /\ l.kind = "compact" /\ loop' = [loop EXCEPT ![l] = v]
  BY <1>1 DEF Sweep, At, Becomes
<1>3. v.pc = "status" /\ v.got = [swept |-> ok] /\ [swept |-> ok] \in Swept
  BY SampleTypes
<1>4. v \in States
  <2>1. [swept |-> ok] \in Gots /\ "status" \in LoopPlaces
    BY <1>3, Zenon DEF Gots, LoopPlaces
  <2> QED BY <2>1, SampleTypes
<1> HIDE DEF v
<1>5. Fits(l, v)
  <2>1. Fits(l, loop[l])
    BY DEF IInv, LoopInv
  <2> QED BY <1>2, <1>3, <2>1 DEF Fits
<1>6. UNCHANGED <<dataVars, cut>> /\ UNCHANGED mainVars /\ UNCHANGED exit /\ UNCHANGED ticks
  BY DEF Sweep, saveVars
<1>7. LoopMove(l, v)
  BY <1>2, <1>4, <1>5, <1>6 DEF LoopMove
<1>8. MainTypes'
  BY <1>6, <1>7, SameMain
<1> QED BY <1>2, <1>3, <1>6, <1>7, <1>8, QuietStep

LEMMA StatusStep == ASSUME IInv, NEW l \in Loops, Status(l) PROVE IInv'
<1>1. UNCHANGED <<dataVars, cut>> /\ UNCHANGED mainVars /\ UNCHANGED exit /\ UNCHANGED ticks
  BY DEF Status, saveVars
<1>2. loop[l].pc = "status" /\ l.kind = "compact" /\ Fits(l, loop[l])
  BY DEF Status, At, IInv, LoopInv
<1>3. ASSUME NEW v \in States, v.pc \in {"wait", "amp"}, Fits(l, v),
             loop' = [loop EXCEPT ![l] = v]
      PROVE  IInv'
  <2>1. LoopMove(l, v)
    BY <1>1, <1>2, <1>3 DEF LoopMove
  <2>2. MainTypes'
    BY <1>1, <2>1, SameMain
  <2> QED BY <1>1, <1>2, <1>3, <2>1, <2>2, QuietStep
<1>4. CASE Becomes(l, "wait", NoSample)
  <2>1. Waiting \in States /\ Waiting.pc = "wait" /\ Fits(l, Waiting)
    BY <1>2, SampleTypes DEF Waiting, Fits
  <2> QED BY <1>3, <1>4, <2>1 DEF Becomes, Waiting
<1>5. ASSUME NEW s \in Statuses,
             Becomes(l, "amp", [phase |-> l.phase, swept |-> loop[l].got.swept,
                                amp |-> Worst(s), over |-> IsOver(s)])
      PROVE  IInv'
  <2> DEFINE e == [phase |-> l.phase, swept |-> loop[l].got.swept,
                   amp |-> Worst(s), over |-> IsOver(s)]
             v == [pc |-> "amp", got |-> e]
  <2>1. l.phase \in 1..Segments
    BY <1>2, SoakLoopsAssumption DEF Fits, Loops, Phases
  <2>2. loop[l].got.swept \in BOOLEAN
    BY <1>2 DEF Fits, Swept
  <2>3. IsOver(s) \in BOOLEAN
    BY Zenon DEF IsOver
  <2>4. e \in Samples /\ e.phase = l.phase
    BY <2>1, <2>2, <2>3 DEF Samples
  <2> HIDE DEF e
  <2>5. v \in States /\ v.pc = "amp" /\ v.got = e
    <3>1. e \in Gots /\ "amp" \in LoopPlaces
      BY <2>4, Zenon DEF Gots, LoopPlaces
    <3> QED BY <3>1, SampleTypes
  <2>6. loop' = [loop EXCEPT ![l] = v]
    BY <1>5, Zenon DEF Becomes, e, v
  <2> HIDE DEF v
  <2>7. Fits(l, v)
    BY <1>2, <2>1, <2>4, <2>5 DEF Fits
  <2> QED BY <1>3, <2>5, <2>6, <2>7
<1> QED BY <1>4, <1>5, Zenon DEF Status

\* record, first half: the timeline of the loop's own segment is one longer.
LEMMA NoteAmpStep == ASSUME IInv, NEW l \in Loops, NoteAmp(l) PROVE IInv'
<1> DEFINE e == loop[l].got
           v == [pc |-> "over", got |-> e]
           g == l.phase
<1>1. /\ loop[l].pc = "amp" /\ loop' = [loop EXCEPT ![l] = v]
      /\ amps' = [amps EXCEPT ![g] = Append(@, e)]
  BY DEF NoteAmp, At, Becomes
<1>2. UNCHANGED <<overs, folds, sweeps, cut>> /\ UNCHANGED mainVars /\ UNCHANGED exit
      /\ UNCHANGED ticks
  BY DEF NoteAmp, saveVars
<1>3. l.kind = "compact" /\ g \in 1..Segments /\ e \in Samples /\ e.phase = g
  BY <1>1 DEF IInv, LoopInv, Fits
<1>4. l = Compactor(g)
  BY <1>3 DEF Compactor, Loops
<1> HIDE DEF e, g
<1>5. v \in States /\ v.pc = "over" /\ v.got = e
  <2>1. e \in Gots /\ "over" \in LoopPlaces
    BY <1>3, Zenon DEF Gots, LoopPlaces
  <2> QED BY <2>1, SampleTypes
<1> HIDE DEF v
<1>6. Fits(l, v)
  BY <1>3, <1>5, SoakLoopsAssumption DEF Fits, g
<1>7. LoopMove(l, v)
  BY <1>1, <1>2, <1>5, <1>6 DEF LoopMove
<1>8. amps[g] \in Seq(Samples) /\ amps'[g] = Append(amps[g], e)
      /\ \A h \in 1..Segments : h # g => amps'[h] = amps[h]
  BY <1>1, <1>3 DEF IInv, DataTypes
<1>9. /\ amps'[g] \in Seq(Samples) /\ Len(amps[g]) \in Nat /\ Len(amps'[g]) = Len(amps[g]) + 1
      /\ amps'[g][Len(amps[g]) + 1] = e
      /\ \A k \in 1..Len(amps[g]) : amps'[g][k] = amps[g][k]
  BY <1>3, <1>8, AppendProperties
<1>10. MainTypes' /\ SeqInv' /\ ResultInv'
  BY <1>2, <1>7, SameMain
<1>11. DataTypes'
  <2>1. amps' \in [1..Segments -> Seq(Samples)]
    BY <1>1, <1>3, <1>9, <1>8 DEF IInv, DataTypes
  <2> QED BY <1>2, <2>1 DEF IInv, DataTypes, mainVars
<1>12. /\ LoopTypes' /\ \A m \in Loops : LoopInv(m)'
       /\ loop'[l] = v /\ \A m \in Loops \ {l} : loop'[m] = loop[m]
  BY <1>7, MoveLoop
<1>13. CutInv'
  BY <1>1, <1>2, <1>5, <1>7, SameCuts
<1>14. ASSUME NEW h \in 1..Segments PROVE TimelineInv(h)'
  <2>1. TimelineInv(h) /\ Flags(overs, h)' = Flags(overs, h)
    BY <1>2 DEF IInv, Flags, Of
  <2>2. CASE h = g
    <3>1. Len(amps[g]) = Flags(overs, g)
      BY <1>1, <1>4, <2>1, <2>2 DEF TimelineInv
    <3>2. loop'[Compactor(g)].pc = "over" /\ loop'[Compactor(g)].got = amps'[g][Len(amps'[g])]
      BY <1>4, <1>5, <1>9, <1>12
    <3>3. Len(amps'[g]) = Flags(overs, g)' + 1
      BY <1>9, <2>1, <2>2, <3>1
    <3> QED BY <2>2, <3>2, <3>3 DEF TimelineInv, Compactor
  <2>3. CASE h # g
    <3>1. Compactor(h) \in Loops \ {l}
      BY <1>4, <2>3 DEF Compactor, Loops, Kinds, Phases
    <3>2. loop'[Compactor(h)] = loop[Compactor(h)] /\ amps'[h] = amps[h]
      BY <1>8, <1>12, <2>3, <3>1
    <3> QED BY <2>1, <3>2 DEF TimelineInv, Compactor
  <2> QED BY <2>2, <2>3
<1>15. ASSUME NEW i \in DOMAIN overs' PROVE FlagIsSample(i)'
  <2> DEFINE h == overs[i].phase
             k == Cardinality(Of(overs, overs[i].phase, i))
  <2>1. overs' = overs /\ FlagIsSample(i)
    BY <1>2 DEF IInv
  <2>2. h \in 1..Segments
    <3>1. overs[i] \in Samples
      BY <2>1 DEF IInv, DataTypes
    <3> QED BY <3>1 DEF Samples
  <2>3. k \in Nat \ {0}
    <3>1. i \in 1..i /\ i \in Nat
      BY <2>1 DEF IInv, DataTypes
    <3>2. Of(overs, h, i) \in SUBSET (1..i) /\ IsFiniteSet(1..i) /\ i \in Of(overs, h, i)
      BY <3>1, FS_Interval DEF Of
    <3> QED BY <3>2, FS_Subset, FS_CardinalityType, FS_EmptySet
  <2>4. k <= Len(amps[h]) /\ overs[i] = amps[h][k]
    BY <2>1 DEF FlagIsSample
  <2>5. Cardinality(Of(overs', overs'[i].phase, i)) = k
    BY <2>1
  <2> HIDE DEF k
  <2>6. k <= Len(amps'[h]) /\ overs[i] = amps'[h][k]
    <3> HIDE DEF h
    <3>1. CASE h = g
      BY <1>9, <2>3, <2>4, <3>1
    <3>2. CASE h # g
      BY <1>8, <2>2, <2>4, <3>2
    <3> QED BY <3>1, <3>2
  <2> QED BY <2>1, <2>5, <2>6, Zenon DEF FlagIsSample, Of
<1>16. ASSUME NEW h \in 1..Segments PROVE SegmentInv(h)'
  <2>1. SegmentInv(h) /\ Flags(judged, h)' = Flags(judged, h)
    BY <1>2 DEF IInv, Flags, Of, mainVars
  <2>2. CASE h # g
    BY <1>2, <1>8, <2>1, <2>2 DEF SegmentInv, mainVars
  <2>3. CASE h = g
    <3>1. h <= Len(segments) => segments[h] \in Seq(Samples)
      BY DEF IInv, DataTypes
    <3>2. h <= Len(segments) => IsPrefix(segments[h], amps'[h])
      BY <1>3, <1>8, <2>1, <2>3, <3>1, PrefixAppend DEF SegmentInv
    <3> QED BY <1>2, <2>1, <3>2 DEF SegmentInv, mainVars
  <2> QED BY <2>2, <2>3
<1> QED BY <1>10, <1>11, <1>12, <1>13, <1>14, <1>15, <1>16, Zenon DEF IInv

\* record, second half: the flag follows the sample it belongs to.
LEMMA NoteOverStep == ASSUME IInv, NEW l \in Loops, NoteOver(l) PROVE IInv'
<1> DEFINE e == loop[l].got
           g == l.phase
           n == Len(overs)
<1>1. /\ loop[l].pc = "over" /\ loop' = [loop EXCEPT ![l] = Waiting]
      /\ overs' = Append(overs, e)
  BY DEF NoteOver, At, Becomes, Waiting
<1>2. UNCHANGED <<amps, folds, sweeps, cut>> /\ UNCHANGED mainVars /\ UNCHANGED exit
      /\ UNCHANGED ticks
  BY DEF NoteOver, saveVars
<1>3. l.kind = "compact" /\ g \in 1..Segments /\ e \in Samples /\ e.phase = g
  BY <1>1 DEF IInv, LoopInv, Fits
<1>4. l = Compactor(g)
  BY <1>3 DEF Compactor, Loops
<1>5. Waiting \in States /\ Waiting.pc = "wait" /\ Fits(l, Waiting)
  BY <1>3, SampleTypes, SoakLoopsAssumption DEF Waiting, Fits
<1>6. LoopMove(l, Waiting)
  BY <1>1, <1>2, <1>5 DEF LoopMove
<1>7. /\ LoopTypes' /\ \A m \in Loops : LoopInv(m)'
      /\ loop'[l] = Waiting /\ \A m \in Loops \ {l} : loop'[m] = loop[m]
  BY <1>6, MoveLoop
<1>8. overs \in Seq(Samples) /\ n \in Nat
  BY DEF IInv, DataTypes
<1> HIDE DEF e, g
<1>9. /\ overs' \in Seq(Samples) /\ Len(overs') = n + 1 /\ overs'[n + 1] = e
      /\ \A i \in 1..n : overs'[i] = overs[i]
  BY <1>1, <1>3, <1>8, AppendProperties
<1>10. MainTypes' /\ SeqInv' /\ ResultInv'
  BY <1>2, <1>6, SameMain
<1>11. DataTypes'
  BY <1>2, <1>9 DEF IInv, DataTypes, mainVars
<1>12. CutInv'
  BY <1>1, <1>2, <1>5, <1>6, SameCuts
<1>13. TimelineInv(g) /\ Len(amps[g]) = Flags(overs, g) + 1 /\ e = amps[g][Len(amps[g])]
  BY <1>1, <1>3, <1>4 DEF IInv, TimelineInv, e
<1>14. ASSUME NEW h
       PROVE  /\ Flags(overs, h) \in Nat
              /\ h = g => Flags(overs, h)' = Flags(overs, h) + 1
              /\ h # g => Flags(overs, h)' = Flags(overs, h)
              /\ \A i \in 1..n : Of(overs', h, i) = Of(overs, h, i)
              /\ Flags(overs, h)' = Cardinality(Of(overs', h, n + 1))
  <2>1. Flags(overs, h)' = Flags(overs', h) /\ Flags(overs', h) = Cardinality(Of(overs', h, n + 1))
    BY <1>9, Zenon DEF Flags, Of
  <2>2. /\ Flags(overs, h) \in Nat
        /\ e.phase = h => Flags(Append(overs, e), h) = Flags(overs, h) + 1
        /\ e.phase # h => Flags(Append(overs, e), h) = Flags(overs, h)
        /\ \A i \in 1..Len(overs) : Of(Append(overs, e), h, i) = Of(overs, h, i)
    BY <1>3, <1>8, FlagsAppend
  <2> QED BY <1>1, <1>3, <2>1, <2>2
<1>15. ASSUME NEW h \in 1..Segments PROVE TimelineInv(h)'
  <2>1. TimelineInv(h) /\ amps' = amps
    BY <1>2 DEF IInv
  <2>2. CASE h = g
    <3>1. loop'[Compactor(g)].pc # "over" /\ Len(amps'[g]) = Flags(overs, g)'
      BY <1>4, <1>5, <1>7, <1>13, <1>14, <2>1
    <3> QED BY <2>2, <3>1 DEF TimelineInv, Compactor
  <2>3. CASE h # g
    <3>1. Compactor(h) \in Loops \ {l}
      BY <1>4, <2>3 DEF Compactor, Loops, Kinds, Phases
    <3>2. loop'[Compactor(h)] = loop[Compactor(h)] /\ Flags(overs, h)' = Flags(overs, h)
      BY <1>7, <1>14, <2>3, <3>1
    <3> QED BY <2>1, <3>2 DEF TimelineInv, Compactor
  <2> QED BY <2>2, <2>3
<1>16. ASSUME NEW i \in DOMAIN overs' PROVE FlagIsSample(i)'
  <2>1. i \in 1..n \/ i = n + 1
    BY <1>8, <1>9
  <2>2. CASE i \in 1..n
    <3> DEFINE h == overs[i].phase
               k == Cardinality(Of(overs, overs[i].phase, i))
    <3>1. overs'[i] = overs[i] /\ Of(overs', h, i) = Of(overs, h, i)
      BY <1>9, <1>14, <2>2
    <3>2. FlagIsSample(i)
      BY <1>8, <2>2 DEF IInv
    <3>3. Cardinality(Of(overs', overs'[i].phase, i)) = k
      BY <3>1
    <3> QED BY <1>2, <3>1, <3>2, <3>3, Zenon DEF FlagIsSample, Of
  <2>3. CASE i = n + 1
    <3>1. overs'[i] = e /\ e.phase = g
      BY <1>3, <1>9, <2>3
    <3>2. Cardinality(Of(overs', g, i)) = Len(amps[g])
      BY <1>13, <1>14, <2>3
    <3>3. Len(amps[g]) <= Len(amps[g])
      BY <1>13, <1>14
    <3>4. overs'[i] = amps'[g][Len(amps[g])] /\ Len(amps'[g]) = Len(amps[g])
      BY <1>2, <1>13, <3>1
    <3>5. Cardinality(Of(overs', overs'[i].phase, i)) = Len(amps[g]) /\ overs'[i].phase = g
      BY <3>1, <3>2, Zenon
    <3> QED BY <3>3, <3>4, <3>5, Zenon DEF FlagIsSample, Of
  <2> QED BY <2>1, <2>2, <2>3
<1>17. ASSUME NEW h \in 1..Segments PROVE SegmentInv(h)'
  <2>1. SegmentInv(h) /\ Flags(judged, h)' = Flags(judged, h)
    BY <1>2 DEF IInv, Flags, Of, mainVars
  <2> QED BY <1>2, <2>1 DEF SegmentInv, mainVars
<1> QED BY <1>7, <1>10, <1>11, <1>12, <1>15, <1>16, <1>17, Zenon DEF IInv

\* A step of a gc or fold loop, once its effect on the counts is known.
LEMMA CountStep ==
  ASSUME IInv, NEW l, NEW v, LoopMove(l, v), loop[l].pc # "over", v.pc # "over",
         UNCHANGED <<amps, overs, ticks>>, DataTypes', CutInv', ResultInv'
  PROVE  IInv'
<1>1. LoopTypes' /\ \A m \in Loops : LoopInv(m)'
  BY MoveLoop
<1>2. /\ \A g \in 1..Segments : TimelineInv(g)'
      /\ \A i \in DOMAIN overs' : FlagIsSample(i)'
      /\ \A g \in 1..Segments : SegmentInv(g)'
  BY SameTimelines
<1>3. SeqInv' /\ MainTypes'
  BY SameMain
<1> QED BY <1>1, <1>2, <1>3, Zenon DEF IInv

LEMMA CollectStep == ASSUME IInv, NEW l \in Loops, Collect(l) PROVE IInv'
<1>1. /\ loop[l].pc = "run" /\ l.kind = "gc"
      /\ UNCHANGED <<amps, overs, folds, sweeps, ticks>>
      /\ UNCHANGED mainVars /\ UNCHANGED exit
  BY DEF Collect, At, dataVars, saveVars
<1>2. PICK n \in Counts, clear \in BOOLEAN :
        /\ cut' = [cut EXCEPT !.deleted = @ + n,
                              !.untoldDeleted = IF clear THEN @ ELSE @ + n]
        /\ IF clear THEN Becomes(l, "note", [deleted |-> n]) ELSE Becomes(l, "wait", NoSample)
  BY Zenon DEF Collect
<1>3. n \in Nat /\ cut \in Cuts
  BY SoakLoopsAssumption DEF IInv, DataTypes
<1>4. /\ cut'.retired = cut.retired /\ cut'.untoldRetired = cut.untoldRetired
      /\ cut'.deleted = cut.deleted + n
      /\ cut'.untoldDeleted = cut.untoldDeleted + (IF clear THEN 0 ELSE n)
      /\ cut' \in Cuts
      /\ cut.retired \in Nat /\ cut.untoldRetired \in Nat
      /\ cut.deleted \in Nat /\ cut.untoldDeleted \in Nat
  <2> DEFINE d == cut.deleted + n
             u == IF clear THEN cut.untoldDeleted ELSE cut.untoldDeleted + n
  <2>1. /\ cut.retired \in Nat /\ cut.untoldRetired \in Nat
        /\ cut.deleted \in Nat /\ cut.untoldDeleted \in Nat
    BY <1>3 DEF Cuts
  <2>2. d \in Nat /\ u \in Nat /\ u = cut.untoldDeleted + (IF clear THEN 0 ELSE n)
    BY <1>3, <2>1
  <2>3. cut' = [cut EXCEPT !.deleted = d, !.untoldDeleted = u]
    BY <1>2, Zenon
  <2> HIDE DEF d, u
  <2>4. /\ cut'.retired = cut.retired /\ cut'.untoldRetired = cut.untoldRetired
        /\ cut'.deleted = d /\ cut'.untoldDeleted = u /\ cut' \in Cuts
    BY <1>3, <2>2, <2>3 DEF Cuts
  <2> QED BY <2>1, <2>2, <2>4 DEF d
<1> DEFINE v == IF clear THEN [pc |-> "note", got |-> [deleted |-> n]] ELSE Waiting
<1>5. loop' = [loop EXCEPT ![l] = v]
  BY <1>2 DEF Becomes, Waiting
<1>6. /\ v \in States /\ Fits(l, v) /\ v.pc \in {"note", "wait"}
      /\ clear => v.pc = "note" /\ Deleted(v.got) = n
      /\ ~clear => v.pc = "wait"
  <2>1. CASE ~clear
    BY <1>1, <2>1, SampleTypes DEF Waiting, Fits
  <2>2. CASE clear
    <3>1. [deleted |-> n] \in Sweeps /\ [deleted |-> n] \in Gots
      BY <1>3, SampleTypes DEF Gots
    <3>2. v = [pc |-> "note", got |-> [deleted |-> n]]
      BY <2>2
    <3>3. v \in States /\ v.pc = "note" /\ v.got = [deleted |-> n]
      <4>1. "note" \in LoopPlaces
        BY DEF LoopPlaces
      <4>2. [pc |-> "note", got |-> [deleted |-> n]] \in States
        BY <3>1, <4>1, SampleTypes
      <4> QED BY <3>2, <4>2
    <3> HIDE DEF v
    <3> QED BY <1>1, <2>2, <3>1, <3>3 DEF Fits, Deleted
  <2> QED BY <2>1, <2>2
<1> HIDE DEF v
<1>7. LoopMove(l, v)
  BY <1>1, <1>5, <1>6 DEF LoopMove
<1>8. DataTypes'
  BY <1>1, <1>4 DEF IInv, DataTypes, mainVars
<1>9. ResultInv'
  BY <1>1, <1>7, SameMain
<1>10. /\ Held("fold", Told)' = Held("fold", Told)
       /\ Held("gc", Deleted)' = Held("gc", Deleted) + (IF clear THEN n ELSE 0)
       /\ Held("gc", Deleted) \in Nat
  <2>1. /\ Held("fold", Told) \in Nat /\ Held("gc", Deleted) \in Nat
        /\ Held("fold", Told)' =
             Held("fold", Told) + (HeldRetired(loop')[l] - HeldRetired(loop)[l])
        /\ Held("gc", Deleted)' =
             Held("gc", Deleted) + (HeldDeleted(loop')[l] - HeldDeleted(loop)[l])
    BY <1>7, MoveHeld
  <2>2. /\ HeldRetired(loop)[l] = 0 /\ HeldRetired(loop')[l] = 0 /\ HeldDeleted(loop)[l] = 0
        /\ HeldDeleted(loop')[l] = IF clear THEN n ELSE 0
    BY <1>1, <1>6, <1>7, MoveHeld
  <2> QED BY <1>3, <2>1, <2>2
<1>11. CutInv'
  <2>1. /\ Total(folds, Told)' = Total(folds, Told)
        /\ Total(sweeps, Deleted)' = Total(sweeps, Deleted)
    BY <1>1 DEF Total, Told, Deleted
  <2>2. CutInv /\ Total(sweeps, Deleted) \in Nat
    <3>1. [deleted |-> 0] \in Sweeps
      BY SampleTypes
    <3> QED BY <3>1, SweepsAppend DEF IInv, DataTypes
  <2>3. Total(sweeps, Deleted)' + Held("gc", Deleted)' + cut'.untoldDeleted = cut'.deleted
    BY <1>3, <1>4, <1>10, <2>1, <2>2 DEF CutInv
  <2>4. Total(folds, Told)' + Held("fold", Told)' + cut'.untoldRetired = cut'.retired
    BY <1>4, <1>10, <2>1, <2>2, Zenon DEF CutInv
  <2> QED BY <2>3, <2>4, Zenon DEF CutInv
<1> QED BY <1>1, <1>6, <1>7, <1>8, <1>9, <1>11, CountStep

LEMMA NoteSweepStep == ASSUME IInv, NEW l \in Loops, NoteSweep(l) PROVE IInv'
<1> DEFINE e == loop[l].got
<1>1. /\ loop[l].pc = "note" /\ l.kind = "gc" /\ loop' = [loop EXCEPT ![l] = Waiting]
      /\ sweeps' = Append(sweeps, e)
      /\ UNCHANGED <<amps, overs, ticks>> /\ UNCHANGED <<folds, cut>>
      /\ UNCHANGED mainVars /\ UNCHANGED exit
  BY DEF NoteSweep, At, Becomes, Waiting, saveVars
<1>2. e \in Sweeps
  BY <1>1 DEF IInv, LoopInv, Fits
<1>3. Waiting \in States /\ Waiting.pc = "wait" /\ Fits(l, Waiting)
  BY <1>1, SampleTypes DEF Waiting, Fits
<1>4. LoopMove(l, Waiting)
  BY <1>1, <1>3 DEF LoopMove
<1>5. DataTypes'
  BY <1>1, <1>2 DEF IInv, DataTypes, mainVars
<1>6. ResultInv'
  BY <1>1, <1>4, SameMain
<1> DEFINE d == Deleted(e)
<1>7. /\ Total(sweeps, Deleted) \in Nat /\ d \in Nat
      /\ Total(Append(sweeps, e), Deleted) = Total(sweeps, Deleted) + d
  BY <1>2, SweepsAppend DEF IInv, DataTypes
<1>8. /\ Held("fold", Told)' = Held("fold", Told)
      /\ Held("gc", Deleted)' = Held("gc", Deleted) + (0 - d)
      /\ Held("gc", Deleted) \in Nat
  <2>1. /\ Held("fold", Told) \in Nat /\ Held("gc", Deleted) \in Nat
        /\ Held("fold", Told)' =
             Held("fold", Told) + (HeldRetired(loop')[l] - HeldRetired(loop)[l])
        /\ Held("gc", Deleted)' =
             Held("gc", Deleted) + (HeldDeleted(loop')[l] - HeldDeleted(loop)[l])
    BY <1>4, MoveHeld
  <2>2. /\ HeldRetired(loop)[l] = 0 /\ HeldRetired(loop')[l] = 0
        /\ HeldDeleted(loop)[l] = d /\ HeldDeleted(loop')[l] = 0
    BY <1>1, <1>3, <1>4, MoveHeld
  <2> HIDE DEF d
  <2>3. Held("fold", Told)' = Held("fold", Told) + (0 - 0)
    BY <2>1, <2>2, Zenon
  <2>4. Held("gc", Deleted)' = Held("gc", Deleted) + (0 - d)
    BY <2>1, <2>2, Zenon
  <2> QED BY <2>1, <2>3, <2>4
<1> HIDE DEF d, e
<1>9. CutInv'
  <2>1. Total(folds, Told)' = Total(folds, Told)
    BY <1>1 DEF Total, Told
  <2>2. Total(sweeps, Deleted)' = Total(sweeps, Deleted) + d
    <3>1. Total(sweeps, Deleted)' = Total(Append(sweeps, e), Deleted)
      BY <1>1 DEF Total, Deleted
    <3> QED BY <1>7, <3>1
  <2>3. CutInv /\ cut' = cut /\ cut.untoldDeleted \in Nat /\ cut.deleted \in Nat
    BY <1>1 DEF IInv, DataTypes, Cuts
  <2>4. Total(sweeps, Deleted)' + Held("gc", Deleted)' + cut'.untoldDeleted = cut'.deleted
    <3>1. Total(sweeps, Deleted) + Held("gc", Deleted) + cut.untoldDeleted = cut.deleted
      BY <2>3, Zenon DEF CutInv
    <3> QED BY <1>7, <1>8, <2>2, <2>3, <3>1
  <2>5. Total(folds, Told)' + Held("fold", Told)' + cut'.untoldRetired = cut'.retired
    BY <1>8, <2>1, <2>3, Zenon DEF CutInv
  <2> QED BY <2>4, <2>5, Zenon DEF CutInv
<1> QED BY <1>1, <1>3, <1>4, <1>5, <1>6, <1>9, CountStep

LEMMA FoldRunsStep == ASSUME IInv, NEW l \in Loops, FoldRuns(l) PROVE IInv'
<1>1. /\ loop[l].pc = "run" /\ l.kind = "fold"
      /\ UNCHANGED <<amps, overs, folds, sweeps, ticks>>
      /\ UNCHANGED mainVars /\ UNCHANGED exit
  BY DEF FoldRuns, At, dataVars, saveVars
<1>2. PICK r \in Reports, clear \in BOOLEAN :
        /\ cut' = [cut EXCEPT !.retired = @ + Retired(r),
                              !.untoldRetired = IF clear THEN @ ELSE @ + Retired(r)]
        /\ Becomes(l, "note",
             IF clear THEN [error |-> FALSE, retired |-> Retired(r), after |-> BytesAfter(r)]
                      ELSE [error |-> TRUE])
  BY Zenon DEF FoldRuns
<1> DEFINE n == Retired(r)
           b == BytesAfter(r)
           x == IF clear THEN [error |-> FALSE, retired |-> n, after |-> b] ELSE [error |-> TRUE]
           v == [pc |-> "note", got |-> x]
<1>3. n \in Nat /\ b \in Nat /\ cut \in Cuts
  BY ReportTotals DEF IInv, DataTypes
<1>4. /\ cut' = [cut EXCEPT !.retired = @ + n, !.untoldRetired = IF clear THEN @ ELSE @ + n]
      /\ loop' = [loop EXCEPT ![l] = v]
  BY <1>2, Zenon DEF Becomes
<1> HIDE DEF n, b
<1>5. /\ cut'.deleted = cut.deleted /\ cut'.untoldDeleted = cut.untoldDeleted
      /\ cut'.retired = cut.retired + n
      /\ cut'.untoldRetired = cut.untoldRetired + (IF clear THEN 0 ELSE n)
      /\ cut' \in Cuts
      /\ cut.retired \in Nat /\ cut.untoldRetired \in Nat
  <2> DEFINE d == cut.retired + n
             u == IF clear THEN cut.untoldRetired ELSE cut.untoldRetired + n
  <2>1. cut.retired \in Nat /\ cut.untoldRetired \in Nat
    BY <1>3 DEF Cuts
  <2>2. d \in Nat /\ u \in Nat /\ u = cut.untoldRetired + (IF clear THEN 0 ELSE n)
    BY <1>3, <2>1
  <2>3. cut' = [cut EXCEPT !.retired = d, !.untoldRetired = u]
    BY <1>4, Zenon
  <2> HIDE DEF d, u
  <2>4. /\ cut'.deleted = cut.deleted /\ cut'.untoldDeleted = cut.untoldDeleted
        /\ cut'.retired = d /\ cut'.untoldRetired = u /\ cut' \in Cuts
    BY <1>3, <2>2, <2>3 DEF Cuts
  <2> QED BY <2>1, <2>2, <2>4 DEF d
<1>6. x \in Errors \cup Moves /\ Told(x) = IF clear THEN n ELSE 0
  <2>1. CASE clear
    BY <1>3, <2>1 DEF Moves, Told
  <2>2. CASE ~clear
    BY <2>2 DEF Errors, Told
  <2> QED BY <2>1, <2>2
<1> HIDE DEF x
<1>7. v \in States /\ v.pc = "note" /\ v.got = x
  <2>1. x \in Gots /\ "note" \in LoopPlaces
    BY <1>6 DEF Gots, LoopPlaces
  <2> QED BY <2>1, SampleTypes
<1> HIDE DEF v
<1>8. Fits(l, v)
  BY <1>1, <1>6, <1>7 DEF Fits
<1>9. LoopMove(l, v)
  BY <1>1, <1>4, <1>7, <1>8 DEF LoopMove
<1>10. DataTypes'
  BY <1>1, <1>5 DEF IInv, DataTypes, mainVars
<1>11. ResultInv'
  BY <1>1, <1>9, SameMain
<1>12. /\ Held("gc", Deleted)' = Held("gc", Deleted)
       /\ Held("fold", Told)' = Held("fold", Told) + (IF clear THEN n ELSE 0)
       /\ Held("fold", Told) \in Nat
  <2>1. /\ Held("fold", Told) \in Nat /\ Held("gc", Deleted) \in Nat
        /\ Held("fold", Told)' =
             Held("fold", Told) + (HeldRetired(loop')[l] - HeldRetired(loop)[l])
        /\ Held("gc", Deleted)' =
             Held("gc", Deleted) + (HeldDeleted(loop')[l] - HeldDeleted(loop)[l])
    BY <1>9, MoveHeld
  <2>2. /\ HeldDeleted(loop)[l] = 0 /\ HeldDeleted(loop')[l] = 0 /\ HeldRetired(loop)[l] = 0
        /\ HeldRetired(loop')[l] = IF clear THEN n ELSE 0
    BY <1>1, <1>6, <1>7, <1>9, MoveHeld
  <2> QED BY <1>3, <2>1, <2>2
<1>13. CutInv'
  <2>1. /\ Total(folds, Told)' = Total(folds, Told)
        /\ Total(sweeps, Deleted)' = Total(sweeps, Deleted)
    BY <1>1 DEF Total, Told, Deleted
  <2>2. CutInv /\ Total(folds, Told) \in Nat
    <3>1. [error |-> TRUE] \in Errors \cup Moves
      BY DEF Errors
    <3> QED BY <3>1, FoldsAppend DEF IInv, DataTypes
  <2>3. Total(folds, Told)' + Held("fold", Told)' + cut'.untoldRetired = cut'.retired
    BY <1>3, <1>5, <1>12, <2>1, <2>2 DEF CutInv
  <2>4. Total(sweeps, Deleted)' + Held("gc", Deleted)' + cut'.untoldDeleted = cut'.deleted
    BY <1>5, <1>12, <2>1, <2>2, Zenon DEF CutInv
  <2> QED BY <2>3, <2>4, Zenon DEF CutInv
<1> QED BY <1>1, <1>7, <1>9, <1>10, <1>11, <1>13, CountStep

LEMMA NoteFoldStep == ASSUME IInv, NEW l \in Loops, NoteFold(l) PROVE IInv'
<1> DEFINE e == loop[l].got
           d == Told(e)
<1>1. /\ loop[l].pc = "note" /\ l.kind = "fold" /\ loop' = [loop EXCEPT ![l] = Waiting]
      /\ folds' = Append(folds, e)
      /\ UNCHANGED <<amps, overs, ticks>> /\ UNCHANGED <<sweeps, cut>>
      /\ UNCHANGED mainVars /\ UNCHANGED exit
  BY DEF NoteFold, At, Becomes, Waiting, saveVars
<1>2. e \in Errors \cup Moves
  BY <1>1 DEF IInv, LoopInv, Fits
<1>3. Waiting \in States /\ Waiting.pc = "wait" /\ Fits(l, Waiting)
  BY <1>1, SampleTypes DEF Waiting, Fits
<1>4. LoopMove(l, Waiting)
  BY <1>1, <1>3 DEF LoopMove
<1>5. DataTypes'
  BY <1>1, <1>2 DEF IInv, DataTypes, mainVars
<1>6. /\ Total(folds, Told) \in Nat /\ d \in Nat
      /\ Total(Append(folds, e), Told) = Total(folds, Told) + d
      /\ Cardinality(Failed(folds)) \in Nat
      /\ Cardinality(Failed(folds)) <= Cardinality(Failed(Append(folds, e)))
      /\ Cardinality(Failed(Append(folds, e))) \in Nat
  <2>1. folds \in Seq(Errors \cup Moves) /\ Append(folds, e) \in Seq(Errors \cup Moves)
    BY <1>2 DEF IInv, DataTypes
  <2> QED BY <1>2, <2>1, FoldsAppend
<1>7. /\ Held("gc", Deleted)' = Held("gc", Deleted)
      /\ Held("fold", Told)' = Held("fold", Told) + (0 - d)
      /\ Held("fold", Told) \in Nat
  <2>1. /\ Held("fold", Told) \in Nat /\ Held("gc", Deleted) \in Nat
        /\ Held("fold", Told)' =
             Held("fold", Told) + (HeldRetired(loop')[l] - HeldRetired(loop)[l])
        /\ Held("gc", Deleted)' =
             Held("gc", Deleted) + (HeldDeleted(loop')[l] - HeldDeleted(loop)[l])
    BY <1>4, MoveHeld
  <2>2. /\ HeldDeleted(loop)[l] = 0 /\ HeldDeleted(loop')[l] = 0
        /\ HeldRetired(loop)[l] = d /\ HeldRetired(loop')[l] = 0
    BY <1>1, <1>3, <1>4, MoveHeld
  <2> HIDE DEF d
  <2>3. Held("gc", Deleted)' = Held("gc", Deleted) + (0 - 0)
    BY <2>1, <2>2, Zenon
  <2>4. Held("fold", Told)' = Held("fold", Told) + (0 - d)
    BY <2>1, <2>2, Zenon
  <2> QED BY <2>1, <2>3, <2>4
<1> HIDE DEF d, e
<1>8. /\ Total(folds, Told)' = Total(folds, Told) + d
      /\ Cardinality(Failed(folds))' = Cardinality(Failed(Append(folds, e)))
  <2>1. Total(folds, Told)' = Total(Append(folds, e), Told)
    BY <1>1 DEF Total, Told
  <2>2. Failed(folds)' = Failed(Append(folds, e))
    BY <1>1 DEF Failed
  <2> QED BY <1>6, <2>1, <2>2
<1>9. ResultInv'
  BY <1>4, SameMain
<1>10. CutInv'
  <2>1. Total(sweeps, Deleted)' = Total(sweeps, Deleted)
    BY <1>1 DEF Total, Deleted
  <2>2. CutInv /\ cut' = cut /\ cut.untoldRetired \in Nat /\ cut.retired \in Nat
    BY <1>1 DEF IInv, DataTypes, Cuts
  <2>3. Total(folds, Told)' + Held("fold", Told)' + cut'.untoldRetired = cut'.retired
    <3>1. Total(folds, Told) + Held("fold", Told) + cut.untoldRetired = cut.retired
      BY <2>2, Zenon DEF CutInv
    <3> QED BY <1>6, <1>7, <1>8, <2>2, <3>1
  <2>4. Total(sweeps, Deleted)' + Held("gc", Deleted)' + cut'.untoldDeleted = cut'.deleted
    BY <1>7, <2>1, <2>2, Zenon DEF CutInv
  <2> QED BY <2>3, <2>4, Zenon DEF CutInv
<1> QED BY <1>1, <1>3, <1>4, <1>5, <1>9, <1>10, CountStep

-----------------------------------------------------------------------------
(* The steps of cmdSustain.                                                *)

\* With nobody holding anything the counts of what is held are zero.
LEMMA NoneHeld ==
  ASSUME NEW w, \A l \in Loops : w[l].pc # "note"
  PROVE  /\ SumFunctionOnSet(HeldRetired(w), Loops) = 0
         /\ SumFunctionOnSet(HeldDeleted(w), Loops) = 0
<1>1. \A l \in Loops : HeldRetired(w)[l] = 0 /\ HeldDeleted(w)[l] = 0
  BY DEF HeldRetired, HeldDeleted
<1> QED BY <1>1, LoopsFinite, SumZero

\* No list has an entry and no loop has begun a command.
Blank ==
  /\ amps = [p \in 1..Segments |-> <<>>] /\ segments = <<>>
  /\ overs = <<>> /\ judged = <<>> /\ folds = <<>> /\ sweeps = <<>>
  /\ cut = NoCut /\ loop \in [Loops -> {Off, Waiting}]

BlankParts ==
  /\ DataTypes /\ LoopTypes
  /\ \A g \in 1..Segments : TimelineInv(g)
  /\ \A i \in DOMAIN overs : FlagIsSample(i)
  /\ \A g \in 1..Segments : SegmentInv(g)
  /\ Len(segments) = 0 /\ CutInv

LEMMA BlankInv == Blank => BlankParts
<1> SUFFICES ASSUME Blank PROVE BlankParts
  OBVIOUS
<1> USE DEF Blank
<1>1. DataTypes
  BY DEF DataTypes, NoCut, Cuts
<1>2. LoopTypes
  BY SampleTypes DEF LoopTypes
<1>3. \A l \in Loops : loop[l].pc \in {"off", "wait"}
  BY DEF Off, Waiting
<1>4. ASSUME NEW g \in 1..Segments PROVE TimelineInv(g)
  <2>1. Compactor(g) \in Loops
    BY DEF Compactor, Loops, Kinds, Phases
  <2>2. loop[Compactor(g)].pc # "over"
    BY <1>3, <2>1
  <2>3. Len(amps[g]) = 0 /\ Flags(overs, g) = 0
    BY FlagsOfNone
  <2> QED BY <2>2, <2>3 DEF TimelineInv
<1>5. DOMAIN overs = {} /\ Len(segments) = 0
  OBVIOUS
<1>6. \A g \in 1..Segments : SegmentInv(g)
  BY <1>5 DEF SegmentInv
<1>7. CutInv
  <2>1. Held("fold", Told) = 0 /\ Held("gc", Deleted) = 0
    <3>1. \A l \in Loops : loop[l].pc # "note"
      BY <1>3
    <3> QED BY <3>1, NoneHeld, HeldIs, Zenon
  <2>2. Total(folds, Told) = 0 /\ Total(sweeps, Deleted) = 0
    BY TotalOfNone, Zenon
  <2>3. /\ cut.retired = 0 /\ cut.untoldRetired = 0
        /\ cut.deleted = 0 /\ cut.untoldDeleted = 0
    BY DEF NoCut
  <2> QED BY <2>1, <2>2, <2>3 DEF CutInv
<1> QED BY <1>1, <1>2, <1>4, <1>5, <1>6, <1>7, Zenon DEF BlankParts

LEMMA Initially == Init => IInv
<1> SUFFICES ASSUME Init PROVE IInv
  OBVIOUS
<1>1. Blank
  BY DEF Init, Blank
<1>2. MainTypes
  BY SoakLoopsAssumption DEF Init, MainTypes, MainPlaces, Phases, Results
<1>3. ASSUME NEW l \in Loops PROVE LoopInv(l)
  <2>1. loop[l] = IF l \in LoopsOf(0) THEN Waiting ELSE Off
    BY DEF Init
  <2>2. l \in LoopsOf(0) => l.phase = 0 /\ l.kind # "compact"
    BY SoakLoopsAssumption DEF LoopsOf, Init
  <2>3. pc = "load" /\ seq = 0
    BY DEF Init
  <2> QED BY <2>1, <2>2, <2>3 DEF LoopInv, Fits, Begun, Waiting, Off
<1>4. SeqInv /\ ResultInv
  <2>1. pc = "load" /\ seq = 0 /\ Len(segments) = 0 /\ result.retired = None
        /\ result.failures = 0 /\ result.deleted = None
    BY DEF Init
  <2> QED BY <2>1, SoakLoopsAssumption DEF SeqInv, ResultInv
<1>5. BlankParts
  BY <1>1, BlankInv
<1> QED BY <1>2, <1>3, <1>4, <1>5, Zenon DEF IInv, BlankParts

\* A step that changes nothing but where the process is.
LEMMA SameAll ==
  ASSUME IInv, UNCHANGED <<mainVars, dataVars, workVars>>, exit' = exit \/ pc = "save"
  PROVE  IInv'
<1> USE DEF mainVars, dataVars, workVars, IInv
<1>1. MainTypes' /\ DataTypes' /\ LoopTypes'
  BY DEF MainTypes, DataTypes, LoopTypes
<1>2. \A l \in Loops : LoopInv(l)'
  BY DEF LoopInv, Fits, Begun
<1>3. \A g \in 1..Segments : TimelineInv(g)' /\ SegmentInv(g)'
  BY DEF TimelineInv, SegmentInv, Flags, Of
<1>4. \A i \in DOMAIN overs' : FlagIsSample(i)'
  BY DEF FlagIsSample, Of
<1>5. CutInv'
  BY Zenon DEF CutInv, Total, Held, Told, Deleted
<1>6. SeqInv'
  BY DEF SeqInv, Running
<1>7. ResultInv'
  BY DEF ResultInv
<1> QED BY <1>1, <1>2, <1>3, <1>4, <1>5, <1>6, <1>7, Zenon

\* The lists are left behind: the process is gone, or the document is made.
LEMMA ForgetStep ==
  ASSUME IInv, Forget, result' \in Results, UNCHANGED <<sc, seq, stop>>,
         \/ pc' = "save"
         \/ exit' # "running" /\ pc' = pc /\ result' = result
  PROVE  IInv'
<1>1. Blank'
  BY DEF Forget, Blank
<1>2. BlankParts'
  <2>1. Blank' => BlankParts'
    BY BlankInv, PTL
  <2> QED BY <1>1, <2>1
<1>3. MainTypes'
  <2>1. ticks' = 0 /\ sc.maxTicks \in Nat
    BY SoakLoopsAssumption DEF Forget, IInv, MainTypes
  <2> QED BY <2>1 DEF IInv, MainTypes, MainPlaces
<1>4. ASSUME NEW l \in Loops PROVE LoopInv(l)'
  <2>1. loop'[l] = Off
    BY DEF Forget
  <2> QED BY <2>1 DEF LoopInv, Fits, Off
<1>5. SeqInv'
  <2>1. Len(segments') = 0
    BY <1>2 DEF BlankParts
  <2> QED BY <2>1, SoakLoopsAssumption DEF IInv, SeqInv, Running
<1>6. ResultInv'
  BY DEF IInv, ResultInv, Running
<1> QED BY <1>2, <1>3, <1>4, <1>5, <1>6, Zenon DEF IInv, BlankParts

LEMMA EndStep == ASSUME IInv, LoadFails \/ Kill PROVE IInv'
<1>1. /\ Forget /\ UNCHANGED <<sc, pc, seq, stop, result>> /\ exit' # "running"
  BY DEF LoadFails, Kill, ProcessGone, DieEarly, Killed
<1>2. result' \in Results
  BY <1>1 DEF IInv, MainTypes
<1> QED BY <1>1, <1>2, ForgetStep

LEMMA MarshalStep == ASSUME IInv, Marshal PROVE IInv'
<1>1. Forget /\ UNCHANGED <<sc, seq, stop, result>> /\ pc' = "save"
  BY DEF Marshal
<1>2. result' \in Results
  BY <1>1 DEF IInv, MainTypes
<1> QED BY <1>1, <1>2, ForgetStep

LEMMA SaveAtEnd == ASSUME IInv, Save PROVE IInv'
BY SameAll DEF Save

\* A step of cmdSustain that leaves the lists, the loops and the counts.
LEMMA ListsKept ==
  ASSUME IInv, UNCHANGED <<dataVars, loop, cut>>
  PROVE  /\ LoopTypes' /\ CutInv'
         /\ \A g \in 1..Segments : TimelineInv(g)'
         /\ \A i \in DOMAIN overs' : FlagIsSample(i)'
         /\ \A l \in Loops : Fits(l, loop'[l])
<1> USE DEF dataVars, IInv
<1>1. LoopTypes'
  BY DEF LoopTypes
<1>2. CutInv'
  BY Zenon DEF CutInv, Total, Held, Told, Deleted
<1>3. \A g \in 1..Segments : TimelineInv(g)'
  BY DEF TimelineInv, Flags, Of
<1>4. \A i \in DOMAIN overs' : FlagIsSample(i)'
  BY DEF FlagIsSample, Of
<1>5. \A l \in Loops : Fits(l, loop'[l])
  BY DEF LoopInv
<1> QED BY <1>1, <1>2, <1>3, <1>4, <1>5

LEMMA LoadDoneStep == ASSUME IInv, LoadDone PROVE IInv'
<1>1. /\ UNCHANGED <<dataVars, loop, cut>> /\ UNCHANGED <<sc, segments, result, judged, ticks, exit>>
      /\ pc = "load" /\ pc' = "start" /\ seq' = 1 /\ stop' = stop \cup {0}
  BY DEF LoadDone, MainAt, workVars, saveVars
<1>2. seq = 0 /\ Len(segments) = 0
  BY <1>1 DEF IInv, SeqInv
<1>3. MainTypes' /\ DataTypes'
  BY <1>1, SoakLoopsAssumption DEF IInv, MainTypes, DataTypes, MainPlaces, Phases, dataVars
<1>4. ASSUME NEW l \in Loops PROVE LoopInv(l)'
  <2>1. LoopInv(l) /\ loop'[l] = loop[l] /\ Fits(l, loop'[l]) /\ l.phase \in Nat
    BY <1>1, ListsKept DEF IInv, Loops, Phases
  <2>2. loop'[l].pc # "off" => Begun(l)'
    BY <1>1, <1>2, <2>1 DEF LoopInv, Begun
  <2> QED BY <2>1, <2>2, Zenon DEF LoopInv, Fits
<1>5. \A g \in 1..Segments : SegmentInv(g)'
  BY <1>1, <1>2 DEF SegmentInv
<1>6. SeqInv' /\ ResultInv'
  BY <1>1, <1>2, SoakLoopsAssumption DEF IInv, SeqInv, ResultInv, Running
<1> QED BY <1>1, <1>3, <1>4, <1>5, <1>6, ListsKept, Zenon DEF IInv

LEMMA StopTickStep == ASSUME IInv, StopTick PROVE IInv'
<1>1. /\ UNCHANGED <<dataVars, loop, cut>>
      /\ UNCHANGED <<sc, seq, segments, result, judged, ticks, exit>>
      /\ pc = "segment" /\ pc' = "record" /\ stop' = stop \cup {seq}
  BY DEF StopTick, MainAt, workVars, saveVars
<1>2. MainTypes' /\ DataTypes'
  BY <1>1 DEF IInv, MainTypes, DataTypes, MainPlaces, Phases, dataVars
<1>3. ASSUME NEW l \in Loops PROVE LoopInv(l)'
  <2>1. LoopInv(l) /\ loop'[l] = loop[l] /\ Fits(l, loop'[l])
    BY <1>1, ListsKept DEF IInv
  <2>2. loop'[l].pc # "off" => Begun(l)'
    BY <1>1, <2>1 DEF LoopInv, Begun
  <2> QED BY <2>1, <2>2, Zenon DEF LoopInv, Fits
<1>4. \A g \in 1..Segments : SegmentInv(g)'
  BY <1>1 DEF IInv, SegmentInv, dataVars
<1>5. SeqInv' /\ ResultInv'
  BY <1>1 DEF IInv, SeqInv, ResultInv, Running
<1> QED BY <1>1, <1>2, <1>3, <1>4, <1>5, ListsKept, Zenon DEF IInv

\* The loops of the segment start; those of earlier ones are as they were.
LEMMA StartSegmentStep == ASSUME IInv, StartSegment PROVE IInv'
<1>1. /\ UNCHANGED dataVars /\ UNCHANGED <<sc, seq, stop, segments, result, judged, ticks, cut, exit>>
      /\ pc = "start" /\ pc' = "segment" /\ loop' = StartLoops(seq)
  BY DEF StartSegment, MainAt, saveVars
<1>2. seq \in 1..Segments
  BY <1>1 DEF IInv, SeqInv
<1>3. MainTypes' /\ DataTypes'
  BY <1>1 DEF IInv, MainTypes, DataTypes, MainPlaces, dataVars
<1>4. ASSUME NEW l \in Loops
      PROVE  \/ loop'[l] = loop[l] /\ (loop[l].pc # "off" => l.phase # seq)
             \/ loop'[l] = Waiting /\ loop[l].pc = "off" /\ l.phase = seq
  <2>1. LoopInv(l)
    BY DEF IInv
  <2>2. loop'[l] = IF l \in LoopsOf(seq) THEN Waiting ELSE loop[l]
    BY <1>1 DEF StartLoops
  <2>3. l \in LoopsOf(seq) => l.phase = seq
    BY DEF LoopsOf
  <2> QED BY <1>1, <2>1, <2>2, <2>3 DEF LoopInv, Begun
<1>5. LoopTypes'
  <2>1. \A l \in Loops : loop'[l] \in States
    BY <1>4, SampleTypes DEF IInv, LoopTypes
  <2>2. loop' = [l \in Loops |-> loop'[l]]
    BY <1>1 DEF StartLoops
  <2> QED BY <2>1, <2>2 DEF LoopTypes
<1>6. ASSUME NEW l \in Loops PROVE LoopInv(l)'
  <2>1. LoopInv(l) /\ seq' = seq /\ pc' # "start" /\ l.phase \in Nat /\ seq \in Nat
    BY <1>1, <1>2 DEF IInv, Loops, Phases
  <2>2. Begun(l) => Begun(l)'
    BY <2>1 DEF Begun
  <2>3. CASE loop'[l] = loop[l]
    <3>1. Fits(l, loop'[l]) /\ (loop'[l].pc # "off" => Begun(l)')
      BY <2>1, <2>2, <2>3 DEF LoopInv
    <3> QED BY <3>1, Zenon DEF LoopInv, Fits
  <2>4. CASE loop'[l] = Waiting /\ l.phase = seq
    <3>1. Fits(l, Waiting)
      BY <1>2, <2>4 DEF Fits, Waiting
    <3>2. Begun(l)'
      BY <2>1, <2>4 DEF Begun
    <3>3. Fits(l, loop'[l])
      BY <2>4, <3>1
    <3> QED BY <3>2, <3>3, Zenon DEF LoopInv, Fits
  <2> QED BY <1>4, <2>3, <2>4
<1>7. CutInv'
  <2>1. HeldRetired(loop') = HeldRetired(loop) /\ HeldDeleted(loop') = HeldDeleted(loop)
    <3>1. \A l \in Loops : loop'[l] = loop[l] \/ (loop'[l].pc # "note" /\ loop[l].pc # "note")
      BY <1>4 DEF Waiting
    <3> QED BY <3>1 DEF HeldRetired, HeldDeleted
  <2>2. Held("fold", Told)' = Held("fold", Told) /\ Held("gc", Deleted)' = Held("gc", Deleted)
    BY <2>1, HeldIs, Zenon
  <2>3. /\ Total(folds, Told)' = Total(folds, Told)
        /\ Total(sweeps, Deleted)' = Total(sweeps, Deleted)
    BY <1>1 DEF Total, Told, Deleted, dataVars
  <2> QED BY <1>1, <2>2, <2>3, Zenon DEF CutInv, IInv
<1>8. ASSUME NEW g \in 1..Segments PROVE TimelineInv(g)'
  <2>1. TimelineInv(g) /\ Flags(overs, g)' = Flags(overs, g) /\ amps' = amps
    BY <1>1 DEF IInv, Flags, Of, dataVars
  <2>2. Compactor(g) \in Loops
    BY DEF Compactor, Loops, Kinds, Phases
  <2>3. \/ loop'[Compactor(g)] = loop[Compactor(g)]
        \/ loop'[Compactor(g)].pc # "over" /\ loop[Compactor(g)].pc # "over"
    BY <1>4, <2>2 DEF Waiting
  <2> QED BY <2>1, <2>3 DEF TimelineInv, Compactor
<1>9. \A i \in DOMAIN overs' : FlagIsSample(i)'
  BY <1>1 DEF IInv, FlagIsSample, Of, dataVars
<1>10. \A g \in 1..Segments : SegmentInv(g)'
  BY <1>1 DEF IInv, SegmentInv, dataVars
<1>11. SeqInv' /\ ResultInv'
  BY <1>1 DEF IInv, SeqInv, ResultInv, Running
<1> QED BY <1>3, <1>5, <1>6, <1>7, <1>8, <1>9, <1>10, <1>11, Zenon DEF IInv

LEMMA RecordSegmentStep == ASSUME IInv, RecordSegment PROVE IInv'
<1>1. /\ UNCHANGED <<dataVars, loop, cut>> /\ UNCHANGED <<sc, stop, result, judged, ticks, exit>>
      /\ pc = "record" /\ segments' = Append(segments, amps[seq]) /\ exit = "running"
      /\ \/ seq < Segments /\ seq' = seq + 1 /\ pc' = "start"
         \/ seq' = seq /\ pc' = "overs"
  BY DEF RecordSegment, MainAt, workVars, saveVars, Running
<1>2. /\ seq \in 1..Segments /\ Len(segments) = seq - 1 /\ amps[seq] \in Seq(Samples)
      /\ segments \in Seq(Seq(Samples)) /\ Segments \in Nat
  BY <1>1, SoakLoopsAssumption DEF IInv, SeqInv, Running, DataTypes
<1>3. /\ segments' \in Seq(Seq(Samples)) /\ Len(segments') = seq /\ segments'[seq] = amps[seq]
      /\ \A g \in 1..(seq - 1) : segments'[g] = segments[g]
  BY <1>1, <1>2
<1>4. MainTypes' /\ DataTypes'
  BY <1>1, <1>2, <1>3 DEF IInv, MainTypes, DataTypes, MainPlaces, Phases, dataVars
<1>5. ASSUME NEW l \in Loops PROVE LoopInv(l)'
  <2>1. LoopInv(l) /\ loop'[l] = loop[l] /\ Fits(l, loop'[l]) /\ l.phase \in Nat
    BY <1>1, ListsKept DEF IInv, Loops, Phases
  <2>2. loop'[l].pc # "off" => Begun(l)'
    BY <1>1, <1>2, <2>1 DEF LoopInv, Begun
  <2> QED BY <2>1, <2>2, Zenon DEF LoopInv, Fits
<1>6. ASSUME NEW g \in 1..Segments PROVE SegmentInv(g)'
  <2>1. SegmentInv(g) /\ amps' = amps /\ pc' \notin {"folds", "sweeps", "marshal"}
    BY <1>1 DEF IInv, dataVars
  <2>2. CASE g = seq
    <3>1. IsPrefix(amps[seq], amps[seq])
      BY <1>2 DEF IsPrefix
    <3> QED BY <1>3, <2>1, <2>2, <3>1 DEF SegmentInv
  <2>3. CASE g < seq
    BY <1>2, <1>3, <2>1, <2>3 DEF SegmentInv
  <2>4. CASE g > seq
    BY <1>2, <1>3, <2>4 DEF SegmentInv
  <2> QED BY <1>2, <2>2, <2>3, <2>4
<1>7. SeqInv'
  BY <1>1, <1>2, <1>3 DEF SeqInv, Running
<1>8. ResultInv'
  BY <1>1 DEF IInv, ResultInv, Running
<1> QED BY <1>1, <1>4, <1>5, <1>6, <1>7, <1>8, ListsKept, Zenon DEF IInv

\* Every published sample but at most the last has its flag among those that
\* are judged.
LEMMA ReadOversStep == ASSUME IInv, ReadOvers PROVE IInv'
<1> DEFINE x == IF overs = <<>> THEN "absent" ELSE IF BoundHeld(overs) THEN "yes" ELSE "no"
<1>1. /\ UNCHANGED <<dataVars, loop, cut>> /\ UNCHANGED <<sc, seq, stop, segments, ticks, exit>>
      /\ pc = "overs" /\ pc' = "folds" /\ judged' = overs
      /\ result' = [result EXCEPT !.held = x]
  BY DEF ReadOvers, MainAt, workVars, saveVars
<1>2. x \in {"absent", "yes", "no"}
  OBVIOUS
<1> HIDE DEF x
<1>3. /\ result \in Results /\ result' \in Results /\ result'.retired = result.retired
      /\ result'.failures = result.failures /\ result'.deleted = result.deleted
  BY <1>1, <1>2 DEF IInv, MainTypes, Results
<1>4. MainTypes' /\ DataTypes'
  BY <1>1, <1>3 DEF IInv, MainTypes, DataTypes, MainPlaces, dataVars
<1>5. ASSUME NEW l \in Loops PROVE LoopInv(l)'
  <2>1. LoopInv(l) /\ loop'[l] = loop[l] /\ Fits(l, loop'[l])
    BY <1>1, ListsKept DEF IInv
  <2>2. loop'[l].pc # "off" => Begun(l)'
    BY <1>1, <2>1 DEF LoopInv, Begun
  <2> QED BY <2>1, <2>2, Zenon DEF LoopInv, Fits
<1>6. ASSUME NEW g \in 1..Segments, g <= Len(segments)
      PROVE  IsPrefix(segments[g], amps[g]) /\ Len(segments[g]) <= Flags(overs, g) + 1
  <2>1. IsPrefix(segments[g], amps[g]) /\ TimelineInv(g)
    BY <1>6 DEF IInv, SegmentInv
  <2>2. /\ segments[g] \in Seq(Samples) /\ amps[g] \in Seq(Samples) /\ overs \in Seq(Samples)
    BY <1>6 DEF IInv, DataTypes
  <2>3. Flags(overs, g) \in Nat /\ Len(amps[g]) <= Flags(overs, g) + 1
    BY <2>1, <2>2, FlagsNat DEF TimelineInv
  <2>4. Len(segments[g]) <= Len(amps[g])
    BY <2>1 DEF IsPrefix
  <2> QED BY <2>1, <2>2, <2>3, <2>4
<1>7. ASSUME NEW g \in 1..Segments PROVE SegmentInv(g)'
  <2>1. Flags(judged, g)' = Flags(overs, g) /\ segments' = segments /\ amps' = amps
    BY <1>1 DEF Flags, Of, dataVars
  <2> QED BY <1>6, <2>1 DEF SegmentInv
<1>8. SeqInv'
  BY <1>1 DEF IInv, SeqInv, Running
<1>9. ResultInv'
  BY <1>1, <1>3 DEF IInv, ResultInv, Running
<1> QED BY <1>1, <1>4, <1>5, <1>7, <1>8, <1>9, ListsKept, Zenon DEF IInv

LEMMA ReadFoldsStep == ASSUME IInv, ReadFolds PROVE IInv'
<1> DEFINE good == DOMAIN folds \ Failed(folds)
           t == Total(folds, Told)
           n == Cardinality(Failed(folds))
           a == IF good = {} THEN None ELSE folds[Max(good)].after
<1>1. /\ UNCHANGED <<dataVars, loop, cut>>
      /\ UNCHANGED <<sc, seq, stop, segments, judged, ticks, exit>>
      /\ pc = "folds" /\ pc' = "sweeps"
      /\ result' = IF folds = <<>> THEN result
                   ELSE [result EXCEPT !.retired = t, !.failures = n, !.after = a]
  BY Zenon DEF ReadFolds, MainAt, workVars, saveVars
<1>2. /\ folds \in Seq(Errors \cup Moves) /\ t \in Nat /\ n \in Nat
  <2>1. [error |-> TRUE] \in Errors \cup Moves
    BY DEF Errors
  <2> QED BY <2>1, FoldsAppend DEF IInv, DataTypes
<1>3. a \in Nat \cup {None}
  <2>1. CASE good = {}
    BY <2>1
  <2>2. CASE good # {}
    <3>1. Len(folds) \in Nat /\ good \in SUBSET (1..Len(folds))
      BY <1>2
    <3>2. Max(good) \in good
      BY <2>2, <3>1, MaxIn
    <3>3. folds[Max(good)] \in Errors \cup Moves /\ ~folds[Max(good)].error
      BY <1>2, <3>2 DEF Failed
    <3>4. folds[Max(good)] \in Moves
      BY <3>3 DEF Errors
    <3>5. folds[Max(good)].after \in Nat
      BY <3>4 DEF Moves
    <3> QED BY <2>2, <3>5
  <2> QED BY <2>1, <2>2
<1>4. result \in Results /\ result.retired = None /\ result.failures = 0 /\ result.deleted = None
  BY <1>1 DEF IInv, MainTypes, ResultInv
<1> HIDE DEF t, n, a
<1>5. /\ result' \in Results /\ result'.retired \in Int /\ result'.retired <= t
      /\ result'.failures <= n /\ result'.deleted = None
  <2>1. CASE folds = <<>>
    BY <1>1, <1>2, <1>4, <2>1 DEF None
  <2>2. CASE folds # <<>>
    <3>1. result' = [result EXCEPT !.retired = t, !.failures = n, !.after = a]
      BY <1>1, <2>2
    <3>2. /\ result' \in Results /\ result'.retired = t
          /\ result'.failures = n /\ result'.deleted = result.deleted
      BY <1>2, <1>3, <1>4, <3>1 DEF Results
    <3> QED BY <1>2, <1>4, <3>2
  <2> QED BY <2>1, <2>2
<1>6. MainTypes' /\ DataTypes'
  BY <1>1, <1>5 DEF IInv, MainTypes, DataTypes, MainPlaces, dataVars
<1>7. ASSUME NEW l \in Loops PROVE LoopInv(l)'
  <2>1. LoopInv(l) /\ loop'[l] = loop[l] /\ Fits(l, loop'[l])
    BY <1>1, ListsKept DEF IInv
  <2>2. loop'[l].pc # "off" => Begun(l)'
    BY <1>1, <2>1 DEF LoopInv, Begun
  <2> QED BY <2>1, <2>2, Zenon DEF LoopInv, Fits
<1>8. ASSUME NEW g \in 1..Segments PROVE SegmentInv(g)'
  <2>1. /\ SegmentInv(g) /\ Flags(judged, g)' = Flags(judged, g)
        /\ segments' = segments /\ amps' = amps
    BY <1>1 DEF IInv, Flags, Of, dataVars
  <2> QED BY <1>1, <2>1 DEF SegmentInv
<1>9. SeqInv'
  BY <1>1 DEF IInv, SeqInv, Running
<1>10. ResultInv'
  BY <1>1, <1>5 DEF ResultInv
<1> QED BY <1>1, <1>6, <1>7, <1>8, <1>9, <1>10, ListsKept, Zenon DEF IInv

\* What the sweeps deleted is a number, so the document gets one.
LEMMA ReadSweepsStep == ASSUME IInv, ReadSweeps PROVE IInv'
<1>1. /\ UNCHANGED <<dataVars, loop, cut>>
      /\ UNCHANGED <<sc, seq, stop, segments, judged, ticks, exit>>
      /\ pc = "sweeps" /\ pc' = "marshal"
  BY Zenon DEF ReadSweeps, MainAt, workVars, saveVars
<1>2. result' \in Results
  <2>1. result \in Results
    BY DEF IInv, MainTypes
  <2> DEFINE d == Total(sweeps, Deleted)
  <2>2. d \in Nat
    <3>1. [deleted |-> 0] \in Sweeps
      BY SampleTypes
    <3> QED BY <3>1, SweepsAppend DEF IInv, DataTypes
  <2>3. result' = result \/ result' = [result EXCEPT !.deleted = d]
    BY Zenon DEF ReadSweeps
  <2> HIDE DEF d
  <2>4. [result EXCEPT !.deleted = d] \in Results
    BY <2>1, <2>2 DEF Results
  <2> QED BY <2>1, <2>3, <2>4
<1>3. MainTypes' /\ DataTypes'
  BY <1>1, <1>2 DEF IInv, MainTypes, DataTypes, MainPlaces, dataVars
<1>4. ASSUME NEW l \in Loops PROVE LoopInv(l)'
  <2>1. LoopInv(l) /\ loop'[l] = loop[l] /\ Fits(l, loop'[l])
    BY <1>1, ListsKept DEF IInv
  <2>2. loop'[l].pc # "off" => Begun(l)'
    BY <1>1, <2>1 DEF LoopInv, Begun
  <2> QED BY <2>1, <2>2, Zenon DEF LoopInv, Fits
<1>5. ASSUME NEW g \in 1..Segments PROVE SegmentInv(g)'
  <2>1. /\ SegmentInv(g) /\ Flags(judged, g)' = Flags(judged, g)
        /\ segments' = segments /\ amps' = amps
    BY <1>1 DEF IInv, Flags, Of, dataVars
  <2> QED BY <1>1, <2>1 DEF SegmentInv
<1>6. SeqInv' /\ ResultInv'
  BY <1>1 DEF IInv, SeqInv, ResultInv, Running
<1> QED BY <1>1, <1>3, <1>4, <1>5, <1>6, ListsKept, Zenon DEF IInv

-----------------------------------------------------------------------------
(* The theorems.                                                           *)

LEMMA Inductive == IInv /\ [Next]_vars => IInv'
<1> SUFFICES ASSUME IInv, [Next]_vars PROVE IInv'
  OBVIOUS
<1>1. ASSUME NEW l \in Loops, LoopStep(l) PROVE IInv'
  BY <1>1, StoppedStep, TickStep, SweepStep, StatusStep, NoteAmpStep, NoteOverStep,
     CollectStep, NoteSweepStep, FoldRunsStep, NoteFoldStep, Zenon DEF LoopStep
<1>2. ASSUME Main PROVE IInv'
  BY <1>2, LoadDoneStep, EndStep, StartSegmentStep, StopTickStep, RecordSegmentStep,
     ReadOversStep, ReadFoldsStep, ReadSweepsStep, MarshalStep, SaveAtEnd, Zenon DEF Main
<1>3. CASE Kill
  BY <1>3, EndStep
<1>4. CASE UNCHANGED vars
  BY <1>4, SameAll DEF vars, saveVars
<1> QED BY <1>1, <1>2, <1>3, <1>4, Zenon DEF Next

\* The parts together hold throughout.
LEMMA Invariant == Spec => []IInv
BY Initially, Inductive, PTL DEF Spec

LEMMA SaveInvariant == Spec => []SaveInv
<1>1. SaveInv /\ [Next]_vars => SaveInv'
  BY SaveKept, StepSaves
<1> QED BY <1>1, SaveInitially, PTL DEF Spec

\* Samples, loops and figures keep the shapes the code gives them: a figure of
\* the result is absent or a count, a loop holds only what its kind makes.
THEOREM TypeCorrect == Spec => []TypeOK
<1>1. IInv /\ SaveInv => TypeOK
  <2> SUFFICES ASSUME IInv, SaveInv PROVE TypeOK
    OBVIOUS
  <2>1. SaveTypeOK
    BY DEF SaveInv
  <2>2. pc \in MainPlaces /\ seq \in Phases /\ stop \subseteq Phases
    BY DEF IInv, MainTypes
  <2>3. \A l \in Loops : loop[l].pc \in LoopPlaces
    BY DEF IInv, LoopTypes, States
  <2>4. \A i \in DOMAIN sweeps : sweeps[i].deleted \in Nat
    <3>1. \A i \in DOMAIN sweeps : sweeps[i] \in Sweeps
      BY DEF IInv, DataTypes
    <3> QED BY <3>1 DEF Sweeps
  <2>5. \A i \in DOMAIN folds : folds[i].error \in BOOLEAN
    <3>1. \A i \in DOMAIN folds : folds[i] \in Errors \cup Moves
      BY DEF IInv, DataTypes
    <3>2. \A x \in Errors \cup Moves : x.error \in BOOLEAN
      BY DEF Errors, Moves
    <3> QED BY <3>1, <3>2
  <2>6. \A i \in DOMAIN overs : overs[i].over \in BOOLEAN
    <3>1. \A i \in DOMAIN overs : overs[i] \in Samples
      BY DEF IInv, DataTypes
    <3>2. \A x \in Samples : x.over \in BOOLEAN
      BY DEF Samples
    <3> QED BY <3>1, <3>2
  <2>7. ticks \in 0..sc.maxTicks
    BY SoakLoopsAssumption DEF IInv, MainTypes
  <2>8. /\ result.retired \in Nat \cup {None} /\ result.deleted \in Nat \cup {None}
        /\ result.after \in Nat \cup {None} /\ result.failures \in Nat
        /\ result.held \in {"absent", "yes", "no"}
    BY DEF IInv, MainTypes, Results
  <2> QED BY <2>1, <2>2, <2>3, <2>4, <2>5, <2>6, <2>7, <2>8, Zenon
          DEF TypeOK, MainPlaces, LoopPlaces
<1> QED BY <1>1, Invariant, SaveInvariant, PTL

\* Loops outlive their segment and record under two locks, and still the flags
\* of a segment are its timeline in order, each once, a published timeline is
\* a prefix of what its loop measured, and all of it but at most the last
\* sample was among what amp_bound_held was computed from.
THEOREM JudgedCorrect == Spec => []PublishedIsJudged
<1>1. IInv => PublishedIsJudged
  BY Zenon DEF IInv, PublishedIsJudged, FlagIsSample, SegmentInv, Flags
<1> QED BY <1>1, Invariant, PTL

-----------------------------------------------------------------------------
(* The figures, against the lists they were read from.                     *)

\* The lists only grow: a figure read from one is at least what was on it when
\* the last segment ended, and at most what is on it now.
Between(lo, x, hi) == lo <= Claimed(x) /\ Claimed(x) <= hi

ReadInv ==
  /\ kept \in [retired : Nat, deleted : Nat]
  /\ kept.retired <= Total(folds, Told) /\ kept.deleted <= Total(sweeps, Deleted)
  /\ pc \in {"sweeps", "marshal"} /\ Running =>
       /\ Between(kept.retired, result.retired, Total(folds, Told))
       /\ result.failures <= Cardinality(Failed(folds))
  /\ pc = "marshal" /\ Running =>
       Between(kept.deleted, result.deleted, Total(sweeps, Deleted))

\* The counts read off the lists are numbers.
LEMMA CountsNat ==
  ASSUME IInv
  PROVE  /\ Total(folds, Told) \in Nat /\ Total(sweeps, Deleted) \in Nat
         /\ Cardinality(Failed(folds)) \in Nat
         /\ Claimed(result.retired) \in Nat /\ Claimed(result.deleted) \in Nat
         /\ result.failures \in Nat
<1>1. [error |-> TRUE] \in Errors \cup Moves /\ [deleted |-> 0] \in Sweeps
  BY SampleTypes DEF Errors
<1>2. /\ Total(folds, Told) \in Nat /\ Total(sweeps, Deleted) \in Nat
      /\ Cardinality(Failed(folds)) \in Nat
  BY <1>1, FoldsAppend, SweepsAppend DEF IInv, DataTypes
<1>3. /\ Claimed(result.retired) \in Nat /\ Claimed(result.deleted) \in Nat
      /\ result.failures \in Nat
  <2>1. result \in Results
    BY DEF IInv, MainTypes
  <2> QED BY <2>1 DEF Results, Claimed, None
<1> QED BY <1>2, <1>3

\* A loop may add to a list while the figures stand.
LEMMA ReadGrows ==
  ASSUME IInv, ReadInv, UNCHANGED <<kept, result, pc, exit>>,
         NEW f \in Nat, NEW d \in Nat, NEW n \in Nat,
         Total(folds, Told)' = f, Total(folds, Told) <= f,
         Total(sweeps, Deleted)' = d, Total(sweeps, Deleted) <= d,
         Cardinality(Failed(folds))' = n, Cardinality(Failed(folds)) <= n
  PROVE  ReadInv'
<1>1. /\ Total(folds, Told) \in Nat /\ Total(sweeps, Deleted) \in Nat
      /\ Cardinality(Failed(folds)) \in Nat
      /\ Claimed(result.retired) \in Nat /\ Claimed(result.deleted) \in Nat
      /\ result.failures \in Nat /\ kept.retired \in Nat /\ kept.deleted \in Nat
  BY CountsNat DEF ReadInv
<1>2. kept.retired <= f /\ kept.deleted <= d
  BY <1>1 DEF ReadInv
<1>3. pc \in {"sweeps", "marshal"} /\ Running =>
        Between(kept.retired, result.retired, f) /\ result.failures <= n
  BY <1>1 DEF ReadInv, Between
<1>4. pc = "marshal" /\ Running => Between(kept.deleted, result.deleted, d)
  BY <1>1 DEF ReadInv, Between
<1>5. Running' <=> Running
  BY DEF Running
<1>6. kept' \in [retired : Nat, deleted : Nat]
  BY DEF ReadInv
<1> QED BY <1>2, <1>3, <1>4, <1>5, <1>6, Zenon DEF ReadInv, Between, Claimed

\* The lists as they are.
LEMMA SameTotals ==
  ASSUME UNCHANGED <<folds, sweeps>>
  PROVE  /\ Total(folds, Told)' = Total(folds, Told)
         /\ Total(sweeps, Deleted)' = Total(sweeps, Deleted)
         /\ Cardinality(Failed(folds))' = Cardinality(Failed(folds))
BY DEF Total, Told, Deleted, Failed

LEMMA LoopReads == ASSUME IInv, ReadInv, NEW l \in Loops, LoopStep(l) PROVE ReadInv'
<1>1. UNCHANGED <<kept, result, pc, exit>>
  BY Zenon DEF LoopStep, Stopped, Tick, Sweep, Status, NoteAmp, NoteOver, Collect, NoteSweep,
       FoldRuns, NoteFold, mainVars, saveVars
<1>2. /\ Total(folds, Told) \in Nat /\ Total(sweeps, Deleted) \in Nat
      /\ Cardinality(Failed(folds)) \in Nat
  BY CountsNat
<1>3. CASE NoteSweep(l)
  <2>1. PICK e : e = loop[l].got
    OBVIOUS
  <2>2. sweeps' = Append(sweeps, e) /\ folds' = folds /\ loop[l].pc = "note" /\ l.kind = "gc"
    BY <1>3, <2>1 DEF NoteSweep, At
  <2>3. e \in Sweeps
    BY <2>1, <2>2 DEF IInv, LoopInv, Fits
  <2>4. PICK t : t = Append(sweeps, e)
    OBVIOUS
  <2>5. Total(t, Deleted) \in Nat /\ Total(sweeps, Deleted) <= Total(t, Deleted)
    <3> DEFINE d == Deleted(e)
    <3>1. /\ Total(sweeps, Deleted) \in Nat /\ d \in Nat
          /\ Total(Append(sweeps, e), Deleted) = Total(sweeps, Deleted) + d
      BY <2>3, SweepsAppend DEF IInv, DataTypes
    <3> HIDE DEF d
    <3>2. Total(t, Deleted) = Total(sweeps, Deleted) + d
      BY <2>4, <3>1, Zenon
    <3> QED BY <3>1, <3>2
  <2>6. Total(sweeps, Deleted)' = Total(t, Deleted)
    BY <2>2, <2>4 DEF Total, Deleted
  <2>7. /\ Total(folds, Told)' = Total(folds, Told)
        /\ Cardinality(Failed(folds))' = Cardinality(Failed(folds))
    BY <2>2 DEF Total, Told, Failed
  <2> QED BY <1>1, <1>2, <2>5, <2>6, <2>7, ReadGrows
<1>4. CASE NoteFold(l)
  <2>1. PICK e : e = loop[l].got
    OBVIOUS
  <2>2. folds' = Append(folds, e) /\ sweeps' = sweeps /\ loop[l].pc = "note" /\ l.kind = "fold"
    BY <1>4, <2>1 DEF NoteFold, At
  <2>3. e \in Errors \cup Moves
    BY <2>1, <2>2 DEF IInv, LoopInv, Fits
  <2>4. PICK t : t = Append(folds, e)
    OBVIOUS
  <2>5. t \in Seq(Errors \cup Moves) /\ folds \in Seq(Errors \cup Moves)
    BY <2>3, <2>4 DEF IInv, DataTypes
  <2>6. /\ Total(t, Told) \in Nat /\ Total(folds, Told) <= Total(t, Told)
        /\ Cardinality(Failed(t)) \in Nat
        /\ Cardinality(Failed(folds)) <= Cardinality(Failed(t))
    <3> DEFINE d == Told(e)
    <3>1. /\ Total(folds, Told) \in Nat /\ d \in Nat
          /\ Total(Append(folds, e), Told) = Total(folds, Told) + d
          /\ Cardinality(Failed(folds)) <= Cardinality(Failed(Append(folds, e)))
      BY <2>3, <2>5, FoldsAppend
    <3>2. Cardinality(Failed(t)) \in Nat
      BY <2>3, <2>5, FoldsAppend
    <3> HIDE DEF d
    <3>3. /\ Total(t, Told) = Total(folds, Told) + d
          /\ Cardinality(Failed(folds)) <= Cardinality(Failed(t))
      BY <2>4, <3>1, Zenon
    <3> QED BY <3>1, <3>2, <3>3
  <2>7. Total(folds, Told)' = Total(t, Told) /\ Cardinality(Failed(folds))' = Cardinality(Failed(t))
    BY <2>2, <2>4 DEF Total, Told, Failed
  <2>8. Total(sweeps, Deleted)' = Total(sweeps, Deleted)
    BY <2>2 DEF Total, Deleted
  <2> QED BY <1>1, <1>2, <2>6, <2>7, <2>8, ReadGrows
<1>5. CASE ~NoteSweep(l) /\ ~NoteFold(l)
  <2>1. UNCHANGED <<folds, sweeps>>
    BY <1>5, Zenon DEF LoopStep, Stopped, Tick, Sweep, Status, NoteAmp, NoteOver, Collect,
         FoldRuns, dataVars
  <2> QED BY <1>1, <1>2, <2>1, SameTotals, ReadGrows
<1> QED BY <1>3, <1>4, <1>5

\* The lists left behind say nothing, and nothing is claimed of them.
LEMMA ForgetReads ==
  ASSUME Forget, pc' = "save" \/ exit' # "running"
  PROVE  ReadInv'
<1>1. folds' = <<>> /\ sweeps' = <<>> /\ kept' = [retired |-> 0, deleted |-> 0]
  BY DEF Forget, NoneKept
<1>2. Total(folds, Told)' = Total(<<>>, Told) /\ Total(sweeps, Deleted)' = Total(<<>>, Deleted)
  BY <1>1 DEF Total, Told, Deleted
<1>3. Total(folds, Told)' = 0 /\ Total(sweeps, Deleted)' = 0
  BY <1>2, TotalOfNone
<1>4. ~(pc' \in {"sweeps", "marshal"} /\ Running') /\ ~(pc' = "marshal" /\ Running')
  BY DEF Running
<1>5. /\ kept' \in [retired : Nat, deleted : Nat]
      /\ kept'.retired = 0 /\ kept'.deleted = 0
  BY <1>1
<1>6. kept'.retired <= Total(folds, Told)' /\ kept'.deleted <= Total(sweeps, Deleted)'
  BY <1>3, <1>5
<1> QED BY <1>4, <1>5, <1>6, Zenon DEF ReadInv

LEMMA MainReads == ASSUME IInv, ReadInv, Main PROVE ReadInv'
<1>1. /\ Total(folds, Told) \in Nat /\ Total(sweeps, Deleted) \in Nat
      /\ Cardinality(Failed(folds)) \in Nat
      /\ Claimed(result.retired) \in Nat /\ Claimed(result.deleted) \in Nat
      /\ kept.retired \in Nat /\ kept.deleted \in Nat
  BY CountsNat DEF ReadInv
<1>2. CASE LoadDone \/ StartSegment \/ StopTick \/ ReadOvers
  <2>1. UNCHANGED <<folds, sweeps, kept>> /\ pc' \in {"start", "segment", "record", "folds"}
    BY <1>2, Zenon DEF LoadDone, StartSegment, StopTick, ReadOvers, dataVars
  <2>2. pc' \notin {"sweeps", "marshal"}
    BY <2>1
  <2> QED BY <2>1, <2>2, SameTotals, Zenon DEF ReadInv
<1>3. CASE RecordSegment
  <2>1. UNCHANGED <<folds, sweeps>> /\ pc' \in {"start", "overs"}
    BY <1>3, Zenon DEF RecordSegment, dataVars
  <2>2. kept' = kept \/ kept' = [retired |-> Total(folds, Told), deleted |-> Total(sweeps, Deleted)]
    BY <1>3, Zenon DEF RecordSegment
  <2>3. PICK f, d : f = Total(folds, Told) /\ d = Total(sweeps, Deleted)
    OBVIOUS
  <2>4. /\ kept' \in [retired : Nat, deleted : Nat]
        /\ kept'.retired <= f /\ kept'.deleted <= d
    BY <1>1, <2>2, <2>3 DEF ReadInv
  <2>5. pc' \notin {"sweeps", "marshal"} /\ pc' # "marshal"
    BY <2>1
  <2> QED BY <2>1, <2>3, <2>4, <2>5, SameTotals, Zenon DEF ReadInv
<1>4. CASE ReadFolds
  <2>1. UNCHANGED <<folds, sweeps, kept, exit>> /\ pc = "folds" /\ pc' = "sweeps"
    BY <1>4, Zenon DEF ReadFolds, MainAt, dataVars, saveVars
  <2>2. PICK f, n, a :
          /\ f = Total(folds, Told) /\ n = Cardinality(Failed(folds))
          /\ result' = IF folds = <<>> THEN result
                       ELSE [result EXCEPT !.retired = f, !.failures = n, !.after = a]
    BY <1>4, Zenon DEF ReadFolds
  <2>3. result \in Results /\ result.retired = None /\ result.failures = 0
    BY <2>1 DEF IInv, MainTypes, ResultInv
  <2>4. folds = <<>> => f = 0
    BY <2>2, TotalOfNone, Zenon
  <2>5. Claimed(result'.retired) = f /\ result'.failures <= n
    <3>1. CASE folds = <<>>
      BY <1>1, <2>2, <2>3, <2>4, <3>1 DEF Claimed
    <3>2. CASE folds # <<>>
      <4>1. result'.retired = f /\ result'.failures = n
        BY <2>2, <2>3, <3>2 DEF Results
      <4> QED BY <1>1, <2>2, <4>1 DEF Claimed, None
    <3> QED BY <3>1, <3>2
  <2>6. kept.retired <= f /\ f <= f
    BY <1>1, <2>2 DEF ReadInv
  <2>7. Between(kept'.retired, result'.retired, f) /\ pc' # "marshal"
    BY <2>1, <2>5, <2>6, Zenon DEF Between
  <2>8. Total(folds, Told)' = f /\ Cardinality(Failed(folds))' = n
        /\ Total(sweeps, Deleted)' = Total(sweeps, Deleted)
    BY <2>1, <2>2, SameTotals
  <2>9. Between(kept.retired, result.retired, Total(folds, Told))' /\ (result.failures)' <= n
    BY <2>5, <2>7, <2>8, Zenon DEF Between, Claimed
  <2> QED BY <2>1, <2>8, <2>9, Zenon DEF ReadInv
<1>5. CASE ReadSweeps
  <2>1. UNCHANGED <<folds, sweeps, kept, exit>> /\ pc = "sweeps" /\ pc' = "marshal"
    BY <1>5, Zenon DEF ReadSweeps, MainAt, dataVars, saveVars
  <2>2. PICK d :
          /\ d = Total(sweeps, Deleted)
          /\ result' = IF sweeps = <<>> THEN result ELSE [result EXCEPT !.deleted = d]
    BY <1>5, Zenon DEF ReadSweeps
  <2>3. result \in Results /\ result.deleted = None
    BY <2>1 DEF IInv, MainTypes, ResultInv
  <2>4. sweeps = <<>> => d = 0
    BY <2>2, TotalOfNone, Zenon
  <2>5. /\ Claimed(result'.deleted) = d /\ result'.retired = result.retired
        /\ result'.failures = result.failures
    <3>1. CASE sweeps = <<>>
      BY <2>2, <2>3, <2>4, <3>1 DEF Claimed
    <3>2. CASE sweeps # <<>>
      <4>1. /\ result'.deleted = d /\ result'.retired = result.retired
            /\ result'.failures = result.failures
        BY <2>2, <2>3, <3>2 DEF Results
      <4> QED BY <1>1, <2>2, <4>1 DEF Claimed, None
    <3> QED BY <3>1, <3>2
  <2>6. kept.deleted <= d /\ d <= d
    BY <1>1, <2>2 DEF ReadInv
  <2>7. /\ Total(folds, Told)' = Total(folds, Told) /\ Total(sweeps, Deleted)' = d
        /\ Cardinality(Failed(folds))' = Cardinality(Failed(folds))
    BY <2>1, <2>2, SameTotals
  <2>8. Between(kept.deleted, result.deleted, Total(sweeps, Deleted))'
    BY <2>1, <2>5, <2>6, <2>7, Zenon DEF Between, Claimed
  <2>9. Running => /\ Between(kept.retired, result.retired, Total(folds, Told))'
                   /\ (result.failures)' <= Cardinality(Failed(folds))'
    <3>1. Running => /\ Between(kept.retired, result.retired, Total(folds, Told))
                     /\ result.failures <= Cardinality(Failed(folds))
      BY <2>1 DEF ReadInv
    <3> QED BY <2>1, <2>5, <2>7, <3>1, Zenon DEF Between, Claimed
  <2>10. Running' <=> Running
    BY <2>1 DEF Running
  <2>11. /\ kept' \in [retired : Nat, deleted : Nat]
         /\ kept'.retired <= Total(folds, Told)' /\ kept'.deleted <= Total(sweeps, Deleted)'
    BY <2>1, <2>2, <2>7, Zenon DEF ReadInv
  <2> QED BY <2>8, <2>9, <2>10, <2>11, Zenon DEF ReadInv
<1>6. CASE LoadFails \/ Marshal
  <2>1. Forget /\ (pc' = "save" \/ exit' # "running")
    BY <1>6 DEF LoadFails, DieEarly, ProcessGone, Marshal
  <2> QED BY <2>1, ForgetReads
<1>7. CASE Save
  <2>1. UNCHANGED <<folds, sweeps, kept>> /\ pc' = "save"
    BY <1>7, Zenon DEF Save, mainVars, dataVars
  <2>2. pc' \notin {"sweeps", "marshal"}
    BY <2>1
  <2> QED BY <2>1, <2>2, SameTotals, Zenon DEF ReadInv
<1> QED BY <1>2, <1>3, <1>4, <1>5, <1>6, <1>7, Zenon DEF Main

\* The figures keep to the lists.
LEMMA ReadInvariant == Spec => []ReadInv
<1>1. Init => ReadInv
  <2> SUFFICES ASSUME Init PROVE ReadInv
    OBVIOUS
  <2>1. folds = <<>> /\ sweeps = <<>> /\ kept = [retired |-> 0, deleted |-> 0] /\ pc = "load"
    BY DEF Init, NoneKept
  <2>2. Total(folds, Told) = 0 /\ Total(sweeps, Deleted) = 0
    BY <2>1, TotalOfNone, Zenon
  <2>3. /\ kept \in [retired : Nat, deleted : Nat] /\ kept.retired = 0 /\ kept.deleted = 0
        /\ pc \notin {"sweeps", "marshal"}
    BY <2>1
  <2>4. kept.retired <= Total(folds, Told) /\ kept.deleted <= Total(sweeps, Deleted)
    BY <2>2, <2>3
  <2> QED BY <2>3, <2>4, Zenon DEF ReadInv
<1>2. IInv /\ ReadInv /\ [Next]_vars => ReadInv'
  <2> SUFFICES ASSUME IInv, ReadInv, [Next]_vars PROVE ReadInv'
    OBVIOUS
  <2>1. CASE Kill
    <3>1. Forget /\ exit' # "running"
      BY <2>1 DEF Kill, Killed, ProcessGone
    <3> QED BY <3>1, ForgetReads
  <2>2. CASE UNCHANGED vars
    <3>1. UNCHANGED <<kept, result, pc, exit>> /\ UNCHANGED <<folds, sweeps>>
      BY <2>2, Zenon DEF vars, mainVars, dataVars, saveVars
    <3> QED BY <3>1, CountsNat, SameTotals, ReadGrows
  <2> QED BY <2>1, <2>2, LoopReads, MainReads, Zenon DEF Next
<1> QED BY <1>1, <1>2, Invariant, PTL DEF Spec

\* Until the document is made every layer and object that left the store is
\* in exactly one place: in a list, in the hand of a loop, or told by nobody;
\* and the figures that go into it hold all that was on the lists when the last
\* segment ended and no more than was reported, though loops that outlived
\* their segment still record while they are read.
THEOREM CutsCorrect == Spec => []CutIsCounted
<1>1. IInv /\ ReadInv => CutIsCounted
  <2> SUFFICES ASSUME IInv, ReadInv, pc # "save", Running
               PROVE  /\ CutInv
                      /\ pc \in {"sweeps", "marshal"} =>
                           /\ kept.retired <= Claimed(result.retired)
                           /\ Claimed(result.retired) <= cut.retired - cut.untoldRetired
                           /\ result.failures <= Cardinality(Failed(folds))
                      /\ pc = "marshal" =>
                           /\ kept.deleted <= Claimed(result.deleted)
                           /\ Claimed(result.deleted) <= cut.deleted - cut.untoldDeleted
    BY Zenon DEF CutIsCounted, CutInv
  <2>1. CutInv
    BY DEF IInv
  <2>2. /\ cut.retired \in Nat /\ cut.untoldRetired \in Nat
        /\ cut.deleted \in Nat /\ cut.untoldDeleted \in Nat
    BY DEF IInv, DataTypes, Cuts
  <2>3. /\ Total(folds, Told) \in Nat /\ Total(sweeps, Deleted) \in Nat
        /\ Claimed(result.retired) \in Nat /\ Claimed(result.deleted) \in Nat
    BY CountsNat
  <2>4. Held("fold", Told) \in Nat /\ Held("gc", Deleted) \in Nat
    <3>1. \A l \in Loops : Fits(l, loop[l])
      BY DEF IInv, LoopInv
    <3>2. \A l \in Loops : HeldRetired(loop)[l] \in Nat /\ HeldDeleted(loop)[l] \in Nat
      BY <3>1, HeldNat
    <3>3. /\ SumFunctionOnSet(HeldRetired(loop), Loops) \in Nat
          /\ SumFunctionOnSet(HeldDeleted(loop), Loops) \in Nat
      BY <3>2, LoopsFinite, SumNat
    <3> QED BY <3>3, HeldIs, Zenon
  <2>5. /\ Total(folds, Told) + Held("fold", Told) + cut.untoldRetired = cut.retired
        /\ Total(sweeps, Deleted) + Held("gc", Deleted) + cut.untoldDeleted = cut.deleted
    BY <2>1, Zenon DEF CutInv
  <2>6. /\ Total(folds, Told) <= cut.retired - cut.untoldRetired
        /\ Total(sweeps, Deleted) <= cut.deleted - cut.untoldDeleted
    BY <2>2, <2>3, <2>4, <2>5
  <2>7. /\ pc \in {"sweeps", "marshal"} =>
             /\ Between(kept.retired, result.retired, Total(folds, Told))
             /\ result.failures <= Cardinality(Failed(folds))
        /\ pc = "marshal" => Between(kept.deleted, result.deleted, Total(sweeps, Deleted))
    BY Zenon DEF ReadInv
  <2> QED BY <2>1, <2>2, <2>3, <2>6, <2>7 DEF Between
<1> QED BY <1>1, Invariant, ReadInvariant, PTL
=============================================================================

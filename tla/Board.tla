------------------------------- MODULE Board -------------------------------
(***************************************************************************)
(* The dashboard (dashboard/dashboard.go, cmd/zoubench/dashboard.go): the  *)
(* readings of the published claims are kept in a book; an invocation      *)
(* loads it, merges the result files it is handed in their order, writes   *)
(* the page and saves the book.  A file that cannot be read, or a disk     *)
(* that is full, ends it where it stands.                                  *)
(*                                                                         *)
(* A result is a record of what Take looks at, with its document reduced   *)
(* to the paths that have a number; the book on disk is whole or torn; the *)
(* page is its rows.  The layout of the page is left out.                  *)
(***************************************************************************)
EXTENDS Integers, Sequences, FiniteSets, SequencesExt

CONSTANTS
  Targets,      \* the claims: [id, scenario, label, path, divideBy, compare, line]
  Results,      \* the result files there are: [scenario, label, date, simulated, values]
  MaxFiles,     \* bound on the files of one invocation
  MaxInvocations

\* LoadTargets: what is refused before anything else is read.
LoadTargets ==
  /\ \A t, u \in Targets : t.id = u.id => t = u
  /\ \A t \in Targets : t.id # "" /\ t.compare \in {"", "<=", ">="}

ASSUME BoardAssumption ==
  /\ LoadTargets /\ IsFiniteSet(Targets) /\ MaxFiles \in Nat /\ MaxInvocations \in Nat
  /\ \A r \in Results : r.date \in Int
  /\ \A t \in Targets, r \in Results :
       t.divideBy # 0 /\ t.path \in DOMAIN r.values => r.values[t.path] % t.divideBy = 0

VARIABLES
  boardPc,      \* "off", "load", "merge", "page" or "book"
  files,        \* the result files still to be taken
  book,         \* the book in memory
  bookFile, torn, \* the book on disk, and whether its last write broke off
  page,         \* the page on disk: whether it is whole, and its rows
  invocations,
  handed,       \* history: the results merged into the book in memory
  taken,        \* history: those in the book on disk
  shown         \* history: those the page was rendered from

boardVars == <<boardPc, files, book, bookFile, torn, page, invocations, handed, taken, shown>>

EmptyBook == [id \in {} |-> 0]
NoPage == [whole |-> FALSE, rows |-> EmptyBook]

BoardInit ==
  /\ boardPc = "off" /\ files = <<>> /\ book = EmptyBook /\ bookFile = EmptyBook /\ torn = FALSE
  /\ page = NoPage /\ invocations = 0 /\ handed = {} /\ taken = {} /\ shown = {}

-----------------------------------------------------------------------------
(* The package.                                                            *)

\* Value: the number at a path, or nothing.
Value(r, t) == IF t.divideBy = 0 THEN r.values[t.path] ELSE r.values[t.path] \div t.divideBy

\* Take: the targets a result answers.
Answers(r, t) ==
  /\ t.scenario = r.scenario
  /\ t.label = "" \/ t.label = r.label
  /\ t.path \in DOMAIN r.values

Target(id) == CHOOSE t \in Targets : t.id = id

Take(r) ==
  [id \in {t.id : t \in {u \in Targets : Answers(r, u)}} |->
     [value |-> Value(r, Target(id)), date |-> r.date, simulated |-> r.simulated]]

\* Mutant of Merge: the later file wins, whatever its date.
MergeLater(b, fresh) ==
  [id \in DOMAIN b \cup DOMAIN fresh |-> IF id \in DOMAIN fresh THEN fresh[id] ELSE b[id]]

\* Book.Merge: a reading stays when it is newer.
Merge(b, fresh) ==
  [id \in DOMAIN b \cup DOMAIN fresh |->
     IF id \notin DOMAIN fresh \/ (id \in DOMAIN b /\ b[id].date > fresh[id].date)
     THEN b[id] ELSE fresh[id]]

OnTheLine(t, v) == (t.compare = "<=" /\ v <= t.line) \/ (t.compare = ">=" /\ v >= t.line)

\* Judge: a row of the page.
Judge(t, b) ==
  IF t.id \notin DOMAIN b THEN "not measured"
  ELSE IF b[t.id].simulated THEN "simulated"
  ELSE IF t.compare = "" THEN "reported"
  ELSE IF OnTheLine(t, b[t.id].value) THEN "met" ELSE "missed"

\* Render: a row for every target.
Render(b) == [id \in {t.id : t \in Targets} |-> Judge(Target(id), b)]

\* Tally: how many rows say what.
Tally(rows, verdict) == Cardinality({id \in DOMAIN rows : rows[id] = verdict})

-----------------------------------------------------------------------------
(* The command.                                                            *)

BoardStart ==
  /\ boardPc = "off" /\ invocations < MaxInvocations
  /\ boardPc' = "load" /\ invocations' = invocations + 1
  /\ \E n \in 0..MaxFiles : files' \in [1..n -> Results]
  /\ UNCHANGED <<book, bookFile, torn, page, handed, taken, shown>>

\* LoadBook; a torn one cannot be parsed and the command dies on it.
LoadBook ==
  /\ boardPc = "load" /\ ~torn
  /\ boardPc' = "merge" /\ book' = bookFile /\ handed' = taken
  /\ UNCHANGED <<files, bookFile, torn, page, invocations, taken, shown>>

\* A result file; one that answers nothing is passed over.
TakeFile ==
  /\ boardPc = "merge" /\ files # <<>>
  /\ files' = Tail(files)
  /\ book' = (IF DOMAIN Take(Head(files)) = {} THEN book ELSE Merge(book, Take(Head(files))))
  /\ handed' = handed \cup {Head(files)}
  /\ UNCHANGED <<boardPc, bookFile, torn, page, invocations, taken, shown>>

\* The page, then the book: os.WriteFile truncates before it writes.
WritePage ==
  /\ boardPc = "merge" /\ files = <<>> /\ boardPc' = "page"
  /\ page' = [whole |-> TRUE, rows |-> Render(book)] /\ shown' = handed
  /\ UNCHANGED <<files, book, bookFile, torn, invocations, handed, taken>>

SaveBook ==
  /\ boardPc = "page" /\ boardPc' = "off"
  /\ bookFile' = book /\ taken' = handed
  /\ UNCHANGED <<files, book, torn, page, invocations, handed, shown>>

\* die, or the process is killed: with the file it was writing in pieces.
BoardDies ==
  /\ boardPc # "off" /\ boardPc' = "off" /\ files' = <<>>
  /\ \/ UNCHANGED <<torn, page>>
     \/ boardPc = "merge" /\ files = <<>> /\ page' = NoPage /\ UNCHANGED torn
     \/ boardPc = "page" /\ torn' = TRUE /\ UNCHANGED page
  /\ UNCHANGED <<book, bookFile, invocations, handed, taken, shown>>

BoardNext == BoardStart \/ LoadBook \/ TakeFile \/ WritePage \/ SaveBook \/ BoardDies

-----------------------------------------------------------------------------
(* Properties.                                                             *)

\* The results among these that answer a target and that none is newer than.
Newest(t, results) ==
  {r \in results : /\ Answers(r, t)
                   /\ \A u \in results : Answers(u, t) => u.date <= r.date}

\* Over any number of invocations, in whatever order their files were given
\* and wherever one of them died, the book has the reading of a newest result
\* of those it was saved with, of the only one when dates differ, and none
\* where no result answered; and a whole page shows a claim as met only when
\* such a result, measured on a real store, is on the right side of the line,
\* with every claim in exactly one of its counts (Merge, Judge, Tally).
BoardIsNewest ==
  /\ ~torn => \A t \in Targets :
       IF Newest(t, taken) = {} THEN t.id \notin DOMAIN bookFile
       ELSE \E r \in Newest(t, taken) : bookFile[t.id] = Take(r)[t.id]
  /\ page.whole =>
       /\ \A t \in Targets : page.rows[t.id] = "met" =>
            \E r \in Newest(t, shown) : ~r.simulated /\ OnTheLine(t, Value(r, t))
       /\ Cardinality(Targets) =
            Tally(page.rows, "met") + Tally(page.rows, "missed") + Tally(page.rows, "simulated")
              + Tally(page.rows, "reported") + Tally(page.rows, "not measured")
=============================================================================

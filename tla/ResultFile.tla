----------------------------- MODULE ResultFile -----------------------------
(***************************************************************************)
(* Saving the result of a soak (cmd/zoubench/sustain.go: writeResult,      *)
(* writeFileAtomic and the end of cmdSustain).  Hours of soak come down to *)
(* one document on a disk that may be full: every call on it may fail, a   *)
(* write may stop in the middle, and the process may be killed between any *)
(* two calls.                                                              *)
(***************************************************************************)
EXTENDS Naturals

VARIABLES
  save,  \* where writeFileAtomic is, and in which directory
  part,  \* external: what is under name + ".part" in each directory
  file,  \* external: what is under name in each directory
  told,  \* the document has been given to stdout
  exit   \* how the process ended

saveVars == <<save, part, file, told, exit>>

Dirs == {"outdir", "temp"}
Contents == {"absent", "partial", "whole"}

SaveTypeOK ==
  /\ save \in [pc : {"idle", "mkdir", "create", "write", "rename", "print", "leave"},
               dir : Dirs]
  /\ part \in [Dirs -> Contents] /\ file \in [Dirs -> Contents]
  /\ told \in BOOLEAN
  /\ exit \in {"running", "saved", "unsaved", "died", "killed"}

SaveInit ==
  /\ save = [pc |-> "idle", dir |-> "outdir"]
  /\ part = [d \in Dirs |-> "absent"] /\ file = [d \in Dirs |-> "absent"]
  /\ told = FALSE /\ exit = "running"

SaveAt(p) == exit = "running" /\ save.pc = p
Goto(p) == save' = [save EXCEPT !.pc = p]

BeginSave == SaveAt("idle") /\ Goto("mkdir") /\ UNCHANGED <<part, file, told, exit>>

\* The error of writeFileAtomic: the temp dir is the fallback, and after it
\* there is only stdout.
Fallback ==
  save' = IF save.dir = "outdir" THEN [pc |-> "mkdir", dir |-> "temp"]
                                 ELSE [save EXCEPT !.pc = "print"]

MakeDir ==
  /\ SaveAt("mkdir") /\ (Goto("create") \/ Fallback)
  /\ UNCHANGED <<part, file, told, exit>>

\* Mutant of CreatePart: the document is written under its own name.
CreateInPlace ==
  /\ SaveAt("create")
  /\ \/ file' = [file EXCEPT ![save.dir] = "partial"] /\ Goto("write")
     \/ UNCHANGED file /\ Fallback
  /\ UNCHANGED <<part, told, exit>>

\* os.WriteFile opens and truncates the name it is given, or cannot.
CreatePart ==
  /\ SaveAt("create")
  /\ \/ part' = [part EXCEPT ![save.dir] = "partial"] /\ Goto("write")
     \/ UNCHANGED part /\ Fallback
  /\ UNCHANGED <<file, told, exit>>

\* os.Remove of the part, whose own failure nobody looks at.
RemovePart == part' \in {part, [part EXCEPT ![save.dir] = "absent"]}

WritePart ==
  /\ SaveAt("write")
  /\ \/ part' = [part EXCEPT ![save.dir] = "whole"] /\ Goto("rename")
     \/ RemovePart /\ Fallback
  /\ UNCHANGED <<file, told, exit>>

RenamePart ==
  /\ SaveAt("rename")
  /\ \/ /\ file' = [file EXCEPT ![save.dir] = part[save.dir]]
        /\ part' = [part EXCEPT ![save.dir] = "absent"]
        /\ Goto("leave")
     \/ RemovePart /\ Fallback /\ UNCHANGED file
  /\ UNCHANGED <<told, exit>>

\* fmt.Println, whose error nobody looks at: whether the document arrived is
\* not known.
PrintResult ==
  /\ SaveAt("print") /\ Goto("leave") /\ told' = TRUE
  /\ UNCHANGED <<part, file, exit>>

\* os.Exit(1) only after the document was given to stdout.
Leave ==
  /\ SaveAt("leave") /\ exit' = (IF told THEN "unsaved" ELSE "saved")
  /\ UNCHANGED <<save, part, file, told>>

\* die and dieDown: a fatal error before there is a result.
DieEarly ==
  /\ SaveAt("idle") /\ exit' = "died"
  /\ UNCHANGED <<save, part, file, told>>

\* External: the process is killed.
Killed ==
  /\ exit = "running" /\ exit' = "killed"
  /\ UNCHANGED <<save, part, file, told>>

SaveStep == MakeDir \/ CreatePart \/ WritePart \/ RenamePart \/ PrintResult \/ Leave

Promise == INSTANCE ResultPublished WITH Dirs <- Dirs, file <- file, told <- told, exit <- exit

\* What a collector sees is what was promised it: nothing half written under
\* the result's name whatever fails and whenever the process is killed, one
\* copy at most, exit code 0 only with a file and 1 only after the document
\* was given to stdout (writeResult, writeFileAtomic).
SavesAtomically == Promise!Spec
=============================================================================

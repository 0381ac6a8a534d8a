-------------------------- MODULE ResultPublished --------------------------
(***************************************************************************)
(* What saving a result promises (the comments above writeResult in        *)
(* cmd/zoubench/sustain.go): under the name a collector looks for there is *)
(* a whole document or none, it appears in one step and in one place, and  *)
(* a run that could not put it anywhere has given it to stdout before it   *)
(* says so with its exit code.                                             *)
(***************************************************************************)
CONSTANTS Dirs   \* the directories a collector looks in

VARIABLES
  file,  \* what is under the result's name in each directory
  told,  \* the document has been given to stdout
  exit   \* how the process ended

vars == <<file, told, exit>>

Published == \E d \in Dirs : file[d] = "whole"

Init == file = [d \in Dirs |-> "absent"] /\ told = FALSE /\ exit = "running"

Publish(d) ==
  /\ exit = "running" /\ ~Published /\ ~told
  /\ file' = [file EXCEPT ![d] = "whole"]
  /\ UNCHANGED <<told, exit>>

Tell ==
  /\ exit = "running" /\ ~Published
  /\ told' = TRUE
  /\ UNCHANGED <<file, exit>>

\* Exit code 0 stands for a file, 1 for stdout; a run that never got as far
\* as a result, or was killed, leaves as it is.
Leave ==
  /\ exit = "running"
  /\ \/ Published /\ exit' = "saved"
     \/ told /\ exit' = "unsaved"
     \/ ~told /\ exit' = "died"
     \/ exit' = "killed"
  /\ UNCHANGED <<file, told>>

Next == (\E d \in Dirs : Publish(d)) \/ Tell \/ Leave

Spec == Init /\ [][Next]_vars
=============================================================================
